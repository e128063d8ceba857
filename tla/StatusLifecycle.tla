--------------------------- MODULE StatusLifecycle ---------------------------
(***************************************************************************)
(* The statuses of one unit (systems/status.py) and the sweep that counts  *)
(* their durations down (CombatScheduler._apply_status_lifecycle_tick).    *)
(* The sweep walks a copy of the details taken at its start; between two   *)
(* of its steps status callbacks run, and they may apply, reduce, remove   *)
(* or dispel any status of the unit, or defeat it.                         *)
(***************************************************************************)
EXTENDS Integers, Sequences, SequencesExt, FiniteSets

CONSTANTS
  Effects,       \* AddModifier effects that some ability or callback applies
  Modifiers,     \* modifier definitions
  Modifier,      \* effect -> modifier
  Source,        \* effect -> source id
  Duration,      \* effect -> admitted duration, 0 for a permanent status
  MaxLayer,      \* effect -> max_layer, 0 when the effect carries none
  LayerDelta,    \* effect -> layer_add_when_stack, 0 when it carries none
  Refreshing,    \* effects with is_refresh, or of a modifier stacking "Refresh"
  Replacing,     \* modifiers whose stacking is "Replace"
  LifeStep,      \* modifier -> life_step_moment
  OnPhase1,      \* modifiers with OnPhase1 callbacks
  OnPhase2,      \* modifiers with OnPhase2 callbacks
  Dispellable,   \* modifiers whose can_dispel is true
  MaxOps         \* bound: status effects settled in one behaviour

Moments == {"ModifierPhase1End", "ActionPhaseEnd", "TurnEnd"}

ASSUME EffectsAssumption ==
  /\ Modifier \in [Effects -> Modifiers]
  /\ Duration \in [Effects -> Nat]
  /\ MaxLayer \in [Effects -> Nat] /\ LayerDelta \in [Effects -> Int]
  \* others are partial or blocked, and never applied
  /\ \A e \in Effects : MaxLayer[e] > 1 => LayerDelta[e] # 0
  /\ Refreshing \subseteq Effects /\ \A e \in Refreshing : Duration[e] > 0

ASSUME ModifiersAssumption ==
  /\ LifeStep \in [Modifiers -> Moments]
  /\ Replacing \subseteq Modifiers /\ Dispellable \subseteq Modifiers
  /\ OnPhase1 \subseteq Modifiers /\ OnPhase2 \subseteq Modifiers
  /\ MaxOps \in Nat

VARIABLES
  alive,     \* the unit is active
  statuses,  \* status ids of the unit
  details,   \* flags.status_details, in order of addition
  stage,     \* where the sweep stands
  moment,    \* life step moment of the sweep
  start,     \* the details the sweep walks
  next,      \* index of the sweep in start
  head,      \* the detail at that index, as the sweep sees it
  touched,   \* history: modifiers that effects wrote or removed since then
  ops        \* status effects settled so far

vars == <<alive, statuses, details, stage, moment, start, next, head, touched, ops>>

Details == [id : Effects, stacks : Nat, remaining : Nat]

Stages == {"idle", "entry", "phase1", "middle", "phase2", "ready", "callbacks"}

TypeOK ==
  /\ alive \in BOOLEAN
  /\ statuses \subseteq Modifiers
  /\ details \in Seq(Details) /\ start \in Seq(Details)
  /\ stage \in Stages /\ moment \in Moments
  /\ next \in 1..(Len(start) + 1)
  /\ head \in Seq(Details) /\ Len(head) <= 1
  /\ touched \subseteq Modifiers
  /\ ops \in 0..MaxOps

Init ==
  /\ alive = TRUE /\ statuses = {} /\ details = <<>>
  /\ stage = "idle" /\ moment = "TurnEnd"
  /\ start = <<>> /\ next = 1 /\ head = <<>>
  /\ touched = {} /\ ops = 0

-----------------------------------------------------------------------------
(* Application                                                             *)

ModifierOf(d) == Modifier[d.id]

Present(m) == \E i \in DOMAIN details : ModifierOf(details[i]) = m

(* _matching_status_detail, or for Replace _replacement_status_detail: the *)
(* details that a new application of e takes over.                         *)
Slots(e) ==
  {i \in DOMAIN details :
     /\ ModifierOf(details[i]) = Modifier[e]
     /\ Source[details[i].id] = Source[e] \/ Modifier[e] \in Replacing}

MaxStacks(e) == IF MaxLayer[e] = 0 THEN 1 ELSE MaxLayer[e]

(* Faulty variant: the lower bound is forgotten.                           *)
CappedOnly(e, n) == IF n > MaxStacks(e) THEN MaxStacks(e) ELSE n

Clamp(e, n) == IF n > MaxStacks(e) THEN MaxStacks(e) ELSE IF n < 0 THEN 0 ELSE n

Stacks(e) == MaxStacks(e) > 1 /\ LayerDelta[e] > 0

(* Faulty variant: the instance of another source is not looked for.       *)
NewWithoutCoexistence(e) == IF LayerDelta[e] < 0 THEN "blocked" ELSE "add"

(* _application_semantics without a detail to take over.                   *)
NewOperation(e) ==
  IF Present(Modifier[e]) \/ LayerDelta[e] < 0 THEN "blocked" ELSE "add"

(* _application_semantics over a detail.  An application under no policy   *)
(* is idempotent or blocked, by values the model leaves out: it may write  *)
(* the instance anew, its stacks and count as they were.                   *)
Reoperation(e) ==
  CASE Stacks(e) -> IF e \in Refreshing THEN "stack_refresh" ELSE "stack"
    [] LayerDelta[e] < 0 -> "stack_reduce"
    [] ~Stacks(e) /\ LayerDelta[e] >= 0 ->
         IF e \in Refreshing THEN "refresh"
         ELSE IF Modifier[e] \in Replacing THEN "replace" ELSE "idempotent"

(* _status_stack_plan and _status_refresh_plan.                            *)
Reapplied(e, old) ==
  LET op == Reoperation(e) IN
  [id        |-> e,
   stacks    |-> IF op \in {"stack", "stack_refresh", "stack_reduce"}
                 THEN Clamp(e, old.stacks + LayerDelta[e]) ELSE old.stacks,
   remaining |-> IF op \in {"refresh", "stack_refresh", "replace"} \/ old.remaining = 0
                 THEN Duration[e] ELSE old.remaining]

(* The sweep is idle while actions settle, and waits while its callbacks   *)
(* are dispatched: in both cases effects reach the statuses.               *)
Settling == stage \in {"idle", "phase1", "phase2", "callbacks"} /\ ops < MaxOps

Remember(m) == touched' = touched \cup {m}

Write(i, d) == details' = [details EXCEPT ![i] = d]

(* apply_add_modifier without a detail to take over.                       *)
AddModifier(e) ==
  /\ Settling /\ Slots(e) = {} /\ NewOperation(e) = "add"
  /\ LET d == [id |-> e, stacks |-> 1, remaining |-> Duration[e]] IN
       /\ details' = Append(details, d)
       /\ Remember(Modifier[e])
  /\ statuses' = statuses \cup {Modifier[e]}
  /\ ops' = ops + 1
  /\ UNCHANGED <<alive, stage, moment, start, next, head>>

(* Faulty variant: the status id stays in the list.                        *)
TakeOutDetail(i) == details' = RemoveAt(details, i) /\ UNCHANGED statuses

(* _remove_status_detail and the status id list, for the detail at i.      *)
TakeOut(i) ==
  /\ details' = RemoveAt(details, i)
  /\ statuses' = IF \E j \in DOMAIN details \ {i} : ModifierOf(details[j]) = ModifierOf(details[i])
                 THEN statuses ELSE statuses \ {ModifierOf(details[i])}

(* apply_add_modifier over an existing detail: refreshed, stacked, reduced,*)
(* replaced, or removed when its last stack goes.                          *)
Reapply(e) ==
  /\ Settling
  /\ \E i \in Slots(e) :
       LET d == Reapplied(e, details[i]) IN
       IF d.stacks = 0
       THEN TakeOut(i) /\ Remember(Modifier[e])
       ELSE Write(i, d) /\ Remember(Modifier[e]) /\ UNCHANGED statuses
  /\ ops' = ops + 1
  /\ UNCHANGED <<alive, stage, moment, start, next, head>>

(* apply_remove_modifier of modifier m.                                    *)
RemoveModifier(m) ==
  /\ Settling
  /\ \E i \in DOMAIN details : ModifierOf(details[i]) = m /\ TakeOut(i)
  /\ Remember(m)
  /\ ops' = ops + 1
  /\ UNCHANGED <<alive, stage, moment, start, next, head>>

(* apply_dispel_status: one detail that can be dispelled (a count above    *)
(* one is not admitted), the newest or one drawn at random.                *)
Dispel(order) ==
  /\ Settling
  /\ LET candidates == {i \in DOMAIN details : ModifierOf(details[i]) \in Dispellable}
     IN \E i \in candidates :
          /\ order = "LastAdded" => \A j \in candidates : j <= i
          /\ TakeOut(i) /\ Remember(ModifierOf(details[i]))
  /\ ops' = ops + 1
  /\ UNCHANGED <<alive, stage, moment, start, next, head>>

(* The unit is defeated by a settlement; its statuses stay where they are. *)
Defeat ==
  /\ alive /\ Settling
  /\ alive' = FALSE /\ ops' = ops + 1
  /\ UNCHANGED <<statuses, details, stage, moment, start, next, head, touched>>

-----------------------------------------------------------------------------
(* The sweep                                                               *)

(* The loop variable at index n: a one element sequence, empty at the end. *)
HeadAt(s, n) == IF n \in DOMAIN s THEN <<s[n]>> ELSE <<>>
StageAt(s, n) == IF n \in DOMAIN s THEN "entry" ELSE "idle"

MoveOn ==
  /\ next' = next + 1
  /\ head' = HeadAt(start, next + 1) /\ stage' = StageAt(start, next + 1)

BeginSweep(m) ==
  /\ stage = "idle" /\ moment' = m
  /\ start' = details /\ next' = 1
  /\ head' = HeadAt(details, 1) /\ stage' = StageAt(details, 1)
  /\ touched' = {}
  /\ UNCHANGED <<alive, statuses, details, ops>>

HasPhase1 == moment = "ModifierPhase1End" /\ ModifierOf(head[1]) \in OnPhase1
HasPhase2 == moment = "ModifierPhase1End" /\ ModifierOf(head[1]) \in OnPhase2

(* OnPhase1, then OnPhase2 is dispatched for the detail at hand.           *)
DispatchPhase ==
  /\ \/ stage = "entry" /\ HasPhase1 /\ stage' = "phase1"
     \/ stage = "entry" /\ ~HasPhase1 /\ HasPhase2 /\ stage' = "phase2"
     \/ stage = "middle" /\ HasPhase2 /\ stage' = "phase2"
  /\ UNCHANGED <<alive, statuses, details, moment, start, next, head, touched, ops>>

(* _status_detail_by_instance: only after such a dispatch is the detail    *)
(* read again, and skipped when it is gone.                                *)
ReadAgain ==
  /\ stage \in {"phase1", "phase2"}
  /\ \/ /\ \E i \in DOMAIN details : details[i].id = head[1].id /\ head' = <<details[i]>>
        /\ stage' = IF stage = "phase1" THEN "middle" ELSE "ready"
        /\ UNCHANGED next
     \/ /\ \A i \in DOMAIN details : details[i].id # head[1].id
        /\ MoveOn
  /\ UNCHANGED <<alive, statuses, details, moment, start, touched, ops>>

(* Faulty variant: the moment of the status is not looked at.              *)
CountsDownAlways(d) == alive /\ d.remaining > 0

(* plan_lifecycle_tick admits the detail.                                  *)
CountsDown(d) == alive /\ LifeStep[ModifierOf(d)] = moment /\ d.remaining > 0

(* plan_lifecycle_tick: the last count removes the status.                 *)
Expires(d) == d.remaining <= 1

AtTick ==
  \/ stage = "ready"
  \/ stage = "middle" /\ ~HasPhase2
  \/ stage = "entry" /\ ~HasPhase1 /\ ~HasPhase2

(* No count for this status at this moment.                                *)
SkipStatus ==
  /\ AtTick /\ ~CountsDown(head[1]) /\ MoveOn
  /\ UNCHANGED <<alive, statuses, details, moment, start, touched, ops>>

(* _apply_tick_lifecycle_plan writes the detail the sweep holds, one count *)
(* lower, over the instance of the same id; it emits no callback.          *)
TickStatus ==
  /\ AtTick /\ CountsDown(head[1]) /\ ~Expires(head[1])
  /\ details' = [i \in DOMAIN details |->
                   IF details[i].id = head[1].id
                   THEN [head[1] EXCEPT !.remaining = @ - 1] ELSE details[i]]
  /\ MoveOn
  /\ UNCHANGED <<alive, statuses, moment, start, touched, ops>>

(* _apply_expire_lifecycle_plan removes the instance of that id, and the   *)
(* departure callbacks are dispatched whether it was still there or not.   *)
ExpireStatus ==
  /\ AtTick /\ CountsDown(head[1]) /\ Expires(head[1])
  /\ \/ \E i \in DOMAIN details : details[i].id = head[1].id /\ TakeOut(i)
     \/ /\ \A i \in DOMAIN details : details[i].id # head[1].id
        /\ statuses' = {m \in statuses : m # ModifierOf(head[1]) \/ Present(m)}
        /\ UNCHANGED details
  /\ stage' = "callbacks"
  /\ UNCHANGED <<alive, moment, start, next, head, touched, ops>>

NextStatus ==
  /\ stage = "callbacks" /\ MoveOn
  /\ UNCHANGED <<alive, statuses, details, moment, start, touched, ops>>

-----------------------------------------------------------------------------
Settlement ==
  \/ \E e \in Effects : AddModifier(e) \/ Reapply(e)
  \/ \E m \in Modifiers : RemoveModifier(m)
  \/ \E order \in {"LastAdded", "Random"} : Dispel(order)
  \/ Defeat

Sweep ==
  \/ DispatchPhase \/ ReadAgain \/ SkipStatus \/ TickStatus \/ ExpireStatus \/ NextStatus

Next == Settlement \/ Sweep \/ \E m \in Moments : BeginSweep(m)

Spec == Init /\ [][Next]_vars

-----------------------------------------------------------------------------
(* The status id list and the details name the same modifiers, through     *)
(* takeovers, stale counts and removals of instances that are gone.        *)
ListMatchesDetails == statuses = {ModifierOf(details[i]) : i \in DOMAIN details}

(* A modifier has one instance at most, whatever sources applied it, so a  *)
(* count, a refresh or a removal by id never reaches a second one.         *)
OneInstancePerModifier ==
  \A i, j \in DOMAIN details : ModifierOf(details[i]) = ModifierOf(details[j]) => i = j

(* No instance without a stack stays, and no count below one unless the    *)
(* status is permanent: a count that reached its end has left.             *)
CountsStayPositive ==
  \A i \in DOMAIN details :
    /\ details[i].stacks > 0
    /\ details[i].remaining = 0 => Duration[details[i].id] = 0

(* What the sweep owes to a detail it has passed.                          *)
Settled(d) ==
  IF LifeStep[ModifierOf(d)] # moment \/ d.remaining = 0 THEN {d}
  ELSE IF d.remaining = 1 THEN {} ELSE {[d EXCEPT !.remaining = @ - 1]}

Instances(m) == {d \in {details[i] : i \in DOMAIN details} : ModifierOf(d) = m}

(* Every status that no effect has touched since the sweep began is counted*)
(* down exactly once by it, no matter which other statuses came, went or   *)
(* were read again in the meantime, and not at all before its turn.        *)
SweepCountsOnce ==
  \A i \in DOMAIN start :
    ModifierOf(start[i]) \notin touched =>
      LET passed == i < next \/ (i = next /\ stage = "callbacks")
          now == Instances(ModifierOf(start[i]))
      IN \/ ~passed /\ now = {start[i]}
         \/ passed /\ now = Settled(start[i])
         \/ passed /\ ~alive /\ now = {start[i]}
=============================================================================
