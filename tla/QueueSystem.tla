---------------------------- MODULE QueueSystem ----------------------------
(***************************************************************************)
(* The pending queues of a battle: the order in which entries are drained, *)
(* how an entry is identified when it is taken out, and how an entry that  *)
(* cannot run ends.                                                        *)
(*                                                                         *)
(* Entries are planned over their positions in the queue but taken out by  *)
(* entry_id, and the entry_id a listener gives is made of its intent and   *)
(* of the LENGTH the queue has at that moment.  Every entry carries here a *)
(* serial number the code does not have; the history variables ran,        *)
(* dropped and twins are kept by it.                                       *)
(***************************************************************************)
EXTENDS Integers, Sequences, FiniteSets

CONSTANTS
  Intents,     \* queue intents of the rule book
  Queues,      \* queue names
  Units,       \* actors and targets
  Windows,     \* values of global_flags["current_window"]
  Home,        \* intent -> queue, its queue_kind
  Family,      \* intent -> window_family
  Priority,    \* intent -> priority_value
  Kind,        \* intent -> resolved_kind of its resolution
  WaitFor,     \* intent -> cancel_policy.wait_for_windows, {} if not admitted
  RetargetTo,  \* intent -> cancel_policy.retarget_target_ids, {} if not admitted
  Sourced,     \* intents with cancel_policy.requires_source_status_active
  ValidIn,     \* intent -> expiration_policy.valid_windows, {} if no expiry
  IntentRank,  \* intent -> its place in the string order of intent ids
  Inserts,     \* the <<intent, actor>> a listener may queue
  MaxIssued,   \* bound: entries one behaviour queues
  MaxClock     \* bound: event_index

Manual == "manual_ultimate"
Kinds == {"standalone_ability_graph", "action_definition", "extra_turn_action_choice"}

(* QUEUE_WINDOW_FAMILY_ORDER; "unknown" is the order of a plan without a window. *)
FamilyOrder ==
  [follow_up |-> 0, counter |-> 0, ultimate |-> 10, extra_turn |-> 10, interrupt |-> 20,
   immediate |-> 50, insert_action |-> 60, insert_ability |-> 70, unknown |-> 999]

ASSUME QueueAssumption ==
  /\ Manual \in Queues /\ Home \in [Intents -> Queues]
  /\ Kind \in [Intents -> Kinds] /\ Family \in [Intents -> DOMAIN FamilyOrder]
  /\ Priority \in [Intents -> Int] /\ IntentRank \in [Intents -> Nat]
  /\ WaitFor \in [Intents -> SUBSET Windows] /\ ValidIn \in [Intents -> SUBSET Windows]
  /\ Sourced \subseteq Intents
  /\ RetargetTo \in [Intents -> SUBSET Units]
  /\ Inserts \subseteq {i \in Intents : Home[i] # Manual} \X Units
  /\ MaxIssued \in Nat /\ MaxClock \in Nat

Serials == 1..MaxIssued

(* QueueEntry; id is entry_id: the intent with the length of the queue, or, *)
(* for a manual ultimate, with the event_index of the request.              *)
Entries ==
  [serial : Serials, intent : Intents, slot : Nat, actor : Units,
   waiting : BOOLEAN, targets : SUBSET Units]
Id(e) == <<e.intent, e.slot>>

VARIABLES
  settling, \* an action, a drained entry or an event is being settled
  queues,   \* queue -> its entries, oldest first
  canAct,   \* units UnitLifecycleSystem.can_act accepts
  live,     \* intents whose source status, if they require one, is active
  window,   \* global_flags["current_window"]
  clock,    \* event_index
  issued,   \* entries queued so far
  ran,      \* serial -> times the entry was executed
  dropped,  \* entries removed by a terminal resolution
  twins     \* entries that at some time shared their id with another one

battle == <<settling, canAct, live, window, clock>>
history == <<issued, ran, dropped, twins>>
vars == <<queues, battle, history>>

QueuedIn(q) == {queues[q][i].serial : i \in DOMAIN queues[q]}
Queued == UNION {QueuedIn(q) : q \in Queues}

----------------------------------------------------------------------------
(* Plans                                                                   *)

(* _waiting_for_other_window *)
Awaits(e) == e.waiting /\ WaitFor[e.intent] # {} /\ window \notin WaitFor[e.intent]

(* _source_status_blocked_reason and _expiration_blocked_reason *)
InForce(e) ==
  e.intent \in live /\ (ValidIn[e.intent] = {} \/ window \in ValidIn[e.intent])

(* _resolve_action_candidate: only an entry resolved to an action needs its actor. *)
ActorReady(e) == Kind[e.intent] = "action_definition" => e.actor \in canAct

(* _plan_entry *)
PlanOk(e) == InForce(e) /\ ActorReady(e)

At(p) == queues[p[1]][p[2]]
Positions == {p \in Queues \X (1..MaxIssued) : p[2] \in DOMAIN queues[p[1]]}

(* QueueSystem._entries: the positions plan_next_drain looks at. *)
Open(q) == {i \in DOMAIN queues[q] : ~Awaits(queues[q][i])}
IsHead(p) == p[2] \in Open(p[1]) /\ \A j \in Open(p[1]) : p[2] <= j
DrainOrder(p) == Cardinality({j \in Open(p[1]) : j < p[2]})

(* plan_next_drain: what a queue offers.  Nothing behind a blocked head is  *)
(* offered, and a queue of waiting entries offers a "waiting_window" plan.  *)
HeadOk(q) == \E i \in Open(q) : IsHead(<<q, i>>) /\ PlanOk(queues[q][i])
Admitted == {p \in Positions : p[2] \in Open(p[1]) /\ HeadOk(p[1]) /\ PlanOk(At(p))}
(* Faulty variant: a queue whose head is blocked offers nothing. *)
BlockedUnseen == {p \in Positions : FALSE}
Blocked == {p \in Positions : IsHead(p) /\ ~PlanOk(At(p))}
Waiting == {p \in Positions : Open(p[1]) = {} /\ p[2] = 1}

(* _queue_plan_sort_key: a plan without a window has family order 999, one  *)
(* without a priority sorts as infinity.                                    *)
IdKey(e) == <<IntentRank[e.intent], e.slot>>
SortKey(p) ==
  LET e == At(p)
      known == InForce(e)
  IN  IF p \in Waiting THEN <<FamilyOrder[Family[e.intent]], 1, 0, 0>> \o IdKey(e)
      ELSE IF known
           THEN <<FamilyOrder[Family[e.intent]], 0, Priority[e.intent], DrainOrder(p)>> \o IdKey(e)
           ELSE <<FamilyOrder["unknown"], 1, 0, DrainOrder(p)>> \o IdKey(e)

Before(k, l) == \E n \in 1..6 : k[n] < l[n] /\ \A m \in 1..(n - 1) : k[m] = l[m]

(* select_next_queue_drain_plan: any admitted plan wins over the others. *)
Leading(ps) == {p \in ps : \A o \in ps : ~Before(SortKey(o), SortKey(p))}
Selected == IF Admitted # {} THEN Leading(Admitted) ELSE Leading(Blocked \cup Waiting)

(* queue_plan_requires_external_command *)
NeedsCommand(e) ==
  Family[e.intent] = "ultimate" \/ Kind[e.intent] = "extra_turn_action_choice"

(* Nothing to resolve, or the selected plan waits: _try_queue_drain is None. *)
NothingToDrain == Selected \subseteq Waiting

----------------------------------------------------------------------------
(* Changing a queue                                                        *)

(* Faulty variant: the entry is looked up by its intent alone. *)
FoundByIntent(q, e) ==
  {i \in DOMAIN q : q[i].intent = e.intent /\ \A j \in DOMAIN q : q[j].intent = e.intent => i <= j}
(* dequeue_entry and resolve_terminal: the first entry that carries the id. *)
Found(q, e) == {i \in DOMAIN q : Id(q[i]) = Id(e) /\ \A j \in DOMAIN q : Id(q[j]) = Id(e) => i <= j}

Without(q, i) == [k \in 1..(Len(q) - 1) |-> IF k < i THEN q[k] ELSE q[k + 1]]

(* The n-th entry of this battle. *)
Entry(i, u, slot, n) ==
  [serial |-> n, intent |-> i, slot |-> slot, actor |-> u, waiting |-> FALSE, targets |-> {}]
(* Faulty variant: a new entry is put before the pending ones. *)
PushedInFront(qs, e) == [qs EXCEPT ![Home[e.intent]] = <<e>> \o @]
Pushed(qs, e) == [qs EXCEPT ![Home[e.intent]] = Append(@, e)]
Rivals(qs, e) ==
  {qs[Home[e.intent]][i].serial :
     i \in {j \in DOMAIN qs[Home[e.intent]] : Id(qs[Home[e.intent]][j]) = Id(e)}}
(* The entries whose ids one more entry makes ambiguous. *)
Doubled(qs, e) == IF Rivals(qs, e) = {} THEN {} ELSE Rivals(qs, e) \cup {e.serial}

TypeOK ==
  /\ settling \in BOOLEAN
  /\ queues \in [Queues -> Seq(Entries)]
  /\ canAct \subseteq Units /\ live \subseteq Intents
  /\ window \in Windows /\ clock \in 0..MaxClock /\ issued \in 0..MaxIssued
  /\ ran \in [Serials -> Nat] /\ dropped \subseteq Serials /\ twins \subseteq Serials

Init ==
  /\ settling = FALSE
  /\ queues = [q \in Queues |-> <<>>]
  /\ canAct = Units /\ live = Intents
  /\ window \in Windows
  /\ clock = 0 /\ issued = 0
  /\ ran = [s \in Serials |-> 0] /\ dropped = {} /\ twins = {}

(* QueueSystem.enqueue, with the history of the new entry. *)
Enqueue(i, u, slot) ==
  LET e == Entry(i, u, slot, issued + 1)
  IN  /\ issued < MaxIssued
      /\ queues' = Pushed(queues, e)
      /\ issued' = issued + 1
      /\ twins' = twins \cup Doubled(queues, e)
      /\ UNCHANGED <<ran, dropped>>

----------------------------------------------------------------------------
(* A settlement: listeners queue entries one after the other and units,    *)
(* statuses and the window change, until control is back at the scheduler. *)

(* _execute_queue_intents, one iteration of its loop. *)
ListenerQueues ==
  /\ settling
  /\ \E x \in Inserts : Enqueue(x[1], x[2], Len(queues[Home[x[1]]]))
  /\ UNCHANGED battle

BattleChanges ==
  /\ settling
  /\ \/ \E u \in canAct : canAct' = canAct \ {u} /\ UNCHANGED live
     \/ \E i \in Sourced \cap live : live' = live \ {i} /\ UNCHANGED canAct
  /\ UNCHANGED <<settling, window, clock, queues, history>>

EndSettlement ==
  settling /\ settling' = FALSE /\ UNCHANGED <<canAct, live, window, clock, queues, history>>

(* The scheduler opens turns and actions only when it has nothing to drain; *)
(* timeline.open_action advances event_index.                               *)
OtherStep ==
  /\ ~settling /\ NothingToDrain
  /\ settling' = TRUE
  /\ clock' \in {clock, clock + 1} \cap (0..MaxClock)
  /\ window' \in Windows
  /\ UNCHANGED <<canAct, live, queues, history>>

(* enqueue_manual_ultimate: the intent and the id carry event_index, so two  *)
(* requests of one actor before the next action share their id.              *)
RequestUltimate ==
  /\ ~settling
  /\ \E i \in {x \in Intents : Home[x] = Manual}, u \in canAct : Enqueue(i, u, clock)
  /\ UNCHANGED battle

----------------------------------------------------------------------------
(* Draining                                                                *)

(* drain_admitted, then the execution of the entry the PLAN carries: what is *)
(* removed is the first entry with its id.                                   *)
Execute(p) ==
  LET e == At(p) IN
  /\ \E i \in Found(queues[p[1]], e) : queues' = [queues EXCEPT ![p[1]] = Without(@, i)]
  /\ ran' = [ran EXCEPT ![e.serial] = @ + 1]
  /\ settling' = TRUE
  /\ clock' = IF Kind[e.intent] = "standalone_ability_graph" \/ clock = MaxClock
              THEN clock ELSE clock + 1
  /\ window' \in Windows
  /\ UNCHANGED <<canAct, live, issued, dropped, twins>>

(* plan_terminal_resolution and resolve_terminal, again by id. *)
Terminalize(p) ==
  LET q == p[1]
      e == At(p)
  IN  \E i \in Found(queues[q], e) :
        LET f == queues[q][i] IN
        \/ /\ WaitFor[e.intent] # {} /\ window \notin WaitFor[e.intent]
           /\ queues' = [queues EXCEPT ![q][i].waiting = TRUE]
           /\ UNCHANGED dropped
        \/ /\ WaitFor[e.intent] = {} \/ window \in WaitFor[e.intent]
           /\ RetargetTo[e.intent] # {} /\ RetargetTo[e.intent] \subseteq canAct
           /\ queues' = [queues EXCEPT ![q][i] =
                           [f EXCEPT !.waiting = FALSE, !.targets = RetargetTo[e.intent]]]
           /\ UNCHANGED dropped
        \/ /\ WaitFor[e.intent] = {} \/ window \in WaitFor[e.intent]
           /\ RetargetTo[e.intent] = {} \/ ~(RetargetTo[e.intent] \subseteq canAct)
           /\ queues' = [queues EXCEPT ![q] = Without(@, i)]
           /\ dropped' = dropped \cup {f.serial}

(* _try_queue_drain on the selected plan p.  An entry that is blocked, that *)
(* fails its preflight (control gate, energy, targets: any actor) or that   *)
(* does not execute to a successor is resolved terminally.                  *)
Drain(p) ==
  \/ p \in Admitted /\ Execute(p)
  \/ Terminalize(p) /\ UNCHANGED <<battle, issued, ran, twins>>

DrainSelected ==
  /\ ~settling
  /\ \E p \in Selected \ Waiting : (p \in Admitted => ~NeedsCommand(At(p))) /\ Drain(p)

(* The same under a submitted command. *)
DrainCommanded ==
  /\ ~settling
  /\ \E p \in Selected \cap Admitted : NeedsCommand(At(p)) /\ Drain(p)

Next ==
  \/ ListenerQueues \/ BattleChanges \/ EndSettlement \/ OtherStep
  \/ RequestUltimate \/ DrainSelected \/ DrainCommanded

(* Settlements end, and the host repeats step(None). *)
Spec == Init /\ [][Next]_vars /\ WF_vars(EndSettlement) /\ WF_vars(DrainSelected)

----------------------------------------------------------------------------
(* Properties                                                              *)

(* Every entry that never shared its id is accounted for: it waits in its   *)
(* queue once and has not run, or it is gone and either ran once or was     *)
(* resolved terminally, never both (dequeue_entry, resolve_terminal).       *)
EntriesAccounted ==
  \A s \in (1..issued) \ twins :
    \/ s \in Queued /\ ran[s] = 0 /\ s \notin dropped
    \/ s \notin Queued /\ ran[s] = 1 /\ s \notin dropped
    \/ s \notin Queued /\ ran[s] = 0 /\ s \in dropped

(* An entry is not overtaken by one queued later under the same intent: when *)
(* an entry runs, every older entry of its intent that is still queued was    *)
(* waiting or had no admitted plan (plan_next_drain, _queue_plan_sort_key).   *)
SameIntentInOrder ==
  [][\A p \in Positions : ran'[At(p).serial] # ran[At(p).serial] =>
       \A o \in Positions :
         o[1] = p[1] /\ At(o).intent = At(p).intent /\ At(o).serial < At(p).serial
           => Awaits(At(o)) \/ ~PlanOk(At(o))]_vars

(* What may hold up every queue: the selected plan waits for a window, it    *)
(* waits for a command, its entry is retargeted instead of removed, or its   *)
(* id is ambiguous, so that the terminal step changes another entry.         *)
HeldUp ==
  \E p \in Selected :
    \/ p \in Waiting
    \/ p \in Admitted /\ NeedsCommand(At(p))
    \/ RetargetTo[At(p).intent] # {}
    \/ At(p).serial \in twins

(* No entry stays for ever behind a blocked head: it leaves its queue, or    *)
(* the queues are held up by one of the named causes.                  *)
EveryEntrySettles == \A s \in Serials : (s \in Queued) ~> (s \notin Queued \/ HeldUp)
=============================================================================
