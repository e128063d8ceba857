---------------------------- MODULE BattleField ----------------------------
(***************************************************************************)
(* The part of BattleState that the settlements of actions, of queued      *)
(* abilities, of dispatched events and of status ticks may change, and the *)
(* read-only plans the scheduler computes from it: who acts next           *)
(* (TimelineSystem.plan_next_actor), which queue entry is drained next     *)
(* (select_next_queue_drain_plan over QueueSystem.plan_next_drain) and     *)
(* whether a wave transition is due (WaveSystem.plan_transition).          *)
(*                                                                         *)
(* A field w is a record                                                   *)
(*   w.life[u]     "active", "defeated", "removed", or "absent" for an     *)
(*                 enemy of a wave that has not been spawned yet           *)
(*   w.av[u]       remaining action value                                  *)
(*   w.control[u]  a status control gate holds for u                       *)
(*   w.energy[u]   u has its maximum energy                                *)
(*   w.queues[q]   pending entries of queue q, oldest first                *)
(*   w.budget      how many observable effects settlements still produce   *)
(***************************************************************************)
EXTENDS Integers, Sequences, SequencesExt, FiniteSets

CONSTANTS
  Allies,       \* player side units
  Enemies,      \* enemy units of every wave
  Waves,        \* sequence of the sets of enemies that form the waves
  NoUnit,       \* absent actor id, the code's ""
  Gauge,        \* unit -> full action value of a turn, base gauge / speed
  TiePriority,  \* unit -> timeline priority, or NoPriority
  NoPriority,   \* no timeline_priority flag on the unit
  EntryPriority,\* queue family -> priority_value of its entries
  Inserts,      \* entries that listeners may queue during a settlement
  MaxQueue,     \* bound: entries one queue holds
  MaxEffects    \* bound: observable effects of one behaviour

Units == Allies \cup Enemies

NumberOrNone == Nat \cup {NoPriority}

Families == {"ultimate", "extra_turn", "insert_action", "insert_ability"}
QueueNames == {"manual_ultimate", "turn_insert_action", "turn_insert_ability"}
Entries == [actor : Units, family : Families]

ASSUME UnitsAssumption ==
  /\ IsFiniteSet(Units) /\ Allies \cap Enemies = {} /\ Allies # {} /\ NoUnit \notin Units
  /\ Len(Waves) > 0 /\ Waves \in Seq(SUBSET Enemies)
  /\ \A i \in DOMAIN Waves : Waves[i] # {}
  /\ \A u \in Enemies : \E i \in DOMAIN Waves : u \in Waves[i]
  /\ \A i, j \in DOMAIN Waves : i # j => Waves[i] \cap Waves[j] = {}

ASSUME ValuesAssumption ==
  /\ Gauge \in [Units -> Nat \ {0}]
  /\ NoPriority \notin Nat /\ TiePriority \in [Units -> NumberOrNone]
  /\ EntryPriority \in [Families -> Int]
  /\ Inserts \subseteq Entries
  /\ MaxQueue \in Nat /\ MaxEffects \in Nat

Fields ==
  [life    : [Units -> {"active", "defeated", "removed", "absent"}],
   av      : [Units -> Nat],
   control : [Units -> BOOLEAN],
   energy  : [Units -> BOOLEAN],
   queues  : [QueueNames -> Seq(Entries)],
   budget  : Nat]

(* UnitLifecycleSystem.can_act for units that are not summons.             *)
CanAct(w, u) == w.life[u] = "active"

-----------------------------------------------------------------------------
(* Timeline                                                                *)

(* Faulty variant: units that cannot act stay candidates.                  *)
LeadingOfAll(w) == {u \in Units : \A v \in Units : w.av[u] <= w.av[v]}

(* The candidates of plan_next_actor with the least action value.          *)
Leading(w) ==
  {u \in Units : CanAct(w, u) /\ \A v \in Units : CanAct(w, v) => w.av[u] <= w.av[v]}

(* plan_next_actor without an explicit choice: a single minimum, or the    *)
(* single best priority when every tied unit carries one.                  *)
NextActors(w) ==
  {u \in Leading(w) :
     \/ Leading(w) = {u}
     \/ /\ \A v \in Leading(w) : TiePriority[v] # NoPriority
        /\ \A v \in Leading(w) \ {u} : TiePriority[u] < TiePriority[v]}

TieUnresolved(w) == Leading(w) # {} /\ NextActors(w) = {}

(* advance_to_next_actor: the winner's action value passes for everybody.  *)
Advanced(w, u) ==
  [w EXCEPT !.av = [v \in Units |-> IF w.av[v] > w.av[u] THEN w.av[v] - w.av[u] ELSE 0]]

(* end_turn: the actor waits its full action value again.                  *)
TurnReset(w, u) == [w EXCEPT !.av[u] = Gauge[u]]

-----------------------------------------------------------------------------
(* Queues                                                                  *)

(* The queue an entry of a family is appended to (its intent's queue_kind).*)
HomeQueue(family) ==
  CASE family = "ultimate" -> "manual_ultimate"
    [] family = "insert_ability" -> "turn_insert_ability"
    [] OTHER -> "turn_insert_action"

(* QUEUE_WINDOW_FAMILY_ORDER on the families that lowering admits.         *)
FamilyOrder ==
  [ultimate |-> 10, extra_turn |-> 10, insert_action |-> 60, insert_ability |-> 70]

Queued(w) == {p \in QueueNames \X (1..MaxQueue) : p[2] <= Len(w.queues[p[1]])}
QueuesEmpty(w) == \A q \in QueueNames : w.queues[q] = <<>>
EntryAt(w, p) == w.queues[p[1]][p[2]]

(* QueueSystem._plan_entry: an entry resolved to an action definition needs*)
(* an actor that can act; a choice or a standalone graph does not.         *)
PlanOk(w, e) == e.family \in {"ultimate", "insert_action"} => CanAct(w, e.actor)

(* plan_next_drain: a queue whose first entry has no ok plan offers only   *)
(* that blocked plan; otherwise any entry with an ok plan competes.        *)
HeadBlocked(w, q) == w.queues[q] # <<>> /\ ~PlanOk(w, w.queues[q][1])
Admitted(w) == {p \in Queued(w) : ~HeadBlocked(w, p[1]) /\ PlanOk(w, EntryAt(w, p))}

(* Faulty variant: a blocked head is not reported, its queue just waits.   *)
BlockedHeadsIgnored(w) == {}
BlockedHeads(w) == {p \in Queued(w) : p[2] = 1 /\ HeadBlocked(w, p[1])}

(* _queue_plan_sort_key: family order, priority value, drain order.        *)
Before(w, p, r) ==
  LET e == EntryAt(w, p)
      f == EntryAt(w, r)
  IN \/ FamilyOrder[e.family] < FamilyOrder[f.family]
     \/ /\ FamilyOrder[e.family] = FamilyOrder[f.family]
        /\ \/ EntryPriority[e.family] < EntryPriority[f.family]
           \/ EntryPriority[e.family] = EntryPriority[f.family] /\ p[2] < r[2]

(* select_next_queue_drain_plan: admitted plans win over blocked ones.     *)
Selected(w) ==
  LET pool == IF Admitted(w) # {} THEN Admitted(w) ELSE BlockedHeads(w)
  IN {p \in pool : \A r \in pool : ~Before(w, r, p)}

(* queue_plan_requires_external_command.                                   *)
IsSelectable(e) == e.family \in {"ultimate", "extra_turn"}

(* _queue_choices: an entry is offered to the controller only when its     *)
(* action boundary is open, and an extra turn, whose plan names no action  *)
(* and level, never passes the action contract.                            *)
ChoiceFor(w, e) ==
  e.family = "ultimate" /\ CanAct(w, e.actor) /\ ~w.control[e.actor] /\ w.energy[e.actor]

(* Faulty variant: the entry is executed and stays in its queue.           *)
DequeuedNothing(w, p) == w

(* dequeue_entry / enqueue.                                                *)
Dequeued(w, p) == [w EXCEPT !.queues[p[1]] = RemoveAt(@, p[2])]
Enqueued(w, e) == [w EXCEPT !.queues[HomeQueue(e.family)] = Append(@, e)]
HasRoom(w, e) == Len(w.queues[HomeQueue(e.family)]) < MaxQueue

-----------------------------------------------------------------------------
(* Waves                                                                   *)

(* Faulty variant: the last but one wave already counts as the last.       *)
WavePlanEarlyVictory(w, index, started) ==
  IF ~QueuesEmpty(w) THEN "blocked"
  ELSE IF \A u \in Allies : w.life[u] # "active" THEN "battle_defeat"
  ELSE IF ~started THEN "start_current_wave"
  ELSE IF \E u \in Waves[index] : w.life[u] = "active" THEN "no_change"
  ELSE IF index + 1 >= Len(Waves) THEN "battle_victory"
  ELSE "advance_to_next_wave"

(* WaveSystem.plan_transition for executable wave data.                    *)
WavePlan(w, index, started) ==
  IF ~QueuesEmpty(w) THEN "blocked"
  ELSE IF \A u \in Allies : w.life[u] # "active" THEN "battle_defeat"
  ELSE IF ~started THEN "start_current_wave"
  ELSE IF \E u \in Waves[index] : w.life[u] = "active" THEN "no_change"
  ELSE IF index = Len(Waves) THEN "battle_victory"
  ELSE "advance_to_next_wave"

(* The plan's remove mutations, and the next wave's spawn mutations.       *)
WaveRemoved(w, index) ==
  [w EXCEPT !.life = [u \in Units |-> IF u \in Waves[index] THEN "removed" ELSE w.life[u]]]
WaveSpawned(w, index) ==
  [w EXCEPT !.life = [u \in Units |-> IF u \in Waves[index] THEN "active" ELSE w.life[u]],
            !.av = [u \in Units |-> IF u \in Waves[index] THEN Gauge[u] ELSE w.av[u]]]

-----------------------------------------------------------------------------
(* What one settlement may do to the field: nothing the scheduler reads, or*)
(* up to two observable effects of an action, a listener or a tick.        *)
Effects(w) ==
  {[w EXCEPT !.life[u] = "defeated"] : u \in {x \in Units : CanAct(w, x)}}
  \cup {[w EXCEPT !.control[u] = ~@] : u \in {x \in Units : CanAct(w, x)}}
  \cup {[w EXCEPT !.energy[u] = TRUE] : u \in {x \in Allies : ~w.energy[x]}}
  \cup {[w EXCEPT !.av[u] = 0] : u \in {x \in Units : CanAct(w, x)}}
  \cup {Enqueued(w, e) : e \in {x \in Inserts : HasRoom(w, x)}}

Affected(w) == IF w.budget = 0 THEN {} ELSE {[x EXCEPT !.budget = @ - 1] : x \in Effects(w)}

Settle(w) == {w} \cup Affected(w) \cup UNION {Affected(x) : x \in Affected(w)}
=============================================================================
