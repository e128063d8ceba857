---------------------------- MODULE SummonSystem ----------------------------
(* Summons (systems/summon.py, systems/summon_runtime.py): servants and     *)
(* summoned monsters enter the battle, are recorded in the registry         *)
(* global_flags.summon_runtime, and leave it when the executor finds, at    *)
(* the end of an action, that their owner is no longer active.  The         *)
(* scheduler appears as far as it decides when actions run and turns end.   *)
EXTENDS Naturals, FiniteSets

CONSTANTS
  Owners,      \* the units of the battle that are not summons
  Servants,    \* the servant definitions
  OwnerOf,     \* the owner each servant definition belongs to
  Summoners,   \* the owners whose abilities summon monsters
  Queues,      \* the pending queues
  NoUnit,      \* an absent turn_owner_id or active_turn
  MaxIndex,    \* bound on servant ordinals and on the event index
  MaxEffects,  \* bound on what settlements do, in a whole battle
  MaxTurns     \* bound on the turns of a battle

VARIABLES
  battle,      \* the published state
  call,        \* where the action that runs stands, or "none"
  draft,       \* the candidate state of the action that runs
  who,         \* its actor
  kind,        \* "turn" for the action of a turn, "drain" for a queued one
  due          \* the owners its cleanup has yet to look at

vars == <<battle, call, draft, who, kind, due>>

Index == 0..MaxIndex
ServantIds == Servants \X Index
MonsterIds == Summoners \X Index
SummonIds == ServantIds \cup MonsterIds
Ids == Owners \cup SummonIds

ASSUME SummonAssumption ==
  /\ OwnerOf \in [Servants -> Owners] /\ Summoners \subseteq Owners
  /\ Servants \cap Owners = {} /\ Owners \cap SummonIds = {}
  /\ NoUnit \notin Ids
  /\ MaxIndex \in Nat /\ MaxEffects \in Nat /\ MaxTurns \in Nat

Master(s) == IF s \in ServantIds THEN OwnerOf[s[1]] ELSE s[1]

Lives == {"absent", "active", "defeated", "removed"}
Present == {"active", "defeated"}
Marks == {"none", "active", "removed"}
(* A queue is the set of its entries; an entry knows how much of the bound  *)
(* on effects was left when it was queued, so that the oldest has the most. *)
Entries == [actor : Ids, target : Ids, age : 0..MaxEffects]
Battles ==
  [unit : [Ids -> Lives],
   entity : [SummonIds -> Marks], servants : [ServantIds -> Marks],
   byOwner : [Owners -> SUBSET SummonIds],
   lastServants : SUBSET SummonIds, lastMonsters : SUBSET SummonIds,
   queues : [Queues -> SUBSET Entries],
   turnOwner : Ids \cup {NoUnit}, activeTurn : Ids \cup {NoUnit},
   phase : {"setup", "idle", "decision", "post"},
   events : Nat, turns : Nat, budget : 0..MaxEffects]

TypeOK ==
  /\ battle \in Battles /\ draft \in Battles
  /\ call \in {"none", "body", "cleanup", "listen"}
  /\ who \in Ids \cup {NoUnit} /\ kind \in {"turn", "drain"} /\ due \subseteq Owners

-----------------------------------------------------------------------------
(* The registry                                                            *)

(* validate_summon_runtime, over the registry and the units. *)
Valid(b) ==
  /\ \A s \in SummonIds :
       /\ b.entity[s] = "active" => b.unit[s] \in Present /\ s \in b.byOwner[Master(s)]
       /\ b.unit[s] \in Present => b.entity[s] = "active"
  /\ \A o \in Owners : \A s \in b.byOwner[o] : Master(s) = o /\ b.entity[s] = "active"
  /\ \A s \in ServantIds : b.servants[s] = b.entity[s]
  /\ b.lastServants \subseteq {s \in ServantIds : b.entity[s] # "none"}
  /\ b.lastMonsters \subseteq {s \in MonsterIds : b.entity[s] # "none"}

Marked(f, S, mark) == [s \in DOMAIN f |-> IF s \in S THEN mark ELSE f[s]]

(* Faulty variant: the owner's index keeps only the newest summon. *)
SpawnedAlone(b, s) ==
  [b EXCEPT !.unit = Marked(@, {s}, "active"), !.entity = Marked(@, {s}, "active"),
            !.servants = Marked(@, {s}, "active"),
            !.byOwner[Master(s)] = {s},
            !.lastServants = IF s \in ServantIds THEN {s} ELSE @,
            !.lastMonsters = IF s \in MonsterIds THEN {s} ELSE @]
(* spawn_mutation and _runtime_after_spawn. *)
Spawned(b, s) ==
  [b EXCEPT !.unit = Marked(@, {s}, "active"), !.entity = Marked(@, {s}, "active"),
            !.servants = Marked(@, {s}, "active"),
            !.byOwner[Master(s)] = @ \cup {s},
            !.lastServants = IF s \in ServantIds THEN {s} ELSE @,
            !.lastMonsters = IF s \in MonsterIds THEN {s} ELSE @]

(* Faulty variant: only the actor of an entry is compared. *)
NamesActor(e, R) == e.actor \in R
(* _queue_entry_references_removed: by the actor or by a target. *)
Names(e, R) == e.actor \in R \/ e.target \in R

Without(Q, R) == {e \in Q : ~Names(e, R)}

(* Each removed unit brings its own mutation of a queue that names it, from *)
(* the contents before the removal: with two of them the reducer refuses    *)
(* the whole list (summon_pre_halo_mutation_conflict).                      *)
Conflicting(b, R) ==
  \E q \in Queues : \E s, t \in R :
    /\ s # t
    /\ \E e \in b.queues[q] : Names(e, {s})
    /\ \E e \in b.queues[q] : Names(e, {t})

(* _remove_cleanup_mutations, remove_mutations and _runtime_after_remove.   *)
(* active_turn is left alone.                                               *)
Removed(b, R) ==
  [b EXCEPT !.unit = Marked(@, R, "removed"), !.entity = Marked(@, R, "removed"),
            !.servants = Marked(@, R, "removed"),
            !.byOwner = [o \in Owners |-> @[o] \ R],
            !.lastServants = @ \ R, !.lastMonsters = @ \ R,
            !.queues = [q \in Queues |-> Without(@[q], R)],
            !.turnOwner = IF @ \in R THEN NoUnit ELSE @]

-----------------------------------------------------------------------------
(* Spawning                                                                *)

Instances(b, d) == {s \in {d} \X Index : b.unit[s] # "absent"}
Ordinal(b, d) == Cardinality(Instances(b, d))
Fallen(b, d) == {s \in Instances(b, d) : b.unit[s] = "defeated"}

(* plan_spawn_servant: no active duplicate, and an id not yet used.         *)
AdmitsServant(b, d) ==
  /\ \A s \in Instances(b, d) : b.unit[s] # "active"
  /\ Ordinal(b, d) \in Index /\ b.unit[<<d, Ordinal(b, d)>>] = "absent" /\ Valid(b)
  /\ ~Conflicting(b, Fallen(b, d))

(* apply_spawn_servant: a defeated instance is removed as it is replaced.   *)
WithServant(b, d) == Spawned(Removed(b, Fallen(b, d)), <<d, Ordinal(b, d)>>)

(* The id of a monster is made of its summoner and the event index.         *)
MonsterId(b, o) == <<o, b.events>>
AdmitsMonster(b, o) ==
  b.events \in Index /\ b.unit[MonsterId(b, o)] = "absent" /\ Valid(b)
WithMonster(b, o) == Spawned(b, MonsterId(b, o))

-----------------------------------------------------------------------------
(* What listeners, ticks and abilities do to the state                     *)

Spent(b) == [b EXCEPT !.budget = @ - 1]
Defeats(b, S) == {[Spent(b) EXCEPT !.unit[u] = "defeated"] : u \in {v \in S : b.unit[v] = "active"}}

Enqueues(b) ==
  {[Spent(b) EXCEPT !.queues[q] = @ \cup {[actor |-> a, target |-> t, age |-> b.budget]}] :
     q \in Queues, a \in {u \in Ids : b.unit[u] = "active"},
     t \in {u \in Ids : b.unit[u] \in Present}}

Summonings(b) ==
  {Spent(WithMonster(b, o)) : o \in {m \in Summoners \cap {who} : AdmitsMonster(b, m)}}

Effects(b) == IF b.budget = 0 THEN {} ELSE Defeats(b, Ids) \cup Enqueues(b) \cup Summonings(b)

(* A dispatch or a tick outside an action: it may defeat one of S.          *)
Settle(b, S) == {b} \cup (IF b.budget = 0 THEN {} ELSE Defeats(b, S))

-----------------------------------------------------------------------------
(* Scenario construction: initial_summons, then the first turn             *)

Init ==
  /\ battle =
       [unit |-> [u \in Ids |-> IF u \in Owners THEN "active" ELSE "absent"],
        entity |-> [s \in SummonIds |-> "none"], servants |-> [s \in ServantIds |-> "none"],
        byOwner |-> [o \in Owners |-> {}], lastServants |-> {}, lastMonsters |-> {},
        queues |-> [q \in Queues |-> {}], turnOwner |-> NoUnit, activeTurn |-> NoUnit,
        phase |-> "setup", events |-> 0, turns |-> 0, budget |-> MaxEffects]
  /\ draft = battle
  /\ call = "none" /\ who = NoUnit /\ kind = "turn" /\ due = {}

(* Between actions the candidate is the published state. *)
Publish(S) == battle' \in S /\ draft' = battle'
Idle == call = "none" /\ UNCHANGED <<call, who, kind, due>>

SetupServant(d) ==
  /\ Idle /\ battle.phase = "setup" /\ battle.unit[OwnerOf[d]] = "active"
  /\ AdmitsServant(battle, d)
  /\ Publish(Settle(WithServant(battle, d), Ids))

SetupMonster(o) ==
  /\ Idle /\ battle.phase = "setup" /\ battle.unit[o] = "active"
  /\ AdmitsMonster(battle, o)
  /\ Publish(Settle(WithMonster(battle, o), Ids))

StartBattle == Idle /\ battle.phase = "setup" /\ Publish({[battle EXCEPT !.phase = "idle"]})

-----------------------------------------------------------------------------
(* The scheduler                                                           *)

(* advance_to_next_turn.  TurnScheduler treats an actor that is defeated as *)
(* its own turn begins.                                                     *)
BeginTurn(u) ==
  /\ Idle /\ battle.phase = "idle" /\ battle.turns < MaxTurns /\ battle.unit[u] = "active"
  /\ Publish(Settle([battle EXCEPT !.phase = "decision", !.activeTurn = u,
                                   !.turnOwner = u, !.turns = @ + 1], Ids \ {u}))

(* CombatExecutor.execute after open_action, which makes the actor the      *)
(* turn owner and counts the event index.                                   *)
Execute(b, u, k) ==
  /\ call = "none" /\ b.unit[u] = "active" /\ b.events < MaxIndex
  /\ draft' = [b EXCEPT !.turnOwner = u, !.events = @ + 1]
  /\ call' = "body" /\ who' = u /\ kind' = k /\ UNCHANGED <<battle, due>>

Foremost(Q) == {e \in Q : \A f \in Q : f.age <= e.age}
Dequeued(b, q, e) == [b EXCEPT !.queues[q] = @ \ {e}]

TakeTurn ==
  /\ battle.phase = "decision" /\ battle.turnOwner = battle.activeTurn
  /\ battle.activeTurn # NoUnit
  /\ Execute(battle, battle.activeTurn, "turn")

(* Entries drained between an action and its deferred turn end; those that  *)
(* run inside a decision or before the first turn are TurnScheduler's.      *)
DrainEntry(q) ==
  \E e \in Foremost(battle.queues[q]) :
    battle.phase = "post" /\ Execute(Dequeued(battle, q, e), e.actor, "drain")

(* _terminalize_queue_entry: the actor cannot act any more. *)
DropEntry(q) ==
  \E e \in Foremost(battle.queues[q]) :
    /\ Idle /\ battle.phase = "post" /\ battle.unit[e.actor] # "active"
    /\ Publish({Dequeued(battle, q, e)})

-----------------------------------------------------------------------------
(* The action: its body, the owner cleanup, and what follows               *)

Effect ==
  /\ call \in {"body", "listen"} /\ draft' \in Effects(draft)
  /\ UNCHANGED <<battle, call, who, kind, due>>

(* Faulty variant: every owner is due. *)
AllOwners(b) == Owners
(* Faulty variant: a defeated owner is overlooked. *)
Departed(b) == {o \in Owners : b.unit[o] = "removed"}
(* The owners that are not active, taken once before the loop. *)
Inactive(b) == {o \in Owners : b.unit[o] # "active"}

StartCleanup ==
  /\ call = "body" /\ call' = "cleanup" /\ due' = Inactive(draft)
  /\ UNCHANGED <<battle, draft, who, kind>>

(* Faulty variant: a defeated servant is not removed. *)
ActiveRemovable(b, o) == {s \in b.byOwner[o] \cap ServantIds : b.unit[s] = "active"}
(* plan_owner_cleanup: only servants carry owner_death_policy "remove".     *)
Removable(b, o) == b.byOwner[o] \cap ServantIds

Cleans(b, o) == Valid(b) /\ Removable(b, o) # {} /\ ~Conflicting(b, Removable(b, o))

(* One owner of the loop.  A plan that is not ok is skipped; a removal that *)
(* conflicts comes back with no mutations, and the loop goes on.            *)
SkipOwner(o) ==
  /\ call = "cleanup" /\ o \in due /\ ~Cleans(draft, o)
  /\ due' = due \ {o} /\ UNCHANGED <<battle, call, draft, who, kind>>

CleanOwner(o) ==
  /\ call = "cleanup" /\ o \in due /\ Cleans(draft, o)
  /\ draft' = Removed(draft, Removable(draft, o))
  /\ due' = due \ {o} /\ call' = "listen" /\ UNCHANGED <<battle, who, kind>>

(* The listeners of the removal have run. *)
NextOwner ==
  /\ call = "listen" /\ call' = "cleanup" /\ UNCHANGED <<battle, draft, who, kind, due>>

Finishing(k) == call = "cleanup" /\ due = {} /\ kind = k
Return(S) ==
  /\ Publish(S)
  /\ call' = "none" /\ who' = NoUnit /\ kind' = "turn" /\ due' = {}
Empty(b) == \A q \in Queues : b.queues[q] = {}

Closed(b) == [b EXCEPT !.phase = "idle", !.activeTurn = NoUnit, !.turnOwner = NoUnit]

DeferTurnEnd ==
  /\ Finishing("turn") /\ ~Empty(draft)
  /\ Return({[draft EXCEPT !.phase = "post"]})

(* end_turn deletes turn_owner_id, and the reducer refuses to delete what   *)
(* is absent: the call then ends with that error and publishes nothing.     *)
CanEndTurn(b) == Empty(b) /\ b.turnOwner # NoUnit

CloseTurn ==
  /\ Finishing("turn") /\ CanEndTurn(draft)
  /\ Return(Settle(Closed(draft), Ids))

RefuseTurnEnd ==
  /\ Finishing("turn") /\ Empty(draft) /\ ~CanEndTurn(draft)
  /\ Return({battle})

PublishDrained == Finishing("drain") /\ Return({draft})

(* _complete_pending_turn_end. *)
EndPendingTurn ==
  /\ Idle /\ battle.phase = "post" /\ CanEndTurn(battle)
  /\ Publish(Settle(Closed(battle), Ids))

-----------------------------------------------------------------------------
Setup == (\E d \in Servants : SetupServant(d)) \/ (\E o \in Summoners : SetupMonster(o))

Start == StartBattle \/ \E u \in Ids : BeginTurn(u)

(* What goes on by itself once a turn is open. *)
Proceed ==
  \/ TakeTurn \/ StartCleanup \/ NextOwner
  \/ \E q \in Queues : DrainEntry(q) \/ DropEntry(q)
  \/ \E o \in Owners : SkipOwner(o) \/ CleanOwner(o)
  \/ DeferTurnEnd \/ CloseTurn \/ RefuseTurnEnd \/ PublishDrained \/ EndPendingTurn

Next == Setup \/ Start \/ Effect \/ Proceed

Spec == Init /\ [][Next]_vars
FairSpec == Spec /\ WF_vars(Proceed)

-----------------------------------------------------------------------------
(* Properties                                                              *)

(* The registry agrees with the units in every state an operation can read, *)
(* so that no spawn and no removal is ever refused for the registry's sake. *)
RegistryIsValid == Valid(battle) /\ Valid(draft)

Forgotten(b) ==
  \A s \in SummonIds : b.unit[s] = "removed" =>
    /\ \A q \in Queues : \A e \in b.queues[q] : e.actor # s /\ e.target # s
    /\ b.turnOwner # s /\ s \notin b.lastServants \cup b.lastMonsters

(* Nothing a removed summon left behind can be acted on: no queue entry     *)
(* names it, it owns no turn and it is not among the last summoned.         *)
RemovedIsForgotten == Forgotten(battle) /\ Forgotten(draft)

Single(b) ==
  \A s, t \in ServantIds :
    s[1] = t[1] /\ b.unit[s] \in Present /\ b.unit[t] \in Present => s = t

(* An owner never has two instances of one servant on the field: the        *)
(* defeated one is gone when its replacement enters.                        *)
OneInstancePerServant == Single(battle) /\ Single(draft)

(* A published step that removes a summon has an inactive owner for it, or  *)
(* a servant that takes its place.                                          *)
OwnersKeepTheirs ==
  [][\A s \in SummonIds : battle.unit[s] \in Present /\ battle'.unit[s] = "removed" =>
       \/ battle'.unit[Master(s)] # "active"
       \/ /\ battle.unit[s] = "defeated"
          /\ \E t \in {s[1]} \X Index : battle.unit[t] = "absent" /\ battle'.unit[t] # "absent"]_vars

(* The servants of an owner leave an action together or not at all.         *)
ServantsLeaveTogether ==
  [][\A s, t \in ServantIds :
       /\ call # "none" /\ Master(s) = Master(t)
       /\ battle.unit[s] \in Present /\ battle'.unit[s] = "removed"
       => battle'.unit[t] \notin Present]_vars

(* An action published after a servant has lost its owner is the last one   *)
(* it sees, unless the owner has two servants, whose removals may conflict. *)
OrphansLeave ==
  [][\A s \in ServantIds :
       /\ call # "none" /\ battle' # battle
       /\ battle.unit[Master(s)] # "active" /\ battle'.unit[s] \in Present
       => \E t \in ServantIds \ {s} : Master(t) = Master(s) /\ battle'.unit[t] \in Present]_vars
=============================================================================
