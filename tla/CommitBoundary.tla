-------------------------- MODULE CommitBoundary --------------------------
(***************************************************************************)
(* How one call of CombatScheduler changes the battle. A call assembles    *)
(* one or more execution graphs on a private candidate: an action, a queue *)
(* entry, a wave transition, a turn end. Each graph is committed on its own*)
(* (commit_eventful_transition, CombatExecutor.execute, _transition), the  *)
(* scheduler adds writes of its own between them, and the whole call is    *)
(* committed once more from the state it was given                         *)
(* (_combine_scheduler_transitions). advance_to_next_turn commits a single *)
(* graph without that second commit. The caller adopts what is returned    *)
(* only when the outcome is committed.                                     *)
(*                                                                         *)
(*   published      the state the caller holds                             *)
(*   settled        published, the committed graphs and the own writes     *)
(*   candidate      settled and what the open graph has planned so far     *)
(*   planned        mutations of the open graph                            *)
(*   complete       every node of the open graph is complete so far        *)
(*   frame          candidate and plan when the outermost event dispatch   *)
(*                  began, or NoFrame                                      *)
(*   stepMutations  mutations of the call, committed graphs and own writes *)
(*   stepComplete   every graph of the call was committed                  *)
(*   graphs         graphs the call has committed or refused               *)
(*   returned       after_state of the last SchedulerStepResult            *)
(*   credited       history: defeat records published for each unit        *)
(*   budget         changes this behaviour may still plan                  *)
(***************************************************************************)
EXTENDS UnitMutations

CONSTANTS
  InitialUnits, \* unit -> Newborn(u), or Absent for one that spawns later
  Amounts,      \* amounts of damage and healing
  NoFrame,
  MaxChanges,   \* bound: changes of one behaviour
  MaxGraphs     \* bound: graphs of one call

VARIABLES stage, published, settled, candidate, planned, complete, frame,
          stepMutations, stepComplete, graphs, returned, credited, budget

graphVars == <<candidate, planned, complete, frame>>
stepVars == <<settled, stepMutations, stepComplete, graphs>>
outerVars == <<published, returned, credited>>
vars == <<stage, graphVars, stepVars, outerVars, budget>>

ASSUME BoundsAssumption ==
  /\ InitialUnits \in [Units -> UnitStates \cup {Absent}]
  /\ \A u \in Units : InitialUnits[u] \in {Newborn(u), Absent}
  /\ Amounts \subseteq Nat /\ MaxChanges \in Nat /\ MaxGraphs \in Nat

-----------------------------------------------------------------------------
(* Changes: what one producer plans from the state h it is handed. It      *)
(* writes the fields of one unit, in order, against the values of h.       *)

ChangeOf(u, x, y, fs) == [unit |-> u, before |-> x, after |-> y, fields |-> fs]
When(b, f) == IF b THEN <<f>> ELSE <<>>

(* Faulty variant: any unit that was not removed can be hit.               *)
HittableUnlessRemoved(x) == x # Absent /\ x.lifecycle_status # "removed"

(* UnitLifecycleView.can_receive_damage of a unit on the field.            *)
Hittable(x) == x # Absent /\ x.lifecycle_status = "active"

(* Faulty variant: the defeat record is left to a later listener.          *)
HitWithoutRecord(u, x, amount) ==
  LET left == IF x.hp > amount THEN x.hp - amount ELSE 0
      lethal == x.hp > 0 /\ left = 0
      defeats == lethal /\ x.lifecycle_status = "active"
  IN ChangeOf(u, x, [x EXCEPT !.hp = left,
                             !.lifecycle_status = IF defeats THEN "defeated" ELSE @],
             When(left # x.hp, "hp") \o When(defeats, "lifecycle_status"))

(* A damage packet: hit points, and when they run out the defeat of an     *)
(* active unit and its record, in one batch.                               *)
Hit(u, x, amount) ==
  LET left == IF x.hp > amount THEN x.hp - amount ELSE 0
      lethal == x.hp > 0 /\ left = 0
      defeats == lethal /\ x.lifecycle_status = "active"
  IN ChangeOf(u, x, [x EXCEPT !.hp = left,
                             !.lifecycle_status = IF defeats THEN "defeated" ELSE @,
                             !.defeat_record = @ \/ lethal],
             When(left # x.hp, "hp") \o When(defeats, "lifecycle_status")
                                     \o When(lethal, "defeat_record"))

DamageChanges(h) ==
  {Hit(u, h.units[u], n) : u \in {v \in Units : Hittable(h.units[v])}, n \in Amounts}

(* The heal effect asks only whether the target is in the state.           *)
HealChanges(h) ==
  {LET x == h.units[u]
       full == x.hp + n >= MaxHp[u]
   IN ChangeOf(u, x, [x EXCEPT !.hp = IF full THEN MaxHp[u] ELSE @ + n], <<"hp">>)
     : u \in {v \in Units : h.units[v] # Absent}, n \in Amounts}

(* UnitLifecycleSystem.remove_mutations, of a wave or of a summon.         *)
RemoveChanges(h) ==
  {ChangeOf(u, h.units[u],
           [h.units[u] EXCEPT !.lifecycle_status = "removed", !.removed_record = TRUE],
           <<"lifecycle_status", "removed_record">>)
     : u \in {v \in Units : h.units[v] # Absent}}

(* UnitLifecycleSystem.spawn_mutation.                                     *)
SpawnChanges(h) ==
  {ChangeOf(u, Absent, Newborn(u), <<"unit">>) : u \in {v \in Units : h.units[v] = Absent}}

(* A write outside the lifecycle: phase, queue, cursor, action value.      *)
OtherChanges(h) == {ChangeOf(NoUnit, h.other, ~h.other, <<"other">>)}

Producible(h) ==
  DamageChanges(h) \cup HealChanges(h) \cup RemoveChanges(h)
    \cup SpawnChanges(h) \cup OtherChanges(h)

(* The mutations of a change.                                              *)
Listed(c) ==
  [i \in DOMAIN c.fields |->
     LET f == c.fields[i] IN
     IF f \in UnitFields THEN Mutation(c.unit, f, c.before[f], c.after[f])
                         ELSE Mutation(c.unit, f, c.before, c.after)]

Fits(s, c) == \A i \in DOMAIN c.fields : Accepts(s, Listed(c)[i])

(* The unit x with the fields fs taken from y.                             *)
Merged(x, y, fs) ==
  LET from(f) == IF f \in Range(fs) THEN y[f] ELSE x[f]
  IN [hp |-> from("hp"), lifecycle_status |-> from("lifecycle_status"),
      defeat_record |-> from("defeat_record"), removed_record |-> from("removed_record")]

(* apply_all of these mutations: they write different fields.              *)
Applied(s, c) ==
  IF c.unit = NoUnit THEN [s EXCEPT !.other = c.after]
  ELSE [s EXCEPT !.units[c.unit] =
          IF c.before = Absent THEN c.after ELSE Merged(@, c.after, c.fields)]

-----------------------------------------------------------------------------
Init ==
  /\ stage = "planning"
  /\ published = [units |-> InitialUnits, other |-> FALSE]
  /\ settled = published /\ candidate = published /\ returned = published
  /\ planned = <<>> /\ complete = TRUE /\ frame = NoFrame
  /\ stepMutations = <<>> /\ stepComplete = TRUE /\ graphs = 0
  /\ credited = [u \in Units |-> 0]
  /\ budget = MaxChanges

-----------------------------------------------------------------------------
(* Inside a graph                                                          *)

(* A producer plans a change from the candidate, or from the state the     *)
(* graph began with (WaveSystem.apply_transition), and the reducer applies *)
(* it to the candidate; a change that conflicts is not applied: NodeFails. *)
Produce ==
  /\ stage = "planning" /\ budget > 0
  /\ \E h \in {candidate, settled} : \E c \in Producible(h) :
       /\ Fits(candidate, c)
       /\ candidate' = Applied(candidate, c)
       /\ planned' = planned \o Listed(c)
  /\ budget' = budget - 1
  /\ UNCHANGED <<stage, complete, frame, stepVars, outerVars>>

(* dispatch_event runs the listeners of an event on the candidate.         *)
BeginDispatch ==
  /\ stage = "planning" /\ frame = NoFrame
  /\ frame' = [candidate |-> candidate, planned |-> planned]
  /\ UNCHANGED <<stage, candidate, planned, complete, stepVars, outerVars, budget>>

EndDispatch ==
  /\ stage = "planning" /\ frame # NoFrame
  /\ frame' = NoFrame
  /\ UNCHANGED <<stage, candidate, planned, complete, stepVars, outerVars, budget>>

(* Faulty variant: the candidate is restored, the plan is not.             *)
RollBackCandidate == candidate' = frame.candidate /\ UNCHANGED planned

(* _atomic_dispatch_failure: an error in a listener, or in any dispatch it *)
(* causes, undoes the outermost dispatch.                                  *)
RollBack == candidate' = frame.candidate /\ planned' = frame.planned

(* A node of the graph is blocked or fails.                                *)
NodeFails ==
  /\ stage = "planning"
  /\ complete' = FALSE
  /\ IF frame = NoFrame THEN UNCHANGED <<candidate, planned>> ELSE RollBack
  /\ frame' = NoFrame
  /\ UNCHANGED <<stage, stepVars, outerVars, budget>>

-----------------------------------------------------------------------------
(* Between graphs                                                          *)

(* Faulty variant: the graph's mutations are listed before earlier ones.   *)
AppendedInFront(ms) == ms \o stepMutations

(* The mutations of the call, in the order they were applied.              *)
AppendedToStep(ms) == stepMutations \o ms

(* The graph is finalized from the state it began with.                    *)
CommitGraph ==
  /\ stage = "planning" /\ frame = NoFrame
  /\ LET eligible == Publishable(settled, candidate, planned, complete) IN
     /\ settled' = IF eligible THEN candidate ELSE settled
     /\ stepMutations' = IF eligible THEN AppendedToStep(planned) ELSE stepMutations
     /\ stepComplete' = (stepComplete /\ eligible)
  /\ candidate' = settled' /\ planned' = <<>> /\ complete' = TRUE
  /\ graphs' = graphs + 1
  /\ stage' = "between"
  /\ UNCHANGED <<frame, outerVars, budget>>

(* What step itself applies around its children: phases, the enemy cursor, *)
(* the deferred turn end, and the lifecycle tick with its callbacks, whose *)
(* errors are not among the nodes.                                         *)
OwnWrite ==
  /\ stage = "between" /\ budget > 0
  /\ \E c \in Producible(settled) :
       /\ Fits(settled, c)
       /\ settled' = Applied(settled, c)
       /\ stepMutations' = AppendedToStep(Listed(c))
  /\ candidate' = settled'
  /\ budget' = budget - 1
  /\ UNCHANGED <<stage, planned, complete, frame, stepComplete, graphs, outerVars>>

NextGraph ==
  /\ stage = "between" /\ graphs < MaxGraphs
  /\ stage' = "planning"
  /\ UNCHANGED <<graphVars, stepVars, outerVars, budget>>

-----------------------------------------------------------------------------
(* The end of a call                                                       *)

Credits(ms) ==
  [u \in Units |-> Cardinality({i \in DOMAIN ms : ms[i].unit = u /\ ms[i].field = "defeat_record"})]

Adopt(eligible, s, ms) ==
  /\ published' = IF eligible THEN s ELSE published
  /\ credited' = IF eligible THEN [u \in Units |-> credited[u] + Credits(ms)[u]] ELSE credited

(* The next call starts from what the caller holds now.                    *)
NewCall ==
  /\ stage' = "planning"
  /\ settled' = published' /\ candidate' = published'
  /\ planned' = <<>> /\ complete' = TRUE /\ frame' = NoFrame
  /\ stepMutations' = <<>> /\ stepComplete' = TRUE /\ graphs' = 0
  /\ UNCHANGED budget

(* _combine_scheduler_transitions and _eligible_scheduler_state.           *)
PublishStep ==
  /\ stage = "between"
  /\ Adopt(Publishable(published, settled, stepMutations, stepComplete), settled, stepMutations)
  /\ returned' = published'
  /\ NewCall

(* advance_to_next_turn: one graph, and its candidate is returned whatever *)
(* the outcome; the caller looks at the outcome.                           *)
PublishTurnBegin ==
  /\ stage = "planning" /\ frame = NoFrame /\ graphs = 0
  /\ Adopt(Publishable(published, candidate, planned, complete), candidate, planned)
  /\ returned' = candidate
  /\ NewCall

Next ==
  \/ Produce \/ BeginDispatch \/ EndDispatch \/ NodeFails
  \/ CommitGraph \/ OwnWrite \/ NextGraph
  \/ PublishStep \/ PublishTurnBegin

Spec == Init /\ [][Next]_vars

-----------------------------------------------------------------------------
(* A list of mutations; what a mutation declares depends on its path.      *)
IsPlan(ms) ==
  \A i \in DOMAIN ms :
    /\ ms[i].field \in UnitFields => ms[i].unit \in Units
    /\ ms[i].field = "unit" => ms[i].unit \in Units
    /\ ms[i].field = "other" => ms[i].unit = NoUnit

TypeOK ==
  /\ stage \in {"planning", "between"}
  /\ published \in States /\ settled \in States
  /\ candidate \in States /\ returned \in States
  /\ IsPlan(planned) /\ IsPlan(stepMutations)
  /\ frame # NoFrame => frame.candidate \in States /\ IsPlan(frame.planned)
  /\ complete \in BOOLEAN /\ stepComplete \in BOOLEAN
  /\ graphs \in Nat /\ budget \in Nat
  /\ credited \in [Units -> Nat]

(* The battle the caller holds passes the integrity check of every unit,   *)
(* although each commit examines only the units its mutations name.        *)
PublishedIsWhole == WholeState(published)

(* At every moment, also right after a rollback, the mutations noted down  *)
(* so far lead the reducer to the state the next producer works on: no call*)
(* is ever refused as candidate_state_mismatch or mutation_conflict.       *)
PlansExplainStates ==
  /\ Explains(planned, settled, candidate)
  /\ Explains(stepMutations, published, settled)

(* No producer or listener is handed a unit that is out of hit points and  *)
(* still active, or defeated and not yet recorded.                         *)
DefeatIsHandedOverWhole ==
  \A u \in Units :
    LET x == candidate.units[u] IN
    /\ x # Absent /\ x.lifecycle_status = "active" => x.hp > 0
    /\ x # Absent /\ x.lifecycle_status = "defeated" => x.defeat_record

(* When every graph of a call was committed, the second commit of the whole*)
(* call refuses it in two cases only: a unit that entered during the call  *)
(* left again, or a write outside the graphs broke a unit.                 *)
StepsCompose ==
  /\ stage = "between" /\ stepComplete
  /\ ~Publishable(published, settled, stepMutations, TRUE)
  => \/ \E u \in Units : published.units[u] = Absent /\ settled.units[u] # Absent
                         /\ settled.units[u].lifecycle_status # "active"
     \/ ~WholeState(settled)

-----------------------------------------------------------------------------
(* Refinement                                                              *)

Life(x) == IF x = Absent THEN "absent" ELSE x.lifecycle_status

Fates == INSTANCE UnitLives
           WITH life <- [u \in Units |-> Life(published.units[u])], credits <- credited

(* Whatever was planned on old snapshots, rolled back, refused and healed  *)
(* meanwhile, the caller sees each unit enter, fall with its one credit and*)
(* leave, in this order and never again.                                   *)
UnitsFollowTheirLives == Fates!Spec
=============================================================================
