--------------------------- MODULE UnitMutations ---------------------------
(***************************************************************************)
(* What may be written to a BattleState and what may be published:         *)
(* MutationReducer applies a list of mutations, each against the value it  *)
(* declares to find, and CommittedStateIntegrityGate examines the units    *)
(* the list touches.                                                       *)
(*                                                                         *)
(* A state s is a record                                                   *)
(*   s.units[u]  the lifecycle fields of unit u, or Absent                 *)
(*   s.other     everything the integrity gate does not look at: phase,    *)
(*               queues, cursors, action values                            *)
(* A record flag is modelled by its presence: what it says is audit data.  *)
(***************************************************************************)
EXTENDS Integers, Sequences, SequencesExt, FiniteSets

CONSTANTS
  Units,   \* every unit that is or may be on the field
  MaxHp,   \* unit -> max_hp, which no system writes
  Absent,  \* the unit is not in state.units
  NoUnit   \* unit component of a path outside units

ASSUME UnitsAssumption ==
  /\ MaxHp \in [Units -> Nat \ {0}]
  /\ NoUnit \notin Units

UnitFields == {"hp", "lifecycle_status", "defeat_record", "removed_record"}
UnitStates ==
  [hp : Nat, lifecycle_status : {"active", "defeated", "removed"},
   defeat_record : BOOLEAN, removed_record : BOOLEAN]

\* Absent is no unit.
ASSUME AbsentAssumption == Absent \notin UnitStates

States == [units : [Units -> UnitStates \cup {Absent}], other : BOOLEAN]

Newborn(u) ==
  [hp |-> MaxHp[u], lifecycle_status |-> "active",
   defeat_record |-> FALSE, removed_record |-> FALSE]

-----------------------------------------------------------------------------
(* MutationReducer                                                         *)

(* The field "unit" is the root path ("units", u).                         *)
Mutation(u, f, old, new) == [unit |-> u, field |-> f, before |-> old, after |-> new]

Read(s, m) ==
  CASE m.field = "other" -> s.other
    [] m.field = "unit"  -> s.units[m.unit]
    [] OTHER             -> s.units[m.unit][m.field]

Write(s, m) ==
  CASE m.field = "other" -> [s EXCEPT !.other = m.after]
    [] m.field = "unit"  -> [s EXCEPT !.units[m.unit] = m.after]
    [] OTHER             -> [s EXCEPT !.units[m.unit] = [@ EXCEPT ![m.field] = m.after]]

(* _apply_checked: the path exists as declared and still holds the declared*)
(* value; a unit is written as a whole only by the spawn that creates it.  *)
Accepts(s, m) ==
  /\ m.field \in UnitFields => s.units[m.unit] # Absent
  /\ m.field = "unit" => m.before = Absent
  /\ Read(s, m) = m.before

(* One more mutation; the result of a list with a conflict is the state s  *)
(* it began with.                                                          *)
ReducedOn(s, r, m) ==
  IF r.ok /\ Accepts(r.state, m) THEN [ok |-> TRUE, state |-> Write(r.state, m)]
                                 ELSE [ok |-> FALSE, state |-> s]

(* apply_all_result: all mutations in order, or a conflict.                *)
Reduce(s, ms) ==
  LET reduced[n \in 0..Len(ms)] ==
        IF n = 0 THEN [ok |-> TRUE, state |-> s]
        ELSE ReducedOn(s, reduced[n - 1], ms[n])
  IN  reduced[Len(ms)]

(* The list ms takes state s to state t.                                   *)
Explains(ms, s, t) == Reduce(s, ms) = [ok |-> TRUE, state |-> t]

-----------------------------------------------------------------------------
(* CommittedStateIntegrityGate                                             *)

(* Faulty variant: a path to the hit points selects no unit.               *)
TouchedWithoutHp(ms) == {ms[i].unit : i \in {j \in DOMAIN ms : ms[j].field # "hp"}} \ {NoUnit}

(* check_touched selects units by the paths of the mutations only.         *)
Touched(ms) == {ms[i].unit : i \in DOMAIN ms} \ {NoUnit}
TouchedFields(ms, u) == {ms[i].field : i \in {j \in DOMAIN ms : ms[j].unit = u}}

(* _path_was_touched.                                                      *)
Covers(ms, u, required) == "unit" \in TouchedFields(ms, u) \/ required \subseteq TouchedFields(ms, u)

(* _lifecycle_final_state_issues finds nothing.                            *)
Whole(u, x) ==
  /\ x.hp <= MaxHp[u]
  /\ x.lifecycle_status = "active" => x.hp > 0 /\ ~x.defeat_record /\ ~x.removed_record
  /\ x.lifecycle_status = "defeated" => x.hp = 0 /\ x.defeat_record /\ ~x.removed_record
  /\ x.lifecycle_status = "removed" => x.removed_record

(* Faulty variant: a unit must be defeated before it is removed.           *)
ChangeViaDefeat(ms, u, x, y) ==
  \/ x = Absent /\ y = Absent
  \/ x = Absent /\ y # Absent /\ y.lifecycle_status = "active" /\ "unit" \in TouchedFields(ms, u)
  \/ x # Absent /\ y # Absent /\ x.lifecycle_status = y.lifecycle_status
  \/ /\ x # Absent /\ y # Absent
     /\ x.lifecycle_status = "active" /\ y.lifecycle_status = "defeated"
     /\ Covers(ms, u, {"hp", "lifecycle_status", "defeat_record"})
  \/ /\ x # Absent /\ y # Absent
     /\ x.lifecycle_status = "defeated" /\ y.lifecycle_status = "removed"
     /\ Covers(ms, u, {"lifecycle_status", "removed_record"})

(* _lifecycle_transition_issues finds nothing: the life of a unit is       *)
(* compared between the two ends of the list, not along it.                *)
Change(ms, u, x, y) ==
  \/ x = Absent /\ y = Absent
  \/ x = Absent /\ y # Absent /\ y.lifecycle_status = "active" /\ "unit" \in TouchedFields(ms, u)
  \/ x # Absent /\ y # Absent /\ x.lifecycle_status = y.lifecycle_status
  \/ /\ x # Absent /\ y # Absent
     /\ x.lifecycle_status = "active" /\ y.lifecycle_status = "defeated"
     /\ Covers(ms, u, {"hp", "lifecycle_status", "defeat_record"})
  \/ /\ x # Absent /\ y # Absent
     /\ x.lifecycle_status \in {"active", "defeated"} /\ y.lifecycle_status = "removed"
     /\ Covers(ms, u, {"lifecycle_status", "removed_record"})

IntegrityPassed(s, t, ms) ==
  \A u \in Touched(ms) :
    /\ t.units[u] # Absent => Whole(u, t.units[u])
    /\ Change(ms, u, s.units[u], t.units[u])

-----------------------------------------------------------------------------
(* finalize_selected_execution_graph                                       *)

(* The candidate is published when every node of the graph is complete, the*)
(* reducer arrives at it again from the planned mutations, and the units   *)
(* they touch pass the gate; otherwise the state it started from stays.    *)
Publishable(s, candidate, ms, complete) ==
  /\ complete
  /\ Explains(ms, s, candidate)
  /\ IntegrityPassed(s, candidate, ms)

WholeState(s) == \A u \in Units : s.units[u] # Absent => Whole(u, s.units[u])
=============================================================================
