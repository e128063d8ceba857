------------------------------ MODULE TurnCycle ------------------------------
(***************************************************************************)
(* What the scheduler promises of the regular turns of a battle, without   *)
(* queues, waves or the timeline: a turn is opened for one actor, it is    *)
(* decided or skipped, an action may settle, and the turn is closed before *)
(* anybody else's opens.  The battle is only over between two turns.       *)
(***************************************************************************)
EXTENDS Integers

CONSTANTS Units,    \* units that may take turns
          NoUnit    \* nobody, not one of Units

VARIABLES
  stage,   \* between, deciding, skipping, settling or over
  actor,   \* whose turn is open
  opened,  \* turns opened
  closed   \* turns closed

vars == <<stage, actor, opened, closed>>

TypeOK ==
  /\ stage \in {"between", "deciding", "skipping", "settling", "over"}
  /\ actor \in Units \cup {NoUnit}
  /\ opened \in Nat /\ closed \in Nat

Init == stage = "between" /\ actor = NoUnit /\ opened = 0 /\ closed = 0

(* A turn begins: its actor decides, or is skipped by a control gate.      *)
Open(u) ==
  /\ stage = "between" /\ stage' \in {"deciding", "skipping"}
  /\ actor' = u /\ opened' = opened + 1
  /\ UNCHANGED closed

(* The actor's regular action left work behind: the turn stays open.       *)
Defer ==
  /\ stage = "deciding" /\ stage' = "settling"
  /\ UNCHANGED <<actor, opened, closed>>

Close ==
  /\ stage \in {"deciding", "skipping", "settling"} /\ stage' = "between"
  /\ actor' = NoUnit /\ closed' = closed + 1
  /\ UNCHANGED opened

Finish ==
  /\ stage = "between" /\ stage' = "over"
  /\ UNCHANGED <<actor, opened, closed>>

Next == (\E u \in Units : Open(u)) \/ Defer \/ Close \/ Finish

Spec == Init /\ [][Next]_vars

(* At most one turn is open, and it is open exactly while someone owns it. *)
OneTurnAtATime ==
  /\ opened = closed + (IF actor = NoUnit THEN 0 ELSE 1)
  /\ actor = NoUnit <=> stage \in {"between", "over"}
=============================================================================
