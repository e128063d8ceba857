------------------------------ MODULE UnitLives ------------------------------
(***************************************************************************)
(* What the caller of a battle is promised of the lives of its units,      *)
(* without graphs, mutations or candidates: a unit enters at most once,    *)
(* falls at most once and is credited in the very call in which it falls,  *)
(* leaves, and nothing brings it back.  One call may move many units.      *)
(***************************************************************************)
EXTENDS Integers

CONSTANTS Units   \* units of the battle, also those that have not entered

VARIABLES
  life,    \* unit -> absent, active, defeated or removed
  credits  \* unit -> how often its defeat was credited

vars == <<life, credits>>

TypeOK ==
  /\ life \in [Units -> {"absent", "active", "defeated", "removed"}]
  /\ credits \in [Units -> Nat]

Init == life \in [Units -> {"absent", "active"}] /\ credits = [u \in Units |-> 0]

Moves(u, from, to) == life[u] = from /\ life'[u] = to
Credited(u) == credits[u] = 0 /\ credits'[u] = 1

Stays(u) == life'[u] = life[u] /\ credits'[u] = credits[u]
Enters(u) == Moves(u, "absent", "active") /\ credits'[u] = credits[u]
Falls(u) == Moves(u, "active", "defeated") /\ Credited(u)

(* A unit is removed as it stands, or falls and is removed in one call.    *)
Leaves(u) ==
  /\ Moves(u, "active", "removed") \/ Moves(u, "defeated", "removed")
  /\ credits'[u] = credits[u] \/ (life[u] = "active" /\ Credited(u))

Call ==
  /\ life' \in [Units -> {"absent", "active", "defeated", "removed"}]
  /\ credits' \in [Units -> Nat]
  /\ \A u \in Units : Stays(u) \/ Enters(u) \/ Falls(u) \/ Leaves(u)

Spec == Init /\ [][Call]_vars

(* A defeat that was not undone was credited, and none twice.              *)
FallenAreCredited ==
  \A u \in Units :
    /\ life[u] \in {"absent", "active"} => credits[u] = 0
    /\ life[u] = "defeated" => credits[u] = 1
    /\ credits[u] <= 1
=============================================================================
