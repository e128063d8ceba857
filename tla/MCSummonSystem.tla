--------------------------- MODULE MCSummonSystem ---------------------------
(* Two characters, one of them with two servants, and a monster that summons. *)
EXTENDS SummonSystem, TLC
CONSTANTS c1, c2, m1, d1, d2

MCOwners == {c1, c2, m1}
MCServants == {d1, d2}
MCOwnerOf == (d1 :> c1) @@ (d2 :> c1)
MCSummoners == {m1}
MCQueues == {"insert"}
=============================================================================
