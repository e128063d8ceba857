------------------------- MODULE MCCommitBoundary -------------------------
(* A hero of three hit points, a foe of one and a pet that has not entered.  *)
EXTENDS CommitBoundary

CONSTANTS hero, foe, pet

MCUnits == {hero, foe, pet}
MCMaxHp == (hero :> 3) @@ (foe :> 1) @@ (pet :> 1)
MCInitialUnits == (hero :> Newborn(hero)) @@ (foe :> Newborn(foe)) @@ (pet :> Absent)
=============================================================================
