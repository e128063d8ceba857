-------------------------- MODULE MCTurnScheduler --------------------------
(* A small battle: two allies, two waves of one enemy, and listeners that  *)
(* may queue each kind of entry the lowering admits.                       *)
EXTENDS TurnScheduler

CONSTANTS a1, a2, e1, e2

MCAllies == {a1, a2}
MCEnemies == {e1, e2}
MCWaves == <<{e1}, {e2}>>
MCGauge == (a1 :> 1) @@ (a2 :> 2) @@ (e1 :> 2) @@ (e2 :> 1)
MCTiePriority == (a1 :> 1) @@ (a2 :> 2) @@ (e1 :> 3) @@ (e2 :> NoPriority)
MCEntryPriority ==
  [ultimate |-> 0, extra_turn |-> 1, insert_action |-> 0, insert_ability |-> 0]
MCInserts == {[actor |-> a2, family |-> "insert_action"],
              [actor |-> a1, family |-> "insert_ability"],
              [actor |-> a2, family |-> "extra_turn"]}
=============================================================================
