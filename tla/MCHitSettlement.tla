-------------------------- MODULE MCHitSettlement --------------------------
(* HitSettlement on two units and two shield sources.                       *)
EXTENDS HitSettlement

CONSTANTS e1, e2

MCUnits == {e1, e2}
MCMaxToughness == (e1 :> 2 @@ e2 :> 1)
MCSources == {1, 2}
MCPriority == (1 :> 0 @@ 2 :> 1)
MCAbsorbs == (1 :> {"direct", "break", "dot"} @@ 2 :> {"direct"})
MCAmounts == {1, 2}
MCBreakAmounts == {0, 2}
MCListenerFamilies == {"dot", "hp_loss"}
MCLocked == {e2}
HitOn(u, stance) == [to |-> u, hurts |-> TRUE, aims |-> stance # 0,
                     stance |-> stance, breaks |-> TRUE]
AimAt(u, stance, breaks) == [to |-> u, hurts |-> FALSE, aims |-> TRUE,
                             stance |-> stance, breaks |-> breaks]
(* A blast that hits a unit again after breaking it, the other being locked; *)
(* one with a toughness plan left over after its hit; and one whose element  *)
(* has no break template, before another that has.                           *)
MCPlans == {<<HitOn(e1, 2), HitOn(e2, 1), HitOn(e1, 0)>>,
            <<HitOn(e1, 0), AimAt(e1, 1, TRUE)>>,
            <<AimAt(e1, 2, FALSE), AimAt(e1, 1, TRUE)>>}
=============================================================================
