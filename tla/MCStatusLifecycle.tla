------------------------- MODULE MCStatusLifecycle -------------------------
(***************************************************************************)
(* Three modifiers on one unit: a stacking and refreshing burn, with an    *)
(* effect that takes layers away and carries no max_layer; a mark that     *)
(* either of two sources replaces; and a permanent aura under no policy,   *)
(* which two sources offer.                                                *)
(***************************************************************************)
EXTENDS StatusLifecycle

CONSTANTS burn, cool, markA, markB, auraA, auraB, Burn, Mark, Aura

MCEffects == {burn, cool, markA, markB, auraA, auraB}
MCModifiers == {Burn, Mark, Aura}

MCModifier ==
  [e \in MCEffects |-> CASE e \in {burn, cool} -> Burn
                        [] e \in {markA, markB} -> Mark [] OTHER -> Aura]
MCSource == [e \in MCEffects |-> IF e \in {markB, auraB} THEN 2 ELSE 1]
MCDuration == [e \in MCEffects |-> IF e \in {auraA, auraB} THEN 0 ELSE 2]
MCMaxLayer == [e \in MCEffects |-> IF e = burn THEN 4 ELSE 0]
MCLayerDelta == [e \in MCEffects |-> CASE e = burn -> 2 [] e = cool -> -2 [] OTHER -> 0]
MCLifeStep == [m \in MCModifiers |-> IF m = Aura THEN "TurnEnd" ELSE "ModifierPhase1End"]
=============================================================================
