---------------------------- MODULE MCHitClaims ----------------------------
(* What the project's documents say of the settlement of damage.            *)
EXTENDS MCHitSettlement

(* "only the damage packet that changes a target from positive HP to 0      *)
(* receives unit.defeated credit" (live_validation_reports/                 *)
(* v8_kill_attribution_extra_turn_checkpoint_v0_255.md:15): once every      *)
(* event of a step has been dispatched, every defeated unit's defeat has    *)
(* been announced, whatever packet it fell to.                              *)
DefeatsAreCredited ==
  due = <<>> => \A u \in Units : ~ Living(u) => told[u] = 1
=============================================================================
