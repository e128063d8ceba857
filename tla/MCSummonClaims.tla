--------------------------- MODULE MCSummonClaims ---------------------------
(* What the documents of the repository say of summons and the code does    *)
(* not do.                                                                  *)
EXTENDS MCSummonSystem

(* P3_SUMMON_ASSISTANT_SERVANT_COMPLETE_TASK_PLAN.md:361: after a removal   *)
(* the timeline and the pending queues agree with the registry; so the turn *)
(* of a summon that is removed while it acts is closed like any other, as   *)
(* v8_p7_s8_decision_query_submit_loop_ready_for_review.md:14 has every     *)
(* turn end delete turn_owner_id and active_turn.                           *)
TurnsClose == battle.activeTurn # NoUnit ~> battle.activeTurn = NoUnit
=============================================================================
