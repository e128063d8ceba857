--------------------------- MODULE PhaseMachine ---------------------------
(***************************************************************************)
(* The combat phase machine (systems/phase_machine.py): the twelve phases, *)
(* the transitions it accepts and the phases in which each operation of    *)
(* the scheduler and of the decision boundary is admitted.  A transition   *)
(* that is not listed is a blocked plan; the caller then returns the state *)
(* it was given.                                                           *)
(***************************************************************************)
EXTENDS Integers, Sequences

Phases == {"idle", "timeline_advancing", "turn_begin", "pre_action",
           "awaiting_decision", "action_execution", "post_action", "turn_end",
           "insert_window", "extra_action", "wave_transition", "ended"}

(* LEGAL_TRANSITIONS: the successors each phase may be left for.           *)
LegalTransitions ==
  [p \in Phases |->
     CASE p = "idle" -> {"timeline_advancing", "insert_window", "wave_transition", "ended"}
       [] p = "timeline_advancing" -> {"turn_begin", "wave_transition", "ended"}
       [] p = "turn_begin" -> {"pre_action", "turn_end"}
       [] p = "pre_action" -> {"awaiting_decision", "turn_end"}
       [] p = "awaiting_decision" -> {"action_execution", "insert_window", "ended"}
       [] p = "action_execution" -> {"post_action"}
       [] p = "post_action" -> {"turn_end", "insert_window", "extra_action", "ended"}
       [] p = "insert_window" ->
            {"action_execution", "awaiting_decision", "turn_end", "extra_action", "ended"}
       [] p = "extra_action" ->
            {"action_execution", "post_action", "insert_window", "turn_end", "ended"}
       [] p = "turn_end" -> {"idle", "wave_transition", "ended"}
       [] p = "wave_transition" -> {"idle", "timeline_advancing", "ended"}
       [] p = "ended" -> {}]

(* OPERATION_PHASES, for the operations some caller really guards with     *)
(* operation_blocked_reason.                                               *)
OperationPhases ==
  [advance_timeline            |-> {"idle"},
   query_decision              |-> {"awaiting_decision", "insert_window"},
   query_timeline_actor_choice |-> {"idle"},
   submit_turn_action          |-> {"awaiting_decision"},
   resolve_queue_entry         |-> {"idle", "awaiting_decision", "post_action", "insert_window"}]

(* Faulty variant: the plan's verdict is not looked at.                    *)
MayEnterUnchecked(from, to) == TRUE

(* CombatPhaseMachine.transition: the plan is ok only along a listed edge. *)
MayEnter(from, to) == to \in LegalTransitions[from]

(* Faulty variant: only the last transition of the chain is checked.       *)
LegalPathLastOnly(path) == MayEnter(path[Len(path) - 1], path[Len(path)])

(* A scheduler step that chains several transitions publishes nothing      *)
(* unless every one of them is ok.                                         *)
LegalPath(path) ==
  \A k \in 1..(Len(path) - 1) : MayEnter(path[k], path[k + 1])

(* CombatPhaseMachine.operation_blocked_reason = "".                       *)
Admits(operation, p) == p \in OperationPhases[operation]
=============================================================================
