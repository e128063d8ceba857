--------------------------- MODULE TurnScheduler ---------------------------
(***************************************************************************)
(* The turn scheduler (systems/scheduler.py) behind the decision boundary  *)
(* (systems/decision.py).  One action is one public call that returns a    *)
(* successor state: CombatScheduler.step without a command, DecisionSystem *)
(* .submit with an accepted choice, or enqueue_manual_ultimate.  A blocked *)
(* call returns the state it was given and is a stuttering step.  The      *)
(* phases entered and left inside one call are checked with LegalPath and  *)
(* never observed at rest.                                                 *)
(***************************************************************************)
EXTENDS BattleField, PhaseMachine

CONSTANTS MaxTurns   \* bound: regular turns begun in one behaviour

ASSUME MaxTurnsAssumption == MaxTurns \in Nat

VARIABLES
  phase,       \* global_flags.combat_phase
  window,      \* global_flags.current_window
  owner,       \* global_flags.turn_owner_id
  activeTurn,  \* actor of global_flags.active_turn
  pending,     \* actor of global_flags.pending_turn_end
  turnIndex,   \* global_flags.turn_sequence_index
  wave,        \* wave_runtime: current_wave_index and status
  outcome,     \* global_flags.battle_outcome
  field,       \* the rest of the state: see BattleField
  acted,       \* history: regular actions submitted
  ticks        \* history: status lifecycle ticks, by life step moment

vars == <<phase, window, owner, activeTurn, pending, turnIndex, wave, outcome, field, acted, ticks>>

Moments == {"ModifierPhase1End", "ActionPhaseEnd", "TurnEnd"}
RestPhases == {"idle", "awaiting_decision", "post_action", "turn_end", "ended"}
Actors == Units \cup {NoUnit}

TypeOK ==
  /\ phase \in RestPhases
  /\ window \in {"idle", "turn_begin", "turn_active", "action", "battle_end"}
  /\ owner \in Actors /\ activeTurn \in Actors /\ pending \in Actors
  /\ turnIndex \in Nat /\ acted \in Nat
  /\ wave \in [index : DOMAIN Waves, started : BOOLEAN]
  /\ outcome \in {"none", "victory", "defeat"}
  /\ field \in Fields
  /\ ticks \in [Moments -> Nat]

(* The state build_state assembles: first wave on the field, waiting for   *)
(* its start, the timeline initialised, nothing queued.                    *)
InitialField ==
  [life    |-> [u \in Units |-> IF u \in Allies \cup Waves[1] THEN "active" ELSE "absent"],
   av      |-> Gauge,
   control |-> [u \in Units |-> FALSE],
   energy  |-> [u \in Units |-> u \in Allies],
   queues  |-> [q \in QueueNames |-> <<>>],
   budget  |-> MaxEffects]

Init ==
  /\ phase = "idle" /\ window = "idle"
  /\ owner = NoUnit /\ activeTurn = NoUnit /\ pending = NoUnit
  /\ turnIndex = 0 /\ acted = 0
  /\ wave = [index |-> 1, started |-> FALSE]
  /\ outcome = "none"
  /\ field = InitialField
  /\ ticks = [m \in Moments |-> 0]

-----------------------------------------------------------------------------
(* What the step and the decision query read                               *)

Ended == outcome # "none"
CurrentWavePlan == WavePlan(field, wave.index, wave.started)
WaveDue == CurrentWavePlan \in {"start_current_wave", "battle_defeat",
                                "battle_victory", "advance_to_next_wave"}

(* step reaches its queue drain, and the phase admits resolve_queue_entry. *)
QueueOpen == ~Ended /\ Admits("resolve_queue_entry", phase)

(* step reaches the deferred turn end, the wave and the timeline in this   *)
(* order, each only when what precedes it has nothing to do.               *)
PastQueue == ~Ended /\ phase # "turn_end" /\ QueuesEmpty(field)
PastPending == PastQueue /\ pending = NoUnit
PastWave == PastPending /\ CurrentWavePlan = "no_change"

(* ActionAvailabilitySystem.view in mode timeline_actor_selectable: a wave *)
(* that is only waiting for its start does not hide the choice.            *)
TieOffered ==
  /\ PastPending /\ Admits("query_timeline_actor_choice", phase)
  /\ CurrentWavePlan \in {"no_change", "start_current_wave"}
  /\ owner = NoUnit /\ TieUnresolved(field)

(* mode external_selectable: the contract wants the turn owner, able to    *)
(* act, in a window its turn actions are admitted in.                      *)
TurnOffered ==
  /\ PastPending /\ Admits("query_decision", phase)
  /\ CurrentWavePlan \in {"no_change", "start_current_wave"}
  /\ owner # NoUnit /\ CanAct(field, owner) /\ ~field.control[owner]
  /\ window \in {"idle", "turn_active"}

(* mode queued_selectable with a choice the controller may submit.         *)
UltimateOffered(p) ==
  /\ QueueOpen /\ Admits("query_decision", phase)
  /\ p \in Selected(field) /\ ChoiceFor(field, EntryAt(field, p))

Tick(moments) == ticks' = [m \in Moments |-> ticks[m] + (IF m \in moments THEN 1 ELSE 0)]

-----------------------------------------------------------------------------
(* Regular turns                                                           *)

(* advance_to_next_turn once the actor is known: the timeline advances, the*)
(* turn opens, turn.begin is dispatched and ModifierPhase1End ticks; then a*)
(* controlled actor is sent to the turn end and any other one, whatever the*)
(* settlement did to it, gets a decision window.                           *)
OpenTurn(u) ==
  /\ LegalPath(<<phase, "timeline_advancing", "turn_begin", "pre_action">>)
  /\ turnIndex < MaxTurns
  /\ field' \in Settle(Advanced(field, u))
  /\ IF field'.control[u]
     THEN MayEnter("pre_action", "turn_end") /\ phase' = "turn_end" /\ window' = "turn_begin"
     ELSE /\ MayEnter("pre_action", "awaiting_decision")
          /\ phase' = "awaiting_decision" /\ window' = "turn_active"
  /\ owner' = u /\ activeTurn' = u /\ turnIndex' = turnIndex + 1
  /\ Tick({"ModifierPhase1End"})
  /\ UNCHANGED <<pending, wave, outcome, acted>>

(* step(None) with nothing else to do and no owner.                        *)
BeginTurn ==
  /\ PastWave /\ owner = NoUnit /\ Admits("advance_timeline", phase)
  /\ \E u \in NextActors(field) : OpenTurn(u)

(* submit of a timeline tie choice: step goes straight to the timeline.    *)
ChooseTiedActor ==
  /\ TieOffered /\ Admits("advance_timeline", phase)
  /\ \E u \in Leading(field) : OpenTurn(u)

(* Faulty variant: the active turn is not deleted.                         *)
CloseTurnKeepingActor(w) ==
  /\ field' = TurnReset(w, activeTurn)
  /\ phase' = "idle" /\ window' = "idle"
  /\ owner' = NoUnit /\ UNCHANGED activeTurn

(* timeline.end_turn and the return to idle, at the end of end_current_turn.*)
CloseTurn(w) ==
  /\ field' = TurnReset(w, activeTurn)
  /\ phase' = "idle" /\ window' = "idle"
  /\ owner' = NoUnit /\ activeTurn' = NoUnit

(* Faulty variant: the action's own phase end already ticks.               *)
DeferTurnEndTicking(w) ==
  /\ field' = w
  /\ phase' = "post_action" /\ window' = "action"
  /\ pending' = owner
  /\ Tick({"ActionPhaseEnd"})
  /\ UNCHANGED <<owner, activeTurn>>

(* With entries in any queue the turn end is deferred.                     *)
DeferTurnEnd(w) ==
  /\ field' = w
  /\ phase' = "post_action" /\ window' = "action"
  /\ pending' = owner
  /\ UNCHANGED <<owner, activeTurn, ticks>>

(* Otherwise ActionPhaseEnd and TurnEnd tick and the turn is closed in the *)
(* step of the action.                                                     *)
FinishTurn(w) ==
  /\ LegalPath(<<"post_action", "turn_end", "idle">>)
  /\ \E w2 \in Settle(w) : CloseTurn(w2)
  /\ Tick({"ActionPhaseEnd", "TurnEnd"})
  /\ UNCHANGED pending

(* submit of an offered turn action.                                       *)
SubmitAction ==
  /\ TurnOffered /\ PastWave /\ Admits("submit_turn_action", phase)
  /\ LegalPath(<<phase, "action_execution", "post_action">>)
  /\ acted' = acted + 1
  /\ \E w \in Settle(field) : IF QueuesEmpty(w) THEN FinishTurn(w) ELSE DeferTurnEnd(w)
  /\ UNCHANGED <<turnIndex, wave, outcome>>

(* _complete_pending_turn_end, once every queue is drained.                *)
CompletePendingTurnEnd ==
  /\ PastQueue /\ pending # NoUnit
  /\ activeTurn # NoUnit /\ LegalPath(<<phase, "turn_end", "idle">>)
  /\ \E w \in Settle(field) : CloseTurn(w)
  /\ pending' = NoUnit
  /\ Tick({"ActionPhaseEnd", "TurnEnd"})
  /\ UNCHANGED <<turnIndex, wave, outcome, acted>>

(* end_current_turn of a turn skipped by control, before any queue entry.  *)
EndSkippedTurn ==
  /\ ~Ended /\ phase = "turn_end" /\ MayEnter(phase, "idle")
  /\ activeTurn # NoUnit
  /\ \E w \in Settle(field) : CloseTurn(w)
  /\ Tick({"TurnEnd"})
  /\ UNCHANGED <<pending, turnIndex, wave, outcome, acted>>

-----------------------------------------------------------------------------
(* Queue entries                                                           *)

(* Faulty variant: the acting unit takes over and the window stays.        *)
ActionOpenedInTurn(u) == owner' = u /\ UNCHANGED window

(* timeline.open_action: whoever acts becomes the turn owner.              *)
ActionOpenedBy(u) == owner' = u /\ window' = "action"

(* _try_queue_drain of an entry that needs no command.                     *)
DrainMandatory ==
  /\ QueueOpen
  /\ \E p \in Selected(field) :
       LET e == EntryAt(field, p) IN
       /\ PlanOk(field, e) /\ ~IsSelectable(e)
       /\ e.family = "insert_action" => ~field.control[e.actor]
       /\ field' \in Settle(Dequeued(field, p))
       /\ IF e.family = "insert_action" THEN ActionOpenedBy(e.actor)
                                        ELSE UNCHANGED <<owner, window>>
  /\ UNCHANGED <<phase, activeTurn, pending, turnIndex, wave, outcome, acted, ticks>>

(* _try_queue_drain with the accepted command of an ultimate window; the   *)
(* energy is set to the action's base gain after the settlement.           *)
SubmitUltimate ==
  /\ \E p \in Queued(field) :
       /\ UltimateOffered(p)
       /\ LET u == EntryAt(field, p).actor IN
          /\ \E w \in Settle(Dequeued(field, p)) : field' = [w EXCEPT !.energy[u] = FALSE]
          /\ ActionOpenedBy(u)
  /\ UNCHANGED <<phase, activeTurn, pending, turnIndex, wave, outcome, acted, ticks>>

(* Faulty variant: terminalizing an entry also clears the deferred end.    *)
DropEntryAndPending(p) ==
  /\ field' = Dequeued(field, p) /\ pending' = NoUnit
  /\ UNCHANGED <<phase, window, owner, activeTurn, turnIndex, wave, outcome, acted, ticks>>

(* _terminalize_queue_entry: the plan is blocked, or the preflight or the  *)
(* child transition refuses the entry (targets, resources, control gate);  *)
(* the entry leaves its queue and nothing else of the child is published.  *)
DropEntry(p) ==
  /\ field' = Dequeued(field, p)
  /\ UNCHANGED <<phase, window, owner, activeTurn, pending, turnIndex, wave, outcome, acted, ticks>>

TerminalizeEntry ==
  /\ QueueOpen
  /\ \E p \in Selected(field) :
       /\ IsSelectable(EntryAt(field, p)) => ~PlanOk(field, EntryAt(field, p))
       /\ DropEntry(p)

RefuseUltimate == \E p \in Queued(field) : UltimateOffered(p) /\ DropEntry(p)

(* enqueue_manual_ultimate: only the actor and its energy are examined.    *)
RequestUltimate ==
  /\ \E u \in Allies :
       LET e == [actor |-> u, family |-> "ultimate"] IN
       /\ CanAct(field, u) /\ field.energy[u]
       /\ HasRoom(field, e) /\ field.budget > 0
       /\ field' = [Enqueued(field, e) EXCEPT !.budget = @ - 1]
  /\ UNCHANGED <<phase, window, owner, activeTurn, pending, turnIndex, wave, outcome, acted, ticks>>

-----------------------------------------------------------------------------
(* Waves: _try_wave_transition enters and leaves wave_transition in a step *)

WaveStep(plan, exit) ==
  /\ PastPending /\ CurrentWavePlan = plan
  /\ LegalPath(<<phase, "wave_transition", exit>>)
  /\ phase' = exit
  /\ UNCHANGED <<owner, activeTurn, pending, turnIndex, acted, ticks>>

StartWave ==
  /\ WaveStep("start_current_wave", "idle")
  /\ wave' = [wave EXCEPT !.started = TRUE]
  /\ field' \in Settle(field)
  /\ UNCHANGED <<window, outcome>>

(* The commit refuses a transition that defeats an enemy it has spawned:   *)
(* see Change in UnitMutations.                                            *)
AdvanceWave ==
  /\ WaveStep("advance_to_next_wave", "idle")
  /\ wave' = [wave EXCEPT !.index = @ + 1]
  /\ field' \in Settle(WaveSpawned(WaveRemoved(field, wave.index), wave.index + 1))
  /\ \A u \in Waves[wave.index + 1] : CanAct(field', u)
  /\ UNCHANGED <<window, outcome>>

WinBattle ==
  /\ WaveStep("battle_victory", "ended")
  /\ outcome' = "victory" /\ window' = "battle_end"
  /\ field' \in Settle(WaveRemoved(field, wave.index))
  /\ UNCHANGED wave

LoseBattle ==
  /\ WaveStep("battle_defeat", "ended")
  /\ outcome' = "defeat" /\ window' = "battle_end"
  /\ field' \in Settle(field)
  /\ UNCHANGED wave

-----------------------------------------------------------------------------
(* step(None), which DecisionSystem.advance_to_decision repeats by itself. *)
InternalStep ==
  \/ BeginTurn \/ CompletePendingTurnEnd \/ EndSkippedTurn
  \/ DrainMandatory \/ TerminalizeEntry
  \/ StartWave \/ AdvanceWave \/ WinBattle \/ LoseBattle

(* The calls an external controller may make.                              *)
ControllerStep ==
  \/ ChooseTiedActor \/ SubmitAction
  \/ SubmitUltimate \/ RefuseUltimate \/ RequestUltimate

Next == InternalStep \/ ControllerStep

Spec == Init /\ [][Next]_vars
FairSpec == Spec /\ WF_vars(InternalStep)

-----------------------------------------------------------------------------
(* Safety                                                                  *)

(* A turn is open exactly in the three phases in which some later call is  *)
(* bound to end it; a deferred end is recorded exactly in post_action and  *)
(* names the actor whose turn is open, whoever acted in the meantime.      *)
OpenTurnMatchesPhase ==
  /\ activeTurn # NoUnit <=> phase \in {"awaiting_decision", "post_action", "turn_end"}
  /\ pending # NoUnit <=> phase = "post_action"
  /\ pending # NoUnit => pending = activeTurn

(* A window that admits turn actions while a turn is open belongs to the   *)
(* actor of that turn: an inserted action, which takes turn_owner_id over, *)
(* can never submit a second regular action in its name.                   *)
DecisionBelongsToTurn ==
  phase = "awaiting_decision" /\ window = "turn_active" => owner = activeTurn

(* Every begun turn ticks ModifierPhase1End once and TurnEnd once when it  *)
(* closes, and every regular action ticks ActionPhaseEnd once, deferred or *)
(* not: durations are never counted down twice or skipped.                 *)
LifecycleTickedOnce ==
  /\ ticks["ModifierPhase1End"] = turnIndex
  /\ ticks["TurnEnd"] = turnIndex - (IF activeTurn = NoUnit THEN 0 ELSE 1)
  /\ ticks["ActionPhaseEnd"] = acted - (IF pending = NoUnit THEN 0 ELSE 1)

(* Enemies on the field belong to the current wave, those of later waves   *)
(* have not been spawned, and the earlier ones are removed; a victory is   *)
(* decided in the last wave, and no enemy is left standing behind it.      *)
WavesInOrder ==
  /\ outcome = "victory" =>
       wave.index = Len(Waves) /\ \A u \in Enemies : field.life[u] = "removed"
  /\ \A i \in DOMAIN Waves : \A u \in Waves[i] :
       /\ i < wave.index => field.life[u] = "removed"
       /\ i > wave.index => field.life[u] = "absent"
       /\ i = wave.index => field.life[u] # "absent"

(* A call that neither ends the battle nor offers the controller a choice  *)
(* it would accept, nor takes a step of its own, has one of these causes.  *)
InternalStepApplies ==
  /\ ~Ended
  /\ \/ phase = "turn_end"
     \/ \E p \in Selected(field) :
          IsSelectable(EntryAt(field, p)) => ~PlanOk(field, EntryAt(field, p))
     \/ QueuesEmpty(field) /\ pending # NoUnit
     \/ PastPending /\ WaveDue /\ MayEnter(phase, "wave_transition")
     \/ PastWave /\ owner = NoUnit /\ phase = "idle" /\ NextActors(field) # {}

DecisionAccepted ==
  \/ TieOffered
  \/ TurnOffered /\ PastWave
  \/ \E p \in Queued(field) : UltimateOffered(p)

Stalled == ~Ended /\ ~InternalStepApplies /\ ~DecisionAccepted

SelectableOutsideDecision ==
  \E p \in Selected(field) :
    IsSelectable(EntryAt(field, p)) /\ ~Admits("query_decision", phase)
SelectableWithoutChoice ==
  \E p \in Selected(field) :
    IsSelectable(EntryAt(field, p)) /\ ~ChoiceFor(field, EntryAt(field, p))
WaveDueDuringTurn == PastPending /\ WaveDue /\ phase = "awaiting_decision"
ActorLostDuringDecision ==
  phase = "awaiting_decision" /\ (~CanAct(field, owner) \/ field.control[owner])
InsertedActionTookDecision == phase = "awaiting_decision" /\ window = "action"
InsertedActionTookIdle == phase = "idle" /\ owner # NoUnit

(* The ways a battle can stop without ending are exactly the six above: a  *)
(* selectable entry met outside a decision or with no admissible choice, a *)
(* wave transition due while a decision is open, a turn actor lost before  *)
(* its decision, and turn_owner_id left behind by an inserted action.      *)
StallsAreDiagnosed ==
  Stalled =>
    \/ SelectableOutsideDecision \/ SelectableWithoutChoice
    \/ WaveDueDuringTurn \/ ActorLostDuringDecision
    \/ InsertedActionTookDecision \/ InsertedActionTookIdle

-----------------------------------------------------------------------------
(* Action properties                                                       *)

(* A regular turn begins only when no queue entry, no deferred turn end    *)
(* and no other turn is left, for a unit that can act and that no unit     *)
(* that can act precedes on the timeline.                                  *)
TurnBeginsInOrder ==
  [][turnIndex' # turnIndex =>
       /\ QueuesEmpty(field) /\ pending = NoUnit /\ activeTurn = NoUnit
       /\ CanAct(field, activeTurn')
       /\ \A u \in Units : CanAct(field, u) => field.av[activeTurn'] <= field.av[u]]_vars

(* Queued work runs inside the turn that is open: draining, refusing or    *)
(* requesting an entry never begins, ends or completes a regular turn.     *)
QueueKeepsTurn ==
  [][(\E q \in QueueNames : Len(field'.queues[q]) < Len(field.queues[q])) =>
       /\ UNCHANGED <<phase, activeTurn, pending, turnIndex, ticks>>
       /\ wave' = wave /\ outcome' = outcome]_vars

(* Waves and the outcome move only between turns with every queue drained, *)
(* one wave at a time and only forward, and no turn begins after the end.  *)
BattleOnlyProgresses ==
  [][/\ wave' # wave \/ outcome' # outcome =>
          activeTurn = NoUnit /\ pending = NoUnit /\ QueuesEmpty(field)
     /\ wave'.index \in {wave.index, wave.index + 1}
     /\ Ended => outcome' = outcome /\ wave' = wave /\ turnIndex' = turnIndex]_vars

-----------------------------------------------------------------------------
(* Refinement                                                              *)

Stage ==
  CASE phase = "idle" -> "between"
    [] phase = "awaiting_decision" -> "deciding"
    [] phase = "turn_end" -> "skipping"
    [] phase = "post_action" -> "settling"
    [] phase = "ended" -> "over"

Cycle == INSTANCE TurnCycle
           WITH stage <- Stage, actor <- activeTurn, opened <- turnIndex, closed <- ticks["TurnEnd"]

(* Whatever queue entries, waves and inserted actions do in between, the   *)
(* scheduler opens and closes regular turns one at a time, and the battle  *)
(* is decided between two of them.                                         *)
TurnsFollowTheCycle == Cycle!Spec

-----------------------------------------------------------------------------
(* Liveness                                                                *)

(* While internal steps apply, repeating step(None) reaches a decision the *)
(* controller can take, the end of the battle, or a diagnosed stall.       *)
ReachesDecision ==
  InternalStepApplies ~>
    (DecisionAccepted \/ Ended \/ Stalled \/ turnIndex = MaxTurns)

(* A deferred turn end is completed, by draining every entry that was ever *)
(* queued behind it, unless a selectable entry is met outside a decision.  *)
DeferredTurnEnds == pending # NoUnit ~> (pending = NoUnit \/ SelectableOutsideDecision)
=============================================================================
