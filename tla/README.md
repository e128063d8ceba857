# Verification of the clean core battle simulator

This directory verifies `src/hsr_v075_baseline_clean/hsr/simulator_v8_clean_core`
(below: the core; paths without a directory are under its `systems/`). The core
advances a turn based battle one call at a time. Each call takes an immutable
`BattleState` and returns either a successor state or the same state with a
reason for the refusal. There are no threads: what is hard is the ORDER of
calls and of the settlements they trigger, the phase guards that decide which
call is admitted where, and the data (turn owner, open turn, deferred turn end,
queues, wave) that several calls relate without one of them owning it.

## 1. Inventory

| component | state it keeps | operations | what makes it correct |
|---|---|---|---|
| phase machine (`phase_machine.py`) | `combat_phase` | `transition`, `operation_blocked_reason` | only listed edges are taken, only admitted operations run |
| turn scheduler (`scheduler.py`) | `turn_owner_id`, `active_turn`, `pending_turn_end`, `turn_sequence_index`, `current_window` | `step`, `advance_to_next_turn`, `end_current_turn`, `enqueue_manual_ultimate`, queue drain, wave transition | one regular turn at a time, each closed once, statuses ticked once, no stall |
| timeline (`timeline.py`) | action values, speeds | `plan_next_actor`, `advance_to_next_actor`, `begin_turn`, `end_turn`, `open_action`, `adjust_action_value`, `change_speed` | the least action value acts; ties are decided, values never go below zero |
| queues (`queue.py`) | `queues` | `plan_next_drain`, `enqueue`, `dequeue_entry`, `plan/resolve_terminal` | every entry reaches a terminal state, a blocked head does not block others for good |
| waves (`wave.py`) | `wave_runtime`, `battle_outcome` | `plan_transition`, `apply_transition` | waves in order, only with drained queues, the end decided once |
| decision boundary (`decision.py`) | none: reads the state | `current_decision`, `advance_to_decision`, `submit` | what a query returns can be submitted, a stale choice is refused |
| availability (`action_availability.py`, `action_contract.py`, `action_selection.py`) | none | `view`, `evaluate`, `query`, `accept` | agrees with what `step` accepts |
| unit lifecycle (`unit_lifecycle.py`) | per unit: active, defeated, removed | `defeat_mutation`, `remove_mutations`, `can_act` | no unit comes back, no unit acts after defeat |
| reducer and commit (`core/reducer.py`, `core/atomic_commit.py`, `core/transition_outcome.py`, `core/state_integrity.py`) | the state itself | `apply_all_result`, `finalize_selected_execution_graph`, `check_touched` | a conflict publishes nothing, what is published is whole |
| event dispatch (`event_dispatch.py`, `ability_property_watchers.py`) | none: works on the candidate | `dispatch_event`, callback groups, watcher reconciliation, `_atomic_dispatch_failure` | a failed dispatch leaves no trace, every dispatch ends, watchers agree with what they watch |
| executor, task graph, effects (`core/executor.py`, `task_graph.py`, `effect.py`, ...) | through mutations | `execute` | whole settlement or none |
| statuses (`status.py`, `status_callbacks.py`) | status instances | apply, tick, dispel, callbacks | durations counted once |
| summons (`summon.py`, `summon_runtime.py`) | units, `global_flags.summon_runtime` | plan and apply spawns, owner cleanup, removal, validation | the registry agrees with the units, no reference to a removed unit |
| randomness, targets (`rng.py`, `target.py`, `target_random.py`) | draw ledger | draw, resolve | a replay draws the same |
| damage, toughness, break, shield (`damage.py`, `toughness.py`, `break_system.py`, `shield.py`) | hit points, toughness, `broken`, `shield_instances`, the window ledger of one action | `apply_packet`, `route_damage`, `apply_effect`, `enter_break`, `admit_packet`, `record_defeat_event` | a defeat is final, credited to its cause and announced once; shields absorb in order; spent toughness breaks |
| resource (`resource.py`) | energy, skill points | settle | ledgers balance |
| rules, scenarios, lowering, builds, tools, UI | static data, I/O | load, lower, validate | out of scope of the state machines |

How they interact: a client calls `DecisionSystem.advance_to_decision`, which
repeats `CombatScheduler.step(None)`; `step` asks the phase machine, drains the
queues, completes a deferred turn end, settles a wave transition, and only then
touches the timeline. At a decision the client submits a choice with a token;
`submit` checks the token, issues an authorization and calls `step` with the
command, which executes the action through the executor. Listeners and effects
that run inside any settlement may defeat units, control them, move them on the
timeline and queue entries: those are the interleavings no single test reaches.

## 2. What is modelled, and where

| module | models | for TLC | theorems |
|---|---|---|---|
| `PhaseMachine`, `BattleField`, `TurnScheduler`, `TurnCycle` | phases, timeline, waves, turns; the abstract turn cycle | `MCTurnScheduler` | `TurnSchedulerProofs` |
| `QueueSystem` | the pending queues in detail | `MCQueueSystem`, `MCQueueClaims` | `QueueSystemProofs` |
| `DecisionBoundary` | tokens, submissions, the advance loop | `MCDecisionBoundary` | `DecisionBoundaryProofs` |
| `UnitMutations`, `CommitBoundary`, `UnitLives` | reducer, integrity gate, two levels of commit; the abstract lives of units | `MCCommitBoundary` | `CommitBoundaryProofs` |
| `StatusLifecycle` | the statuses of a unit and their sweep | `MCStatusLifecycle` | `StatusLifecycleProofs` |
| `EventDispatch` | dispatch, callback groups, watchers | `MCEventDispatch`, `MCDispatchClaims` | `EventDispatchProofs` |
| `SummonSystem` | summons, their registry, owner cleanup | `MCSummonSystem`, `MCSummonClaims` | `SummonSystemProofs` |
| `HitSettlement` | the hits of an action: damage, shields, toughness, break | `MCHitSettlement`, `MCHitClaims` | `HitSettlementProofs` |

The `MC` modules give the constants values, the claims modules state what a
document of the repository says of the program.

### Turns

* `PhaseMachine` holds the two tables of `phase_machine.py` and its two checks.
* `BattleField` is the part of the state that settlements change (life, action
  value, control, energy, queues) with the read-only plans computed from it:
  `NextActors` (`plan_next_actor`), `Selected` (`select_next_queue_drain_plan`
  over `plan_next_drain`), `WavePlan` (`plan_transition`). `Settle` is what one
  settlement may do to it: nothing, or up to two observable effects.
* `TurnScheduler` has one action per public call that returns a successor
  state. A refused call returns its argument and is a stuttering step. The
  phases a call enters and leaves internally are checked with `LegalPath` and
  are never observed at rest. `acted` and `ticks` are history variables.
* `TurnCycle` is the abstract promise: turns are opened and closed one at a
  time, possibly deferred, and the battle is decided between two of them.

| code | action |
|---|---|
| `advance_to_next_turn` | `BeginTurn`, `ChooseTiedActor` (both `OpenTurn`) |
| `step` with a turn command | `SubmitAction` = `FinishTurn` or `DeferTurnEnd` |
| `_complete_pending_turn_end` | `CompletePendingTurnEnd` |
| `end_current_turn` in phase turn_end | `EndSkippedTurn` |
| `_try_queue_drain` | `DrainMandatory`, `SubmitUltimate`, `TerminalizeEntry`, `RefuseUltimate` |
| `enqueue_manual_ultimate` | `RequestUltimate` |
| `_try_wave_transition` | `StartWave`, `AdvanceWave`, `WinBattle`, `LoseBattle` |

### Queues

`QueueSystem` looks inside the queues that `BattleField` keeps as short lists.
Entries are planned over their positions and taken out by `entry_id`, and the id
a listener gives is made of the intent and of the length its queue has at that
moment (`slot`). Each entry carries a serial number the code does not have;
`ran`, `dropped` and `twins` (the serials that ever shared an id) are history.

| code | action |
|---|---|
| `_execute_queue_intents` (listener) | `ListenerQueues` |
| `enqueue_manual_ultimate` | `RequestUltimate` |
| `plan_next_drain`, `select_next_queue_drain_plan` | `HeadOk`, `Admitted`, `Waiting`, `Blocked`, `Selected` |
| `_try_queue_drain` without and with a command | `DrainSelected`, `DrainCommanded` over `Execute` and `Terminalize` |
| actors, sources and windows that change meanwhile, the end of a settlement | `BattleChanges`, `EndSettlement`, `OtherStep` |

### Decisions

`DecisionBoundary` takes a battle as a graph over state contents: what `step`
makes of a content is a function of it, two states with one snapshot have one
revision. Every graph that the assumption `IsBattle` allows is an initial state.

| code | action |
|---|---|
| `current_decision` by any client at any time | `Query` (a token is kept for ever) |
| `submit` | `Submit` |
| `enqueue_manual_ultimate` beside an open token | `Request` |
| `advance_to_decision` | `Call`, `InternalStep`, `ReturnDecision`, `ReturnNoProgress`, `ReturnStepLimit`, `ReturnBlocked` |

### Commits

What "a call returns a successor or the same state" rests on.

* `UnitMutations` translates `MutationReducer` (every mutation declares the
  value it expects to find; `Reduce` applies a list or reports a conflict), the
  integrity gate (`Touched` selects the units to look at by the mutation paths,
  `Whole` looks at one unit, `Change` compares its life at the two ends of the
  list) and `finalize_selected_execution_graph` (`Publishable`).
* `CommitBoundary` is one scheduler call after another. A call plans graphs on
  a candidate and commits each of them; between them the scheduler writes on
  its own; the whole call is then committed once more from its first state.
  The data is the lifecycle of the units, the part the gate checks; all other
  state is one bit, `other`, whose writes only have to be in order.
* `UnitLives` is the abstract promise about units: entering, falling with one
  credit and leaving, in this order, each at most once and never undone.

| code | action |
|---|---|
| damage packets, heal effect, removal, spawn, any other write of a graph | `Produce` over `DamageChanges`, `HealChanges`, `RemoveChanges`, `SpawnChanges`, `OtherChanges`; planned from the candidate or, as in `WaveSystem.apply_transition`, from the state the graph began with |
| `dispatch_event`, `_atomic_dispatch_failure` | `BeginDispatch`, `EndDispatch`, `NodeFails` inside a dispatch |
| a blocked or failing node of a graph | `NodeFails` |
| `commit_eventful_transition`, `CombatExecutor.execute`, `_transition` | `CommitGraph` |
| what `step` applies around its children | `OwnWrite`, `NextGraph` |
| `_combine_scheduler_transitions`, `_eligible_scheduler_state` | `PublishStep` |
| the end of `advance_to_next_turn` | `PublishTurnBegin` |

### Statuses

`StatusLifecycle` is one unit: the list of status ids, the details, and the
sweep (`_apply_status_lifecycle_tick`) that walks a copy of the details while
callbacks apply, stack, refresh, replace, remove or dispel statuses of the same
unit. `touched` is a history variable.

| code | action |
|---|---|
| `apply_add_modifier` | `AddModifier` for a new status, `Reapply` for one that is there |
| `apply_remove_modifier`, `apply_dispel_status` | `RemoveModifier`, `Dispel` |
| defeat of the unit by a callback | `Defeat` |
| `_apply_status_lifecycle_tick` | `BeginSweep`, `DispatchPhase`, `ReadAgain`, then `SkipStatus`, `TickStatus` or `ExpireStatus`, `NextStatus` |

### Dispatch

`EventDispatch` is the recursion of one dispatch as a stack of frames: the
matched listeners in their order, the group of callbacks that is running, the
events it emitted, and the watchers still to reconcile. A step is one turn of a
loop of the innermost call. What a callback does is a set of changes of
properties and of attached statuses; `log` is the list of mutations reported to
the caller.

| code | action |
|---|---|
| `dispatch_event` from outside | `Call` |
| `_dispatch_listener_event`, loop over the matches | `RunListener` |
| `StatusCallbackSystem.execute` | `RunCallback`, `CloseGroup` |
| emitted events, depth first, with the recursion limit | `DispatchChild`, `TooDeep` |
| `_reconcile_ability_property_watchers`, `_reconcile_unit` | `BeginWatch`, `WatchUnit`, `Compare`, `WatchStatus`, `EndWatch` |
| the answer, or the rollback of a failed dispatch | `Return` |

### Summons

`SummonSystem` keeps the published battle and, while an action runs, its
candidate (`draft`). Units, registry, queues and the open turn are records of
both, so that an operation is a function from battle to battle.

| code | action |
|---|---|
| `_apply_initial_servant`, `_apply_initial_summoned_monster` | `SetupServant`, `SetupMonster`, `StartBattle` |
| `plan_spawn_servant`, `apply_spawn_servant`, `_with_halo_reconciliation`, which only the construction of a scenario calls | `SetupServant` over `AdmitsServant`, `WithServant` |
| `plan_spawn_summoned_monster`, `apply_spawn` | `Effect` over `AdmitsMonster`, `WithMonster` |
| defeats and entries that listeners make | `Effect` over `Defeats`, `Enqueues` |
| `CombatExecutor.execute`, owner cleanup | `StartCleanup`, `SkipOwner`, `CleanOwner`, `NextOwner` |
| turn, drain and turn end around the actions | `BeginTurn`, `TakeTurn`, `DrainEntry`, `DropEntry`, `DeferTurnEnd`, `CloseTurn`, `RefuseTurnEnd`, `PublishDrained`, `EndPendingTurn` |
| `validate_summon_runtime` | `Valid` |

### Hits

`HitSettlement` is the executor's loop over a damage plan. `stage` is what the
loop does next, `due` the events still to dispatch: nested dispatches put their
events before the rest, so the list is the stack of the recursion. `told` (how
often a defeat was dispatched) and `fell` (by what a unit fell) are observers.
`refused` holds the units whose break was blocked because the packet's element
has no executable break template: the node is blocked, the action's graph is
incomplete, and `finalize_selected_execution_graph` publishes nothing of it. The
loop goes on to its end, as in the code, and no further action follows in that
behaviour, because the next one begins where this one began.

| code | action |
|---|---|
| a new action and its `DamageWindowLedger` | `BeginAction` |
| `damage.before_hit`, leftover toughness plans | `BeforeHit` |
| `apply_packet` with the ledger, the events of mutations and result, kill energy | `Hit`, `HitTheDead` |
| `ToughnessSystem.apply_packet` | `Aim` |
| `_enter_break_if_depleted`, `enter_break` (skipped, blocked or entered) and its damage | `MayBreak`, `EnterBreak`, `Rupture` |
| `dispatch_event`: the next event, a listener's effect | `Tell`; `Hurt`, `Heal`, `Shield`, `Unshield` |

### How the modules meet

`Settle` in `BattleField` stands for whatever `CommitBoundary` publishes for one
call, so it changes nothing or everything of a settlement. A defeat is one step
there because `DefeatIsHandedOverWhole` holds here. `AdvanceWave` keeps every
enemy it spawns alive because the gate refuses a transition that ends the life
of a unit it began (`Change`). A content of `DecisionBoundary` is a state of
`TurnScheduler`; `Tell` and the listeners of `HitSettlement` are one dispatch of
`EventDispatch`, with the rollback left to that module; `SummonSystem` repeats
the part of the scheduler that decides when a turn ends.

## 3. Runs

| run | instance | distinct states | what it asks |
|---|---|---|---|
| `turns` | 2 allies, 2 waves of one enemy, one tie, 3 kinds of inserted entries; 4 settlement effects, 2 entries per queue, 3 turns; under `FairSpec` | 106,829 | safety, action properties, the refinement of `TurnCycle`, liveness |
| `queues` | 4 intents (plain, prioritised, waiting for a window, manual) in 3 queues, 3 entries, 2 actors | 36,310 | each entry ends once, in order, and no entry stays for ever |
| `decisions` | every battle graph over 4 contents, an advance limit of 2 | 433,289 | old tokens, exact answers of the loop |
| `commits` | hero of 3 hit points, foe of 1, pet that may enter; amounts of 2; 4 changes, 2 graphs per call | 1,318,532 | what is published, credited, handed over and refused |
| `statuses` | 3 modifiers, 6 effects, 6 operations | 369,768 | list against details, uniqueness, counts |
| `dispatch` | 2 units, 3 statuses, 6 callbacks that trigger each other, 2 levels of recursion | 56,764 | rollback, watchers, termination |
| `summons` | 2 characters, 2 servants of one of them, a summoning monster; 2 effects, 2 turns | 713,033 | registry, references, who leaves with whom |
| `hits` | 2 units, one of them locked, 2 shield sources, 3 plans, 2 actions, 2 answers of listeners | 3,410,245 | ledger, announcements, break, shields |
| `entries_run_once`, `listener_order`, `turns_close`, `defeats_credited` | instances of `QueueSystem`, `EventDispatch`, `SummonSystem`, `HitSettlement` | | one claim each, refuted: section 6 |

Why the bounds are enough.

* `turns`: the hazards need an effect that queues work or controls a unit, one
  that defeats an actor, and one that clears a wave, in the same turn: three
  effects; the fourth lets a second wave be cleared the same way. Two entries
  per queue make a head and something behind it, and the families are spread
  over several queues, so that selection between queues happens. Three turns
  let a turn be deferred behind another unit's action and a further one open.
  Enemy `e2` has no tie priority: an undecided tie is reached.
* `queues`: two entries share an id when one leaves and a third comes while the
  second still waits: three entries. One of the intents waits for a window, one
  is retargeted, one outranks another and one needs a command, so each way to
  hold up a queue occurs.
* `decisions`: a cycle of two contents with a way into it, or a decision behind
  two steps, fits into four contents; the limit of two is met from both sides.
  The code's limit is 64; the theorems hold for any.
* `commits`: healed, hit and hit again needs three changes on one unit, with
  one more for what another graph or the scheduler itself does between them.
  The hero survives one hit and dies of two; the foe dies of one, with less
  hit points than the hit. Two graphs per call are what the second commit
  needs; the next call starts from what was published, refused or not.
* `statuses`: two stacks, their removal, a replacement by another source and an
  operation inside each callback of one sweep fit into six operations.
* `dispatch`: a callback, the event it emits, the listener of that event and the
  watcher both disturb need two levels; the third is the refused one. The code
  allows more levels, each of which does the same.
* `summons`: an owner falls and a servant falls, in either order, inside or
  between two actions: two effects. Three instance numbers let a fallen servant
  be replaced twice.
* `hits`: a listener fells a unit between two hits, or a shield is made and the
  next hit meets it: two answers. Hit points of two tell a wound from a defeat
  and overkill, and a repeated target gives a hit on the dead of each kind, the
  one felled by its own break among them. The second action is what a stale
  ledger would be visible in. One unit has toughness for two packets and one is
  locked; one plan spends toughness with an element that has no break template
  and goes on with one that has.

Deadlock is checked in `dispatch` and `statuses`. Elsewhere the bounds on effects, turns,
entries, changes and answers end every behaviour, and a battle that has stopped
is the subject of `StallsAreDiagnosed` and not an error of the model.

What the properties are about:

* `OpenTurnMatchesPhase`, `DecisionBelongsToTurn`, `LifecycleTickedOnce`: the
  turn owner, the open turn, the deferred end and the phase are written by
  different calls and agree after each of them; durations tick once per turn.
* `StallsAreDiagnosed`: the battle can stop without ending in exactly six named
  ways, each a reachable state of the code. It is the map of what a client must
  expect, and nothing else can be added to it by an ordering nobody tried.
* `QueueKeepsTurn`, `TurnBeginsInOrder`, `BattleOnlyProgresses`, `WavesInOrder`
  (which includes that a decided battle stays closed): what a step may never do.
* `EntriesAccounted`, `SameIntentInOrder`, `EveryEntrySettles`: an entry whose
  id is its own runs once or is dropped, never both and never out of order; it
  leaves its queue unless the selected plan waits for a window or a command, is
  retargeted again and again, or carries an ambiguous id.
* `TokensActInOrder`, `NoProgressIsACycle`, `AdvanceIsExact`: no token acts after
  a younger one, "no progress" is never a false alarm, and a decision within
  the limit is found.
* `PublishedIsWhole`: the gate looks only at units whose paths are in the list,
  and the published state still passes the check of every unit.
* `PlansExplainStates`: no candidate is ever refused because the list and the
  candidate disagree, also behind a rollback and from a stale plan.
* `StepsCompose`: when each graph of a call was committed, the second commit
  refuses the call for two reasons only: a unit that entered and left within
  the call, or an own write outside every graph that broke a unit.
* `UnitsFollowTheirLives`, `DefeatIsHandedOverWhole`: a heal may reach a
  defeated or removed unit and a plan may come from an old snapshot, and still
  the caller sees nobody defeated twice, brought back, credited later than in
  the call it fell in, or handed over half defeated.
* `SweepCountsOnce`, `CountsStayPositive`: a status nobody touched is counted
  exactly once by a sweep that walks an old copy, and none stays without a
  stack or past its end.
* `LogExplainsField`, `TouchedWatchersSettle`, `EveryDispatchReturns`: what a
  failed part changed is gone together with its mutations, watchers agree with
  their properties, mutual recursion ends.
* `RegistryIsValid`, `RemovedIsForgotten`, `OwnersKeepTheirs`,
  `ServantsLeaveTogether`, `OrphansLeave`: the registry is validated before every
  operation and never repaired, so one disagreement would refuse all later ones.
* `LedgerNamesTheKiller`, `DefeatsAreTold`, `DeadAreSpared`: who may go on
  hitting a fallen unit, and that its defeat is announced once although the
  announcements nest.
* `DepletedIsBroken`, `ShieldsAbsorbInOrder`: toughness and the broken flag
  across the windows between them, where a blocked break must cost the action
  and is not made up for by a later packet; what a step takes from shields and hit
  points, stated without the loop that takes it.

## 4. Fairness and refinement

* `TurnScheduler`: `FairSpec` is `Spec` with weak fairness of `InternalStep`.
  `advance_to_decision` repeats `step(None)` as long as it makes progress, so an
  internal step that applies is eventually taken; nothing is assumed of the
  controller, which may never answer.
* `QueueSystem`: weak fairness of `EndSettlement` and `DrainSelected`: a
  settlement is a call that returns, and the same loop repeats the drain.
  Nothing is assumed of commands, listeners or windows.
* `EventDispatch`: weak fairness of `Step`: a dispatch is one call of a
  sequential program and runs until it returns.
* `SummonSystem`: `FairSpec` has weak fairness of `Proceed`, the scheduler's own
  steps; it is used by `turns_close`, so that the counterexample is a turn that
  the scheduler keeps trying to end.
* The other modules state no fairness and no liveness.

`TurnsFollowTheCycle` is `TurnCycle!Spec` with `stage <- Stage` (the phase at
rest), `actor <- activeTurn`, `opened <- turnIndex` and
`closed <- ticks["TurnEnd"]`: queue entries, inserted actions and waves stutter.

`UnitsFollowTheirLives` is `UnitLives!Spec` with the life of each unit in
`published` and with `credited`: everything inside a call stutters, and its
last commit moves any number of units, each by one admitted step.

## 5. What is proved

All theorems hold for every value of the constants allowed by the named
assumptions next to their declarations. The assumptions say what the lowering
and the scenario builder guarantee: waves are disjoint and not empty, durations
are natural numbers, priorities are integers, a model value is no unit.
Every safety invariant and every action property that a passing run checks is
also a theorem.

Loops of the code are recursive functions over natural numbers in the models.
What they compute is proved with `NatSetInduction`: a set of natural numbers
that holds 0 and every successor is `Nat`, because the numbers up to a missing
one would be mapped into fewer. This form takes a set and no operator as its
parameter, so that it can be used at every place. From it the modules derive
that such a function exists, what each of its values is, that a finite set can
be listed in its order, and how sums over a set change.

`TurnSchedulerProofs`. The invariants are not inductive one by one: that a
decision belongs to the open turn needs to know which phases have a turn, and
the tick counts need both. `IInv` is the conjunction of `TypeOK`,
`OpenTurnMatchesPhase`, `DecisionBelongsToTurn`, `LifecycleTickedOnce`,
`DecisionWindow` (which windows a decision may have) and `OutcomeInEnded`.
There is one lemma per action. From it follow the safety theorems, the action
properties `TurnBeginsInOrder` and `BattleOnlyProgresses`, and
`ImplementsTurnCycle`: each action is mapped to a step or a stutter of
`TurnCycle`. `WavesInOrder` and `QueueKeepsTurn` need to know what a settlement
never does: `Ages` (nobody is revived) and `Grows` (no queue shrinks) hold
between the field before and after every action that is not a wave change or a
drain, and are transitive over the effects of a settlement. `StallsHaveACause`
goes through the phases: where none of the six causes is present, some action
is possible: some entry of the queues comes first in the drain, whatever their
keys, some unit that can act leads the timeline, and no entry stands beyond the
positions the drain looks at (`Roomy`). Lemmas about
`BattleField` supply the types of plans and settlements.

`QueueSystemProofs`. `EntriesAccounted` is inductive with the types and three
facts more: a serial stands in one place only (`OneSeat`), entries outside
`twins` have ids of their own (`Apart`), and serials not yet issued are nowhere.
Taking out the first entry with an id is taking out the planned one as long as
nobody ever shared the id (`twins`), which is what the theorem says and what the
finding `entries_run_once` shows of the others. `IntentsStayInOrder` adds
`ByAge`: the entries of a queue stand in the order they were queued in, whatever
was taken out between them; the older of two with one intent then has the
smaller drain key.

`DecisionBoundaryProofs`. `NoProgressIsReal` rests on `Chained`: each content
the running call has seen leads to a seen one or to the present one.
`TokensStayInOrder` rests on `Behind`: progress never falls and rises with every
executed command, so that whatever executed lies behind the present content.
`AnswersAreExact` rests on `OnOrbit`: a running call stands where its number of
steps leads from the content it was called on, and every content before needed
a step and was seen. A repeated content closes the orbit, so that no later step
reaches a decision either.

`StatusLifecycleProofs`. `SweepCountsOnce` needs to know that the sweep stands
inside its copy and holds the detail of that place as it was copied unless
somebody touched it (`HeadIsCurrent`), and that details are unique per modifier
in both lists (`SoundList`). Lemmas about adding, writing and taking out one
detail carry the effects; one lemma moves the sweep past a place.

`CommitBoundaryProofs`. `Follows(ms, s, t)` says what can be said of a list
without running the reducer: units it does not touch are equal in `s` and `t`,
none vanishes, each new defeat record is in the list exactly once, and in `t` no
unit is half defeated. It is transitive under concatenation (`FollowsOn`), and
each producer's change has it (`ProducedFollows`), even one planned from the
state the graph began with, because the fields it writes must still hold the
values it read. `IInv` has it for the call, for the open graph and for the
frame of a dispatch. A commit then examines the touched units and inherits the
others (`AdoptedIsWhole`), which gives `PublishedStaysWhole`; the count of
records gives `KillsAreCreditedOnce`: a defeated unit was credited once, one
that stands never.

`Follows` does not say that the reducer accepts the list. `Carried` does, for
the call, the open graph and the frame of a dispatch: each mutation finds the
value it declares in the state the ones before it made (`Leads`), and a unit
that enters is named whole while the life of one that was there changes as the
gate admits and a removed one stays as it is (`Passes`). Both are transitive, and every producer's change has
them, field by field; so does what a rollback returns to. `PlansAlwaysExplain`
follows from the first part and `CommitsCompose` from the second.
`ImplementsUnitLives` puts the two invariants together: `Passes` says how a life
may move from the published state to the one adopted, also of a unit no gate
looked at, and the count of records that a credit comes with the fall.

`EventDispatchProofs`. Types of frames and fields, each list holding statuses of
its unit only and each of them once, and the bound of the recursion.
`LogsExplain` needs for a failed group that the log at its mark explains the
field it puts back (`MarksHold`); a nested call's log, replayed after the log
of the call around it, explains what both have done. `WatchersSettle` rests on `WatchHolds`: while the
watchers of a call run, one that disagrees is still to be looked at, or the
property's change is among the events sent; after the loop, an event is on its
way to it; and a call that waits for a nested one has what that one's log
names.

`SummonSystemProofs`. `Good(b)` says of one battle that its registry is valid,
what was removed is forgotten, owners are known and servants single; it holds of
the published battle and of the candidate, and every operation is a function
that keeps it. The action properties need what happened since the action
began: which owners the cleanup has already looked at (`Looked`), and that units
drift one way only between the two battles (`Since`, `Drifts`).

`HitSettlementProofs`. `IInv` has four parts: shapes, what is announced of each
fallen unit (none, exactly one in `due` or told, or silence after break damage),
the ledger against `fell`, and depletion against the place in the loop: spent
toughness is broken, refused or next to be decided, and exactly one of them.
`CompleteActionsBreak` is what follows for an action that can be published. A lemma
counts announcements when a list of events is put before another.
`ShieldsComeFirst` tells a route without its loop (`Soaks`): which shields may
pay, in which order, and that payments and rest add up to the amount. It is
proved along the list of ranked shields (`Passed`), whose existence is an
induction over the number of shields; the bodies the damage is taken from
(`Bodies`) complete the types.

Only model-checked: what must eventually happen, that is `ReachesDecision`,
`DeferredTurnEnds`, `EveryEntrySettles` and `EveryDispatchReturns`, because
`ENABLED` and fairness are out of the provers' reach; and the refutations behind
the findings.

## 6. Findings

Places where the code does something else than a document of the repository
says. Each is a run that TLC refutes; the quotes are in `PROJECT.json`.

| run | what happens |
|---|---|
| `entries_run_once` | an entry's id is its intent and the length of its queue: two entries can share it, the wrong one is removed, and the executed one runs again |
| `listener_order` | the first unit of the battle has order 0, which is read as missing: its listeners run last |
| `turns_close` | a servant removed in its own turn takes `turn_owner_id` with it; the turn end deletes it again, is refused, and the turn never ends |
| `defeats_credited` | break damage that kills: the defeat event is dropped in `enter_break`, so that nobody hears of it and nobody is credited |

Behaviour of the code a reader should know, which the models have and no run
singles out:

* The six stalls of `StallsAreDiagnosed`: a selectable entry met outside a
  decision; a selectable entry without an admissible choice (an extra turn, whose
  plan names no action, is one); a wave cleared inside a decision; an actor
  defeated or controlled after its decision opened; an inserted action that
  takes `turn_owner_id` and the window of an open decision; the same while no
  turn is open.
* A choice is offered while the wave waits for its start, and refused when
  submitted. A refused turn begin returns its candidate.
* A status refreshed by another status's callback is counted from the sweep's
  old copy. An effect that takes layers away and names no maximum leaves one
  stack.
* The events of a dispatch are matched to listeners before the first of them
  runs. A watcher's own status changes are not compared again.
* Hits of the executor dispatch `shield.change` and `shield.exhausted` twice, as
  events of the mutation and again of the damage result; break damage never
  does; a listener's damage once, and without `hp.change`. P8-R2 (line 159 of
  its closure) asks for one dispatch per event.
* After a kill by a hit, later packets of that sequence go on and raise
  `damage.hit`; after a kill by the break they are skipped. A defeated unit can
  still lose toughness and be broken. Kill energy is paid for the action's own
  kills only.
* `additional` damage is absorbed by no default shield, because the families of
  a default shield do not name it.

## 7. What is not modelled

The map covers the kernel's control: the scheduler's calls, queues, decisions,
commits, statuses, dispatch, summons and hits. Most of the repository's lines
are not behaviour of a running battle: the lowering compiler, the IR and
equipment data models, the builds, more than two hundred validators and
their fixtures, the frozen v7 kernel and generated packs. They transform
data once and keep no state between calls, so a state machine of them would say
nothing; they are listed as not modelled and are the reason why the share of
lines is small. Inside the kernel, these are left out:

* Scheduler and timeline: speed changes and delay costs (an action value change
  is one effect, to zero), a scenario that starts with a turn owner, the choice
  of a tie without the decision call.
* Queues: the unbounded history of a queue beyond three entries, conditions of
  an entry that are evaluated as predicates.
* Statuses: halos, chance, formulas, speed effects, the filters of a dispel,
  effects on several targets, blocked forms of refresh, `ReplaceByCaster` names.
* Commits: malformed values, the classes of reasons, events, records and random
  draws of a transition, a conflict inside `apply_all`, which raises and
  abandons the call.
* Dispatch: blocked and audit-only dispatches, the conditions of a callback.
* Summons: one entry or copy per intent, unique groups, the refusals of a halo,
  the validation of plan data. During an action only the acting unit summons;
  the owner of a nested status, for whom a task can summon too, does not.
* Hits: formulas, critical hits and resistances (an amount is any of a set),
  bounces and target choice, the windows around a target's hit sequence, damage
  dealt by ability tasks, `additional` and `super_break` packets, recovery from
  break (which no production code calls), a dispatch that fails with a ledger in
  hand. Of what spoils an action's graph only the break without a template is
  here; damage, toughness, status and break damage nodes that are blocked do the
  same, and `NodeFails` of `CommitBoundary` stands for them. `weakness_locked`
  and `mute_break` are fixed for a battle: a scenario sets these flags and no
  effect writes them, so that the skip they cause in `enter_break` is in the
  guard but `apply_packet` always skips first.
* Energy and skill points; the random ledger; the ability interpreter; the
  enemy's choice of action; static data, lowering, builds, validators, user
  interface, legacy kernel.

## 8. What could come next

1. `Timeline` with speed changes and delay costs.
2. `RngLedger` and `Resource` as ledgers; `TaskGraph` as a bounded interpreter.
3. `QueueSystem` shown to implement the queues of `BattleField`, and a proof
   of it over `ByAge` and `Account`.
