-------------------------- MODULE TurnSchedulerProofs --------------------------
(***************************************************************************)
(* Theorems about the turn scheduler, for every set of units, waves, speed *)
(* and priority, every set of entries listeners may queue and every bound. *)
(***************************************************************************)
EXTENDS TurnScheduler, SequenceTheorems, FiniteSetTheorems, TLAPS

----------------------------------------------------------------------------
(* What the operators of BattleField preserve: settlements, queue           *)
(* operations and wave changes, for every choice of units, waves and        *)
(* queued entries.                                                          *)

(* Removing one position of a sequence leaves a sequence over the same set.*)
LEMMA RemoveAtType ==
  ASSUME NEW S, NEW s \in Seq(S), NEW i \in 1..Len(s)
  PROVE  RemoveAt(s, i) \in Seq(S)
<1>1. Len(s) \in Nat /\ \A j \in 1..Len(s) : s[j] \in S
  OBVIOUS
<1>2. SubSeq(s, 1, i - 1) \in Seq(S)
  BY <1>1, SubSeqProperties
<1>3. SubSeq(s, i + 1, Len(s)) \in Seq(S)
  BY <1>1, SubSeqProperties
<1> QED
  BY <1>2, <1>3, ConcatProperties DEF RemoveAt

(* Queue entries live in named queues and stay entries.                    *)
LEMMA EntryType ==
  ASSUME NEW w \in Fields, NEW p \in Queued(w)
  PROVE  /\ p[1] \in QueueNames /\ p[2] \in 1..Len(w.queues[p[1]])
         /\ EntryAt(w, p) \in Entries
<1>1. p[1] \in QueueNames /\ p[2] \in 1..MaxQueue /\ p[2] <= Len(w.queues[p[1]])
  BY DEF Queued
<1>2. w.queues[p[1]] \in Seq(Entries)
  BY <1>1 DEF Fields
<1>3. p[2] \in 1..Len(w.queues[p[1]])
  BY <1>1, <1>2, ValuesAssumption
<1> QED
  BY <1>1, <1>2, <1>3 DEF EntryAt

(* Leaving a queue, joining one, and the end of a turn keep the field typed*)
LEMMA DequeuedType ==
  ASSUME NEW w \in Fields, NEW p \in Queued(w)
  PROVE  Dequeued(w, p) \in Fields
<1>1. p[1] \in QueueNames /\ RemoveAt(w.queues[p[1]], p[2]) \in Seq(Entries)
  BY EntryType, RemoveAtType DEF Fields
<1> QED
  BY <1>1 DEF Dequeued, Fields

LEMMA EnqueuedType ==
  ASSUME NEW w \in Fields, NEW e \in Entries
  PROVE  Enqueued(w, e) \in Fields
<1>1. HomeQueue(e.family) \in QueueNames
  BY DEF HomeQueue, QueueNames
<1>2. w.queues[HomeQueue(e.family)] \in Seq(Entries)
  BY <1>1 DEF Fields
<1>3. Append(w.queues[HomeQueue(e.family)], e) \in Seq(Entries)
  BY <1>2
<1> QED
  BY <1>1, <1>3 DEF Enqueued, Fields

LEMMA TimelineType ==
  ASSUME NEW w \in Fields, NEW u \in Units
  PROVE  Advanced(w, u) \in Fields /\ TurnReset(w, u) \in Fields
<1>1. \A v \in Units : w.av[v] \in Nat
  BY DEF Fields
<1>2. [v \in Units |-> IF w.av[v] > w.av[u] THEN w.av[v] - w.av[u] ELSE 0] \in [Units -> Nat]
  BY <1>1
<1>3. Advanced(w, u) \in Fields
  BY <1>2 DEF Advanced, Fields
<1>4. Gauge[u] \in Nat
  BY ValuesAssumption
<1>5. TurnReset(w, u) \in Fields
  BY <1>4 DEF TurnReset, Fields
<1> QED
  BY <1>3, <1>5

(* One observable effect keeps the field typed, and so does a settlement.  *)
LEMMA EffectsType ==
  ASSUME NEW w \in Fields
  PROVE  Effects(w) \subseteq Fields
<1>1. \A u \in Units : [w EXCEPT !.life[u] = "defeated"] \in Fields
  BY DEF Fields
<1>2. \A u \in Units : [w EXCEPT !.control[u] = ~@] \in Fields
  BY DEF Fields
<1>3. \A u \in Units : [w EXCEPT !.energy[u] = TRUE] \in Fields
  BY DEF Fields
<1>4. \A u \in Units : [w EXCEPT !.av[u] = 0] \in Fields
  BY DEF Fields
<1>5. \A e \in Inserts : Enqueued(w, e) \in Fields
  BY EnqueuedType, ValuesAssumption
<1> QED
  BY <1>1, <1>2, <1>3, <1>4, <1>5 DEF Effects, Units

LEMMA AffectedType ==
  ASSUME NEW w \in Fields
  PROVE  Affected(w) \subseteq Fields
<1> SUFFICES ASSUME NEW x \in Effects(w), w.budget # 0
             PROVE  [x EXCEPT !.budget = @ - 1] \in Fields
  BY DEF Affected
<1>1. x \in Fields
  BY EffectsType
<1>2. x.budget = w.budget
  BY DEF Effects, Enqueued, Fields
<1>3. x.budget - 1 \in Nat
  BY <1>1, <1>2 DEF Fields
<1> QED
  BY <1>1, <1>3 DEF Fields

LEMMA SettleType ==
  ASSUME NEW w \in Fields
  PROVE  Settle(w) \subseteq Fields
BY AffectedType DEF Settle

(* Removing a wave and spawning one keep the field typed.                  *)
LEMMA WaveType ==
  ASSUME NEW w \in Fields, NEW i \in DOMAIN Waves
  PROVE  WaveRemoved(w, i) \in Fields /\ WaveSpawned(w, i) \in Fields
<1>1. \A u \in Units : Gauge[u] \in Nat /\ w.av[u] \in Nat
  BY ValuesAssumption DEF Fields
<1>2. WaveRemoved(w, i) \in Fields
  BY DEF WaveRemoved, Fields
<1>3. WaveSpawned(w, i) \in Fields
  BY <1>1 DEF WaveSpawned, Fields
<1> QED
  BY <1>2, <1>3

----------------------------------------------------------------------------
(* The scheduler.                                                           *)

(* A path of three phases is legal when both of its transitions are.       *)
LEMMA LegalPath3 ==
  ASSUME NEW a, NEW b, NEW c, LegalPath(<<a, b, c>>)
  PROVE  MayEnter(a, b) /\ MayEnter(b, c)
<1> DEFINE path == <<a, b, c>>
<1>1. Len(path) = 3 /\ path[1] = a /\ path[2] = b /\ path[3] = c
  OBVIOUS
<1>2. 1 \in 1..(Len(path) - 1) /\ 2 \in 1..(Len(path) - 1)
  BY <1>1
<1>3. MayEnter(path[1], path[1 + 1]) /\ MayEnter(path[2], path[2 + 1])
  BY <1>2 DEF LegalPath
<1> QED
  BY <1>1, <1>3

(* What a life step does to the three counters.                            *)
LEMMA TickEffect ==
  ASSUME ticks \in [Moments -> Nat], NEW S, Tick(S)
  PROVE  /\ ticks' \in [Moments -> Nat]
         /\ \A m \in Moments : ticks'[m] = ticks[m] + (IF m \in S THEN 1 ELSE 0)
BY DEF Tick

-----------------------------------------------------------------------------
(* The inductive invariant: the types, the parts of the properties that    *)
(* depend on one another, and two facts they do not state.  A turn action  *)
(* is admitted in the windows "idle" and "turn_active"; while a decision is*)
(* open the window is never "idle", so whoever submits the action is the   *)
(* owner DecisionBelongsToTurn speaks of, and the deferred end it leaves   *)
(* behind names the actor of the turn.                                     *)
DecisionWindow == phase = "awaiting_decision" => window \in {"turn_active", "action"}
OutcomeInEnded == Ended <=> phase = "ended"

IInv ==
  /\ TypeOK
  /\ OpenTurnMatchesPhase
  /\ DecisionBelongsToTurn
  /\ LifecycleTickedOnce
  /\ DecisionWindow
  /\ OutcomeInEnded

LEMMA InitIInv == Init => IInv
<1> SUFFICES ASSUME Init PROVE IInv
  OBVIOUS
<1>1. InitialField \in Fields
  BY UnitsAssumption, ValuesAssumption DEF InitialField, Fields
<1>2. 1 \in DOMAIN Waves
  BY UnitsAssumption
<1>3. TypeOK
  BY <1>1, <1>2 DEF Init, TypeOK, RestPhases, Actors, Moments
<1> QED
  BY <1>3 DEF Init, IInv, OpenTurnMatchesPhase, DecisionBelongsToTurn, LifecycleTickedOnce,
     DecisionWindow, OutcomeInEnded, Ended, Moments

-----------------------------------------------------------------------------
(* One lemma per group of actions                                          *)

(* wave_transition is entered from rest only between turns.                *)
LEMMA WaveOnlyFromIdle ==
  ASSUME NEW p \in RestPhases, MayEnter(p, "wave_transition"), p # "turn_end"
  PROVE  p = "idle"
<1>1. p \in Phases
  BY DEF RestPhases, Phases
<1>2. "wave_transition" \in LegalTransitions[p]
  BY DEF MayEnter
<1>3. p \notin {"awaiting_decision", "post_action", "ended"}
  BY <1>1, <1>2 DEF LegalTransitions
<1> QED
  BY <1>3 DEF RestPhases

(* A turn opens from idle, for a unit.                                     *)
LEMMA OpenTurnStep ==
  ASSUME IInv, NEW u \in Units, phase = "idle", OpenTurn(u)
  PROVE  IInv'
<1> USE DEF IInv
<1>1. activeTurn = NoUnit /\ pending = NoUnit /\ outcome = "none" /\ u # NoUnit
  BY UnitsAssumption DEF OpenTurnMatchesPhase, OutcomeInEnded, Ended
<1>2. field' \in Fields
  BY TimelineType, SettleType DEF OpenTurn, TypeOK
<1>3. /\ ticks' \in [Moments -> Nat]
      /\ \A m \in Moments :
           ticks'[m] = ticks[m] + (IF m \in {"ModifierPhase1End"} THEN 1 ELSE 0)
  BY TickEffect DEF OpenTurn, TypeOK
<1>4. \/ phase' = "turn_end" /\ window' = "turn_begin"
      \/ phase' = "awaiting_decision" /\ window' = "turn_active"
  BY DEF OpenTurn
<1>5. owner' = u /\ activeTurn' = u /\ turnIndex' = turnIndex + 1
      /\ UNCHANGED <<pending, wave, outcome, acted>>
  BY DEF OpenTurn
<1>6. TypeOK'
  BY <1>2, <1>3, <1>4, <1>5 DEF TypeOK, RestPhases, Actors
<1>7. OpenTurnMatchesPhase' /\ DecisionBelongsToTurn' /\ DecisionWindow' /\ OutcomeInEnded'
  BY <1>1, <1>4, <1>5
  DEF OpenTurnMatchesPhase, DecisionBelongsToTurn, DecisionWindow, OutcomeInEnded, Ended
<1>8. LifecycleTickedOnce'
  BY <1>1, <1>3, <1>5 DEF LifecycleTickedOnce, Moments, TypeOK
<1> QED
  BY <1>6, <1>7, <1>8

(* What closing a turn leaves, whatever settled before.                    *)
LEMMA CloseTurnStep ==
  ASSUME IInv, NEW w \in Fields, CloseTurn(w), activeTurn # NoUnit, pending' = NoUnit,
         ticks' \in [Moments -> Nat], acted' \in Nat,
         ticks'["ModifierPhase1End"] = ticks["ModifierPhase1End"],
         ticks'["TurnEnd"] = ticks["TurnEnd"] + 1, ticks'["ActionPhaseEnd"] - acted' = 0,
         UNCHANGED <<turnIndex, wave, outcome>>
  PROVE  IInv'
<1> USE DEF IInv
<1>1. activeTurn \in Units
  BY DEF TypeOK, Actors
<1>2. field' \in Fields
  BY <1>1, TimelineType DEF CloseTurn
<1>3. phase' = "idle" /\ window' = "idle" /\ owner' = NoUnit /\ activeTurn' = NoUnit
  BY DEF CloseTurn
<1>4. TypeOK'
  BY <1>2, <1>3 DEF TypeOK, RestPhases, Actors
<1>5. outcome = "none"
  BY DEF OpenTurnMatchesPhase, OutcomeInEnded, Ended
<1>6. OpenTurnMatchesPhase' /\ DecisionBelongsToTurn' /\ DecisionWindow' /\ OutcomeInEnded'
  BY <1>3, <1>5
  DEF OpenTurnMatchesPhase, DecisionBelongsToTurn, DecisionWindow, OutcomeInEnded, Ended
<1>7. LifecycleTickedOnce'
  <2>1. ticks["TurnEnd"] = turnIndex - 1 /\ ticks["ModifierPhase1End"] = turnIndex
    BY DEF LifecycleTickedOnce
  <2>2. turnIndex \in Nat /\ turnIndex' = turnIndex
    BY DEF TypeOK
  <2>3. \A x, y \in Nat : x - y = 0 => x = y - 0
    OBVIOUS
  <2>4. ticks'["ActionPhaseEnd"] \in Nat
    BY DEF Moments
  <2>5. ticks'["ActionPhaseEnd"] = acted' - 0
    BY <2>3, <2>4, Zenon
  <2> QED
    BY <1>3, <2>1, <2>2, <2>5 DEF LifecycleTickedOnce
<1> QED
  BY <1>4, <1>6, <1>7

(* The regular action of an open decision: it closes the turn, or leaves a *)
(* deferred end in the name of the turn's actor.                           *)
LEMMA SubmitActionStep ==
  ASSUME IInv, SubmitAction
  PROVE  IInv'
<1> USE DEF IInv
<1>1. phase = "awaiting_decision" /\ owner # NoUnit /\ window \in {"idle", "turn_active"}
  BY DEF SubmitAction, Admits, OperationPhases, TurnOffered
<1>2. activeTurn # NoUnit /\ pending = NoUnit /\ owner = activeTurn
  BY <1>1 DEF OpenTurnMatchesPhase, DecisionBelongsToTurn, DecisionWindow
<1>3. acted' = acted + 1 /\ acted' \in Nat /\ UNCHANGED <<turnIndex, wave, outcome>>
  BY DEF SubmitAction, TypeOK
<1>4. PICK w \in Settle(field) : IF QueuesEmpty(w) THEN FinishTurn(w) ELSE DeferTurnEnd(w)
  BY DEF SubmitAction
<1>5. w \in Fields
  BY <1>4, SettleType DEF TypeOK
<1>6. CASE FinishTurn(w)
  <2>1. PICK w2 \in Settle(w) : CloseTurn(w2)
    BY <1>6 DEF FinishTurn
  <2>2. w2 \in Fields
    BY <1>5, <2>1, SettleType
  <2>3. /\ ticks' \in [Moments -> Nat]
        /\ \A m \in Moments :
             ticks'[m] = ticks[m] + (IF m \in {"ActionPhaseEnd", "TurnEnd"} THEN 1 ELSE 0)
    BY <1>6, TickEffect DEF FinishTurn, TypeOK
  <2>4. ticks["ActionPhaseEnd"] = acted
    BY <1>2 DEF LifecycleTickedOnce, TypeOK
  <2>5. pending' = NoUnit
    BY <1>2, <1>6 DEF FinishTurn
  <2>6. /\ ticks'["ModifierPhase1End"] = ticks["ModifierPhase1End"]
        /\ ticks'["TurnEnd"] = ticks["TurnEnd"] + 1
        /\ ticks'["ActionPhaseEnd"] - acted' = 0
    BY <1>3, <2>3, <2>4 DEF Moments, TypeOK
  <2> QED
    BY <1>2, <1>3, <2>1, <2>2, <2>3, <2>5, <2>6, CloseTurnStep
<1>7. CASE DeferTurnEnd(w)
  <2>1. /\ field' = w /\ phase' = "post_action" /\ window' = "action" /\ pending' = owner
        /\ UNCHANGED <<owner, activeTurn, ticks>>
    BY <1>7 DEF DeferTurnEnd
  <2>2. TypeOK'
    BY <1>3, <1>5, <2>1 DEF TypeOK, RestPhases
  <2>3. outcome = "none"
    BY <1>1 DEF OutcomeInEnded, Ended
  <2>4. OpenTurnMatchesPhase' /\ DecisionBelongsToTurn' /\ DecisionWindow' /\ OutcomeInEnded'
    BY <1>2, <1>3, <2>1, <2>3
    DEF OpenTurnMatchesPhase, DecisionBelongsToTurn, DecisionWindow, OutcomeInEnded, Ended
  <2>5. LifecycleTickedOnce'
    BY <1>1, <1>2, <1>3, <2>1 DEF LifecycleTickedOnce, TypeOK
  <2> QED
    BY <2>2, <2>4, <2>5
<1> QED
  BY <1>4, <1>6, <1>7

LEMMA CompletePendingTurnEndStep ==
  ASSUME IInv, CompletePendingTurnEnd
  PROVE  IInv'
<1> USE DEF IInv
<1>1. PICK w \in Settle(field) : CloseTurn(w)
  BY DEF CompletePendingTurnEnd
<1>2. w \in Fields
  BY <1>1, SettleType DEF TypeOK
<1>3. /\ ticks' \in [Moments -> Nat]
      /\ \A m \in Moments :
           ticks'[m] = ticks[m] + (IF m \in {"ActionPhaseEnd", "TurnEnd"} THEN 1 ELSE 0)
  BY TickEffect DEF CompletePendingTurnEnd, TypeOK
<1>4. acted' = acted /\ acted' \in Nat /\ UNCHANGED <<turnIndex, wave, outcome>>
      /\ pending # NoUnit /\ pending' = NoUnit /\ activeTurn # NoUnit
  BY DEF CompletePendingTurnEnd, TypeOK
<1>5. ticks["ActionPhaseEnd"] = acted - 1
  BY <1>4 DEF LifecycleTickedOnce
<1>6. /\ ticks'["ModifierPhase1End"] = ticks["ModifierPhase1End"]
      /\ ticks'["TurnEnd"] = ticks["TurnEnd"] + 1
      /\ ticks'["ActionPhaseEnd"] - acted' = 0
  BY <1>3, <1>4, <1>5 DEF Moments, TypeOK
<1> QED
  BY <1>1, <1>2, <1>3, <1>4, <1>6, CloseTurnStep

LEMMA EndSkippedTurnStep ==
  ASSUME IInv, EndSkippedTurn
  PROVE  IInv'
<1> USE DEF IInv
<1>1. PICK w \in Settle(field) : CloseTurn(w)
  BY DEF EndSkippedTurn
<1>2. w \in Fields
  BY <1>1, SettleType DEF TypeOK
<1>3. /\ ticks' \in [Moments -> Nat]
      /\ \A m \in Moments : ticks'[m] = ticks[m] + (IF m \in {"TurnEnd"} THEN 1 ELSE 0)
  BY TickEffect DEF EndSkippedTurn, TypeOK
<1>4. acted' = acted /\ acted' \in Nat /\ UNCHANGED <<turnIndex, wave, outcome>>
      /\ phase = "turn_end" /\ pending' = pending /\ activeTurn # NoUnit
  BY DEF EndSkippedTurn, TypeOK
<1>5. pending = NoUnit /\ ticks["ActionPhaseEnd"] = acted
  BY <1>4 DEF LifecycleTickedOnce, OpenTurnMatchesPhase, TypeOK
<1>6. /\ ticks'["ModifierPhase1End"] = ticks["ModifierPhase1End"]
      /\ ticks'["TurnEnd"] = ticks["TurnEnd"] + 1
      /\ ticks'["ActionPhaseEnd"] - acted' = 0
  BY <1>3, <1>4, <1>5 DEF Moments, TypeOK
<1> QED
  BY <1>1, <1>2, <1>3, <1>4, <1>5, <1>6, CloseTurnStep

(* Queue work moves the field, and the owner and window of who acts; the   *)
(* window it leaves is one that admits no turn action.                     *)
LEMMA QueueStep ==
  ASSUME IInv, field' \in Fields,
         \/ \E u \in Units : ActionOpenedBy(u)
         \/ UNCHANGED <<owner, window>>,
         UNCHANGED <<phase, activeTurn, pending, turnIndex, wave, outcome, acted, ticks>>
  PROVE  IInv'
<1>1. TypeOK'
  BY DEF IInv, TypeOK, ActionOpenedBy, Actors
<1>2. DecisionBelongsToTurn' /\ DecisionWindow'
  BY DEF IInv, DecisionBelongsToTurn, DecisionWindow, ActionOpenedBy
<1>3. OpenTurnMatchesPhase' /\ LifecycleTickedOnce' /\ OutcomeInEnded'
  BY DEF IInv, OpenTurnMatchesPhase, LifecycleTickedOnce, OutcomeInEnded, Ended
<1> QED
  BY <1>1, <1>2, <1>3 DEF IInv

LEMMA SelectedQueued == ASSUME NEW w, NEW p \in Selected(w) PROVE p \in Queued(w)
BY DEF Selected, Admitted, BlockedHeads

LEMMA DropEntryStep ==
  ASSUME IInv, NEW p \in Queued(field), DropEntry(p)
  PROVE  IInv'
<1>1. field' \in Fields
  BY DequeuedType DEF IInv, TypeOK, DropEntry
<1> QED
  BY <1>1, QueueStep DEF DropEntry

LEMMA DrainStep ==
  ASSUME IInv, DrainMandatory
  PROVE  IInv'
<1>1. PICK p \in Selected(field) :
        /\ field' \in Settle(Dequeued(field, p))
        /\ IF EntryAt(field, p).family = "insert_action"
           THEN ActionOpenedBy(EntryAt(field, p).actor)
           ELSE UNCHANGED <<owner, window>>
  BY DEF DrainMandatory
<1>2. p \in Queued(field) /\ field \in Fields
  BY <1>1, SelectedQueued DEF IInv, TypeOK
<1>3. field' \in Fields
  BY <1>1, <1>2, DequeuedType, SettleType
<1>4. EntryAt(field, p).actor \in Units
  BY <1>2, EntryType DEF Entries
<1> QED
  BY <1>1, <1>3, <1>4, QueueStep DEF DrainMandatory

LEMMA SubmitUltimateStep ==
  ASSUME IInv, SubmitUltimate
  PROVE  IInv'
<1>1. PICK p \in Queued(field) :
        /\ \E w \in Settle(Dequeued(field, p)) :
             field' = [w EXCEPT !.energy[EntryAt(field, p).actor] = FALSE]
        /\ ActionOpenedBy(EntryAt(field, p).actor)
  BY DEF SubmitUltimate
<1>2. EntryAt(field, p).actor \in Units
  BY EntryType DEF Entries, IInv, TypeOK
<1>3. PICK w \in Fields : field' = [w EXCEPT !.energy[EntryAt(field, p).actor] = FALSE]
  BY <1>1, DequeuedType, SettleType DEF IInv, TypeOK
<1>4. field' \in Fields
  BY <1>2, <1>3 DEF Fields
<1> QED
  BY <1>1, <1>2, <1>4, QueueStep DEF SubmitUltimate

LEMMA RequestUltimateStep ==
  ASSUME IInv, RequestUltimate
  PROVE  IInv'
<1>1. PICK u \in Allies :
        /\ field.budget > 0
        /\ field' = [Enqueued(field, [actor |-> u, family |-> "ultimate"]) EXCEPT !.budget = @ - 1]
  BY DEF RequestUltimate
<1>2. [actor |-> u, family |-> "ultimate"] \in Entries
  BY DEF Entries, Families, Units
<1> DEFINE x == Enqueued(field, [actor |-> u, family |-> "ultimate"])
<1>3. field \in Fields /\ x \in Fields
  BY <1>2, EnqueuedType DEF IInv, TypeOK
<1>4. x.budget = field.budget
  BY <1>3 DEF Enqueued, Fields
<1>5. x.budget - 1 \in Nat
  BY <1>1, <1>3, <1>4 DEF Fields
<1>6. field' \in Fields
  BY <1>1, <1>3, <1>5 DEF Fields
<1> QED
  BY <1>6, QueueStep DEF RequestUltimate

(* A wave step starts and ends between turns.                              *)
LEMMA WaveStepStep ==
  ASSUME IInv, NEW plan, NEW exit \in {"idle", "ended"}, WaveStep(plan, exit),
         field' \in Fields, wave' \in [index : DOMAIN Waves, started : BOOLEAN],
         \/ exit = "idle" /\ UNCHANGED <<window, outcome>>
         \/ exit = "ended" /\ window' = "battle_end" /\ outcome' \in {"victory", "defeat"}
  PROVE  IInv' /\ phase = "idle"
<1> USE DEF IInv
<1>1. MayEnter(phase, "wave_transition") /\ phase # "turn_end" /\ outcome = "none"
  BY LegalPath3 DEF WaveStep, PastPending, PastQueue, Ended
<1>2. phase = "idle"
  BY <1>1, WaveOnlyFromIdle DEF TypeOK
<1>3. phase' = exit /\ UNCHANGED <<owner, activeTurn, pending, turnIndex, acted, ticks>>
  BY DEF WaveStep
<1>4. TypeOK'
  BY <1>3 DEF TypeOK, RestPhases
<1>5. OpenTurnMatchesPhase' /\ DecisionBelongsToTurn' /\ DecisionWindow' /\ OutcomeInEnded'
  BY <1>1, <1>2, <1>3
  DEF OpenTurnMatchesPhase, DecisionBelongsToTurn, DecisionWindow, OutcomeInEnded, Ended
<1>6. LifecycleTickedOnce'
  BY <1>3 DEF LifecycleTickedOnce
<1> QED
  BY <1>2, <1>4, <1>5, <1>6

-----------------------------------------------------------------------------
(* Waves and the next-state relation                                       *)

LEMMA WaveSteps ==
  ASSUME IInv, StartWave \/ AdvanceWave \/ WinBattle \/ LoseBattle
  PROVE  IInv' /\ phase = "idle" /\ PastPending
<1>1. field \in Fields /\ wave \in [index : DOMAIN Waves, started : BOOLEAN]
  BY DEF IInv, TypeOK
<1>2. DOMAIN Waves = 1..Len(Waves) /\ Len(Waves) \in Nat
  BY UnitsAssumption
<1>3. CASE StartWave
  <2>1. field' \in Fields
    BY <1>1, <1>3, SettleType DEF StartWave
  <2>2. wave' \in [index : DOMAIN Waves, started : BOOLEAN]
    BY <1>1, <1>3 DEF StartWave
  <2> QED
    BY <1>3, <2>1, <2>2, WaveStepStep DEF StartWave, WaveStep
<1>4. CASE AdvanceWave
  <2>1. CurrentWavePlan = "advance_to_next_wave"
    BY <1>4 DEF AdvanceWave, WaveStep
  <2>2. wave.index # Len(Waves)
    BY <2>1 DEF CurrentWavePlan, WavePlan
  <2>3. wave.index + 1 \in DOMAIN Waves
    BY <1>1, <1>2, <2>2
  <2>4. WaveRemoved(field, wave.index) \in Fields
    BY <1>1, WaveType
  <2>5. WaveSpawned(WaveRemoved(field, wave.index), wave.index + 1) \in Fields
    BY <2>3, <2>4, WaveType
  <2>6. field' \in Fields
    BY <1>4, <2>5, SettleType DEF AdvanceWave
  <2>7. wave' \in [index : DOMAIN Waves, started : BOOLEAN]
    BY <1>1, <1>4, <2>3 DEF AdvanceWave
  <2> QED
    BY <1>4, <2>6, <2>7, WaveStepStep DEF AdvanceWave, WaveStep
<1>5. CASE WinBattle
  <2>1. WaveRemoved(field, wave.index) \in Fields
    BY <1>1, WaveType
  <2>2. field' \in Fields
    BY <1>5, <2>1, SettleType DEF WinBattle
  <2> QED
    BY <1>1, <1>5, <2>2, WaveStepStep DEF WinBattle, WaveStep
<1>6. CASE LoseBattle
  <2>1. field' \in Fields
    BY <1>1, <1>6, SettleType DEF LoseBattle
  <2> QED
    BY <1>1, <1>6, <2>1, WaveStepStep DEF LoseBattle, WaveStep
<1> QED
  BY <1>3, <1>4, <1>5, <1>6

(* Both ways to open a turn open it from idle, for a unit.                 *)
LEMMA TurnOpeners ==
  ASSUME BeginTurn \/ ChooseTiedActor
  PROVE  \E u \in Leading(field) : phase = "idle" /\ OpenTurn(u)
<1>1. Admits("advance_timeline", phase) => phase = "idle"
  BY DEF Admits, OperationPhases
<1> QED
  BY <1>1 DEF BeginTurn, ChooseTiedActor, NextActors

LEMMA QueueSteps ==
  ASSUME IInv, DrainMandatory \/ TerminalizeEntry \/ SubmitUltimate \/ RefuseUltimate
               \/ RequestUltimate
  PROVE  IInv'
<1>1. CASE TerminalizeEntry \/ RefuseUltimate
  <2>1. \E p \in Queued(field) : DropEntry(p)
    BY <1>1, SelectedQueued DEF TerminalizeEntry, RefuseUltimate
  <2> QED
    BY <2>1, DropEntryStep
<1> QED
  BY <1>1, DrainStep, SubmitUltimateStep, RequestUltimateStep

LEMMA NextIInv == IInv /\ [Next]_vars => IInv'
<1> SUFFICES ASSUME IInv, [Next]_vars PROVE IInv'
  OBVIOUS
<1>1. CASE BeginTurn \/ ChooseTiedActor
  <2>1. PICK u \in Leading(field) : phase = "idle" /\ OpenTurn(u)
    BY <1>1, TurnOpeners
  <2>2. u \in Units
    BY DEF Leading
  <2> QED
    BY <2>1, <2>2, OpenTurnStep
<1>2. CASE SubmitAction
  BY <1>2, SubmitActionStep
<1>3. CASE CompletePendingTurnEnd
  BY <1>3, CompletePendingTurnEndStep
<1>4. CASE EndSkippedTurn
  BY <1>4, EndSkippedTurnStep
<1>5. CASE DrainMandatory \/ TerminalizeEntry \/ SubmitUltimate \/ RefuseUltimate
           \/ RequestUltimate
  BY <1>5, QueueSteps
<1>6. CASE StartWave \/ AdvanceWave \/ WinBattle \/ LoseBattle
  BY <1>6, WaveSteps
<1>7. CASE UNCHANGED vars
  BY <1>7 DEF vars, IInv, TypeOK, OpenTurnMatchesPhase, DecisionBelongsToTurn,
     LifecycleTickedOnce, DecisionWindow, OutcomeInEnded, Ended
<1> QED
  BY <1>1, <1>2, <1>3, <1>4, <1>5, <1>6, <1>7 DEF Next, InternalStep, ControllerStep

(* The inductive invariant holds of every reachable state.                 *)
THEOREM Inductive == Spec => []IInv
BY InitIInv, NextIInv, PTL DEF Spec

(* Every reachable state is well typed.                                    *)
THEOREM TypeCorrect == Spec => []TypeOK
<1>1. IInv => TypeOK
  BY DEF IInv
<1> QED
  BY <1>1, Inductive, PTL

(* A turn is open exactly in the phases that are bound to end it, and the  *)
(* deferred turn end names its actor (scheduler.step, end_current_turn).   *)
THEOREM TurnsStayAccounted == Spec => []OpenTurnMatchesPhase
<1>1. IInv => OpenTurnMatchesPhase
  BY DEF IInv
<1> QED
  BY <1>1, Inductive, PTL

(* No inserted action can submit a second regular action in the name of    *)
(* the turn's actor (action_contract.evaluate after timeline.open_action). *)
THEOREM DecisionsBelongToTurns == Spec => []DecisionBelongsToTurn
<1>1. IInv => DecisionBelongsToTurn
  BY DEF IInv
<1> QED
  BY <1>1, Inductive, PTL

(* The life steps of a turn tick once each, deferred turn end or not       *)
(* (scheduler._apply_status_lifecycle_tick and its callers).               *)
THEOREM TicksOnce == Spec => []LifecycleTickedOnce
<1>1. IInv => LifecycleTickedOnce
  BY DEF IInv
<1> QED
  BY <1>1, Inductive, PTL

-----------------------------------------------------------------------------
(* Refinement: the scheduler implements TurnCycle                          *)

LEMMA CycleInit == Init => Cycle!Init
BY DEF Init, Cycle!Init, Stage, Moments

LEMMA CycleOpen ==
  ASSUME IInv, NEW u \in Units, phase = "idle", OpenTurn(u)
  PROVE  Cycle!Open(u)
<1>1. /\ activeTurn' = u /\ turnIndex' = turnIndex + 1 /\ Tick({"ModifierPhase1End"})
      /\ phase' \in {"turn_end", "awaiting_decision"}
  BY DEF OpenTurn
<1>2. ticks'["TurnEnd"] = ticks["TurnEnd"]
  BY <1>1, TickEffect DEF IInv, TypeOK, Moments
<1> QED
  BY <1>1, <1>2 DEF Cycle!Open, Stage

LEMMA CycleClose ==
  ASSUME IInv, NEW w, NEW S, CloseTurn(w), Tick(S), "TurnEnd" \in S, activeTurn # NoUnit,
         turnIndex' = turnIndex
  PROVE  Cycle!Close
<1>1. phase' = "idle" /\ activeTurn' = NoUnit
  BY DEF CloseTurn
<1>2. ticks'["TurnEnd"] = ticks["TurnEnd"] + 1
  BY TickEffect DEF IInv, TypeOK, Moments
<1>3. phase \in {"awaiting_decision", "post_action", "turn_end"}
  BY DEF IInv, OpenTurnMatchesPhase
<1> QED
  BY <1>1, <1>2, <1>3 DEF Cycle!Close, Stage

LEMMA CycleSubmit ==
  ASSUME IInv, SubmitAction
  PROVE  Cycle!Close \/ Cycle!Defer
<1>1. phase = "awaiting_decision" /\ activeTurn # NoUnit /\ turnIndex' = turnIndex
  BY DEF SubmitAction, Admits, OperationPhases, IInv, OpenTurnMatchesPhase
<1>2. PICK w \in Settle(field) : FinishTurn(w) \/ DeferTurnEnd(w)
  BY DEF SubmitAction
<1>3. CASE FinishTurn(w)
  <2>1. PICK w2 : CloseTurn(w2)
    BY <1>3 DEF FinishTurn
  <2>2. Tick({"ActionPhaseEnd", "TurnEnd"})
    BY <1>3 DEF FinishTurn
  <2> QED
    BY <1>1, <2>1, <2>2, CycleClose
<1>4. CASE DeferTurnEnd(w)
  BY <1>1, <1>4 DEF DeferTurnEnd, Cycle!Defer, Stage
<1> QED
  BY <1>2, <1>3, <1>4

LEMMA CycleStep == IInv /\ [Next]_vars => [Cycle!Next]_(Cycle!vars)
<1> SUFFICES ASSUME IInv, [Next]_vars PROVE Cycle!Next \/ UNCHANGED Cycle!vars
  OBVIOUS
<1> USE DEF Cycle!Next
<1>1. CASE BeginTurn \/ ChooseTiedActor
  BY <1>1, TurnOpeners, CycleOpen DEF Leading
<1>2. CASE SubmitAction
  BY <1>2, CycleSubmit
<1>3. CASE CompletePendingTurnEnd
  <2>1. PICK w : CloseTurn(w)
    BY <1>3 DEF CompletePendingTurnEnd
  <2>2. Tick({"ActionPhaseEnd", "TurnEnd"}) /\ activeTurn # NoUnit /\ turnIndex' = turnIndex
    BY <1>3 DEF CompletePendingTurnEnd
  <2> QED
    BY <2>1, <2>2, CycleClose
<1>4. CASE EndSkippedTurn
  <2>1. PICK w : CloseTurn(w)
    BY <1>4 DEF EndSkippedTurn
  <2>2. Tick({"TurnEnd"}) /\ activeTurn # NoUnit /\ turnIndex' = turnIndex
    BY <1>4 DEF EndSkippedTurn
  <2> QED
    BY <2>1, <2>2, CycleClose
<1>5. CASE DrainMandatory \/ TerminalizeEntry \/ SubmitUltimate \/ RefuseUltimate
           \/ RequestUltimate
  BY <1>5 DEF DrainMandatory, TerminalizeEntry, SubmitUltimate, RefuseUltimate,
     RequestUltimate, DropEntry, Cycle!vars, Stage
<1>6. CASE StartWave \/ AdvanceWave \/ WinBattle \/ LoseBattle
  <2>1. phase = "idle"
    BY <1>6, WaveSteps
  <2>2. phase' \in {"idle", "ended"} /\ UNCHANGED <<activeTurn, turnIndex, ticks>>
    BY <1>6 DEF StartWave, AdvanceWave, WinBattle, LoseBattle, WaveStep
  <2> QED
    BY <2>1, <2>2 DEF Cycle!Finish, Cycle!vars, Stage
<1>7. CASE UNCHANGED vars
  BY <1>7 DEF vars, Cycle!vars, Stage
<1> QED
  BY <1>1, <1>2, <1>3, <1>4, <1>5, <1>6, <1>7 DEF Next, InternalStep, ControllerStep

(* Whatever is queued, inserted or refused in between, and however waves   *)
(* and deaths fall, regular turns are opened and closed one at a time      *)
(* (scheduler.step, advance_to_next_turn, end_current_turn).               *)
THEOREM ImplementsTurnCycle == Spec => TurnsFollowTheCycle
BY Inductive, CycleInit, CycleStep, PTL DEF Spec, TurnsFollowTheCycle, Cycle!Spec

-----------------------------------------------------------------------------
(* Action properties                                                       *)

(* A regular turn never jumps a queue entry, a deferred turn end, another  *)
(* turn or a unit that is due earlier (scheduler.step's order of checks).  *)
THEOREM TurnsBeginInOrder == Spec => TurnBeginsInOrder
<1>1. ASSUME IInv, [Next]_vars, turnIndex' # turnIndex
      PROVE  /\ QueuesEmpty(field) /\ pending = NoUnit /\ activeTurn = NoUnit
             /\ CanAct(field, activeTurn')
             /\ \A u \in Units : CanAct(field, u) => field.av[activeTurn'] <= field.av[u]
  <2>1. BeginTurn \/ ChooseTiedActor
    BY <1>1 DEF Next, InternalStep, ControllerStep, vars, SubmitAction, CompletePendingTurnEnd,
       EndSkippedTurn, DrainMandatory, TerminalizeEntry, DropEntry, RefuseUltimate,
       SubmitUltimate, RequestUltimate, StartWave, AdvanceWave, WinBattle, LoseBattle, WaveStep
  <2>2. QueuesEmpty(field) /\ pending = NoUnit
    BY <2>1 DEF BeginTurn, ChooseTiedActor, TieOffered, PastWave, PastPending, PastQueue
  <2>3. PICK u \in Leading(field) : phase = "idle" /\ OpenTurn(u)
    BY <2>1, TurnOpeners
  <2>4. activeTurn = NoUnit
    BY <1>1, <2>3 DEF IInv, OpenTurnMatchesPhase
  <2>5. activeTurn' = u
    BY <2>3 DEF OpenTurn
  <2> QED
    BY <2>2, <2>3, <2>4, <2>5 DEF Leading
<1> QED
  BY <1>1, Inductive, PTL DEF Spec, TurnBeginsInOrder

(* Waves and the outcome only move between turns, and only forward         *)
(* (scheduler._try_wave_transition, wave.plan_transition).                 *)
THEOREM BattlesOnlyProgress == Spec => BattleOnlyProgresses
<1>1. ASSUME IInv, [Next]_vars
      PROVE  /\ wave' # wave \/ outcome' # outcome =>
                  activeTurn = NoUnit /\ pending = NoUnit /\ QueuesEmpty(field)
             /\ wave'.index \in {wave.index, wave.index + 1}
             /\ Ended => outcome' = outcome /\ wave' = wave /\ turnIndex' = turnIndex
  <2>1. CASE StartWave \/ AdvanceWave \/ WinBattle \/ LoseBattle
    <3>1. phase = "idle" /\ PastPending
      BY <1>1, <2>1, WaveSteps
    <3>2. activeTurn = NoUnit
      BY <1>1, <3>1 DEF IInv, OpenTurnMatchesPhase
    <3>3. pending = NoUnit /\ QueuesEmpty(field) /\ ~Ended
      BY <3>1 DEF PastPending, PastQueue
    <3>4. wave'.index \in {wave.index, wave.index + 1}
      BY <1>1, <2>1 DEF StartWave, AdvanceWave, WinBattle, LoseBattle, IInv, TypeOK
    <3> QED
      BY <3>2, <3>3, <3>4
  <2>2. CASE BeginTurn \/ ChooseTiedActor
    BY <2>2 DEF BeginTurn, ChooseTiedActor, TieOffered, PastWave, PastPending, PastQueue, OpenTurn
  <2>3. CASE UNCHANGED <<wave, outcome, turnIndex>>
    BY <2>3
  <2> QED
    BY <1>1, <2>1, <2>2, <2>3
    DEF Next, InternalStep, ControllerStep, vars, SubmitAction, CompletePendingTurnEnd,
        EndSkippedTurn, DrainMandatory, TerminalizeEntry, DropEntry, RefuseUltimate,
        SubmitUltimate, RequestUltimate
<1> QED
  BY <1>1, Inductive, PTL DEF Spec, BattleOnlyProgresses

-----------------------------------------------------------------------------
(* Lives and queues under a settlement                                     *)

(* From w to x lives only change from active to defeated, and no queue has *)
(* got shorter.                                                            *)
Ages(w, x) ==
  \A u \in Units : x.life[u] = w.life[u] \/ (w.life[u] = "active" /\ x.life[u] = "defeated")
Grows(w, x) == \A q \in QueueNames : Len(x.queues[q]) >= Len(w.queues[q])

LEMMA LaterTransitive ==
  ASSUME NEW w \in Fields, NEW x \in Fields, NEW y \in Fields,
         Ages(w, x), Grows(w, x), Ages(x, y), Grows(x, y)
  PROVE  Ages(w, y) /\ Grows(w, y)
<1>1. Ages(w, y)
  BY DEF Ages
<1>2. \A q \in QueueNames :
        Len(w.queues[q]) \in Nat /\ Len(x.queues[q]) \in Nat /\ Len(y.queues[q]) \in Nat
  BY DEF Fields
<1>3. Grows(w, y)
  BY <1>2 DEF Grows
<1> QED
  BY <1>1, <1>3

LEMMA SameLater ==
  ASSUME NEW w \in Fields, NEW x, x.life = w.life, x.queues = w.queues
  PROVE  Ages(w, x) /\ Grows(w, x)
<1>1. \A q \in QueueNames : Len(w.queues[q]) \in Nat
  BY DEF Fields
<1> QED
  BY <1>1 DEF Ages, Grows

LEMMA EnqueuedLater ==
  ASSUME NEW w \in Fields, NEW e \in Entries
  PROVE  Ages(w, Enqueued(w, e)) /\ Grows(w, Enqueued(w, e))
<1>1. HomeQueue(e.family) \in QueueNames
  BY DEF HomeQueue, QueueNames
<1>2. \A q \in QueueNames : w.queues[q] \in Seq(Entries) /\ Len(w.queues[q]) \in Nat
  BY DEF Fields
<1>3. Len(Append(w.queues[HomeQueue(e.family)], e)) = Len(w.queues[HomeQueue(e.family)]) + 1
  BY <1>1, <1>2
<1>4. Enqueued(w, e).life = w.life
  BY DEF Enqueued, Fields
<1>5. \A q \in QueueNames :
        Enqueued(w, e).queues[q] = IF q = HomeQueue(e.family)
                                   THEN Append(w.queues[HomeQueue(e.family)], e)
                                   ELSE w.queues[q]
  BY <1>1 DEF Enqueued, Fields
<1>6. Grows(w, Enqueued(w, e))
  <2> SUFFICES ASSUME NEW q \in QueueNames
               PROVE  Len(Enqueued(w, e).queues[q]) >= Len(w.queues[q])
    BY DEF Grows
  <2>1. CASE q = HomeQueue(e.family)
    <3>1. Len(Enqueued(w, e).queues[q]) = Len(w.queues[q]) + 1
      BY <1>3, <1>5, <2>1
    <3> QED
      BY <1>2, <3>1
  <2>2. CASE q # HomeQueue(e.family)
    <3>1. Len(Enqueued(w, e).queues[q]) = Len(w.queues[q])
      BY <1>5, <2>2
    <3> QED
      BY <1>2, <3>1
  <2> QED
    BY <2>1, <2>2
<1>7. Ages(w, Enqueued(w, e))
  BY <1>4 DEF Ages
<1> QED
  BY <1>6, <1>7

LEMMA EffectsLater ==
  ASSUME NEW w \in Fields, NEW x \in Effects(w)
  PROVE  Ages(w, x) /\ Grows(w, x)
<1>1. CASE \E u \in Units : CanAct(w, u) /\ x = [w EXCEPT !.life[u] = "defeated"]
  <2>1. PICK u \in Units : CanAct(w, u) /\ x = [w EXCEPT !.life[u] = "defeated"]
    BY <1>1
  <2>2. x.queues = w.queues /\ \A q \in QueueNames : Len(w.queues[q]) \in Nat
    BY <2>1 DEF Fields
  <2>3. \A v \in Units : x.life[v] = IF v = u THEN "defeated" ELSE w.life[v]
    BY <2>1 DEF Fields
  <2>4. Ages(w, x)
    BY <2>1, <2>3 DEF Ages, CanAct
  <2> QED
    BY <2>2, <2>4 DEF Grows
<1>2. CASE \/ \E u \in Units : x = [w EXCEPT !.control[u] = ~@]
           \/ \E u \in Units : x = [w EXCEPT !.energy[u] = TRUE]
           \/ \E u \in Units : x = [w EXCEPT !.av[u] = 0]
  <2>1. x.life = w.life /\ x.queues = w.queues
    BY <1>2 DEF Fields
  <2> QED
    BY <2>1, SameLater
<1>3. CASE \E e \in Inserts : x = Enqueued(w, e)
  BY <1>3, EnqueuedLater, ValuesAssumption
<1> QED
  BY <1>1, <1>2, <1>3 DEF Effects, Units

LEMMA AffectedLater ==
  ASSUME NEW w \in Fields, NEW x \in Affected(w)
  PROVE  x \in Fields /\ Ages(w, x) /\ Grows(w, x)
<1>1. x \in Fields
  BY AffectedType
<1>2. PICK y \in Effects(w) : x = [y EXCEPT !.budget = @ - 1]
  BY DEF Affected
<1>3. y \in Fields
  BY EffectsType
<1>4. x.life = y.life /\ x.queues = y.queues
  BY <1>2, <1>3 DEF Fields
<1>5. Ages(w, y) /\ Grows(w, y) /\ Ages(y, x) /\ Grows(y, x)
  BY <1>3, <1>4, EffectsLater, SameLater
<1> QED
  BY <1>1, <1>3, <1>5, LaterTransitive

(* Whatever a settlement does, it revives nobody and drains no queue.      *)
LEMMA SettleLater ==
  ASSUME NEW w \in Fields, NEW x \in Settle(w)
  PROVE  x \in Fields /\ Ages(w, x) /\ Grows(w, x)
<1>1. CASE x = w
  BY <1>1, SameLater
<1>2. CASE x \in Affected(w)
  BY <1>2, AffectedLater
<1>3. CASE \E y \in Affected(w) : x \in Affected(y)
  <2>1. PICK y \in Affected(w) : x \in Affected(y)
    BY <1>3
  <2>2. y \in Fields /\ Ages(w, y) /\ Grows(w, y)
    BY AffectedLater
  <2>3. x \in Fields /\ Ages(y, x) /\ Grows(y, x)
    BY <2>1, <2>2, AffectedLater
  <2> QED
    BY <2>2, <2>3, LaterTransitive
<1> QED
  BY <1>1, <1>2, <1>3 DEF Settle

(* A settlement of a field that only moved its action values or its        *)
(* energy, and whatever moves them afterwards.                             *)
LEMMA SettledFrom ==
  ASSUME NEW w \in Fields, NEW v \in Fields, v.life = w.life, v.queues = w.queues,
         NEW x \in Settle(v)
  PROVE  x \in Fields /\ Ages(w, x) /\ Grows(w, x)
BY SameLater, SettleLater, LaterTransitive

LEMMA ClosedFrom ==
  ASSUME NEW w \in Fields, NEW x \in Fields, Ages(w, x), Grows(w, x), NEW u \in Units
  PROVE  Ages(w, TurnReset(x, u)) /\ Grows(w, TurnReset(x, u))
<1>1. TurnReset(x, u) \in Fields
  BY TimelineType
<1>2. TurnReset(x, u).life = x.life /\ TurnReset(x, u).queues = x.queues
  BY DEF TurnReset, Fields
<1> QED
  BY <1>1, <1>2, SameLater, LaterTransitive

(* Opening, closing and acting in a turn, starting a wave, losing and      *)
(* requesting an ultimate: nobody is revived, no queue shrinks.            *)
LEMMA TurnStepsLater ==
  ASSUME IInv, \/ BeginTurn \/ ChooseTiedActor \/ SubmitAction \/ CompletePendingTurnEnd
               \/ EndSkippedTurn \/ StartWave \/ LoseBattle \/ RequestUltimate
  PROVE  Ages(field, field') /\ Grows(field, field')
<1>1. field \in Fields
  BY DEF IInv, TypeOK
<1>2. CASE BeginTurn \/ ChooseTiedActor
  <2>1. PICK u \in Units : field' \in Settle(Advanced(field, u))
    BY <1>2, TurnOpeners DEF OpenTurn, Leading
  <2>2. Advanced(field, u).life = field.life /\ Advanced(field, u).queues = field.queues
    BY <1>1 DEF Advanced, Fields
  <2> QED
    BY <1>1, <2>1, <2>2, TimelineType, SettledFrom
<1>3. CASE SubmitAction
  <2>1. PICK w \in Settle(field) : IF QueuesEmpty(w) THEN FinishTurn(w) ELSE DeferTurnEnd(w)
    BY <1>3 DEF SubmitAction
  <2>2. w \in Fields /\ Ages(field, w) /\ Grows(field, w)
    BY <1>1, SettleLater
  <2>3. CASE DeferTurnEnd(w)
    BY <2>2, <2>3 DEF DeferTurnEnd
  <2>4. CASE FinishTurn(w)
    <3>1. PICK x \in Settle(w) : field' = TurnReset(x, activeTurn)
      BY <2>4 DEF FinishTurn, CloseTurn
    <3>2. x \in Fields /\ Ages(w, x) /\ Grows(w, x)
      BY <2>2, SettleLater
    <3>3. Ages(field, x) /\ Grows(field, x)
      BY <1>1, <2>2, <3>2, LaterTransitive
    <3>4. activeTurn \in Units
      BY <1>3 DEF SubmitAction, TurnOffered, Admits, OperationPhases, IInv, TypeOK, Actors,
         OpenTurnMatchesPhase
    <3> QED
      BY <1>1, <3>1, <3>2, <3>3, <3>4, ClosedFrom
  <2> QED
    BY <2>1, <2>3, <2>4
<1>4. CASE CompletePendingTurnEnd \/ EndSkippedTurn
  <2>1. PICK x \in Settle(field) : field' = TurnReset(x, activeTurn)
    BY <1>4 DEF CompletePendingTurnEnd, EndSkippedTurn, CloseTurn
  <2>2. activeTurn \in Units
    BY <1>4 DEF CompletePendingTurnEnd, EndSkippedTurn, IInv, TypeOK, Actors
  <2> QED
    BY <1>1, <2>1, <2>2, SettleLater, ClosedFrom
<1>5. CASE StartWave \/ LoseBattle
  BY <1>1, <1>5, SettleLater DEF StartWave, LoseBattle
<1>6. CASE RequestUltimate
  <2>1. PICK u \in Allies :
          field' = [Enqueued(field, [actor |-> u, family |-> "ultimate"]) EXCEPT !.budget = @ - 1]
    BY <1>6 DEF RequestUltimate
  <2>2. [actor |-> u, family |-> "ultimate"] \in Entries
    BY DEF Entries, Families, Units
  <2> DEFINE x == Enqueued(field, [actor |-> u, family |-> "ultimate"])
  <2>3. x \in Fields /\ Ages(field, x) /\ Grows(field, x)
    BY <1>1, <2>2, EnqueuedType, EnqueuedLater
  <2>4. field'.life = x.life /\ field'.queues = x.queues
    BY <2>1, <2>3 DEF Fields
  <2> QED
    BY <2>3, <2>4 DEF Ages, Grows
<1> QED
  BY <1>2, <1>3, <1>4, <1>5, <1>6

(* Draining or refusing an entry revives nobody and moves the field only.  *)
LEMMA DrainsAge ==
  ASSUME IInv, DrainMandatory \/ TerminalizeEntry \/ SubmitUltimate \/ RefuseUltimate
  PROVE  /\ Ages(field, field')
         /\ UNCHANGED <<phase, activeTurn, pending, turnIndex, wave, outcome, ticks>>
<1>1. field \in Fields
  BY DEF IInv, TypeOK
<1>2. \A p \in Queued(field) :
        Dequeued(field, p) \in Fields /\ Dequeued(field, p).life = field.life
  BY <1>1, DequeuedType DEF Dequeued, Fields
<1>3. \A p \in Queued(field) : \A x \in Settle(Dequeued(field, p)) :
        x \in Fields /\ Ages(field, x)
  BY <1>2, SettleLater DEF Ages
<1>4. CASE DrainMandatory
  <2>1. \E p \in Queued(field) : field' \in Settle(Dequeued(field, p))
    BY <1>4, SelectedQueued DEF DrainMandatory
  <2> QED
    BY <1>3, <1>4, <2>1 DEF DrainMandatory
<1>5. CASE SubmitUltimate
  <2>1. PICK p \in Queued(field) : \E x \in Settle(Dequeued(field, p)) :
          field' = [x EXCEPT !.energy[EntryAt(field, p).actor] = FALSE]
    BY <1>5 DEF SubmitUltimate
  <2>5. PICK x \in Settle(Dequeued(field, p)) :
          field' = [x EXCEPT !.energy[EntryAt(field, p).actor] = FALSE]
    BY <2>1
  <2>2. x \in Fields /\ Ages(field, x)
    BY <1>3
  <2>3. field'.life = x.life
    BY <2>2, <2>5 DEF Fields
  <2>4. Ages(field, field')
    BY <2>2, <2>3 DEF Ages
  <2> QED
    BY <1>5, <2>4 DEF SubmitUltimate
<1>6. CASE TerminalizeEntry \/ RefuseUltimate
  <2>1. PICK p \in Queued(field) : DropEntry(p)
    BY <1>6, SelectedQueued DEF TerminalizeEntry, RefuseUltimate
  <2>2. Ages(field, field')
    BY <1>2, <2>1 DEF DropEntry, Ages
  <2> QED
    BY <2>1, <2>2 DEF DropEntry
<1> QED
  BY <1>4, <1>5, <1>6

(* Leaving a wave removes its members and settles from there.              *)
LEMMA WaveMoves ==
  ASSUME IInv, AdvanceWave \/ WinBattle
  PROVE  /\ Grows(field, field')
         /\ AdvanceWave => /\ wave.index + 1 \in DOMAIN Waves
                           /\ Ages(WaveSpawned(WaveRemoved(field, wave.index), wave.index + 1),
                                   field')
         /\ WinBattle => /\ wave.index = Len(Waves)
                         /\ Ages(WaveRemoved(field, wave.index), field')
<1>1. field \in Fields /\ wave.index \in DOMAIN Waves
  BY DEF IInv, TypeOK
<1>2. DOMAIN Waves = 1..Len(Waves) /\ Len(Waves) \in Nat
  BY UnitsAssumption
<1> DEFINE w == WaveRemoved(field, wave.index)
<1>3. w \in Fields /\ w.queues = field.queues
  BY <1>1, WaveType DEF WaveRemoved, Fields
<1>4. CASE AdvanceWave
  <2>1. CurrentWavePlan = "advance_to_next_wave"
    BY <1>4 DEF AdvanceWave, WaveStep
  <2>2. wave.index + 1 \in DOMAIN Waves
    BY <1>1, <1>2, <2>1 DEF CurrentWavePlan, WavePlan
  <2> DEFINE v == WaveSpawned(w, wave.index + 1)
  <2>3. v \in Fields /\ v.queues = w.queues
    <3>1. v \in Fields
      BY <1>3, <2>2, WaveType
    <3> HIDE DEF w
    <3>2. WaveSpawned(w, wave.index + 1).queues = w.queues
      BY <1>3 DEF WaveSpawned, Fields
    <3> QED
      BY <3>1, <3>2
  <2>4. Ages(v, field') /\ Grows(v, field')
    BY <1>4, <2>3, SettleLater DEF AdvanceWave
  <2>5. Grows(field, field')
    BY <1>3, <2>3, <2>4 DEF Grows
  <2>6. ~WinBattle
    BY <2>1 DEF WinBattle, WaveStep
  <2> QED
    BY <2>2, <2>4, <2>5, <2>6
<1>5. CASE WinBattle
  <2>1. CurrentWavePlan = "battle_victory"
    BY <1>5 DEF WinBattle, WaveStep
  <2>2. wave.index = Len(Waves)
    BY <2>1 DEF CurrentWavePlan, WavePlan
  <2>3. Ages(w, field') /\ Grows(w, field')
    BY <1>3, <1>5, SettleLater DEF WinBattle
  <2>4. Grows(field, field')
    BY <1>3, <2>3 DEF Grows
  <2>5. ~AdvanceWave
    BY <2>1 DEF AdvanceWave, WaveStep
  <2> QED
    BY <2>2, <2>3, <2>4, <2>5
<1> QED
  BY <1>4, <1>5

(* The members of each wave are enemies, and of that wave only.            *)
LEMMA WaveMembers ==
  /\ \A i \in DOMAIN Waves : \A u \in Waves[i] : u \in Units /\ u \in Enemies
  /\ \A i, j \in DOMAIN Waves : \A u \in Waves[i] : u \in Waves[j] => i = j
BY UnitsAssumption DEF Units

LEMMA AgedWaves ==
  ASSUME WavesInOrder, Ages(field, field'), wave'.index = wave.index,
         outcome' = "victory" => outcome = "victory"
  PROVE  WavesInOrder'
<1>1. \A u \in Units :
        /\ field.life[u] = "removed" => field'.life[u] = "removed"
        /\ field.life[u] = "absent" => field'.life[u] = "absent"
        /\ field.life[u] # "absent" => field'.life[u] # "absent"
  BY DEF Ages
<1> QED
  BY <1>1, WaveMembers DEF WavesInOrder, Units

LEMMA AdvancedWaves ==
  ASSUME IInv, WavesInOrder, AdvanceWave
  PROVE  WavesInOrder'
<1> DEFINE v == WaveSpawned(WaveRemoved(field, wave.index), wave.index + 1)
<1>1. /\ field \in Fields /\ wave.index \in DOMAIN Waves /\ wave.index + 1 \in DOMAIN Waves
      /\ DOMAIN Waves \subseteq Nat
  BY WaveMoves, UnitsAssumption DEF IInv, TypeOK
<1>2. Ages(v, field')
  BY WaveMoves
<1>3. \A u \in Units :
        v.life[u] = IF u \in Waves[wave.index + 1] THEN "active"
                    ELSE IF u \in Waves[wave.index] THEN "removed" ELSE field.life[u]
  BY <1>1 DEF WaveSpawned, WaveRemoved, Fields
<1>4. \A u \in Units :
        /\ v.life[u] = "removed" => field'.life[u] = "removed"
        /\ v.life[u] = "absent" => field'.life[u] = "absent"
        /\ v.life[u] = "active" => field'.life[u] # "absent"
  BY <1>2 DEF Ages
<1>5. wave'.index = wave.index + 1 /\ outcome' # "victory"
  BY <1>1 DEF AdvanceWave, WaveStep, PastPending, PastQueue, Ended, IInv, TypeOK
<1>6. ASSUME NEW i \in DOMAIN Waves, NEW u \in Waves[i]
      PROVE  /\ i < wave'.index => field'.life[u] = "removed"
             /\ i > wave'.index => field'.life[u] = "absent"
             /\ i = wave'.index => field'.life[u] # "absent"
  <2>1. u \in Units /\ i \in Nat
    BY <1>1, WaveMembers
  <2>2. CASE i = wave.index + 1
    BY <1>1, <1>3, <1>4, <1>5, <2>1, <2>2
  <2>3. CASE i = wave.index
    <3>1. u \notin Waves[wave.index + 1] /\ u \in Waves[wave.index]
      BY <1>1, <2>3, WaveMembers
    <3> QED
      BY <1>1, <1>3, <1>4, <1>5, <2>1, <2>3, <3>1
  <2>4. CASE i # wave.index /\ i # wave.index + 1
    <3>1. u \notin Waves[wave.index + 1] /\ u \notin Waves[wave.index]
      BY <1>1, <2>4, WaveMembers
    <3>2. v.life[u] = field.life[u]
      BY <1>3, <2>1, <3>1
    <3>3. /\ i < wave.index => field.life[u] = "removed"
          /\ i > wave.index => field.life[u] = "absent"
      BY DEF WavesInOrder
    <3> QED
      BY <1>1, <1>4, <1>5, <2>1, <2>4, <3>2, <3>3
  <2> QED
    BY <2>2, <2>3, <2>4
<1> QED
  BY <1>5, <1>6 DEF WavesInOrder

LEMMA WonWaves ==
  ASSUME IInv, WavesInOrder, WinBattle
  PROVE  WavesInOrder'
<1> DEFINE w == WaveRemoved(field, wave.index)
<1>1. /\ field \in Fields /\ wave.index \in DOMAIN Waves /\ DOMAIN Waves \subseteq Nat
      /\ wave.index = Len(Waves) /\ wave' = wave
      /\ \A i \in DOMAIN Waves : i <= Len(Waves)
  BY WaveMoves, UnitsAssumption DEF IInv, TypeOK, WinBattle
<1>2. Ages(w, field')
  BY WaveMoves
<1>3. \A u \in Units :
        w.life[u] = IF u \in Waves[wave.index] THEN "removed" ELSE field.life[u]
  BY <1>1 DEF WaveRemoved, Fields
<1>4. ASSUME NEW i \in DOMAIN Waves, NEW u \in Waves[i]
      PROVE  field'.life[u] = "removed"
  <2>1. u \in Units /\ i \in Nat /\ i <= wave.index
    BY <1>1, WaveMembers
  <2>2. w.life[u] = "removed"
    <3>1. CASE i = wave.index
      BY <1>3, <2>1, <3>1
    <3>2. CASE i < wave.index
      BY <1>3, <2>1, <3>2 DEF WavesInOrder
    <3> QED
      BY <1>1, <2>1, <3>1, <3>2
  <2> QED
    BY <1>2, <2>1, <2>2 DEF Ages
<1>5. \A u \in Enemies : field'.life[u] = "removed"
  BY <1>4, UnitsAssumption
<1> QED
  BY <1>1, <1>4, <1>5 DEF WavesInOrder

LEMMA NextWaves ==
  ASSUME IInv, WavesInOrder, [Next]_vars
  PROVE  WavesInOrder'
<1>1. CASE \/ BeginTurn \/ ChooseTiedActor \/ SubmitAction \/ CompletePendingTurnEnd
           \/ EndSkippedTurn \/ StartWave \/ LoseBattle \/ RequestUltimate
  <2>1. Ages(field, field')
    BY <1>1, TurnStepsLater
  <2>2. wave'.index = wave.index /\ (outcome' = "victory" => outcome = "victory")
    BY <1>1, TurnOpeners
    DEF OpenTurn, SubmitAction, CompletePendingTurnEnd, EndSkippedTurn, StartWave, LoseBattle,
        RequestUltimate, IInv, TypeOK
  <2> QED
    BY <2>1, <2>2, AgedWaves
<1>2. CASE DrainMandatory \/ TerminalizeEntry \/ SubmitUltimate \/ RefuseUltimate
  BY <1>2, DrainsAge, AgedWaves
<1>3. CASE AdvanceWave \/ WinBattle
  BY <1>3, AdvancedWaves, WonWaves
<1>4. CASE UNCHANGED vars
  <2>1. Ages(field, field') /\ wave' = wave /\ outcome' = outcome
    BY <1>4 DEF vars, Ages
  <2> QED
    BY <2>1, AgedWaves
<1> QED
  BY <1>1, <1>2, <1>3, <1>4 DEF Next, InternalStep, ControllerStep

(* The waves of WaveSystem.plan_transition: the enemies on the field are   *)
(* those of the current wave, none is revived, skipped or left behind, and *)
(* a victory is decided over the last wave with every enemy removed.       *)
THEOREM WavesStayInOrder == Spec => []WavesInOrder
<1>1. Init => WavesInOrder
  <2> SUFFICES ASSUME Init PROVE WavesInOrder
    OBVIOUS
  <2>1. wave.index = 1 /\ outcome = "none" /\ field = InitialField
    BY DEF Init
  <2>2. \A u \in Units :
          field.life[u] = IF u \in Allies \cup Waves[1] THEN "active" ELSE "absent"
    BY <2>1 DEF InitialField
  <2>3. 1 \in DOMAIN Waves /\ \A i \in DOMAIN Waves : i \in Nat /\ i >= 1
    BY UnitsAssumption
  <2>4. \A i \in DOMAIN Waves : \A u \in Waves[i] :
          field.life[u] = IF i = 1 THEN "active" ELSE "absent"
    BY <2>2, <2>3, WaveMembers, UnitsAssumption
  <2> QED
    BY <2>1, <2>3, <2>4 DEF WavesInOrder
<1> QED
  BY <1>1, Inductive, NextWaves, PTL DEF Spec

(* A step of _try_queue_drain that takes an entry out of its queue leaves  *)
(* the open turn, a deferred turn end, the life step ticks and the waves   *)
(* as they were: queued work runs inside the turn it interrupted.          *)
THEOREM QueuesKeepTurns == Spec => QueueKeepsTurn
<1>1. ASSUME IInv, [Next]_vars, NEW q \in QueueNames,
             Len(field'.queues[q]) < Len(field.queues[q])
      PROVE  /\ UNCHANGED <<phase, activeTurn, pending, turnIndex, ticks>>
             /\ wave' = wave /\ outcome' = outcome
  <2>1. Len(field.queues[q]) \in Nat
    BY <1>1 DEF IInv, TypeOK, Fields
  <2>2. IInv'
    BY <1>1, NextIInv
  <2>3. Len(field'.queues[q]) \in Nat
    BY <2>2 DEF IInv, TypeOK, Fields
  <2>4. ~Grows(field, field')
    BY <1>1, <2>1, <2>3 DEF Grows
  <2>5. CASE DrainMandatory \/ TerminalizeEntry \/ SubmitUltimate \/ RefuseUltimate
    BY <1>1, <2>5, DrainsAge
  <2>6. CASE UNCHANGED vars
    BY <2>6 DEF vars
  <2> QED
    BY <1>1, <2>4, <2>5, <2>6, TurnStepsLater, WaveMoves DEF Next, InternalStep, ControllerStep
<1>2. IInv /\ [Next]_vars =>
        [(\E q \in QueueNames : Len(field'.queues[q]) < Len(field.queues[q])) =>
           /\ UNCHANGED <<phase, activeTurn, pending, turnIndex, ticks>>
           /\ wave' = wave /\ outcome' = outcome]_vars
  BY <1>1
<1> QED
  BY <1>2, Inductive, PTL DEF Spec, QueueKeepsTurn

-----------------------------------------------------------------------------
(* Room in the queues: every position of a queue is one Queued ranges over *)

Roomy(w) == \A q \in QueueNames : Len(w.queues[q]) <= MaxQueue

LEMMA SameRoom == ASSUME NEW w, Roomy(w), NEW x, x.queues = w.queues PROVE Roomy(x)
BY DEF Roomy

LEMMA EnqueuedRoom ==
  ASSUME NEW w \in Fields, Roomy(w), NEW e \in Entries, HasRoom(w, e)
  PROVE  Roomy(Enqueued(w, e))
<1>1. HomeQueue(e.family) \in QueueNames
  BY DEF HomeQueue, QueueNames
<1>2. w.queues[HomeQueue(e.family)] \in Seq(Entries)
  BY <1>1 DEF Fields
<1>3. Len(Append(w.queues[HomeQueue(e.family)], e)) = Len(w.queues[HomeQueue(e.family)]) + 1
  BY <1>2
<1>4. Len(w.queues[HomeQueue(e.family)]) \in Nat
  BY <1>2
<1>5. Len(w.queues[HomeQueue(e.family)]) + 1 <= MaxQueue
  BY <1>4, ValuesAssumption DEF HasRoom
<1>6. \A q \in QueueNames :
        Enqueued(w, e).queues[q] = IF q = HomeQueue(e.family)
                                   THEN Append(w.queues[HomeQueue(e.family)], e)
                                   ELSE w.queues[q]
  BY <1>1 DEF Enqueued, Fields
<1> QED
  BY <1>3, <1>5, <1>6 DEF Roomy

LEMMA DequeuedRoom ==
  ASSUME NEW w \in Fields, Roomy(w), NEW p \in Queued(w)
  PROVE  Roomy(Dequeued(w, p))
<1>1. p[1] \in QueueNames /\ p[2] \in 1..Len(w.queues[p[1]])
  BY EntryType
<1> DEFINE s == w.queues[p[1]]
<1>2. s \in Seq(Entries) /\ Len(s) \in Nat
  BY <1>1 DEF Fields
<1>3. Len(RemoveAt(s, p[2])) <= Len(s)
  <2> HIDE DEF s
  <2>1. p[2] \in 1..Len(s)
    BY <1>1 DEF s
  <2>2. SubSeq(s, 1, p[2] - 1) \in Seq(Entries) /\ Len(SubSeq(s, 1, p[2] - 1)) = p[2] - 1
    BY <1>2, <2>1, SubSeqProperties
  <2>3. /\ SubSeq(s, p[2] + 1, Len(s)) \in Seq(Entries)
        /\ Len(SubSeq(s, p[2] + 1, Len(s))) = Len(s) - p[2]
    BY <1>2, <2>1, SubSeqProperties
  <2>4. Len(RemoveAt(s, p[2])) = (p[2] - 1) + (Len(s) - p[2])
    BY <2>2, <2>3, ConcatProperties DEF RemoveAt
  <2> QED
    BY <1>2, <2>1, <2>4
<1>4. Dequeued(w, p).queues = [w.queues EXCEPT ![p[1]] = RemoveAt(s, p[2])]
  BY DEF Dequeued, Fields
<1>5. \A q \in QueueNames :
        Dequeued(w, p).queues[q] = IF q = p[1] THEN RemoveAt(s, p[2]) ELSE w.queues[q]
  BY <1>1, <1>4 DEF Fields
<1>6. Len(RemoveAt(s, p[2])) \in Nat
  BY <1>1, <1>2, RemoveAtType
<1> HIDE DEF s
<1>7. Len(s) <= MaxQueue
  BY <1>1 DEF Roomy, s
<1>8. Len(RemoveAt(s, p[2])) <= MaxQueue
  BY <1>2, <1>3, <1>6, <1>7, ValuesAssumption
<1> QED
  BY <1>5, <1>8 DEF Roomy

LEMMA AffectedRoom ==
  ASSUME NEW w \in Fields, Roomy(w), NEW x \in Affected(w)
  PROVE  Roomy(x)
<1>1. PICK y \in Effects(w) : x = [y EXCEPT !.budget = @ - 1]
  BY DEF Affected
<1>2. y \in Fields
  BY EffectsType
<1>3. Roomy(y)
  <2>1. CASE \E e \in Inserts : HasRoom(w, e) /\ y = Enqueued(w, e)
    BY <2>1, EnqueuedRoom, ValuesAssumption
  <2>2. CASE \/ \E u \in Units : y = [w EXCEPT !.life[u] = "defeated"]
             \/ \E u \in Units : y = [w EXCEPT !.control[u] = ~@]
             \/ \E u \in Units : y = [w EXCEPT !.energy[u] = TRUE]
             \/ \E u \in Units : y = [w EXCEPT !.av[u] = 0]
    <3>1. y.queues = w.queues
      BY <2>2 DEF Fields
    <3> QED
      BY <3>1, SameRoom
  <2> QED
    BY <2>1, <2>2 DEF Effects, Units
<1>4. x.queues = y.queues
  BY <1>1, <1>2 DEF Fields
<1> QED
  BY <1>3, <1>4, SameRoom

LEMMA SettleRoom ==
  ASSUME NEW w \in Fields, Roomy(w), NEW x \in Settle(w)
  PROVE  x \in Fields /\ Roomy(x)
<1>1. \A y \in Affected(w) : y \in Fields /\ Roomy(y)
  BY AffectedType, AffectedRoom
<1> QED
  BY <1>1, AffectedType, AffectedRoom DEF Settle

LEMMA ResetRoom ==
  ASSUME NEW w \in Fields, Roomy(w), NEW u
  PROVE  Roomy(TurnReset(w, u))
<1>1. TurnReset(w, u).queues = w.queues
  BY DEF TurnReset, Fields
<1> QED
  BY <1>1, SameRoom

(* No step overfills a queue.                                              *)
LEMMA NextRoom == IInv /\ Roomy(field) /\ [Next]_vars => Roomy(field')
<1> SUFFICES ASSUME IInv, Roomy(field), [Next]_vars PROVE Roomy(field')
  OBVIOUS
<1>1. field \in Fields /\ wave.index \in DOMAIN Waves
  BY DEF IInv, TypeOK
<1>2. CASE BeginTurn \/ ChooseTiedActor
  <2>1. PICK u \in Units : field' \in Settle(Advanced(field, u))
    BY <1>2, TurnOpeners DEF OpenTurn, Leading
  <2>2. Advanced(field, u) \in Fields
    BY <1>1, TimelineType
  <2>3. Advanced(field, u).queues = field.queues
    BY <1>1 DEF Advanced, Fields
  <2>4. Roomy(Advanced(field, u))
    BY <2>3, SameRoom
  <2> QED
    BY <2>1, <2>2, <2>4, SettleRoom
<1>3. CASE SubmitAction
  <2>1. PICK w \in Settle(field) : IF QueuesEmpty(w) THEN FinishTurn(w) ELSE DeferTurnEnd(w)
    BY <1>3 DEF SubmitAction
  <2>2. w \in Fields /\ Roomy(w)
    BY <1>1, SettleRoom
  <2>3. CASE DeferTurnEnd(w)
    BY <2>2, <2>3 DEF DeferTurnEnd
  <2>4. CASE FinishTurn(w)
    BY <2>2, <2>4, SettleRoom, ResetRoom DEF FinishTurn, CloseTurn
  <2> QED
    BY <2>1, <2>3, <2>4
<1>4. CASE CompletePendingTurnEnd \/ EndSkippedTurn
  BY <1>1, <1>4, SettleRoom, ResetRoom DEF CompletePendingTurnEnd, EndSkippedTurn, CloseTurn
<1>5. CASE StartWave \/ LoseBattle
  BY <1>1, <1>5, SettleRoom DEF StartWave, LoseBattle
<1>6. CASE AdvanceWave \/ WinBattle
  <2> DEFINE w == WaveRemoved(field, wave.index)
  <2>1. w \in Fields /\ w.queues = field.queues
    BY <1>1, WaveType DEF WaveRemoved, Fields
  <2>2. Roomy(w)
    BY <2>1, SameRoom
  <2>3. CASE WinBattle
    BY <2>1, <2>2, <2>3, SettleRoom DEF WinBattle
  <2>4. CASE AdvanceWave
    <3>1. CurrentWavePlan = "advance_to_next_wave"
      BY <2>4 DEF AdvanceWave, WaveStep
    <3>2. wave.index + 1 \in DOMAIN Waves
      <4>1. DOMAIN Waves = 1..Len(Waves) /\ Len(Waves) \in Nat
        BY UnitsAssumption
      <4> QED
        BY <1>1, <3>1, <4>1 DEF CurrentWavePlan, WavePlan
    <3>3. WaveSpawned(w, wave.index + 1) \in Fields
      BY <2>1, <3>2, WaveType
    <3>4. WaveSpawned(w, wave.index + 1).queues = w.queues
      <4> HIDE DEF w
      <4> QED
        BY <2>1 DEF WaveSpawned, Fields
    <3>5. Roomy(WaveSpawned(w, wave.index + 1))
      BY <2>2, <3>4, SameRoom
    <3> QED
      BY <2>4, <3>3, <3>5, SettleRoom DEF AdvanceWave
  <2> QED
    BY <1>6, <2>3, <2>4
<1>7. \A p \in Queued(field) : Dequeued(field, p) \in Fields /\ Roomy(Dequeued(field, p))
  BY <1>1, DequeuedType, DequeuedRoom
<1>8. CASE DrainMandatory
  BY <1>7, <1>8, SelectedQueued, SettleRoom DEF DrainMandatory
<1>9. CASE TerminalizeEntry \/ RefuseUltimate
  BY <1>7, <1>9, SelectedQueued DEF TerminalizeEntry, RefuseUltimate, DropEntry
<1>10. CASE SubmitUltimate
  <2>0. PICK p \in Queued(field) : \E x \in Settle(Dequeued(field, p)) :
          field' = [x EXCEPT !.energy[EntryAt(field, p).actor] = FALSE]
    BY <1>10 DEF SubmitUltimate
  <2>1. PICK x \in Settle(Dequeued(field, p)) :
          field' = [x EXCEPT !.energy[EntryAt(field, p).actor] = FALSE]
    BY <2>0
  <2>2. x \in Fields /\ Roomy(x)
    BY <1>7, SettleRoom
  <2>3. field'.queues = x.queues
    BY <2>1, <2>2 DEF Fields
  <2> QED
    BY <2>2, <2>3, SameRoom
<1>11. CASE RequestUltimate
  <2>1. PICK u \in Allies :
          /\ HasRoom(field, [actor |-> u, family |-> "ultimate"])
          /\ field' = [Enqueued(field, [actor |-> u, family |-> "ultimate"]) EXCEPT !.budget = @ - 1]
    BY <1>11 DEF RequestUltimate
  <2> DEFINE x == Enqueued(field, [actor |-> u, family |-> "ultimate"])
  <2>2. [actor |-> u, family |-> "ultimate"] \in Entries
    BY DEF Entries, Families, Units
  <2>3. x \in Fields /\ Roomy(x)
    BY <1>1, <2>1, <2>2, EnqueuedType, EnqueuedRoom
  <2>4. field'.queues = x.queues
    BY <2>1, <2>3 DEF Fields
  <2> QED
    BY <2>3, <2>4, SameRoom
<1>12. CASE UNCHANGED vars
  BY <1>12 DEF vars
<1> QED
  BY <1>2, <1>3, <1>4, <1>5, <1>6, <1>8, <1>9, <1>10, <1>11, <1>12
  DEF Next, InternalStep, ControllerStep

LEMMA InitRoom == Init => Roomy(field)
<1> SUFFICES ASSUME Init, NEW q \in QueueNames PROVE Len(field.queues[q]) <= MaxQueue
  BY DEF Roomy
<1>1. field.queues[q] = <<>>
  BY DEF Init, InitialField
<1> QED
  BY <1>1, ValuesAssumption

-----------------------------------------------------------------------------
(* What a step finds to do: some unit leads the timeline as long as one can*)
(* act, and some entry is selected as long as one is queued.               *)

(* A set of naturals with 0 and every successor is the set of naturals.    *)
LEMMA NatSetInduction ==
  ASSUME NEW T \in SUBSET Nat, 0 \in T, \A n \in T : n + 1 \in T
  PROVE  T = Nat
<1> SUFFICES ASSUME NEW m \in Nat, m \notin T
             PROVE  FALSE
  OBVIOUS
<1> DEFINE below == {n \in T : n <= m}
           next == [n \in below |-> n + 1]
<1>1. IsFiniteSet(below) /\ Cardinality(below) \in Nat
  BY FS_BoundedSetOfNaturals, FS_CardinalityType
<1>2. IsFiniteSet(below \ {0}) /\ Cardinality(below \ {0}) = Cardinality(below) - 1
  <2>1. 0 \in below
    OBVIOUS
  <2> HIDE DEF below
  <2> QED BY <1>1, <2>1, FS_RemoveElement
<1>3. next \in [below -> below \ {0}]
  <2>1. ASSUME NEW n \in below PROVE n + 1 \in below \ {0}
    <3>1. n \in Nat /\ n + 1 \in T /\ n <= m /\ n # m
      OBVIOUS
    <3> QED BY <3>1
  <2> HIDE DEF below
  <2> QED BY <2>1
<1> HIDE DEF below, next
<1>4. PICK x \in below, y \in below : x # y /\ next[x] = next[y]
  BY <1>1, <1>2, <1>3, FS_PigeonHole
<1> QED BY <1>4 DEF below, next

LEMMA LeastNatural ==
  ASSUME NEW S \in SUBSET Nat, S # {}
  PROVE  \E m \in S : \A n \in S : m <= n
<1> SUFFICES ASSUME \A m \in S : \E n \in S : ~(m <= n)
             PROVE  FALSE
  OBVIOUS
<1> DEFINE T == {n \in Nat : \A m \in S : n <= m}
<1>1. 0 \in T
  OBVIOUS
<1>2. ASSUME NEW n \in T PROVE n + 1 \in T
  <2>1. n \in Nat /\ \A m \in S : n <= m
    OBVIOUS
  <2>2. n \notin S
    BY <2>1
  <2>3. \A m \in S : n + 1 <= m
    BY <2>1, <2>2
  <2> QED
    BY <2>1, <2>3
<1>3. T = Nat
  <2>1. T \in SUBSET Nat
    OBVIOUS
  <2> HIDE DEF T
  <2> QED
    BY <1>1, <1>2, <2>1, NatSetInduction
<1>4. PICK s \in S : TRUE
  OBVIOUS
<1>5. s + 1 \in T
  BY <1>3
<1> QED
  BY <1>5

LEMMA SomeoneLeads ==
  ASSUME NEW w \in Fields, NEW u \in Units, CanAct(w, u)
  PROVE  Leading(w) # {}
<1> DEFINE S == {w.av[v] : v \in {x \in Units : CanAct(w, x)}}
<1>1. w.av \in [Units -> Nat]
  BY DEF Fields
<1>2. S \in SUBSET Nat /\ S # {}
  BY <1>1
<1>3. PICK m \in S : \A n \in S : m <= n
  <2> HIDE DEF S
  <2> QED
    BY <1>2, LeastNatural
<1>4. PICK v \in Units : CanAct(w, v) /\ m = w.av[v]
  OBVIOUS
<1>5. \A x \in Units : CanAct(w, x) => w.av[v] <= w.av[x]
  BY <1>3, <1>4
<1> QED
  BY <1>4, <1>5 DEF Leading

(* Every nonempty set of queued entries has one that no other precedes.    *)
LEMMA SomeoneFirst ==
  ASSUME NEW w \in Fields, NEW pool \in SUBSET Queued(w), pool # {}
  PROVE  \E p \in pool : \A r \in pool : ~Before(w, r, p)
<1> DEFINE fam(p) == FamilyOrder[EntryAt(w, p).family]
           pri(p) == EntryPriority[EntryAt(w, p).family]
<1>1. \A p \in pool : EntryAt(w, p).family \in Families /\ p[2] \in Nat
  <2>1. \A p \in pool : p[1] \in QueueNames /\ p[2] \in 1..Len(w.queues[p[1]])
                        /\ EntryAt(w, p) \in Entries
    BY EntryType
  <2>2. \A p \in pool : p[2] \in Nat
    BY <2>1 DEF Queued
  <2> QED
    BY <2>1, <2>2 DEF Entries
<1>2. \A f \in Families : FamilyOrder[f] \in Nat
  BY DEF Families, FamilyOrder
<1>3. PICK b \in Int : \A f \in Families : b <= EntryPriority[f]
  <2>1. \A i, j \in Int : \E k \in Int : k <= i /\ k <= j
    OBVIOUS
  <2>2. /\ EntryPriority["ultimate"] \in Int /\ EntryPriority["extra_turn"] \in Int
        /\ EntryPriority["insert_action"] \in Int /\ EntryPriority["insert_ability"] \in Int
    BY ValuesAssumption DEF Families
  <2>3. PICK i \in Int : i <= EntryPriority["ultimate"] /\ i <= EntryPriority["extra_turn"]
    BY <2>1, <2>2
  <2>4. PICK j \in Int : j <= EntryPriority["insert_action"] /\ j <= EntryPriority["insert_ability"]
    BY <2>1, <2>2
  <2>5. PICK k \in Int : k <= i /\ k <= j
    BY <2>1
  <2>6. /\ k <= EntryPriority["ultimate"] /\ k <= EntryPriority["extra_turn"]
        /\ k <= EntryPriority["insert_action"] /\ k <= EntryPriority["insert_ability"]
    BY <2>2, <2>3, <2>4, <2>5
  <2>7. \A f \in Families : f \in {"ultimate", "extra_turn", "insert_action", "insert_ability"}
    BY DEF Families
  <2> QED
    BY <2>6, <2>7
<1>4. \A p \in pool : fam(p) \in Nat /\ pri(p) \in Int /\ pri(p) - b \in Nat
  <2>1. \A p \in pool : pri(p) \in Int /\ b <= pri(p)
    BY <1>1, <1>3, ValuesAssumption
  <2> QED
    BY <1>1, <1>2, <2>1
<1>5. \A p, r \in pool :
        Before(w, r, p) <=>
          \/ fam(r) < fam(p)
          \/ fam(r) = fam(p) /\ pri(r) < pri(p)
          \/ fam(r) = fam(p) /\ pri(r) = pri(p) /\ r[2] < p[2]
  BY DEF Before
<1> HIDE DEF fam, pri
<1> DEFINE F == {fam(p) : p \in pool}
<1>6. PICK f \in F : \A n \in F : f <= n
  <2>1. F \in SUBSET Nat /\ F # {}
    BY <1>4
  <2> HIDE DEF F
  <2> QED
    BY <2>1, LeastNatural
<1> DEFINE first == {p \in pool : fam(p) = f}
           P == {pri(p) - b : p \in first}
<1>7. PICK g \in P : \A n \in P : g <= n
  <2>1. P \in SUBSET Nat /\ P # {}
    BY <1>4
  <2> HIDE DEF P
  <2> QED
    BY <2>1, LeastNatural
<1> DEFINE best == {p \in first : pri(p) - b = g}
           N == {p[2] : p \in best}
<1>8. PICK h \in N : \A n \in N : h <= n
  <2>1. N \in SUBSET Nat /\ N # {}
    BY <1>1
  <2> HIDE DEF N
  <2> QED
    BY <2>1, LeastNatural
<1>9. PICK p \in best : p[2] = h
  OBVIOUS
<1>10. /\ p \in pool /\ fam(p) = f /\ pri(p) - b = g
  OBVIOUS
<1>11. ASSUME NEW r \in pool, Before(w, r, p) PROVE FALSE
  <2>1. f <= fam(r)
    BY <1>6
  <2>2. fam(r) = f /\ (pri(r) < pri(p) \/ (pri(r) = pri(p) /\ r[2] < p[2]))
    BY <1>4, <1>5, <1>10, <1>11, <2>1
  <2>3. g <= pri(r) - b
    BY <1>7, <2>2
  <2>4. pri(r) = pri(p) /\ r[2] < p[2]
    BY <1>4, <1>10, <2>2, <2>3
  <2>5. r \in best
    BY <1>10, <2>2, <2>4
  <2>6. h <= r[2]
    BY <1>8, <2>5
  <2> QED
    BY <1>1, <1>9, <1>10, <2>4, <2>6
<1> QED
  BY <1>10, <1>11

LEMMA SomethingSelected ==
  ASSUME NEW w \in Fields, Roomy(w), ~QueuesEmpty(w)
  PROVE  Selected(w) # {}
<1>1. PICK q \in QueueNames : w.queues[q] # <<>>
  BY DEF QueuesEmpty
<1>2. w.queues[q] \in Seq(Entries)
  BY <1>1 DEF Fields
<1>3. Len(w.queues[q]) \in Nat /\ 1 <= Len(w.queues[q])
  BY <1>1, <1>2, EmptySeq
<1>4. 1 \in 1..MaxQueue
  BY <1>3, ValuesAssumption DEF Roomy
<1> DEFINE p == <<q, 1>>
<1>5. p \in Queued(w) /\ EntryAt(w, p) = w.queues[q][1]
  BY <1>3, <1>4 DEF Queued, EntryAt
<1>6. p \in Admitted(w) \cup BlockedHeads(w)
  BY <1>1, <1>5 DEF Admitted, BlockedHeads, HeadBlocked
<1> DEFINE pool == IF Admitted(w) # {} THEN Admitted(w) ELSE BlockedHeads(w)
<1>7. pool \in SUBSET Queued(w) /\ pool # {}
  BY <1>6 DEF Admitted, BlockedHeads
<1> HIDE DEF pool
<1>8. PICK r \in pool : \A o \in pool : ~Before(w, o, r)
  BY <1>7, SomeoneFirst
<1>9. r \in Selected(w)
  BY <1>8 DEF Selected, pool
<1> QED
  BY <1>9

-----------------------------------------------------------------------------
(* The diagnosis of a stall                                                *)

(* With an entry queued, the selected one is resolved, refused, offered, or*)
(* named by the diagnosis.                                                 *)
LEMMA QueueDiagnosed ==
  ASSUME IInv, Roomy(field), ~QueuesEmpty(field), Stalled
  PROVE  SelectableOutsideDecision \/ SelectableWithoutChoice
<1>1. PICK p \in Selected(field) : TRUE
  BY SomethingSelected DEF IInv, TypeOK
<1>2. p \in Queued(field)
  BY <1>1, SelectedQueued
<1>3. IsSelectable(EntryAt(field, p)) /\ ~Ended /\ phase # "turn_end" /\ ~UltimateOffered(p)
  BY <1>1, <1>2 DEF Stalled, InternalStepApplies, DecisionAccepted
<1>4. phase \in {"idle", "awaiting_decision", "post_action"}
  BY <1>3 DEF IInv, TypeOK, RestPhases, OutcomeInEnded
<1>5. QueueOpen
  BY <1>3, <1>4 DEF QueueOpen, Admits, OperationPhases
<1> QED
  BY <1>1, <1>3, <1>5 DEF SelectableOutsideDecision, SelectableWithoutChoice, UltimateOffered

(* With every queue empty, the phase tells what is left to do.             *)
LEMMA EmptyDiagnosed ==
  ASSUME IInv, QueuesEmpty(field), Stalled
  PROVE  \/ WaveDueDuringTurn \/ ActorLostDuringDecision
         \/ InsertedActionTookDecision \/ InsertedActionTookIdle
<1>1. ~Ended /\ ~InternalStepApplies /\ ~DecisionAccepted
  BY DEF Stalled
<1>2. phase # "turn_end" /\ pending = NoUnit
  BY <1>1 DEF InternalStepApplies
<1>3. phase \in {"idle", "awaiting_decision"}
  BY <1>1, <1>2 DEF IInv, TypeOK, RestPhases, OutcomeInEnded, OpenTurnMatchesPhase
<1>4. PastPending
  BY <1>1, <1>2 DEF PastPending, PastQueue
<1>5. ~WaveDue => CurrentWavePlan = "no_change"
  BY DEF WaveDue, CurrentWavePlan, WavePlan
<1>6. CASE phase = "awaiting_decision"
  <2>1. CASE WaveDue
    BY <1>4, <1>6, <2>1 DEF WaveDueDuringTurn
  <2>2. CASE ~WaveDue
    <3>1. PastWave
      BY <1>4, <1>5, <2>2 DEF PastWave
    <3>2. ~TurnOffered
      BY <1>1, <3>1 DEF DecisionAccepted
    <3>3. window # "turn_active" \/ (owner = activeTurn /\ activeTurn # NoUnit)
      BY <1>6 DEF IInv, DecisionBelongsToTurn, OpenTurnMatchesPhase
    <3>4. window \in {"turn_active", "action"}
      BY <1>6 DEF IInv, DecisionWindow
    <3>5. Admits("query_decision", phase)
      BY <1>6 DEF Admits, OperationPhases
    <3> QED
      BY <1>4, <1>5, <1>6, <2>2, <3>2, <3>3, <3>4, <3>5
      DEF TurnOffered, ActorLostDuringDecision, InsertedActionTookDecision
  <2> QED
    BY <2>1, <2>2
<1>7. CASE phase = "idle"
  <2> SUFFICES ASSUME owner = NoUnit PROVE FALSE
    BY <1>7 DEF InsertedActionTookIdle
  <2>1. MayEnter(phase, "wave_transition")
    BY <1>7 DEF MayEnter, LegalTransitions, Phases
  <2>2. CurrentWavePlan = "no_change" /\ PastWave
    BY <1>1, <1>4, <1>5, <2>1 DEF InternalStepApplies, PastWave
  <2>3. NextActors(field) = {}
    BY <1>1, <1>7, <2>2 DEF InternalStepApplies
  <2>4. PICK u \in Allies : CanAct(field, u)
    BY <2>2 DEF CurrentWavePlan, WavePlan, CanAct
  <2>5. Leading(field) # {}
    BY <2>4, SomeoneLeads DEF Units, IInv, TypeOK
  <2>6. TieOffered
    BY <1>4, <1>7, <2>2, <2>3, <2>5 DEF TieOffered, TieUnresolved, Admits, OperationPhases
  <2> QED
    BY <1>1, <2>6 DEF DecisionAccepted
<1> QED
  BY <1>3, <1>6, <1>7

(* A battle that neither ends, nor goes on by itself, nor offers a choice  *)
(* has one of the six named causes (scheduler.step, decision.py's          *)
(* advance_to_decision and the views it stops at).                         *)
THEOREM StallsHaveACause == Spec => []StallsAreDiagnosed
<1>1. IInv /\ Roomy(field) => StallsAreDiagnosed
  BY QueueDiagnosed, EmptyDiagnosed DEF StallsAreDiagnosed
<1>2. Init => Roomy(field)
  BY InitRoom
<1>3. IInv /\ Roomy(field) /\ [Next]_vars => Roomy(field')
  BY NextRoom
<1>4. Roomy(field)' <=> Roomy(field')
  BY DEF Roomy
<1> QED
  BY <1>1, <1>2, <1>3, <1>4, Inductive, PTL DEF Spec
=============================================================================
