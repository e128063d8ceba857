-------------------------- MODULE DecisionBoundary --------------------------
(***************************************************************************)
(* The boundary between the controllers of a battle and its scheduler:     *)
(* advance_to_decision, which repeats step(None) until a choice is needed, *)
(* and submit, which admits one command per decision token.                *)
(*                                                                         *)
(* A battle state is its content: two states with equal snapshots have one *)
(* revision.  What the scheduler makes of a content is fixed by it, so a   *)
(* battle is a graph over contents; every graph the assumptions allow is   *)
(* considered.  progress[c] is event_index plus turn_sequence_index:       *)
(* opening an action or a turn raises it, nothing lowers it.               *)
(***************************************************************************)
EXTENDS Integers, FiniteSets

CONSTANTS
  Contents,   \* contents of a battle state
  Choices,    \* choice revisions
  Blocked,    \* outcome of a step without an eligible successor
  Battles,    \* the graphs considered
  MaxSteps    \* max_internal_steps of a call

(* What current_decision says of a content: a token is ready, a scheduler    *)
(* step is required, or neither (the battle ended, or nothing can be chosen). *)
Modes == {"ready", "step", "stopped"}

IsBattle(b) ==
  /\ b.mode \in [Contents -> Modes]
  /\ b.choices \in [Contents -> Choices]
  /\ b.progress \in [Contents -> Nat]
  /\ b.next \in [Contents -> Contents \cup {Blocked}]  \* step(None)
  /\ b.executed \in [Contents -> Contents]             \* the chosen command executes
  /\ b.dropped \in [Contents -> Contents]              \* its queue entry is resolved terminally
  /\ \A c \in Contents :
       /\ b.next[c] # Blocked => b.progress[c] <= b.progress[b.next[c]]
       /\ b.mode[c] = "ready" => /\ b.progress[c] < b.progress[b.executed[c]]
                                 /\ b.progress[c] <= b.progress[b.dropped[c]]

ASSUME DecisionAssumption ==
  /\ Blocked \notin Contents /\ MaxSteps \in Nat
  /\ \A b \in Battles : IsBattle(b)

VARIABLES
  battle,  \* the graph of this battle
  state,   \* content of the published state
  tokens,  \* contents whose decision tokens controllers hold
  acts,    \* content -> commands executed with its token
  call,    \* "idle", "running" or "returned": advance_to_decision
  cur,     \* the call's current content
  start,   \* content the call began with
  step,    \* its step_index
  seen,    \* its seen_revisions
  result   \* why it returned

vars == <<battle, state, tokens, acts, call, cur, start, step, seen, result>>
loop == <<cur, start, step, seen, result>>

Results == {"none", "ready", "not_required", "no_progress", "step_limit", "blocked"}

TypeOK ==
  /\ IsBattle(battle) /\ state \in Contents
  /\ tokens \subseteq Contents /\ acts \in [Contents -> Nat]
  /\ call \in {"idle", "running", "returned"}
  /\ cur \in Contents /\ start \in Contents
  /\ step \in 0..MaxSteps /\ seen \subseteq Contents /\ result \in Results

Init ==
  /\ battle \in Battles
  /\ state \in {c \in Contents : \A d \in Contents : battle.progress[c] <= battle.progress[d]}
  /\ tokens = {} /\ acts = [c \in Contents |-> 0]
  /\ call = "idle" /\ cur = state /\ start = state
  /\ step = 0 /\ seen = {} /\ result = "none"

----------------------------------------------------------------------------
(* Controllers                                                             *)

(* current_decision: a token names the content, its choices and its mode. *)
Query ==
  /\ call # "running" /\ battle.mode[state] = "ready"
  /\ tokens' = tokens \cup {state}
  /\ UNCHANGED <<battle, state, acts, call, loop>>

(* Faulty variant: only the choices offered are compared. *)
SameChoices(t) == battle.choices[t] = battle.choices[state]
(* submit: the state revision first, then readiness and the whole token. *)
Current(t) == t = state

(* submit: any other token, and a command that is not among the choices, is *)
(* rejected and leaves the state as it is.  An admitted command executes, or *)
(* the queue entry it was offered for is dropped, or the action fails.       *)
Submit ==
  /\ call # "running"
  /\ \E t \in tokens :
       /\ Current(t) /\ battle.mode[state] = "ready"
       /\ \/ state' = battle.executed[state] /\ acts' = [acts EXCEPT ![t] = @ + 1]
          \/ state' = battle.dropped[state] /\ UNCHANGED acts
  /\ UNCHANGED <<battle, tokens, call, loop>>

(* enqueue_manual_ultimate, which takes no token, opens no action and may be *)
(* called between a query and a submission.                                  *)
Request ==
  /\ call # "running"
  /\ \E c \in Contents : battle.progress[c] = battle.progress[state] /\ state' = c
  /\ UNCHANGED <<battle, tokens, acts, call, loop>>

----------------------------------------------------------------------------
(* advance_to_decision                                                     *)

(* Faulty variant: the revisions of the last call are still known. *)
OpenKeepingSeen ==
  call' = "running" /\ cur' = state /\ start' = state /\ step' = 0 /\ seen' = seen /\ result' = "none"
Open ==
  call' = "running" /\ cur' = state /\ start' = state /\ step' = 0 /\ seen' = {} /\ result' = "none"

Call ==
  /\ call # "running" /\ Open
  /\ UNCHANGED <<battle, state, tokens, acts>>

(* The host publishes the after_state of the result. *)
Return(why) ==
  /\ call' = "returned" /\ result' = why /\ state' = cur
  /\ UNCHANGED <<battle, tokens, acts, cur, start, step>>

(* Faulty variant: contents with equal choices count as seen. *)
RepeatedChoices == \E c \in seen : battle.choices[c] = battle.choices[cur]
Repeated == cur \in seen

(* Faulty variant: the limit is tested after the next step was counted. *)
LimitReachedEarly == step + 1 >= MaxSteps
LimitReached == step >= MaxSteps

ReturnDecision ==
  /\ call = "running" /\ battle.mode[cur] # "step"
  /\ Return(IF battle.mode[cur] = "ready" THEN "ready" ELSE "not_required")
  /\ UNCHANGED seen

ReturnNoProgress ==
  /\ call = "running" /\ battle.mode[cur] = "step" /\ Repeated
  /\ Return("no_progress") /\ UNCHANGED seen

(* seen_revisions.add comes before the test of the limit. *)
ReturnStepLimit ==
  /\ call = "running" /\ battle.mode[cur] = "step" /\ ~Repeated /\ LimitReached
  /\ Return("step_limit") /\ seen' = seen \cup {cur}

ReturnBlocked ==
  /\ call = "running" /\ battle.mode[cur] = "step" /\ ~Repeated /\ ~LimitReached
  /\ battle.next[cur] = Blocked
  /\ Return("blocked") /\ seen' = seen \cup {cur}

InternalStep ==
  /\ call = "running" /\ battle.mode[cur] = "step" /\ ~Repeated /\ ~LimitReached
  /\ battle.next[cur] # Blocked
  /\ seen' = seen \cup {cur}
  /\ cur' = battle.next[cur] /\ step' = step + 1
  /\ UNCHANGED <<battle, state, tokens, acts, call, start, result>>

Advance == ReturnDecision \/ ReturnNoProgress \/ ReturnStepLimit \/ ReturnBlocked \/ InternalStep

Next == Query \/ Submit \/ Request \/ Call \/ Advance

Spec == Init /\ [][Next]_vars

----------------------------------------------------------------------------
(* Properties                                                              *)

(* A token's command is executed only if no command was executed since the  *)
(* token's state: an older token is dead even when the battle comes back to *)
(* the same choices (submit's state revision check).  In particular no token *)
(* executes twice.                                                          *)
TokensActInOrder ==
  [][\A t \in Contents : acts'[t] # acts[t] =>
       \A o \in Contents : acts[o] > 0 => battle.progress[o] < battle.progress[t]]_vars

(* "decision_advance_no_progress" is never a false alarm: from the content   *)
(* where the call stopped, step(None) goes round in contents that all need a *)
(* further step, for ever.                                                   *)
NoProgressIsACycle ==
  call = "returned" /\ result = "no_progress" =>
    /\ cur \in seen
    /\ \A c \in seen : battle.mode[c] = "step" /\ battle.next[c] \in seen

(* What step(None) makes of a content, which it may leave as it is.         *)
Stepped(b, c) == IF b.mode[c] = "step" /\ b.next[c] # Blocked THEN b.next[c] ELSE c

(* The contents that repeated calls of step(None) go through from content c. *)
Orbit(b, c) ==
  LET after[n \in 0..MaxSteps] == IF n = 0 THEN c ELSE Stepped(b, after[n - 1]) IN after

(* A call returns the decision if max_internal_steps steps can reach one,   *)
(* and otherwise a content on the way (advance_to_decision).                *)
AdvanceIsExact ==
  call = "returned" =>
    /\ cur = Orbit(battle, start)[step]
    /\ result = "ready" <=> \E n \in 0..MaxSteps : battle.mode[Orbit(battle, start)[n]] = "ready"
=============================================================================
