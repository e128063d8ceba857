----------------------- MODULE DecisionBoundaryProofs -----------------------
(***************************************************************************)
(* Decision tokens and the advance loop, for every scheduler graph, every  *)
(* set of contents and every step limit.                                   *)
(***************************************************************************)
EXTENDS DecisionBoundary, FiniteSetTheorems, TLAPS

(* Induction over the natural numbers for a set of them: a set that holds 0 *)
(* and every successor holds all, or the numbers up to a missing one would  *)
(* be mapped into fewer.                                                    *)
LEMMA NatSetInduction ==
  ASSUME NEW T \in SUBSET Nat, 0 \in T, \A n \in T : n + 1 \in T
  PROVE  T = Nat
<1> SUFFICES ASSUME NEW m \in Nat, m \notin T
             PROVE  FALSE
  OBVIOUS
<1> DEFINE below == {n \in T : n <= m}
           next == [n \in below |-> n + 1]
<1>1. IsFiniteSet(below) /\ Cardinality(below) \in Nat
  BY FS_BoundedSetOfNaturals, FS_CardinalityType
<1>2. IsFiniteSet(below \ {0}) /\ Cardinality(below \ {0}) = Cardinality(below) - 1
  <2>1. 0 \in below
    OBVIOUS
  <2> HIDE DEF below
  <2> QED BY <1>1, <2>1, FS_RemoveElement
<1>3. next \in [below -> below \ {0}]
  <2>1. ASSUME NEW n \in below PROVE n + 1 \in below \ {0}
    <3>1. n \in Nat /\ n + 1 \in T /\ n <= m /\ n # m
      OBVIOUS
    <3> QED BY <3>1
  <2> HIDE DEF below
  <2> QED BY <2>1
<1> HIDE DEF below, next
<1>4. PICK x \in below, y \in below : x # y /\ next[x] = next[y]
  BY <1>1, <1>2, <1>3, FS_PigeonHole
<1> QED BY <1>4 DEF below, next

----------------------------------------------------------------------------
(* The orbit of a content                                                   *)

(* The recursion that defines an orbit has a solution.                      *)
LEMMA OrbitExists ==
  ASSUME NEW b, IsBattle(b), NEW c \in Contents
  PROVE  \E h \in [0..MaxSteps -> Contents] :
           h[0] = c /\ \A n \in 1..MaxSteps : h[n] = Stepped(b, h[n - 1])
<1> DEFINE Steps(h, k) == h \in [0..k -> Contents] /\ h[0] = c
                          /\ \A n \in 1..k : h[n] = Stepped(b, h[n - 1])
           T == {k \in Nat : \E h : Steps(h, k)}
<1>0. \A d \in Contents : Stepped(b, d) \in Contents
  BY DEF Stepped, IsBattle
<1>1. 0 \in T
  <2>1. Steps([n \in 0..0 |-> c], 0)
    OBVIOUS
  <2>2. \E h : Steps(h, 0)
    <3> HIDE DEF Steps
    <3> QED BY <2>1
  <2> QED BY <2>2
<1>2. ASSUME NEW k \in T PROVE k + 1 \in T
  <2>1. PICK h : Steps(h, k)
    BY <1>2
  <2> DEFINE g == [n \in 0..(k + 1) |-> IF n <= k THEN h[n] ELSE Stepped(b, h[k])]
  <2>2. g \in [0..(k + 1) -> Contents] /\ g[0] = c
    BY <1>0, <2>1
  <2>3. \A n \in 1..(k + 1) : g[n] = Stepped(b, g[n - 1])
    BY <2>1
  <2>4. Steps(g, k + 1)
    BY <2>2, <2>3
  <2>5. \E f : Steps(f, k + 1)
    <3> HIDE DEF Steps, g
    <3> QED BY <2>4
  <2> QED BY <2>5
<1>3. MaxSteps \in T
  <2> HIDE DEF T
  <2>1. T \in SUBSET Nat
    BY DEF T
  <2> QED BY <1>1, <1>2, <2>1, NatSetInduction, DecisionAssumption
<1> QED BY <1>3

LEMMA OrbitSteps ==
  ASSUME NEW b, IsBattle(b), NEW c \in Contents
  PROVE  /\ Orbit(b, c) \in [0..MaxSteps -> Contents]
         /\ Orbit(b, c)[0] = c
         /\ \A n \in 1..MaxSteps : Orbit(b, c)[n] = Stepped(b, Orbit(b, c)[n - 1])
<1> DEFINE Solves(f) == f = [n \in 0..MaxSteps |-> IF n = 0 THEN c ELSE Stepped(b, f[n - 1])]
           o == Orbit(b, c)
<1>1. \E f : Solves(f)
  <2>1. PICK h \in [0..MaxSteps -> Contents] :
          h[0] = c /\ \A n \in 1..MaxSteps : h[n] = Stepped(b, h[n - 1])
    BY OrbitExists
  <2>2. Solves(h)
    BY <2>1
  <2> QED BY <2>2
<1>2. o = CHOOSE f : Solves(f)
  BY DEF Orbit
<1>3. Solves(o)
  <2> HIDE DEF o, Solves
  <2> QED BY <1>1, <1>2
<1>4. MaxSteps \in Nat /\ DOMAIN o = 0..MaxSteps /\ o[0] = c
  <2> HIDE DEF o
  <2> QED BY <1>3, DecisionAssumption
<1>5. \A n \in 1..MaxSteps : o[n] = Stepped(b, o[n - 1])
  <2> HIDE DEF o
  <2> QED BY <1>3, <1>4
<1> DEFINE T == {n \in Nat : n <= MaxSteps => o[n] \in Contents}
<1> HIDE DEF o
<1>6. \A d \in Contents : Stepped(b, d) \in Contents
  BY DEF Stepped, IsBattle
<1>7. ASSUME NEW n \in T PROVE n + 1 \in T
  BY <1>4, <1>5, <1>6
<1>8. T = Nat
  <2>1. 0 \in T /\ T \in SUBSET Nat
    BY <1>4
  <2> HIDE DEF T
  <2> QED BY <1>7, <2>1, NatSetInduction
<1>9. o \in [0..MaxSteps -> Contents]
  <2>1. \A n \in 0..MaxSteps : o[n] \in Contents
    BY <1>4, <1>8
  <2> QED BY <1>3, <2>1
<1> QED BY <1>4, <1>5, <1>9 DEF o

(* An orbit does not leave a set that step(None) does not leave.            *)
LEMMA OrbitStays ==
  ASSUME NEW b, IsBattle(b), NEW c \in Contents, NEW k \in 0..MaxSteps,
         NEW C, Orbit(b, c)[k] \in C, \A d \in C : Stepped(b, d) \in C
  PROVE  \A n \in k..MaxSteps : Orbit(b, c)[n] \in C
<1> DEFINE o == Orbit(b, c)
           T == {n \in Nat : k + n <= MaxSteps => o[k + n] \in C}
<1>1. MaxSteps \in Nat /\ k \in Nat /\ \A n \in 1..MaxSteps : o[n] = Stepped(b, o[n - 1])
  BY OrbitSteps, DecisionAssumption
<1> HIDE DEF o
<1>2. 0 \in T
  BY <1>1 DEF o
<1>3. ASSUME NEW n \in T PROVE n + 1 \in T
  <2> SUFFICES ASSUME k + (n + 1) <= MaxSteps PROVE o[k + (n + 1)] \in C
    OBVIOUS
  <2>1. o[k + n] \in C /\ k + (n + 1) \in 1..MaxSteps /\ (k + (n + 1)) - 1 = k + n
    BY <1>1
  <2>2. o[k + (n + 1)] = Stepped(b, o[k + n])
    BY <1>1, <2>1
  <2> QED BY <2>1, <2>2
<1>4. T = Nat
  <2>1. T \in SUBSET Nat
    OBVIOUS
  <2> HIDE DEF T
  <2> QED BY <1>2, <1>3, <2>1, NatSetInduction
<1>5. ASSUME NEW n \in k..MaxSteps PROVE o[n] \in C
  <2>1. n - k \in Nat /\ k + (n - k) = n /\ n <= MaxSteps
    BY <1>1
  <2>2. n - k \in T
    BY <1>4, <2>1
  <2> QED BY <2>1, <2>2
<1> QED BY <1>5 DEF o

----------------------------------------------------------------------------
(* The inductive invariant                                                  *)

(* Whatever was executed lies behind the published state, and a running    *)
(* call is not behind the state it will replace.                           *)
Behind ==
  /\ \A o \in Contents : acts[o] > 0 => battle.progress[o] < battle.progress[state]
  /\ call = "running" => battle.progress[state] <= battle.progress[cur]

(* Every content the running call has seen led on, to a seen one or to the  *)
(* current one.                                                             *)
Chained ==
  call = "running" =>
    \A c \in seen : /\ battle.mode[c] = "step" /\ battle.next[c] # Blocked
                    /\ battle.next[c] \in seen \cup {cur}

IInv == TypeOK /\ Behind /\ Chained /\ NoProgressIsACycle

THEOREM InitIInv == Init => IInv
<1> SUFFICES ASSUME Init PROVE IInv
  OBVIOUS
<1>1. TypeOK
  BY DecisionAssumption DEF Init, TypeOK, Results
<1>2. \A o \in Contents : acts[o] = 0
  BY DEF Init
<1>3. Behind
  BY <1>2 DEF Init, Behind
<1> QED BY <1>1, <1>3 DEF IInv, Init, Chained, NoProgressIsACycle

(* What an internal step does to the contents of the loop. *)
LEMMA SteppedContent ==
  ASSUME TypeOK, battle.next[cur] # Blocked
  PROVE  /\ battle.next[cur] \in Contents
         /\ battle.progress[cur] <= battle.progress[battle.next[cur]]
BY DEF TypeOK, IsBattle

THEOREM NextIInv == IInv /\ [Next]_vars => IInv'
<1> SUFFICES ASSUME IInv, [Next]_vars PROVE IInv'
  OBVIOUS
<1>0. TypeOK /\ Behind /\ Chained /\ NoProgressIsACycle /\ MaxSteps \in Nat
  BY DecisionAssumption DEF IInv
<1>1. CASE Query
  BY <1>0, <1>1 DEF Query, IInv, TypeOK, Behind, Chained, NoProgressIsACycle, loop
<1>2. CASE Submit
  <2>1. PICK t \in tokens :
          /\ t = state /\ battle.mode[state] = "ready"
          /\ \/ state' = battle.executed[state] /\ acts' = [acts EXCEPT ![t] = @ + 1]
             \/ state' = battle.dropped[state] /\ UNCHANGED acts
    BY <1>2 DEF Submit, Current
  <2>2. /\ call # "running" /\ UNCHANGED <<battle, tokens, call, cur, start, step, seen, result>>
    BY <1>2 DEF Submit, loop
  <2>3. state' \in Contents /\ acts' \in [Contents -> Nat]
    BY <2>1, <1>0 DEF TypeOK, IsBattle
  <2>4. TypeOK'
    BY <2>2, <2>3, <1>0 DEF TypeOK
  <2>5. Behind'
    <3>1. \A c \in Contents : battle.progress[c] \in Nat
      BY <1>0 DEF TypeOK, IsBattle
    <3>2. \A o \in Contents : acts[o] > 0 => battle.progress[o] < battle.progress[state]
      BY <1>0 DEF Behind
    <3>3. CASE state' = battle.executed[state] /\ acts' = [acts EXCEPT ![state] = @ + 1]
      <4>1. battle.progress[state] < battle.progress[state']
        BY <2>1, <3>3, <1>0 DEF TypeOK, IsBattle
      <4>2. \A o \in Contents : o # state => acts'[o] = acts[o]
        BY <3>3, <1>0 DEF TypeOK
      <4>3. ASSUME NEW o \in Contents, acts'[o] > 0
            PROVE  battle.progress[o] < battle.progress[state']
        <5>1. CASE o = state
          BY <5>1, <4>1
        <5>2. CASE o # state
          <6>1. battle.progress[o] < battle.progress[state]
            BY <5>2, <4>2, <4>3, <3>2
          <6> QED BY <6>1, <4>1, <3>1, <2>3, <1>0 DEF TypeOK
        <5> QED BY <5>1, <5>2
      <4> QED BY <4>3, <2>2 DEF Behind
    <3>4. CASE state' = battle.dropped[state] /\ UNCHANGED acts
      <4>1. battle.progress[state] <= battle.progress[state']
        BY <2>1, <3>4, <1>0 DEF TypeOK, IsBattle
      <4> QED BY <4>1, <3>1, <3>2, <3>4, <2>2, <2>3, <1>0 DEF Behind, TypeOK
    <3> QED BY <2>1, <3>3, <3>4
  <2>6. Chained' /\ NoProgressIsACycle'
    BY <2>2, <1>0 DEF Chained, NoProgressIsACycle
  <2> QED BY <2>4, <2>5, <2>6 DEF IInv
<1>3. CASE Request
  BY <1>0, <1>3 DEF Request, IInv, TypeOK, Behind, Chained, NoProgressIsACycle, loop
<1>4. CASE Call
  <2>1. /\ call' = "running" /\ cur' = state /\ start' = state
        /\ step' = 0 /\ seen' = {} /\ result' = "none"
        /\ UNCHANGED <<battle, state, tokens, acts>>
    BY <1>4 DEF Call, Open
  <2>2. TypeOK'
    BY <2>1, <1>0 DEF TypeOK, Results
  <2>3. battle.progress[state] \in Nat
    BY <1>0 DEF TypeOK, IsBattle
  <2>4. Behind'
    BY <2>1, <2>3, <1>0 DEF Behind
  <2>5. Chained' /\ NoProgressIsACycle'
    BY <2>1 DEF Chained, NoProgressIsACycle
  <2> QED BY <2>2, <2>4, <2>5 DEF IInv
<1>5. ASSUME call = "running", seen' \in {seen, seen \cup {cur}}, NEW why \in Results, Return(why),
             why = "no_progress" => cur \in seen /\ seen' = seen
      PROVE  IInv'
  <2>1. /\ call' = "returned" /\ result' = why /\ state' = cur
        /\ UNCHANGED <<battle, tokens, acts, cur, start, step>>
    BY <1>5 DEF Return
  <2>2. TypeOK'
    BY <2>1, <1>0, <1>5 DEF TypeOK
  <2>3. Behind'
    <3>1. /\ battle.progress[state] <= battle.progress[cur]
          /\ battle.progress[state] \in Nat /\ battle.progress[cur] \in Nat
          /\ \A o \in Contents : battle.progress[o] \in Nat
      BY <1>0, <1>5 DEF Behind, TypeOK, IsBattle
    <3> QED BY <3>1, <2>1, <1>0 DEF Behind
  <2>4. Chained'
    BY <2>1 DEF Chained
  <2>5. NoProgressIsACycle'
    BY <2>1, <1>0, <1>5 DEF Chained, NoProgressIsACycle
  <2> QED BY <2>2, <2>3, <2>4, <2>5 DEF IInv
<1>6. CASE ReturnDecision \/ ReturnNoProgress \/ ReturnStepLimit \/ ReturnBlocked
  <2>1. CASE ReturnDecision
    <3>1. PICK why \in {"ready", "not_required"} : Return(why)
      BY <2>1 DEF ReturnDecision
    <3> QED BY <2>1, <3>1, <1>5 DEF ReturnDecision, Results
  <2>2. CASE ReturnNoProgress
    BY <2>2, <1>5 DEF ReturnNoProgress, Repeated, Results
  <2>3. CASE ReturnStepLimit
    BY <2>3, <1>5 DEF ReturnStepLimit, Results
  <2>4. CASE ReturnBlocked
    BY <2>4, <1>5 DEF ReturnBlocked, Results
  <2> QED BY <1>6, <2>1, <2>2, <2>3, <2>4
<1>7. CASE InternalStep
  <2>1. /\ call = "running" /\ battle.mode[cur] = "step" /\ step < MaxSteps
        /\ battle.next[cur] # Blocked /\ seen' = seen \cup {cur}
        /\ cur' = battle.next[cur] /\ step' = step + 1
        /\ UNCHANGED <<battle, state, tokens, acts, call, start, result>>
    BY <1>0, <1>7 DEF InternalStep, LimitReached, TypeOK
  <2>2. cur' \in Contents /\ battle.progress[cur] <= battle.progress[cur']
    BY <2>1, <1>0, SteppedContent
  <2>3. TypeOK'
    BY <2>1, <2>2, <1>0 DEF TypeOK
  <2>4. Behind'
    <3>1. /\ battle.progress[state] <= battle.progress[cur]
          /\ battle.progress[state] \in Nat /\ battle.progress[cur] \in Nat
          /\ battle.progress[cur'] \in Nat
      BY <2>1, <2>2, <1>0 DEF Behind, TypeOK, IsBattle
    <3> QED BY <3>1, <2>1, <2>2, <1>0 DEF Behind
  <2>5. Chained'
    BY <2>1, <1>0 DEF Chained
  <2>6. NoProgressIsACycle'
    BY <2>1 DEF NoProgressIsACycle
  <2> QED BY <2>3, <2>4, <2>5, <2>6 DEF IInv
<1>8. CASE UNCHANGED vars
  BY <1>0, <1>8 DEF vars, loop, IInv, TypeOK, Behind, Chained, NoProgressIsACycle
<1> QED BY <1>1, <1>2, <1>3, <1>4, <1>6, <1>7, <1>8 DEF Next, Advance

(* Tokens, counters and the loop keep their types; the loop's step count    *)
(* never passes its limit.                                                  *)
THEOREM DecisionTypes == Spec => []TypeOK
<1>1. IInv => TypeOK
  BY DEF IInv
<1> QED BY <1>1, InitIInv, NextIInv, PTL DEF Spec

(* "decision_advance_no_progress" is only answered when the scheduler goes   *)
(* round for ever, whatever the battle and the limit.                        *)
THEOREM NoProgressIsReal == Spec => []NoProgressIsACycle
<1>1. IInv => NoProgressIsACycle
  BY DEF IInv
<1> QED BY <1>1, InitIInv, NextIInv, PTL DEF Spec

(* A token is dead once any later command was executed: a command is never   *)
(* executed on a token older than the last executed one, and no token        *)
(* executes twice.                                                           *)
THEOREM TokensStayInOrder == Spec => TokensActInOrder
<1>1. IInv /\ [Next]_vars =>
        [\A t \in Contents : acts'[t] # acts[t] =>
           \A o \in Contents : acts[o] > 0 => battle.progress[o] < battle.progress[t]]_vars
  <2> SUFFICES ASSUME IInv, Next, NEW t \in Contents, acts'[t] # acts[t],
                      NEW o \in Contents, acts[o] > 0
               PROVE  battle.progress[o] < battle.progress[t]
    OBVIOUS
  <2>1. Submit
    BY DEF Next, Query, Request, Call, Advance, ReturnDecision, ReturnNoProgress,
           ReturnStepLimit, ReturnBlocked, Return, InternalStep
  <2>2. t = state
    BY <2>1 DEF Submit, Current, IInv, TypeOK
  <2> QED BY <2>2 DEF IInv, Behind
<1> QED BY <1>1, InitIInv, NextIInv, PTL DEF Spec, TokensActInOrder

----------------------------------------------------------------------------
(* The answers of the advance loop                                          *)

(* The call stands on the orbit of its first content; every content before  *)
(* needed a step, and those are the seen ones.                               *)
OnOrbit ==
  LET orbit == Orbit(battle, start) IN
  call = "running" =>
    /\ cur = orbit[step]
    /\ \A n \in 0..(step - 1) : battle.mode[orbit[n]] = "step" /\ orbit[n] \in seen
    /\ step = 0 => seen = {}


LEMMA ReturnExact ==
  ASSUME IInv, OnOrbit, ReturnDecision \/ ReturnNoProgress \/ ReturnStepLimit \/ ReturnBlocked
  PROVE  AdvanceIsExact'
<1> DEFINE orbit == Orbit(battle, start)
<1>1. /\ TypeOK /\ call = "running" /\ cur = orbit[step] /\ MaxSteps \in Nat /\ IsBattle(battle)
      /\ \A n \in 0..(step - 1) : battle.mode[orbit[n]] = "step" /\ orbit[n] \in seen
      /\ step = 0 => seen = {}
  BY DecisionAssumption DEF IInv, TypeOK, OnOrbit, ReturnDecision, ReturnNoProgress, ReturnStepLimit,
     ReturnBlocked
<1>2. /\ call' = "returned" /\ cur' = cur /\ step' = step
      /\ Orbit(battle, start)' = Orbit(battle, start) /\ battle' = battle
  BY DEF ReturnDecision, ReturnNoProgress, ReturnStepLimit, ReturnBlocked, Return
<1>3. orbit[0] = start /\ step \in 0..MaxSteps /\ cur \in Contents
  BY <1>1, OrbitSteps DEF TypeOK
<1> HIDE DEF orbit
<1>4. result' = "ready" <=> \E n \in 0..MaxSteps : battle.mode[orbit[n]] = "ready"
  <2>1. CASE ReturnDecision
    <3>1. CASE battle.mode[cur] = "ready"
      <4>1. result' = "ready"
        BY <2>1, <3>1 DEF ReturnDecision, Return
      <4> QED BY <1>1, <1>3, <3>1, <4>1
    <3>2. CASE battle.mode[cur] = "stopped"
      <4>1. result' = "not_required"
        BY <2>1, <3>2 DEF ReturnDecision, Return
      <4>2. Stepped(battle, cur) = cur
        BY <3>2 DEF Stepped
      <4>3. \A n \in step..MaxSteps : orbit[n] \in {cur}
        BY <1>1, <1>3, <4>2, OrbitStays DEF orbit, TypeOK
      <4>4. \A n \in 0..MaxSteps : n \in 0..(step - 1) \/ n \in step..MaxSteps
        BY <1>1, <1>3
      <4> QED BY <1>1, <3>2, <4>1, <4>3, <4>4
    <3> QED BY <1>1, <1>3, <2>1, <3>1, <3>2 DEF ReturnDecision, TypeOK, IsBattle, Modes
  <2>2. CASE ReturnNoProgress
    <3>1. result' = "no_progress" /\ cur \in seen /\ battle.mode[cur] = "step"
      BY <2>2 DEF ReturnNoProgress, Return, Repeated
    <3>2. step # 0 /\ 0 \in 0..(step - 1)
      BY <1>1, <1>3, <3>1
    <3>3. start \in seen
      BY <1>1, <1>3, <3>2
    <3>4. \A c \in seen : battle.mode[c] = "step" /\ battle.next[c] # Blocked
                          /\ battle.next[c] \in seen
      BY <1>1, <3>1 DEF IInv, Chained
    <3>5. \A c \in seen : Stepped(battle, c) \in seen
      BY <3>4 DEF Stepped
    <3>6. \A n \in 0..MaxSteps : orbit[n] \in seen
      BY <1>1, <1>3, <3>3, <3>5, OrbitStays DEF orbit, TypeOK
    <3> QED BY <3>1, <3>4, <3>6
  <2>3. CASE ReturnStepLimit
    <3>1. result' = "step_limit" /\ step = MaxSteps /\ battle.mode[cur] = "step"
      BY <1>1, <1>3, <2>3 DEF ReturnStepLimit, Return, LimitReached
    <3>2. \A n \in 0..MaxSteps : n \in 0..(step - 1) \/ n = step
      BY <1>1, <3>1
    <3> QED BY <1>1, <3>1, <3>2
  <2>4. CASE ReturnBlocked
    <3>1. result' = "blocked" /\ battle.next[cur] = Blocked /\ battle.mode[cur] = "step"
      BY <2>4 DEF ReturnBlocked, Return
    <3>2. Stepped(battle, cur) = cur
      BY <3>1 DEF Stepped
    <3>3. \A n \in step..MaxSteps : orbit[n] \in {cur}
      BY <1>1, <1>3, <3>2, OrbitStays DEF orbit, TypeOK
    <3>4. \A n \in 0..MaxSteps : n \in 0..(step - 1) \/ n \in step..MaxSteps
      BY <1>1, <1>3
    <3> QED BY <1>1, <3>1, <3>3, <3>4
  <2> QED BY <2>1, <2>2, <2>3, <2>4
<1> QED BY <1>1, <1>2, <1>4 DEF AdvanceIsExact, orbit

LEMMA StepOnOrbit ==
  ASSUME IInv, OnOrbit, InternalStep
  PROVE  OnOrbit'
<1> DEFINE orbit == Orbit(battle, start)
<1>1. /\ TypeOK /\ MaxSteps \in Nat /\ cur = orbit[step] /\ step \in 0..MaxSteps
      /\ \A n \in 0..(step - 1) : battle.mode[orbit[n]] = "step" /\ orbit[n] \in seen
  BY DecisionAssumption DEF IInv, TypeOK, OnOrbit, InternalStep
<1>2. /\ battle.mode[cur] = "step" /\ step < MaxSteps
      /\ battle.next[cur] # Blocked /\ seen' = seen \cup {cur}
      /\ cur' = battle.next[cur] /\ step' = step + 1
      /\ battle' = battle /\ Orbit(battle, start)' = Orbit(battle, start)
  BY <1>1 DEF InternalStep, LimitReached, TypeOK
<1>3. orbit[step + 1] = Stepped(battle, orbit[step])
  <2>1. step + 1 \in 1..MaxSteps /\ (step + 1) - 1 = step
    BY <1>1, <1>2
  <2> QED BY <1>1, <2>1, OrbitSteps DEF TypeOK
<1> HIDE DEF orbit
<1>4. cur' = orbit[step']
  BY <1>1, <1>2, <1>3 DEF Stepped
<1>5. \A n \in 0..(step' - 1) : n \in 0..(step - 1) \/ n = step
  BY <1>1, <1>2
<1>6. \A n \in 0..(step' - 1) : battle.mode[orbit[n]] = "step" /\ orbit[n] \in seen'
  BY <1>1, <1>2, <1>5
<1>7. step' # 0
  BY <1>1, <1>2
<1> QED BY <1>2, <1>4, <1>6, <1>7 DEF OnOrbit, orbit

LEMMA NextExact ==
  IInv /\ OnOrbit /\ AdvanceIsExact /\ [Next]_vars => OnOrbit' /\ AdvanceIsExact'
<1> SUFFICES ASSUME IInv, OnOrbit, AdvanceIsExact, [Next]_vars
             PROVE  OnOrbit' /\ AdvanceIsExact'
  OBVIOUS
<1>1. CASE UNCHANGED <<battle, start, cur, step, call, seen, result>>
  <2>1. Orbit(battle, start)' = Orbit(battle, start)
    BY <1>1
  <2> QED BY <1>1, <2>1 DEF OnOrbit, AdvanceIsExact
<1>2. CASE Call
  <2>1. /\ call' = "running" /\ cur' = state /\ start' = state /\ step' = 0 /\ seen' = {}
        /\ battle' = battle /\ IsBattle(battle) /\ state \in Contents
    BY <1>2 DEF Call, Open, IInv, TypeOK
  <2>2. Orbit(battle, state)[0] = state
    BY <2>1, OrbitSteps
  <2>3. Orbit(battle, start)' = Orbit(battle, state)
    BY <2>1
  <2>4. 0..(step' - 1) = {}
    BY <2>1
  <2> QED BY <2>1, <2>2, <2>3, <2>4 DEF OnOrbit, AdvanceIsExact
<1>3. CASE ReturnDecision \/ ReturnNoProgress \/ ReturnStepLimit \/ ReturnBlocked
  <2>1. AdvanceIsExact'
    BY <1>3, ReturnExact
  <2>2. call' = "returned"
    BY <1>3 DEF ReturnDecision, ReturnNoProgress, ReturnStepLimit, ReturnBlocked, Return
  <2> QED BY <2>1, <2>2 DEF OnOrbit
<1>4. CASE InternalStep
  <2>1. OnOrbit'
    BY <1>4, StepOnOrbit
  <2>2. call' = "running"
    BY <1>4 DEF InternalStep
  <2> QED BY <2>1, <2>2 DEF AdvanceIsExact
<1> QED BY <1>1, <1>2, <1>3, <1>4 DEF Next, Advance, Query, Submit, Request, vars, loop

(* advance_to_decision answers "ready" exactly if max_internal_steps calls  *)
(* of step(None) can reach a decision, and hands back a content on the way. *)
THEOREM AnswersAreExact == Spec => []AdvanceIsExact
<1>1. Init => OnOrbit /\ AdvanceIsExact
  BY DEF Init, OnOrbit, AdvanceIsExact
<1> QED BY <1>1, InitIInv, NextIInv, NextExact, PTL DEF Spec
=============================================================================
