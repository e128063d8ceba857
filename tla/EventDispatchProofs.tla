------------------------ MODULE EventDispatchProofs ------------------------
(***************************************************************************)
(* The dispatch, for every content, every set of statuses and every depth  *)
(* limit: the well-formedness of the status lists, the bound on the depth  *)
(* of the recursion, that the logs explain the state, and that the         *)
(* watchers of what a dispatch touched are settled when it succeeds.       *)
(*                                                                         *)
(* None is inductive alone: a rolled back dispatch or group puts back a    *)
(* state that a frame kept, so the kept states must be well formed and     *)
(* their logs must explain them too; a call one level deeper is within the *)
(* bound only because a call at the limit never has a child waiting; and a *)
(* watcher that a nested dispatch never touched is settled only because    *)
(* the log of that dispatch names every unit it changed.                   *)
(***************************************************************************)
EXTENDS EventDispatch, FiniteSetTheorems, TLAPS

Lists(f) ==
    \A u \in Units : /\ IsInjective(f.statuses[u])
                     /\ \A i \in Range(f.statuses[u]) : Owner[i] = u

GoodField(f) == f \in Fields /\ Lists(f)

GoodFrame(fr) == /\ fr \in Frames
                 /\ GoodField(fr.before) /\ GoodField(fr.mark.field)
                 /\ fr.children # <<>> => fr.depth < MaxDepth

IInv == /\ GoodField(field)
        /\ stack \in Seq(Frames)
        /\ \A k \in 1..Len(stack) : /\ GoodFrame(stack[k])
                                    /\ stack[k].depth = k - 1
                                    /\ stack[k].depth <= MaxDepth

-----------------------------------------------------------------------------
(* Sequences.                                                              *)

LEMMA RemoveAtFacts ==
    ASSUME NEW S, NEW q \in Seq(S), IsInjective(q), NEW n \in 1..Len(q)
    PROVE  /\ RemoveAt(q, n) \in Seq(S)
           /\ IsInjective(RemoveAt(q, n))
           /\ Range(RemoveAt(q, n)) \subseteq Range(q)
<1> DEFINE r == RemoveAt(q, n)
           back(k) == IF k < n THEN k ELSE k + 1
<1> DEFINE a0 == SubSeq(q, 1, n - 1)
           b0 == SubSeq(q, n + 1, Len(q))
<1>0. /\ a0 \in Seq(S) /\ Len(a0) = n - 1 /\ \A k \in 1..(n - 1) : a0[k] = q[k]
      /\ b0 \in Seq(S) /\ Len(b0) = Len(q) - n
      /\ \A k \in 1..(Len(q) - n) : b0[k] = q[n + k]
  OBVIOUS
<1>1a. r = a0 \o b0
  BY DEF RemoveAt
<1> HIDE DEF a0, b0, r
<1>1. r \in Seq(S) /\ Len(r) = Len(q) - 1
  BY <1>0, <1>1a
<1>2. ASSUME NEW k \in 1..Len(r) PROVE r[k] = q[back(k)] /\ back(k) \in 1..Len(q)
  <2>1. CASE k < n
    BY <2>1, <1>0, <1>1, <1>1a
  <2>2. CASE k >= n
    <3>1. k - (n - 1) \in 1..(Len(q) - n) /\ n + (k - (n - 1)) = k + 1
      BY <2>2, <1>1
    <3>2. Len(a0) = n - 1 /\ k \in (Len(a0) + 1)..(Len(a0) + Len(b0))
      BY <2>2, <1>0, <1>1
    <3>3. (a0 \o b0)[k] = b0[k - Len(a0)]
      BY <3>2, <1>0
    <3>4. r[k] = b0[k - (n - 1)]
      BY <3>2, <3>3, <1>1a
    <3> QED
      BY <3>1, <3>4, <2>2, <1>0, <1>1
  <2> QED
    BY <2>1, <2>2
<1>3. DOMAIN r = 1..Len(r) /\ DOMAIN q = 1..Len(q)
  BY <1>1
<1>4. IsInjective(r)
  <2> SUFFICES ASSUME NEW a \in 1..Len(r), NEW b \in 1..Len(r), r[a] = r[b]
               PROVE  a = b
    BY <1>3 DEF IsInjective
  <2>1. q[back(a)] = q[back(b)]
    BY <1>2
  <2>2. back(a) = back(b)
    BY <2>1, <1>2, <1>3 DEF IsInjective
  <2> QED
    BY <2>2, <1>1
<1>5. Range(r) \subseteq Range(q)
  BY <1>2, <1>3 DEF Range
<1> QED
  BY <1>1, <1>4, <1>5 DEF r

LEMMA AppendFacts ==
    ASSUME NEW S, NEW q \in Seq(S), IsInjective(q), NEW x \in S, x \notin Range(q)
    PROVE  /\ Append(q, x) \in Seq(S)
           /\ IsInjective(Append(q, x))
           /\ Range(Append(q, x)) = Range(q) \cup {x}
<1>1. /\ Append(q, x) \in Seq(S) /\ Len(Append(q, x)) = Len(q) + 1
      /\ \A k \in 1..Len(q) : Append(q, x)[k] = q[k]
      /\ Append(q, x)[Len(q) + 1] = x
  OBVIOUS
<1>2. DOMAIN Append(q, x) = 1..(Len(q) + 1) /\ DOMAIN q = 1..Len(q)
  BY <1>1
<1>3. \A k \in 1..Len(q) : q[k] # x
  BY <1>2 DEF Range
<1> HIDE DEF Range
<1>4. IsInjective(Append(q, x))
  BY <1>1, <1>2, <1>3 DEF IsInjective
<1>5. Range(Append(q, x)) = Range(q) \cup {x}
  BY <1>1, <1>2 DEF Range
<1> QED
  BY <1>1, <1>4, <1>5

-----------------------------------------------------------------------------
(* The changes of the state.                                               *)

LEMMA RelistedGood ==
    ASSUME NEW f, GoodField(f), NEW i \in Instances,
           NEW list \in Seq(Instances), IsInjective(list),
           \A j \in Range(list) : Owner[j] = Owner[i]
    PROVE  GoodField(Relisted(f, i, list))
<1> DEFINE g == Relisted(f, i, list)
<1>1. /\ g.statuses = [f.statuses EXCEPT ![Owner[i]] = list]
      /\ f.statuses \in [Units -> Seq(Instances)]
  BY DEF Relisted, GoodField, Fields
<1>2. g \in Fields
  BY <1>1 DEF Relisted, GoodField, Fields, Recorded
<1>3. Lists(g)
  <2> SUFFICES ASSUME NEW v \in Units
               PROVE  /\ IsInjective(g.statuses[v])
                      /\ \A j \in Range(g.statuses[v]) : Owner[j] = v
    BY DEF Lists
  <2>1. g.statuses[v] = IF v = Owner[i] THEN list ELSE f.statuses[v]
    BY <1>1
  <2> QED BY <2>1 DEF GoodField, Lists
<1> QED
  BY <1>2, <1>3 DEF GoodField

LEMMA ListedGood ==
    ASSUME NEW f, GoodField(f), NEW i \in Instances, ~Attached(f, i)
    PROVE  GoodField(Listed(f, i))
<1> DEFINE q == f.statuses[Owner[i]]
<1>1. q \in Seq(Instances) /\ IsInjective(q) /\ i \notin Range(q)
      /\ \A j \in Range(q) : Owner[j] = Owner[i]
  BY StatusAssumption DEF GoodField, Lists, Fields, Attached
<1>2. /\ Append(q, i) \in Seq(Instances) /\ IsInjective(Append(q, i))
      /\ Range(Append(q, i)) = Range(q) \cup {i}
  <2> HIDE DEF q
  <2> QED BY <1>1, AppendFacts
<1>3. \A j \in Range(Append(q, i)) : Owner[j] = Owner[i]
  BY <1>1, <1>2
<1>4. GoodField(Relisted(f, i, Append(q, i)))
  <2> HIDE DEF q
  <2> QED BY <1>2, <1>3, RelistedGood
<1> QED
  BY <1>4 DEF Listed

LEMMA DelistedGood ==
    ASSUME NEW f, GoodField(f), NEW i \in Instances, Attached(f, i)
    PROVE  GoodField(Delisted(f, i))
<1> DEFINE q == f.statuses[Owner[i]]
           n == Position(q, i)
<1>1. q \in Seq(Instances) /\ IsInjective(q) /\ i \in Range(q)
      /\ \A j \in Range(q) : Owner[j] = Owner[i]
  BY StatusAssumption DEF GoodField, Lists, Fields, Attached
<1>2. n \in 1..Len(q)
  <2>1. \E k \in DOMAIN q : q[k] = i
    BY <1>1 DEF Range
  <2>2. n \in DOMAIN q
    BY <2>1 DEF Position
  <2> QED BY <2>2, <1>1
<1>3. /\ RemoveAt(q, n) \in Seq(Instances) /\ IsInjective(RemoveAt(q, n))
      /\ Range(RemoveAt(q, n)) \subseteq Range(q)
  <2> HIDE DEF q, n
  <2> QED BY <1>1, <1>2, RemoveAtFacts
<1>4. \A j \in Range(RemoveAt(q, n)) : Owner[j] = Owner[i]
  BY <1>1, <1>3
<1>5. GoodField(Relisted(f, i, RemoveAt(q, n)))
  <2> HIDE DEF q, n
  <2> QED BY <1>3, <1>4, RelistedGood
<1> QED
  BY <1>5 DEF Delisted

(* What a change is about.                                                  *)
LEMMA ChangeFacts ==
    ASSUME NEW ch \in Changes
    PROVE  /\ ch.unit \in Units /\ UnitOf(ch) \in Units
           /\ \/ ch.kind \in UnitKinds /\ ch.inst = NoInstance /\ UnitOf(ch) = ch.unit
              \/ /\ ch.kind \in StatusKinds \cup RecordKinds /\ ch.inst \in Instances
                 /\ UnitOf(ch) = Owner[ch.inst]
BY StatusAssumption DEF Changes, Effecting, UnitOf

LEMMA EffectsAreChanges == Effecting \subseteq Changes
BY DEF Changes

(* Whatever change a callback or a caller makes, the state stays well formed. *)
LEMMA AfterGood ==
    ASSUME NEW f, GoodField(f), NEW ch \in Changes
    PROVE  GoodField(After(f, ch))
<1> SUFFICES ASSUME Alters(f, ch) PROVE GoodField(Reduced(f, ch))
  BY DEF After
<1>0. /\ ch.unit \in Units
      /\ ch.kind \in StatusKinds \cup RecordKinds => ch.inst \in Instances
  BY ChangeFacts DEF UnitKinds, StatusKinds, RecordKinds
<1>1. CASE ch.kind = "attach"
  BY <1>0, <1>1, ListedGood DEF Alters, Reduced, StatusKinds
<1>2. CASE ch.kind = "detach"
  BY <1>0, <1>2, DelistedGood DEF Alters, Reduced, StatusKinds
<1>3. CASE ch.kind \in {"raise", "lower"}
  <2>1. Reduced(f, ch).statuses = f.statuses
    BY <1>3 DEF Reduced, GoodField, Fields
  <2>2. Reduced(f, ch) \in Fields
    BY <1>0, <1>3 DEF Reduced, GoodField, Fields
  <2> QED BY <2>1, <2>2 DEF GoodField, Lists
<1>4. CASE ch.kind \in {"seen_in", "seen_out"}
  <2>0. ch.inst \in Instances
    BY <1>0, <1>4 DEF RecordKinds
  <2>1. Reduced(f, ch).statuses = f.statuses
    BY <1>4 DEF Reduced, GoodField, Fields
  <2>2. Reduced(f, ch) \in Fields
    BY <1>4, <2>0 DEF Reduced, GoodField, Fields, Recorded
  <2> QED BY <2>1, <2>2 DEF GoodField, Lists
<1> QED
  BY <1>1, <1>2, <1>3, <1>4 DEF Alters

(* Induction over the natural numbers for a set of them: a set that holds 0 *)
(* and every successor holds all, or the numbers up to a missing one would  *)
(* be mapped into fewer.                                                    *)
LEMMA NatSetInduction ==
  ASSUME NEW T \in SUBSET Nat, 0 \in T, \A n \in T : n + 1 \in T
  PROVE  T = Nat
<1> SUFFICES ASSUME NEW m \in Nat, m \notin T
             PROVE  FALSE
  OBVIOUS
<1> DEFINE below == {n \in T : n <= m}
           next == [n \in below |-> n + 1]
<1>1. IsFiniteSet(below) /\ Cardinality(below) \in Nat
  BY FS_BoundedSetOfNaturals, FS_CardinalityType
<1>2. IsFiniteSet(below \ {0}) /\ Cardinality(below \ {0}) = Cardinality(below) - 1
  <2>1. 0 \in below
    OBVIOUS
  <2> HIDE DEF below
  <2> QED BY <1>1, <2>1, FS_RemoveElement
<1>3. next \in [below -> below \ {0}]
  <2>1. ASSUME NEW n \in below PROVE n + 1 \in below \ {0}
    <3>1. n \in Nat /\ n + 1 \in T /\ n <= m /\ n # m
      OBVIOUS
    <3> QED BY <3>1
  <2> HIDE DEF below
  <2> QED BY <2>1
<1> HIDE DEF below, next
<1>4. PICK x \in below, y \in below : x # y /\ next[x] = next[y]
  BY <1>1, <1>2, <1>3, FS_PigeonHole
<1> QED BY <1>4 DEF below, next

-----------------------------------------------------------------------------
(* What a log of mutations does to a state.                                *)

(* h is the sequence of the states that f goes through.                    *)
Redoes(h, f, log) ==
    h = [n \in 0..Len(log) |->
            IF n = 0 THEN f ELSE Reduced(h[n - 1], log[n].change)]

LEMMA RedoesBuilt ==
    ASSUME NEW f, NEW log, NEW l \in Nat, Len(log) = l,
           NEW h, h = [n \in 0..l |-> h[n]], h[0] = f,
           \A n \in 1..l : h[n] = Reduced(h[n - 1], log[n].change)
    PROVE  Redoes(h, f, log)
<1>1. ASSUME NEW n \in 0..l
      PROVE  h[n] = IF n = 0 THEN f ELSE Reduced(h[n - 1], log[n].change)
  <2>1. n = 0 \/ (n \in 1..l /\ n # 0)
    BY ONLY l \in Nat, n \in 0..l
  <2> QED BY <2>1, Zenon
<1>2. [n \in 0..l |-> h[n]] = [n \in 0..l |->
         IF n = 0 THEN f ELSE Reduced(h[n - 1], log[n].change)]
  BY <1>1, Zenon
<1>3. h = [n \in 0..l |-> IF n = 0 THEN f ELSE Reduced(h[n - 1], log[n].change)]
  BY <1>2
<1>4. 0..Len(log) = 0..l
  OBVIOUS
<1> QED BY <1>3, <1>4 DEF Redoes

(* The recursion that defines Replay has a solution.                        *)
LEMMA RedoExists ==
    ASSUME NEW f, NEW log, Len(log) \in Nat
    PROVE  \E h : Redoes(h, f, log)
<1> DEFINE Partly(h, k) ==
              h[0] = f /\ \A n \in 1..k : h[n] = Reduced(h[n - 1], log[n].change)
           T == {k \in Nat : \E h : Partly(h, k)}
<1>1. 0 \in T
  <2>1. Partly([n \in 0..0 |-> f], 0)
    OBVIOUS
  <2>2. \E h : Partly(h, 0)
    <3> HIDE DEF Partly
    <3> QED BY <2>1
  <2> QED BY <2>2
<1>2. ASSUME NEW k \in T PROVE k + 1 \in T
  <2>1. PICK h : Partly(h, k)
    BY <1>2
  <2> DEFINE g == [n \in 0..(k + 1) |->
                      IF n <= k THEN h[n] ELSE Reduced(h[k], log[k + 1].change)]
  <2>2. g[0] = f
    BY <2>1
  <2>3. \A n \in 1..(k + 1) : g[n] = Reduced(g[n - 1], log[n].change)
    <3>1. ASSUME NEW n \in 1..(k + 1), n <= k
          PROVE  g[n] = Reduced(g[n - 1], log[n].change)
      <4>1. n \in 0..k /\ n # 0 /\ n - 1 \in 0..(k + 1) /\ n - 1 <= k
        BY <3>1
      <4>2. h[n] = Reduced(h[n - 1], log[n].change)
        BY <2>1, <4>1
      <4>3. g[n] = h[n] /\ g[n - 1] = h[n - 1]
        BY <3>1, <4>1
      <4> QED BY <4>2, <4>3
    <3>2. g[k + 1] = Reduced(g[(k + 1) - 1], log[k + 1].change)
      <4>1. g[k + 1] = Reduced(h[k], log[k + 1].change) /\ (k + 1) - 1 = k
        OBVIOUS
      <4>2. g[k] = h[k]
        OBVIOUS
      <4> QED BY <4>1, <4>2
    <3>3. \A n \in 1..(k + 1) : n <= k \/ n = k + 1
      OBVIOUS
    <3> HIDE DEF g
    <3> QED BY <3>1, <3>2, <3>3
  <2>4. Partly(g, k + 1)
    <3> HIDE DEF g
    <3> QED BY <2>2, <2>3
  <2>5. \E j : Partly(j, k + 1)
    <3> HIDE DEF Partly, g
    <3> QED BY <2>4
  <2> QED BY <2>5
<1>3. Len(log) \in T
  <2>1. T \in SUBSET Nat
    OBVIOUS
  <2> HIDE DEF T
  <2> QED BY <1>1, <1>2, <2>1, NatSetInduction
<1>4. PICK h : Partly(h, Len(log))
  BY <1>3
<1> DEFINE g == [n \in 0..Len(log) |-> h[n]]
<1>5. g = [n \in 0..Len(log) |-> g[n]] /\ g[0] = f
      /\ \A n \in 1..Len(log) : g[n] = Reduced(g[n - 1], log[n].change)
  BY <1>4
<1> HIDE DEF g
<1>6. Redoes(g, f, log)
  BY <1>5, RedoesBuilt
<1> QED BY <1>6

(* It has only one.                                                         *)
LEMMA RedoUnique ==
    ASSUME NEW f, NEW log, Len(log) \in Nat,
           NEW g, Redoes(g, f, log), NEW h, Redoes(h, f, log)
    PROVE  g = h
<1> DEFINE T == {n \in Nat : n <= Len(log) => g[n] = h[n]}
<1>1. /\ DOMAIN g = 0..Len(log) /\ DOMAIN h = 0..Len(log)
      /\ g = [n \in 0..Len(log) |-> g[n]] /\ h = [n \in 0..Len(log) |-> h[n]]
      /\ g[0] = f /\ h[0] = f
  BY DEF Redoes
<1>2. \A n \in Nat : n + 1 <= Len(log) =>
         /\ g[n + 1] = Reduced(g[n], log[n + 1].change)
         /\ h[n + 1] = Reduced(h[n], log[n + 1].change)
  <2> SUFFICES ASSUME NEW n \in Nat, n + 1 <= Len(log)
               PROVE  /\ g[n + 1] = Reduced(g[n], log[n + 1].change)
                      /\ h[n + 1] = Reduced(h[n], log[n + 1].change)
    OBVIOUS
  <2>1. n + 1 \in 0..Len(log) /\ n + 1 # 0 /\ (n + 1) - 1 = n
    OBVIOUS
  <2> QED BY <2>1 DEF Redoes
<1>3. T = Nat
  <2>1. 0 \in T /\ T \in SUBSET Nat
    BY <1>1
  <2>2. \A n \in T : n + 1 \in T
    BY <1>2
  <2> HIDE DEF T
  <2> QED BY <2>1, <2>2, NatSetInduction
<1>4. \A n \in 0..Len(log) : g[n] = h[n]
  BY <1>3
<1> QED BY <1>1, <1>4

LEMMA ReplayIs ==
    ASSUME NEW f, NEW log, Len(log) \in Nat, NEW h, Redoes(h, f, log)
    PROVE  Replay(f, log) = h[Len(log)]
<1> DEFINE o == CHOOSE g : Redoes(g, f, log)
<1>1. Redoes(o, f, log)
  <2> HIDE DEF Redoes
  <2> QED OBVIOUS
<1>2. Replay(f, log) = o[Len(log)]
  BY DEF Replay, Redoes
<1>3. o = h
  <2> HIDE DEF o
  <2> QED BY <1>1, RedoUnique
<1> QED BY <1>2, <1>3

LEMMA ReplayNothing ==
    ASSUME NEW f
    PROVE  Replay(f, <<>>) = f
<1> DEFINE h == [n \in 0..0 |-> f]
<1>1. Redoes(h, f, <<>>) /\ h[0] = f /\ Len(<<>>) = 0
  BY DEF Redoes
<1> HIDE DEF h
<1> QED BY <1>1, ReplayIs

(* A log is replayed from where the replay of what precedes it ends.        *)
LEMMA ReplayJoins ==
    ASSUME NEW f, NEW S, NEW s \in Seq(S), NEW t \in Seq(S)
    PROVE  Replay(f, s \o t) = Replay(Replay(f, s), t)
<1>1. /\ Len(s) \in Nat /\ Len(t) \in Nat /\ Len(s \o t) = Len(s) + Len(t)
      /\ \A n \in 1..Len(s) : (s \o t)[n] = s[n]
      /\ \A n \in 1..Len(t) : (s \o t)[Len(s) + n] = t[n]
  OBVIOUS
<1> DEFINE m == Len(s)
           l == Len(t)
           u == s \o t
<1>2. PICK g : Redoes(g, f, s)
  BY <1>1, RedoExists
<1>3. PICK h : Redoes(h, g[m], t)
  BY <1>1, RedoExists
<1>4. Replay(f, s) = g[m] /\ Replay(g[m], t) = h[l]
  BY <1>1, <1>2, <1>3, ReplayIs
<1>5. /\ g[0] = f /\ \A n \in 1..m : g[n] = Reduced(g[n - 1], s[n].change)
      /\ h[0] = g[m] /\ \A n \in 1..l : h[n] = Reduced(h[n - 1], t[n].change)
  <2>1. ASSUME NEW a, NEW b, NEW q, Len(q) \in Nat, Redoes(a, b, q)
        PROVE  a[0] = b /\ \A n \in 1..Len(q) : a[n] = Reduced(a[n - 1], q[n].change)
    BY <2>1 DEF Redoes
  <2> QED BY <1>1, <1>2, <1>3, <2>1
<1> DEFINE j == [n \in 0..(m + l) |-> IF n <= m THEN g[n] ELSE h[n - m]]
<1> HIDE DEF m, l, u
<1>6. /\ m \in Nat /\ l \in Nat /\ Len(u) = m + l
      /\ \A n \in 1..m : u[n] = s[n]
      /\ \A n \in 1..l : u[m + n] = t[n]
  BY <1>1 DEF m, l, u
<1>7. j[0] = f
  BY <1>5, <1>6
<1>8. ASSUME NEW n \in 1..(m + l) PROVE j[n] = Reduced(j[n - 1], u[n].change)
  <2>1. CASE n <= m
    <3>1. n \in 1..m /\ n \in 0..(m + l) /\ n - 1 \in 0..(m + l) /\ n - 1 <= m
      BY <2>1, <1>6
    <3>2. j[n] = g[n] /\ j[n - 1] = g[n - 1] /\ u[n] = s[n]
      BY <2>1, <3>1, <1>6
    <3> QED BY <3>1, <3>2, <1>5
  <2>2. CASE ~(n <= m)
    <3>1. n - m \in 1..l /\ n \in 0..(m + l) /\ n - 1 \in 0..(m + l) /\ m + (n - m) = n
      BY <2>2, <1>6
    <3>2. j[n] = h[n - m] /\ u[n] = t[n - m]
      <4>1. u[m + (n - m)] = t[n - m]
        BY <3>1, <1>6
      <4> QED BY <4>1, <2>2, <3>1
    <3>3. j[n - 1] = h[(n - m) - 1]
      <4>1. CASE n - 1 <= m
        <5>1. n - 1 = m /\ (n - m) - 1 = 0
          BY <4>1, <2>2, <1>6
        <5>2. j[n - 1] = g[m]
          BY <5>1, <3>1
        <5> QED BY <5>1, <5>2, <1>5
      <4>2. CASE ~(n - 1 <= m)
        <5>1. (n - 1) - m = (n - m) - 1
          BY <1>6
        <5> QED BY <4>2, <3>1, <5>1
      <4> QED BY <4>1, <4>2
    <3>4. h[n - m] = Reduced(h[(n - m) - 1], t[n - m].change)
      BY <3>1, <1>5
    <3> QED BY <3>2, <3>3, <3>4
  <2> QED BY <2>1, <2>2
<1>9. Redoes(j, f, u)
  <2>1. j = [n \in 0..(m + l) |-> j[n]]
    OBVIOUS
  <2> HIDE DEF j
  <2>2. m + l \in Nat /\ Len(u) = m + l
    BY <1>6
  <2> QED BY <2>1, <2>2, <1>7, <1>8, RedoesBuilt
<1>10. j[m + l] = h[l]
  <2>1. CASE l = 0
    BY <2>1, <1>5, <1>6
  <2>2. CASE l # 0
    BY <2>2, <1>6
  <2> QED BY <2>1, <2>2
<1> HIDE DEF j
<1>11. Replay(f, u) = j[m + l]
  BY <1>6, <1>9, ReplayIs
<1> QED BY <1>4, <1>10, <1>11 DEF m, l, u

(* One mutation.                                                            *)
LEMMA ReplayOne ==
    ASSUME NEW f, NEW ch, NEW by
    PROVE  Replay(f, Mutations(f, ch, by)) = After(f, ch)
<1>1. CASE ~Alters(f, ch)
  BY <1>1, ReplayNothing DEF Mutations, After
<1>2. CASE Alters(f, ch)
  <2> DEFINE log == <<[change |-> ch, by |-> by]>>
             h == [n \in 0..1 |-> IF n = 0 THEN f ELSE Reduced(f, ch)]
  <2>1. Len(log) = 1 /\ log[1].change = ch
    OBVIOUS
  <2>2. h[0] = f /\ h[1] = Reduced(f, ch) /\ h = [n \in 0..1 |-> h[n]]
        /\ \A n \in 1..1 : h[n] = Reduced(h[n - 1], log[n].change)
    OBVIOUS
  <2> HIDE DEF log, h
  <2>4. Redoes(h, f, log)
    BY <2>1, <2>2, RedoesBuilt
  <2>5. Replay(f, log) = h[Len(log)]
    <3>1. Len(log) \in Nat
      BY <2>1
    <3> QED BY <3>1, <2>4, ReplayIs
  <2> QED BY <1>2, <2>1, <2>2, <2>5 DEF Mutations, After, log
<1> QED BY <1>1, <1>2

LEMMA ReplayRecording ==
    ASSUME NEW f, NEW i, NEW r
    PROVE  Replay(f, RecordingLog(f, i, r)) = Recording(f, i, r)
BY ReplayOne, ReplayNothing DEF RecordingLog, Recording

-----------------------------------------------------------------------------
(* Frames.                                                                 *)

LEMMA EmittedTyped ==
    ASSUME NEW f, NEW ch \in Changes
    PROVE  Emitted(f, ch) \in Seq(Events)
<1>1. ASSUME NEW t \in {"hp.change", "custom.event"}
      PROVE  [type |-> t, unit |-> ch.unit, only |-> AnyModifier] \in Events
  BY ChangeFacts DEF Events, EventTypes, Emittable
<1> QED
  BY <1>1 DEF Emitted

LEMMA MutationsTyped ==
    ASSUME NEW f, NEW ch \in Changes, NEW by \in {"listener", "watcher"}
    PROVE  Mutations(f, ch, by) \in Logs
<1>1. Alters(f, ch) =>
        [change |-> ch, by |-> by] \in [change : Altering, by : {"listener", "watcher"}]
  BY DEF Alters, Altering
<1>2. Alters(f, ch) => <<[change |-> ch, by |-> by]>> \in Logs
  BY <1>1 DEF Logs
<1>3. <<>> \in Logs
  BY DEF Logs
<1> QED
  BY <1>2, <1>3 DEF Mutations

LEMMA LogsJoin ==
    ASSUME NEW a \in Logs, NEW b \in Logs
    PROVE  a \o b \in Logs
BY DEF Logs

LEMMA SeenTyped ==
    ASSUME NEW i \in Instances, NEW r
    PROVE  SeenAs(i, r) \in Changes
BY StatusAssumption DEF SeenAs, Changes, RecordKinds

LEMMA RecordingGood ==
    ASSUME NEW f, GoodField(f), NEW i \in Instances, NEW r
    PROVE  /\ GoodField(Recording(f, i, r))
           /\ RecordingLog(f, i, r) \in Logs
<1>1. SeenAs(i, r) \in Changes
  BY SeenTyped
<1>2. GoodField(After(f, SeenAs(i, r)))
  BY <1>1, AfterGood
<1>3. Mutations(f, SeenAs(i, r), "watcher") \in Logs
  BY <1>1, MutationsTyped
<1>4. <<>> \in Logs
  BY DEF Logs
<1> QED
  BY <1>2, <1>3, <1>4 DEF Recording, RecordingLog

LEMMA FrameGood ==
    ASSUME NEW f, GoodField(f), NEW e \in Events, NEW d \in Nat
    PROVE  GoodFrame(Frame(f, e, d)) /\ Frame(f, e, d).depth = d
<1>1. Matched(f, e) \in SUBSET Matches
  BY DEF Matched, Listening
<1>2. BlockedMatch(f, e) \in BOOLEAN
  BY DEF BlockedMatch
<1>3. <<>> \in Logs /\ f \in Fields
  BY DEF Logs, GoodField
<1>4. Frame(f, e, d) \in Frames
  BY <1>1, <1>2, <1>3 DEF Frame, Frames, Stages
<1> QED
  BY <1>4 DEF Frame, GoodFrame

LEMMA DispatchingGood ==
    ASSUME NEW fr, GoodFrame(fr)
    PROVE  GoodFrame(Dispatching(fr)) /\ Dispatching(fr).depth = fr.depth
<1> DEFINE g == Dispatching(fr)
<1>1. fr \in Frames
  BY DEF GoodFrame
<1>2. TooDeep(fr) \in BOOLEAN
  BY DEF TooDeep
<1>3. g \in Frames
  <2>1. /\ (IF TooDeep(fr) THEN <<>> ELSE fr.sent) \in Seq(Events)
        /\ <<>> \in Seq(Events) /\ (fr.failed \/ TooDeep(fr)) \in BOOLEAN
    BY <1>1, <1>2 DEF Frames
  <2>2. \A c, x, n : c \in Seq(Events) /\ x \in BOOLEAN /\ n \in Seq(Events)
          => [fr EXCEPT !.children = c, !.failed = x, !.sent = n] \in Frames
    BY <1>1 DEF Frames
  <2> QED
    BY <2>1, <2>2 DEF Dispatching
<1>4. /\ g.depth = fr.depth /\ g.before = fr.before /\ g.mark = fr.mark
      /\ g.children = IF TooDeep(fr) THEN <<>> ELSE fr.sent
  BY <1>1 DEF Dispatching, Frames
<1>5. g.children # <<>> => fr.depth < MaxDepth
  BY <1>1, <1>4, DepthAssumption DEF TooDeep, Frames
<1> QED
  BY <1>3, <1>4, <1>5 DEF GoodFrame

LEMMA TouchedTyped ==
    ASSUME NEW fr \in Frames
    PROVE  Touched(fr) \in Seq(Units)
<1> DEFINE own == CASE fr.event.type = "battle.start" -> UnitOrder
                    [] fr.event.type \in {"status.lifecycle", "hp.change"} -> <<fr.event.unit>>
                    [] OTHER -> <<>>
           rest == [k \in DOMAIN fr.log |-> UnitOf(fr.log[k].change)]
<1>1. own \in Seq(Units)
  BY UnitsAssumption DEF Frames, Events
<1>2. fr.log \in Seq([change : Altering, by : {"listener", "watcher"}])
  BY DEF Frames, Logs
<1>3. ASSUME NEW k \in 1..Len(fr.log) PROVE UnitOf(fr.log[k].change) \in Units
  <2>0. \A S : \A q \in Seq(S) : \A j \in 1..Len(q) : q[j] \in S
    OBVIOUS
  <2>1. fr.log[k] \in [change : Altering, by : {"listener", "watcher"}]
    BY <1>2, <2>0
  <2>2. fr.log[k].change \in Changes
    BY <2>1 DEF Altering
  <2> QED
    BY <2>2, ChangeFacts
<1>4. DOMAIN fr.log = 1..Len(fr.log) /\ Len(fr.log) \in Nat
  BY <1>2
<1>5. rest \in Seq(Units)
  <2>1. rest \in [1..Len(fr.log) -> Units]
    BY <1>3, <1>4
  <2> QED
    BY <2>1, <1>4
<1> HIDE DEF own, rest
<1>6. own \o rest \in Seq(Units)
  BY <1>1, <1>5
<1> QED
  BY <1>6 DEF Touched, own, rest

(* A step of the innermost call that leaves the others alone. *)
LEMMA TopReplaced ==
    ASSUME IInv, stack # <<>>, GoodField(field'),
           NEW fr, GoodFrame(fr), fr.depth = Top.depth, stack' = WithTop(fr)
    PROVE  IInv'
<1>1. stack \in Seq(Frames) /\ Depth \in 1..Len(stack) /\ Depth = Len(stack)
  BY DEF IInv, Depth
<1>2. fr \in Frames
  BY DEF GoodFrame
<1>3. stack' \in Seq(Frames) /\ Len(stack') = Len(stack)
  BY <1>1, <1>2 DEF WithTop
<1>4. ASSUME NEW k \in 1..Len(stack')
      PROVE  /\ GoodFrame(stack'[k]) /\ stack'[k].depth = k - 1
             /\ stack'[k].depth <= MaxDepth
  <2>1. stack'[k] = IF k = Depth THEN fr ELSE stack[k]
    BY <1>1, <1>3 DEF WithTop
  <2> QED
    BY <2>1, <1>1, <1>3 DEF IInv, Top
<1> QED
  BY <1>3, <1>4 DEF IInv

LEMMA TopGood ==
    ASSUME IInv, stack # <<>>
    PROVE  /\ GoodFrame(Top) /\ Top \in Frames /\ Depth \in 1..Len(stack)
           /\ Top.depth = Depth - 1 /\ Top.depth <= MaxDepth
BY DEF IInv, Top, Depth, GoodFrame

-----------------------------------------------------------------------------
(* The steps.                                                              *)

LEMMA InitIInv ==
    ASSUME Init PROVE IInv
<1>1. field \in Fields
  BY DEF Init, Fields, Recorded
<1>2. Lists(field)
  BY DEF Init, Lists, IsInjective, Range
<1>3. stack \in Seq(Frames) /\ Len(stack) = 0
  BY DEF Init
<1> QED
  BY <1>1, <1>2, <1>3 DEF IInv, GoodField

LEMMA CallIInv ==
    ASSUME IInv, NEW e \in Events, NEW ch \in Effecting, Call(e, ch)
    PROVE  IInv'
<1>1. GoodField(field')
  BY AfterGood, EffectsAreChanges DEF Call, IInv
<1>2. GoodFrame(Frame(field', e, 0)) /\ Frame(field', e, 0).depth = 0
  BY <1>1, FrameGood
<1>3. stack' = <<Frame(field', e, 0)>>
  BY DEF Call
<1>4. Frame(field', e, 0) \in Frames
  BY <1>2 DEF GoodFrame
<1>5. stack' \in Seq(Frames) /\ Len(stack') = 1 /\ stack'[1] = Frame(field', e, 0)
  BY <1>3, <1>4
<1> QED
  BY <1>1, <1>2, <1>5, DepthAssumption DEF IInv

LEMMA RunListenerIInv ==
    ASSUME IInv, RunListener PROVE IInv'
<1> DEFINE m == Foremost(Top.before, Top.pending)
           fr == [Top EXCEPT !.stage = "group", !.pending = @ \ {m},
                             !.group = Group(m),
                             !.mark = [field |-> field, log |-> Top.log]]
<1>1. /\ stack # <<>> /\ stack' = WithTop(fr) /\ field' = field
      /\ Top.children = <<>>
  BY DEF RunListener
<1>2. Top \in Frames /\ GoodFrame(Top) /\ GoodField(field)
  BY <1>1, TopGood DEF IInv
<1>3. Group(m) \subseteq Callbacks /\ "group" \in Stages
  BY DEF Group, Stages
<1> HIDE DEF m
<1>4. fr \in Frames
  BY <1>2, <1>3 DEF Frames, GoodField
<1>5. GoodFrame(fr) /\ fr.depth = Top.depth
  BY <1>1, <1>2, <1>4 DEF GoodFrame, Frames
<1> HIDE DEF fr
<1> QED
  BY <1>1, <1>2, <1>5, TopReplaced

LEMMA RunCallbackIInv ==
    ASSUME IInv, RunCallback PROVE IInv'
<1> DEFINE c == FirstRanked(Top.group)
           rest == [Top EXCEPT !.group = @ \ {c}]
<1>1. stack # <<>>
  BY DEF RunCallback
<1>2. Top \in Frames /\ GoodFrame(Top) /\ GoodField(field)
  BY <1>1, TopGood DEF IInv
<1> HIDE DEF c
<1>3. rest \in Frames
  BY <1>2 DEF Frames
<1>4. CASE stack' = WithTop([rest EXCEPT !.fault = TRUE]) /\ UNCHANGED field
  <2> DEFINE fr == [rest EXCEPT !.fault = TRUE]
  <2>1. fr \in Frames
    BY <1>3 DEF Frames
  <2>2. GoodFrame(fr) /\ fr.depth = Top.depth
    BY <1>2, <2>1 DEF GoodFrame, Frames
  <2>3. stack' = WithTop(fr) /\ field' = field
    BY <1>4
  <2> HIDE DEF fr
  <2> QED
    BY <1>1, <1>2, <2>2, <2>3, TopReplaced
<1>5. ASSUME NEW ch \in Effects[c], c \in Executable, field' = After(field, ch),
             stack' = WithTop([rest EXCEPT
                        !.sent = @ \o Emitted(field, ch),
                        !.log = @ \o Mutations(field, ch, "listener")])
      PROVE  IInv'
  <2> DEFINE fr == [rest EXCEPT !.sent = @ \o Emitted(field, ch),
                                !.log = @ \o Mutations(field, ch, "listener")]
  <2>1. ch \in Changes
    BY <1>5, CallbackAssumption, EffectsAreChanges
  <2>2. GoodField(field')
    BY <1>2, <1>5, <2>1, AfterGood
  <2>3. /\ Top.sent \o Emitted(field, ch) \in Seq(Events)
        /\ Top.log \o Mutations(field, ch, "listener") \in Logs
    BY <1>2, <2>1, EmittedTyped, MutationsTyped, LogsJoin DEF Frames
  <2>4. fr \in Frames
    BY <1>2, <1>3, <2>3 DEF Frames
  <2>5. GoodFrame(fr) /\ fr.depth = Top.depth
    BY <1>2, <2>4 DEF GoodFrame, Frames
  <2>6. stack' = WithTop(fr)
    BY <1>5
  <2> HIDE DEF fr
  <2> QED
    BY <1>1, <2>2, <2>5, <2>6, TopReplaced
<1> QED
  BY <1>4, <1>5 DEF RunCallback, c

LEMMA CloseGroupIInv ==
    ASSUME IInv, CloseGroup PROVE IInv'
<1> DEFINE closed == [Top EXCEPT !.stage = "listen", !.fault = FALSE,
                                 !.mark = [field |-> Top.before, log |-> <<>>]]
           undone == [closed EXCEPT !.failed = TRUE, !.sent = <<>>,
                                    !.log = Top.mark.log]
<1>1. stack # <<>>
  BY DEF CloseGroup
<1>2. Top \in Frames /\ GoodFrame(Top) /\ GoodField(field)
  BY <1>1, TopGood DEF IInv
<1>3. <<>> \in Logs /\ "listen" \in Stages
  BY DEF Logs, Stages
<1>4. closed \in Frames
  BY <1>2, <1>3 DEF Frames
<1>5. GoodFrame(closed) /\ closed.depth = Top.depth
  BY <1>2, <1>4 DEF GoodFrame, Frames
<1>6. CASE Top.fault
  <2>1. field' = Top.mark.field /\ stack' = WithTop(undone)
    BY <1>6 DEF CloseGroup
  <2>2. undone \in Frames
    <3>1. Top.mark.log \in Logs /\ <<>> \in Seq(Events)
      BY <1>2 DEF Frames
    <3>2. \A n, g : n \in Seq(Events) /\ g \in Logs
            => [closed EXCEPT !.failed = TRUE, !.sent = n, !.log = g] \in Frames
      <4> HIDE DEF closed
      <4> QED BY <1>4 DEF Frames
    <3> QED
      BY <3>1, <3>2
  <2>3. GoodFrame(undone) /\ undone.depth = Top.depth
    BY <1>2, <2>2 DEF GoodFrame, Frames
  <2>4. GoodField(field')
    BY <1>2, <2>1 DEF GoodFrame
  <2> HIDE DEF undone
  <2> QED
    BY <1>1, <2>1, <2>3, <2>4, TopReplaced
<1>7. CASE ~Top.fault
  <2>1. field' = field /\ stack' = WithTop(Dispatching(closed))
    BY <1>7 DEF CloseGroup
  <2> HIDE DEF closed
  <2>2. GoodFrame(Dispatching(closed)) /\ Dispatching(closed).depth = Top.depth
    BY <1>5, DispatchingGood
  <2> QED
    BY <1>1, <1>2, <2>1, <2>2, TopReplaced
<1> QED
  BY <1>6, <1>7

LEMMA DispatchChildIInv ==
    ASSUME IInv, DispatchChild PROVE IInv'
<1> DEFINE rest == [Top EXCEPT !.children = Tail(@)]
           e == Head(Top.children)
           fr == Frame(field, e, Top.depth + 1)
<1>1. stack # <<>> /\ Top.children # <<>> /\ field' = field
  BY DEF DispatchChild
<1>2. /\ Top \in Frames /\ GoodFrame(Top) /\ GoodField(field)
      /\ Depth \in 1..Len(stack) /\ Depth = Len(stack) /\ Top.depth = Depth - 1
  BY <1>1, TopGood DEF IInv, Depth
<1>3. /\ Top.children \in Seq(Events) /\ Top.depth \in Nat
      /\ Tail(Top.children) \in Seq(Events) /\ e \in Events
  BY <1>1, <1>2 DEF Frames
<1>4. rest \in Frames
  BY <1>2, <1>3 DEF Frames
<1>5. GoodFrame(rest) /\ rest.depth = Top.depth
  BY <1>1, <1>2, <1>4 DEF GoodFrame, Frames
<1>6. Top.depth + 1 <= MaxDepth
  BY <1>1, <1>2, <1>3, DepthAssumption DEF GoodFrame
<1>7. GoodFrame(fr) /\ fr.depth = Top.depth + 1
  <2>1. Top.depth + 1 \in Nat
    BY <1>3
  <2> HIDE DEF e
  <2> QED
    BY <1>2, <1>3, <2>1, FrameGood
<1>8. CASE stack' = Append(WithTop(rest), fr)
  <2> HIDE DEF rest, fr
  <2>1. WithTop(rest) \in Seq(Frames) /\ Len(WithTop(rest)) = Len(stack)
        /\ \A k \in 1..Len(stack) :
             WithTop(rest)[k] = IF k = Depth THEN rest ELSE stack[k]
    BY <1>2, <1>4 DEF WithTop, IInv
  <2>2. fr \in Frames
    BY <1>7 DEF GoodFrame
  <2>3. /\ stack' \in Seq(Frames) /\ Len(stack') = Len(stack) + 1
        /\ stack'[Len(stack) + 1] = fr
        /\ \A k \in 1..Len(stack) : stack'[k] = WithTop(rest)[k]
    BY <1>8, <2>1, <2>2
  <2>4. ASSUME NEW k \in 1..Len(stack')
        PROVE  /\ GoodFrame(stack'[k]) /\ stack'[k].depth = k - 1
               /\ stack'[k].depth <= MaxDepth
    <3>1. CASE k = Len(stack) + 1
      BY <3>1, <2>3, <1>2, <1>6, <1>7
    <3>2. CASE k \in 1..Len(stack)
      <4>1. stack'[k] = IF k = Depth THEN rest ELSE stack[k]
        BY <3>2, <2>1, <2>3
      <4>2. CASE k = Depth
        BY <4>1, <4>2, <1>2, <1>3, <1>5, <1>6, DepthAssumption
      <4>3. CASE k # Depth
        BY <3>2, <4>1, <4>3 DEF IInv
      <4> QED BY <4>2, <4>3
    <3> QED
      BY <3>1, <3>2, <2>3, <1>2
  <2> QED
    BY <1>1, <1>2, <2>3, <2>4 DEF IInv
<1>9. CASE stack' = WithTop([rest EXCEPT !.failed = TRUE])
  <2> DEFINE g == [rest EXCEPT !.failed = TRUE]
  <2>1. g \in Frames
    <3> HIDE DEF rest
    <3> QED BY <1>4 DEF Frames
  <2>2. GoodFrame(g) /\ g.depth = Top.depth
    BY <1>1, <1>2, <2>1 DEF GoodFrame, Frames
  <2>3. stack' = WithTop(g)
    BY <1>9
  <2> HIDE DEF g
  <2> QED
    BY <1>1, <1>2, <2>2, <2>3, TopReplaced
<1> QED
  BY <1>8, <1>9 DEF DispatchChild

LEMMA WatchIInv ==
    ASSUME IInv, BeginWatch \/ WatchUnit \/ EndWatch PROVE IInv'
<1>1. stack # <<>> /\ field' = field
  BY DEF BeginWatch, WatchUnit, EndWatch
<1>2. Top \in Frames /\ GoodFrame(Top) /\ GoodField(field)
  BY <1>1, TopGood DEF IInv
<1>3. CASE BeginWatch
  <2> DEFINE fr == [Top EXCEPT !.stage = "watch", !.units = Range(Touched(Top))]
  <2>1. Range(Touched(Top)) \subseteq Units
    BY <1>2, TouchedTyped DEF Range
  <2>2. fr \in Frames
    BY <1>2, <2>1 DEF Frames, Stages
  <2>3. GoodFrame(fr) /\ fr.depth = Top.depth
    BY <1>2, <2>2 DEF GoodFrame, Frames
  <2>4. stack' = WithTop(fr)
    BY <1>3 DEF BeginWatch
  <2> HIDE DEF fr
  <2> QED BY <1>1, <1>2, <2>3, <2>4, TopReplaced
<1>4. CASE WatchUnit
  <2> DEFINE u == Earliest(Top)
             is == {i \in Watched : Owner[i] = u /\ Attached(field, i)}
             fr == [Top EXCEPT !.units = Dropped(@, u), !.todo = is]
  <2>1. is \subseteq Watched
    OBVIOUS
  <2>2. stack' = WithTop(fr)
    BY <1>4 DEF WatchUnit
  <2> HIDE DEF u, is
  <2>3. fr \in Frames
    BY <1>2, <2>1 DEF Frames, Dropped
  <2>4. GoodFrame(fr) /\ fr.depth = Top.depth
    BY <1>2, <2>3 DEF GoodFrame, Frames
  <2> HIDE DEF fr
  <2> QED BY <1>1, <1>2, <2>2, <2>4, TopReplaced
<1>5. CASE EndWatch
  <2> DEFINE fr == [Top EXCEPT !.stage = "after", !.todo = {}]
  <2>1. fr \in Frames
    BY <1>2 DEF Frames, Stages
  <2>2. GoodFrame(fr) /\ fr.depth = Top.depth
    BY <1>2, <2>1 DEF GoodFrame, Frames
  <2>3. stack' = WithTop(Dispatching(fr))
    BY <1>5 DEF EndWatch
  <2> HIDE DEF fr
  <2>4. GoodFrame(Dispatching(fr)) /\ Dispatching(fr).depth = Top.depth
    BY <2>2, DispatchingGood
  <2> QED BY <1>1, <1>2, <2>3, <2>4, TopReplaced
<1> QED
  BY <1>3, <1>4, <1>5

LEMMA CompareIInv ==
    ASSUME IInv, NEW i \in Watched, Compare(i) PROVE IInv'
<1> DEFINE r == Actual(field, i)
           rest == [Top EXCEPT !.todo = @ \ {i}]
<1>1. stack # <<>>
  BY DEF Compare
<1>2. Top \in Frames /\ GoodFrame(Top) /\ GoodField(field) /\ i \in Instances
  BY <1>1, TopGood, StatusAssumption DEF IInv
<1> HIDE DEF r
<1>3. rest \in Frames /\ rest.log = Top.log /\ rest.sent = Top.sent
  BY <1>2 DEF Frames
<1>4. GoodFrame(rest) /\ rest.depth = Top.depth
  BY <1>2, <1>3 DEF GoodFrame, Frames
<1> HIDE DEF rest
<1>5. ASSUME NEW s \in Seq(Events), NEW g \in Logs
      PROVE  /\ GoodFrame([rest EXCEPT !.sent = s, !.log = g])
             /\ [rest EXCEPT !.sent = s, !.log = g].depth = Top.depth
  <2>1. [rest EXCEPT !.sent = s, !.log = g] \in Frames
    BY <1>3 DEF Frames
  <2> QED
    BY <1>3, <1>4, <2>1 DEF GoodFrame, Frames
<1>6. rest.log \in Logs /\ rest.sent \in Seq(Events)
  BY <1>3 DEF Frames
<1>7. CASE /\ field' = Recording(field, i, r)
           /\ stack' = WithTop([rest EXCEPT !.log = @ \o RecordingLog(field, i, r)])
  <2>1. GoodField(field') /\ rest.log \o RecordingLog(field, i, r) \in Logs
    BY <1>2, <1>6, <1>7, RecordingGood, LogsJoin
  <2>2. [rest EXCEPT !.log = @ \o RecordingLog(field, i, r)]
          = [rest EXCEPT !.sent = rest.sent, !.log = rest.log \o RecordingLog(field, i, r)]
    BY <1>3 DEF Frames
  <2> DEFINE fr == [rest EXCEPT !.sent = rest.sent,
                                !.log = rest.log \o RecordingLog(field, i, r)]
  <2>3. GoodFrame(fr) /\ fr.depth = Top.depth
    BY <1>5, <1>6, <2>1
  <2>4. stack' = WithTop(fr)
    BY <1>7, <2>2
  <2> HIDE DEF fr
  <2> QED
    BY <1>1, <2>1, <2>3, <2>4, TopReplaced
<1>8. CASE /\ UNCHANGED field
           /\ stack' = WithTop([rest EXCEPT !.failed = TRUE, !.stage = "after",
                                            !.todo = {}, !.units = {}, !.sent = <<>>])
  <2> DEFINE fr == [rest EXCEPT !.failed = TRUE, !.stage = "after",
                                !.todo = {}, !.units = {}, !.sent = <<>>]
  <2>1. fr \in Frames
    <3>1. <<>> \in Seq(Events) /\ "after" \in Stages /\ {} \in SUBSET Watched
      BY DEF Stages
    <3>2. {} \in SUBSET Units /\ TRUE \in BOOLEAN /\ rest \in Frames
      BY <1>3
    <3> QED
      BY <3>1, <3>2 DEF Frames
  <2>2. GoodFrame(fr) /\ fr.depth = Top.depth
    BY <1>3, <1>4, <2>1 DEF GoodFrame, Frames
  <2>3. stack' = WithTop(fr) /\ field' = field
    BY <1>8
  <2> HIDE DEF fr
  <2> QED
    BY <1>1, <1>2, <2>2, <2>3, TopReplaced
<1>9. ASSUME NEW ch \in Effects[Branch(i, r)], Branch(i, r) \in Executable,
             field' = Recording(After(field, ch), i, r),
             stack' = WithTop([rest EXCEPT
                        !.sent = @ \o Emitted(field, ch),
                        !.log = @ \o Mutations(field, ch, "watcher")
                                  \o RecordingLog(After(field, ch), i, r)])
      PROVE  IInv'
  <2> DEFINE f == After(field, ch)
             s == rest.sent \o Emitted(field, ch)
             g == rest.log \o Mutations(field, ch, "watcher") \o RecordingLog(f, i, r)
             fr == [rest EXCEPT !.sent = s, !.log = g]
  <2>1. ch \in Changes
    BY <1>9, CallbackAssumption, EffectsAreChanges
  <2>2. GoodField(f)
    BY <1>2, <2>1, AfterGood
  <2> HIDE DEF f
  <2>3. GoodField(Recording(f, i, r)) /\ RecordingLog(f, i, r) \in Logs
    BY <1>2, <2>2, RecordingGood
  <2>4. s \in Seq(Events)
    BY <1>6, <2>1, EmittedTyped
  <2>5. g \in Logs
    <3>1. rest.log \o Mutations(field, ch, "watcher") \in Logs
      BY <1>6, <2>1, MutationsTyped, LogsJoin
    <3> QED
      BY <3>1, <2>3, LogsJoin
  <2>6. stack' = WithTop(fr) /\ field' = Recording(f, i, r)
    BY <1>9 DEF f
  <2> HIDE DEF s, g
  <2>7. GoodFrame(fr) /\ fr.depth = Top.depth
    BY <1>5, <2>4, <2>5
  <2> HIDE DEF fr
  <2> QED
    BY <1>1, <2>3, <2>6, <2>7, TopReplaced
<1> QED
  BY <1>7, <1>8, <1>9 DEF Compare, r, rest

LEMMA AnsweredGood ==
    ASSUME NEW caller, GoodFrame(caller), NEW fr \in Frames
    PROVE  GoodFrame(Answered(caller, fr)) /\ Answered(caller, fr).depth = caller.depth
<1>1. caller \in Frames /\ caller.log \in Logs /\ fr.log \in Logs
  BY DEF GoodFrame, Frames
<1>2. caller.log \o fr.log \in Logs
  BY <1>1, LogsJoin
<1>3. CASE fr.failed
  <2>1. [caller EXCEPT !.failed = TRUE] \in Frames
    BY <1>1 DEF Frames
  <2> QED
    BY <1>1, <1>3, <2>1 DEF Answered, GoodFrame, Frames
<1>4. CASE ~fr.failed
  <2>1. [caller EXCEPT !.log = @ \o fr.log] \in Frames
    BY <1>1, <1>2 DEF Frames
  <2> QED
    BY <1>1, <1>4, <2>1 DEF Answered, GoodFrame, Frames
<1> QED
  BY <1>3, <1>4

LEMMA ReturnIInv ==
    ASSUME IInv, Return PROVE IInv'
<1>1. stack # <<>>
  BY DEF Return
<1>2. /\ Top \in Frames /\ GoodFrame(Top) /\ GoodField(field)
      /\ Depth \in 1..Len(stack) /\ Depth = Len(stack) /\ stack \in Seq(Frames)
  BY <1>1, TopGood DEF IInv, Depth
<1>3. GoodField(field')
  BY <1>2 DEF Return, GoodFrame
<1>4. CASE Depth = 1
  <2>1. stack' = <<>>
    BY <1>4 DEF Return
  <2> QED
    BY <1>3, <2>1 DEF IInv
<1>5. CASE Depth # 1
  <2> DEFINE n == Depth - 1
  <2>1. stack' = [k \in 1..n |-> IF k = n THEN Answered(stack[k], Top) ELSE stack[k]]
    BY <1>5 DEF Return
  <2>2. n \in Nat /\ n \in 1..Len(stack)
    BY <1>2, <1>5
  <2> HIDE DEF n
  <2>3. ASSUME NEW k \in 1..n
        PROVE  /\ GoodFrame(stack'[k]) /\ stack'[k].depth = k - 1
               /\ stack'[k].depth <= MaxDepth
    <3>1. k \in 1..Len(stack)
      BY <2>2, <1>2
    <3>2. GoodFrame(stack[k]) /\ stack[k].depth = k - 1 /\ stack[k].depth <= MaxDepth
      BY <3>1 DEF IInv
    <3>3. GoodFrame(Answered(stack[k], Top)) /\ Answered(stack[k], Top).depth = k - 1
      BY <3>2, <1>2, AnsweredGood
    <3> QED
      BY <2>1, <3>2, <3>3
  <2>4. stack' \in Seq(Frames) /\ Len(stack') = n
    <3>1. stack' \in [1..n -> Frames]
      BY <2>1, <2>3 DEF GoodFrame
    <3> QED
      BY <3>1, <2>2
  <2> QED
    BY <1>3, <2>3, <2>4 DEF IInv
<1> QED
  BY <1>4, <1>5

LEMMA NextIInv ==
    ASSUME IInv, [Next]_vars PROVE IInv'
<1>1. CASE UNCHANGED vars
  <2>1. field' = field /\ stack' = stack
    BY <1>1 DEF vars
  <2> QED
    BY <2>1 DEF IInv, GoodField, Lists, GoodFrame
<1>2. CASE Next
  BY <1>2, CallIInv, RunListenerIInv, RunCallbackIInv, CloseGroupIInv,
     DispatchChildIInv, WatchIInv, CompareIInv, ReturnIInv
     DEF Next, Step, WatchStatus
<1> QED
  BY <1>1, <1>2

LEMMA Invariance == Spec => []IInv
<1>1. Init => IInv
  BY InitIInv
<1>2. IInv /\ [Next]_vars => IInv'
  BY NextIInv
<1> QED
  BY <1>1, <1>2, PTL DEF Spec

(* The dispatch never builds an ill-formed frame or state, and no list of   *)
(* statuses ever holds one twice or one of another unit, whatever callbacks *)
(* attach and remove and whatever is rolled back.                           *)
THEOREM DispatchTypes == Spec => []TypeOK
<1>1. IInv => TypeOK
  BY DEF IInv, TypeOK, GoodField, Lists
<1> QED
  BY <1>1, Invariance, PTL

(* The recursion is bounded by MAX_CALLBACK_EMITTED_EVENT_DEPTH, whatever the *)
(* callbacks emit.                                                            *)
THEOREM RecursionIsBounded == Spec => []DepthIsBounded
<1>1. IInv => DepthIsBounded
  <2> SUFFICES ASSUME IInv PROVE DepthIsBounded
    OBVIOUS
  <2>1. Depth \in Nat /\ Depth = Len(stack)
    BY DEF IInv, Depth
  <2>2. \A k \in 1..Depth : stack[k].depth = k - 1 /\ stack[k].depth <= MaxDepth
    BY <2>1 DEF IInv
  <2>3. Depth <= MaxDepth + 1
    <3>1. CASE Depth = 0
      BY <3>1, DepthAssumption
    <3>2. CASE Depth # 0
      BY <3>2, <2>1, <2>2, DepthAssumption
    <3> QED BY <3>1, <3>2
  <2> QED
    BY <2>2, <2>3 DEF DepthIsBounded
<1> QED
  BY <1>1, Invariance, PTL

-----------------------------------------------------------------------------
(* The logs explain the state.                                             *)

(* Only the innermost call runs a group, and the log the group began with   *)
(* explains the state it began with: that is what a failed group puts back. *)
MarksHold ==
    \A k \in 1..Depth : stack[k].stage = "group" =>
        k = Depth /\ Replay(stack[k].before, stack[k].mark.log) = stack[k].mark.field

Explains == LogExplainsField /\ MarksHold

LEMMA TopExplained ==
    ASSUME IInv, Explains, stack # <<>>,
           NEW fr, stack' = WithTop(fr), fr.before = Top.before,
           Replay(fr.before, fr.log) = field',
           fr.stage = "group" => Replay(fr.before, fr.mark.log) = fr.mark.field
    PROVE  Explains'
<1>1. Depth \in 1..Len(stack) /\ Depth = Len(stack) /\ Depth \in Nat
      /\ DOMAIN stack = 1..Len(stack)
  BY DEF IInv, Depth
<1>2. Len(stack') = Len(stack)
      /\ \A k \in 1..Len(stack) : stack'[k] = IF k = Depth THEN fr ELSE stack[k]
  BY <1>1 DEF WithTop, IInv
<1>3. Depth' = Depth
  BY <1>1, <1>2 DEF Depth
<1>4. ASSUME NEW k \in 1..Depth
      PROVE  Replay(stack'[k].before, stack'[k].log)
               = IF k = Depth THEN field' ELSE stack'[k + 1].before
  <2>1. CASE k = Depth
    BY <2>1, <1>1, <1>2
  <2>2. CASE k # Depth
    <3>1. k + 1 \in 1..Len(stack) /\ stack'[k] = stack[k]
      BY <2>2, <1>1, <1>2
    <3>2. stack'[k + 1].before = stack[k + 1].before
      BY <3>1, <1>1, <1>2 DEF Top
    <3> QED BY <2>2, <3>1, <3>2 DEF Explains, LogExplainsField
  <2> QED BY <2>1, <2>2
<1>5. ASSUME NEW k \in 1..Depth, stack'[k].stage = "group"
      PROVE  /\ k = Depth
             /\ Replay(stack'[k].before, stack'[k].mark.log) = stack'[k].mark.field
  <2>1. CASE k = Depth
    BY <2>1, <1>1, <1>2, <1>5
  <2>2. CASE k # Depth
    BY <2>2, <1>1, <1>2, <1>5 DEF Explains, MarksHold
  <2> QED BY <2>1, <2>2
<1>6. LogExplainsField'
  BY <1>3, <1>4 DEF LogExplainsField
<1>7. MarksHold'
  BY <1>3, <1>5 DEF MarksHold
<1> QED BY <1>6, <1>7 DEF Explains

LEMMA TopExplains ==
    ASSUME IInv, Explains, stack # <<>>
    PROVE  /\ Replay(Top.before, Top.log) = field
           /\ Top.stage = "group" => Replay(Top.before, Top.mark.log) = Top.mark.field
<1>1. Depth \in 1..Len(stack) /\ Depth = Len(stack)
  BY TopGood DEF Depth
<1> QED BY <1>1 DEF Explains, LogExplainsField, MarksHold, Top

(* Replay over a log that a step makes longer.                              *)
LEMMA ReplayLonger ==
    ASSUME NEW f, NEW a \in Logs, NEW b \in Logs
    PROVE  Replay(f, a \o b) = Replay(Replay(f, a), b)
BY ReplayJoins DEF Logs

LEMMA CallExplains ==
    ASSUME IInv, NEW e \in Events, NEW ch \in Effecting, Call(e, ch)
    PROVE  Explains'
<1>1. stack' = <<Frame(field', e, 0)>>
  BY DEF Call
<1> DEFINE fr == Frame(field', e, 0)
<1>2. fr.before = field' /\ fr.log = <<>> /\ fr.stage = "listen"
  BY DEF Frame
<1> HIDE DEF fr
<1>3. Depth' = 1 /\ stack'[1] = fr
  BY <1>1 DEF Depth, fr
<1>4. Replay(fr.before, fr.log) = field'
  BY <1>2, ReplayNothing
<1>5. \A k \in 1..1 : k = 1
  OBVIOUS
<1>6. LogExplainsField'
  BY <1>3, <1>4, <1>5 DEF LogExplainsField
<1>7. MarksHold'
  BY <1>2, <1>3, <1>5 DEF MarksHold
<1> QED BY <1>6, <1>7 DEF Explains

LEMMA RunListenerExplains ==
    ASSUME IInv, Explains, RunListener PROVE Explains'
<1> DEFINE m == Foremost(Top.before, Top.pending)
           fr == [Top EXCEPT !.stage = "group", !.pending = @ \ {m},
                             !.group = Group(m),
                             !.mark = [field |-> field, log |-> Top.log]]
<1>1. stack # <<>> /\ stack' = WithTop(fr) /\ field' = field
  BY DEF RunListener
<1>2. Top \in Frames /\ Replay(Top.before, Top.log) = field
  BY <1>1, TopGood, TopExplains
<1>3. /\ fr.before = Top.before /\ fr.log = Top.log
      /\ fr.mark.log = Top.log /\ fr.mark.field = field
  BY <1>2 DEF Frames
<1> HIDE DEF fr
<1> QED BY <1>1, <1>2, <1>3, TopExplained

LEMMA RunCallbackExplains ==
    ASSUME IInv, Explains, RunCallback PROVE Explains'
<1> DEFINE c == FirstRanked(Top.group)
           rest == [Top EXCEPT !.group = @ \ {c}]
<1>1. stack # <<>> /\ Top.stage = "group"
  BY DEF RunCallback
<1>2. /\ Top \in Frames /\ Replay(Top.before, Top.log) = field
      /\ Replay(Top.before, Top.mark.log) = Top.mark.field
  BY <1>1, TopGood, TopExplains
<1> HIDE DEF c
<1>3. CASE stack' = WithTop([rest EXCEPT !.fault = TRUE]) /\ UNCHANGED field
  <2> DEFINE fr == [rest EXCEPT !.fault = TRUE]
  <2>1. fr.before = Top.before /\ fr.log = Top.log /\ fr.mark = Top.mark
    BY <1>2 DEF Frames
  <2>2. stack' = WithTop(fr) /\ field' = field
    BY <1>3
  <2> HIDE DEF fr
  <2> QED BY <1>1, <1>2, <2>1, <2>2, TopExplained
<1>4. ASSUME NEW ch \in Effects[c], c \in Executable, field' = After(field, ch),
             stack' = WithTop([rest EXCEPT
                        !.sent = @ \o Emitted(field, ch),
                        !.log = @ \o Mutations(field, ch, "listener")])
      PROVE  Explains'
  <2> DEFINE fr == [rest EXCEPT !.sent = @ \o Emitted(field, ch),
                                !.log = @ \o Mutations(field, ch, "listener")]
  <2>1. ch \in Changes
    BY <1>4, CallbackAssumption, EffectsAreChanges
  <2>2. /\ fr.before = Top.before /\ fr.mark = Top.mark
        /\ fr.log = Top.log \o Mutations(field, ch, "listener")
    BY <1>2 DEF Frames
  <2>3. Top.log \in Logs /\ Mutations(field, ch, "listener") \in Logs
    BY <1>2, <2>1, MutationsTyped DEF Frames
  <2>4. Replay(fr.before, fr.log) = field'
    <3> HIDE DEF fr
    <3>1. Replay(fr.before, fr.log) = Replay(field, Mutations(field, ch, "listener"))
      BY <1>2, <2>2, <2>3, ReplayLonger
    <3> QED BY <3>1, <1>4, ReplayOne
  <2>5. stack' = WithTop(fr)
    BY <1>4
  <2> HIDE DEF fr
  <2> QED BY <1>1, <1>2, <2>2, <2>4, <2>5, TopExplained
<1> QED BY <1>3, <1>4 DEF RunCallback, c

LEMMA DispatchingKeeps ==
    ASSUME NEW fr \in Frames
    PROVE  /\ Dispatching(fr).before = fr.before /\ Dispatching(fr).log = fr.log
           /\ Dispatching(fr).mark = fr.mark /\ Dispatching(fr).stage = fr.stage
BY DEF Dispatching, Frames

LEMMA CloseGroupExplains ==
    ASSUME IInv, Explains, CloseGroup PROVE Explains'
<1> DEFINE closed == [Top EXCEPT !.stage = "listen", !.fault = FALSE,
                                 !.mark = [field |-> Top.before, log |-> <<>>]]
           undone == [closed EXCEPT !.failed = TRUE, !.sent = <<>>,
                                    !.log = Top.mark.log]
<1>1. stack # <<>> /\ Top.stage = "group"
  BY DEF CloseGroup
<1>2. /\ Top \in Frames /\ Replay(Top.before, Top.log) = field
      /\ Replay(Top.before, Top.mark.log) = Top.mark.field
  BY <1>1, TopGood, TopExplains
<1>3. closed \in Frames
  <2>1. <<>> \in Logs /\ "listen" \in Stages
    BY DEF Logs, Stages
  <2> QED BY <1>2, <2>1 DEF Frames
<1>4. CASE Top.fault
  <2>1. field' = Top.mark.field /\ stack' = WithTop(undone)
    BY <1>4 DEF CloseGroup
  <2>2. undone.before = Top.before /\ undone.log = Top.mark.log /\ undone.stage = "listen"
    BY <1>2 DEF Frames
  <2> HIDE DEF undone
  <2> QED BY <1>1, <1>2, <2>1, <2>2, TopExplained
<1>5. CASE ~Top.fault
  <2>1. field' = field /\ stack' = WithTop(Dispatching(closed))
    BY <1>5 DEF CloseGroup
  <2>2. closed.before = Top.before /\ closed.log = Top.log /\ closed.stage = "listen"
    BY <1>2 DEF Frames
  <2> HIDE DEF closed
  <2>3. /\ Dispatching(closed).before = Top.before /\ Dispatching(closed).log = Top.log
        /\ Dispatching(closed).stage = "listen"
    BY <1>3, <2>2, DispatchingKeeps
  <2> QED BY <1>1, <1>2, <2>1, <2>3, TopExplained
<1> QED BY <1>4, <1>5

LEMMA DispatchChildExplains ==
    ASSUME IInv, Explains, DispatchChild PROVE Explains'
<1> DEFINE rest == [Top EXCEPT !.children = Tail(@)]
           fr == Frame(field, Head(Top.children), Top.depth + 1)
<1>1. stack # <<>> /\ field' = field /\ Top.stage \in {"listen", "after"}
  BY DEF DispatchChild
<1>2. /\ Top \in Frames /\ Replay(Top.before, Top.log) = field
      /\ Depth \in 1..Len(stack) /\ Depth = Len(stack) /\ Depth \in Nat
      /\ DOMAIN stack = 1..Len(stack) /\ Len(stack) \in Nat
  BY <1>1, TopGood, TopExplains DEF IInv, Depth
<1>3. /\ rest.before = Top.before /\ rest.log = Top.log
      /\ rest.stage \in {"listen", "after"}
  BY <1>1, <1>2 DEF Frames
<1>4. fr.before = field /\ fr.log = <<>> /\ fr.stage = "listen"
  BY DEF Frame
<1>5. CASE stack' = WithTop([rest EXCEPT !.failed = TRUE])
  <2> DEFINE g == [rest EXCEPT !.failed = TRUE]
  <2>1. g.before = Top.before /\ g.log = Top.log /\ g.stage \in {"listen", "after"}
    BY <1>1, <1>2 DEF Frames
  <2>2. stack' = WithTop(g)
    BY <1>5
  <2> HIDE DEF g
  <2> QED BY <1>1, <1>2, <2>1, <2>2, TopExplained
<1>6. CASE stack' = Append(WithTop(rest), fr)
  <2> HIDE DEF rest, fr
  <2>1. /\ WithTop(rest) \in Seq(Frames \cup {rest}) /\ Len(WithTop(rest)) = Len(stack)
        /\ \A k \in 1..Len(stack) :
             WithTop(rest)[k] = IF k = Depth THEN rest ELSE stack[k]
    BY <1>2 DEF WithTop, IInv
  <2>2. /\ Len(stack') = Len(stack) + 1 /\ stack'[Len(stack) + 1] = fr
        /\ \A k \in 1..Len(stack) : stack'[k] = WithTop(rest)[k]
    BY <1>6, <2>1
  <2>3. Depth' = Depth + 1
    BY <2>2, <1>2 DEF Depth
  <2>4. ASSUME NEW k \in 1..(Depth + 1)
        PROVE  Replay(stack'[k].before, stack'[k].log)
                 = IF k = Depth + 1 THEN field' ELSE stack'[k + 1].before
    <3>1. CASE k = Depth + 1
      BY <3>1, <1>1, <1>2, <1>4, <2>2, ReplayNothing
    <3>2. CASE k = Depth
      <4>1. stack'[k] = rest /\ stack'[k + 1] = fr /\ k # Depth + 1
        BY <3>2, <1>2, <2>1, <2>2
      <4> QED BY <4>1, <1>2, <1>3, <1>4
    <3>3. CASE k # Depth /\ k # Depth + 1
      <4>1. k \in 1..Len(stack) /\ k + 1 \in 1..Len(stack)
        BY <3>3, <1>2
      <4>2. stack'[k] = stack[k]
        BY <3>3, <4>1, <2>1, <2>2
      <4>3. stack'[k + 1].before = stack[k + 1].before
        <5>1. stack'[k + 1] = IF k + 1 = Depth THEN rest ELSE stack[k + 1]
          BY <4>1, <2>1, <2>2
        <5> QED BY <5>1, <1>3 DEF Top
      <4> QED BY <3>3, <4>1, <4>2, <4>3, <1>2 DEF Explains, LogExplainsField
    <3> QED BY <3>1, <3>2, <3>3
  <2>5. ASSUME NEW k \in 1..(Depth + 1)
        PROVE  stack'[k].stage # "group"
    <3>1. CASE k = Depth + 1
      BY <3>1, <1>2, <1>4, <2>2
    <3>2. CASE k = Depth
      BY <3>2, <1>2, <1>3, <2>1, <2>2
    <3>3. CASE k # Depth /\ k # Depth + 1
      <4>1. k \in 1..Depth /\ stack'[k] = stack[k]
        BY <3>3, <1>2, <2>1, <2>2
      <4> QED BY <3>3, <4>1 DEF Explains, MarksHold
    <3> QED BY <3>1, <3>2, <3>3
  <2>6. LogExplainsField'
    BY <2>3, <2>4 DEF LogExplainsField
  <2>7. MarksHold'
    BY <2>3, <2>5 DEF MarksHold
  <2> QED BY <2>6, <2>7 DEF Explains
<1> QED BY <1>5, <1>6 DEF DispatchChild

LEMMA WatchExplains ==
    ASSUME IInv, Explains, BeginWatch \/ WatchUnit \/ EndWatch PROVE Explains'
<1>1. stack # <<>> /\ field' = field
  BY DEF BeginWatch, WatchUnit, EndWatch
<1>2. Top \in Frames /\ Replay(Top.before, Top.log) = field
  BY <1>1, TopGood, TopExplains
<1>3. CASE BeginWatch
  <2> DEFINE fr == [Top EXCEPT !.stage = "watch", !.units = Range(Touched(Top))]
  <2>1. stack' = WithTop(fr) /\ fr.before = Top.before /\ fr.log = Top.log
        /\ fr.stage = "watch"
    BY <1>2, <1>3 DEF BeginWatch, Frames
  <2> HIDE DEF fr
  <2> QED BY <1>1, <1>2, <2>1, TopExplained
<1>4. CASE WatchUnit
  <2> DEFINE u == Earliest(Top)
             is == {i \in Watched : Owner[i] = u /\ Attached(field, i)}
             fr == [Top EXCEPT !.units = Dropped(@, u), !.todo = is]
  <2>1. stack' = WithTop(fr) /\ Top.stage = "watch"
    BY <1>4 DEF WatchUnit
  <2> HIDE DEF u, is
  <2>2. fr.before = Top.before /\ fr.log = Top.log /\ fr.stage = "watch"
    BY <1>2, <2>1 DEF Frames
  <2> HIDE DEF fr
  <2> QED BY <1>1, <1>2, <2>1, <2>2, TopExplained
<1>5. CASE EndWatch
  <2> DEFINE fr == [Top EXCEPT !.stage = "after", !.todo = {}]
  <2>1. stack' = WithTop(Dispatching(fr))
    BY <1>5 DEF EndWatch
  <2>2. /\ fr \in Frames /\ fr.before = Top.before /\ fr.log = Top.log
        /\ fr.stage = "after"
    BY <1>2 DEF Frames, Stages
  <2> HIDE DEF fr
  <2>3. /\ Dispatching(fr).before = Top.before /\ Dispatching(fr).log = Top.log
        /\ Dispatching(fr).stage = "after"
    BY <2>2, DispatchingKeeps
  <2> QED BY <1>1, <1>2, <2>1, <2>3, TopExplained
<1> QED BY <1>3, <1>4, <1>5

LEMMA CompareExplains ==
    ASSUME IInv, Explains, NEW i \in Watched, Compare(i) PROVE Explains'
<1> DEFINE r == Actual(field, i)
           rest == [Top EXCEPT !.todo = @ \ {i}]
<1>1. stack # <<>> /\ Top.stage = "watch"
  BY DEF Compare
<1>2. /\ Top \in Frames /\ Replay(Top.before, Top.log) = field
      /\ GoodField(field) /\ i \in Instances
  BY <1>1, TopGood, TopExplains, StatusAssumption DEF IInv
<1> HIDE DEF r
<1>3. /\ rest \in Frames /\ rest.log = Top.log /\ rest.before = Top.before
      /\ rest.stage = "watch" /\ rest.log \in Logs
  BY <1>1, <1>2 DEF Frames
<1> HIDE DEF rest
<1>4. CASE /\ field' = Recording(field, i, r)
           /\ stack' = WithTop([rest EXCEPT !.log = @ \o RecordingLog(field, i, r)])
  <2> DEFINE fr == [rest EXCEPT !.log = @ \o RecordingLog(field, i, r)]
  <2>1. /\ fr.before = Top.before /\ fr.stage = "watch"
        /\ fr.log = Top.log \o RecordingLog(field, i, r)
    BY <1>3 DEF Frames
  <2>2. RecordingLog(field, i, r) \in Logs
    BY <1>2, RecordingGood
  <2>3. stack' = WithTop(fr)
    BY <1>4
  <2> HIDE DEF fr
  <2>4. Replay(fr.before, fr.log) = field'
    <3>1. Replay(fr.before, fr.log) = Replay(field, RecordingLog(field, i, r))
      BY <1>2, <1>3, <2>1, <2>2, ReplayLonger
    <3> QED BY <3>1, <1>4, ReplayRecording
  <2> QED BY <1>1, <2>1, <2>3, <2>4, TopExplained
<1>5. CASE /\ UNCHANGED field
           /\ stack' = WithTop([rest EXCEPT !.failed = TRUE, !.stage = "after",
                                            !.todo = {}, !.units = {}, !.sent = <<>>])
  <2> DEFINE fr == [rest EXCEPT !.failed = TRUE, !.stage = "after",
                                !.todo = {}, !.units = {}, !.sent = <<>>]
  <2>1. fr.before = Top.before /\ fr.log = Top.log /\ fr.stage = "after"
    BY <1>3 DEF Frames
  <2>2. stack' = WithTop(fr) /\ field' = field
    BY <1>5
  <2> HIDE DEF fr
  <2> QED BY <1>1, <1>2, <2>1, <2>2, TopExplained
<1>6. ASSUME NEW ch \in Effects[Branch(i, r)], Branch(i, r) \in Executable,
             field' = Recording(After(field, ch), i, r),
             stack' = WithTop([rest EXCEPT
                        !.sent = @ \o Emitted(field, ch),
                        !.log = @ \o Mutations(field, ch, "watcher")
                                  \o RecordingLog(After(field, ch), i, r)])
      PROVE  Explains'
  <2> DEFINE f == After(field, ch)
             a == Mutations(field, ch, "watcher")
             b == RecordingLog(f, i, r)
             fr == [rest EXCEPT !.sent = @ \o Emitted(field, ch), !.log = @ \o a \o b]
  <2>1. ch \in Changes
    BY <1>6, CallbackAssumption, EffectsAreChanges
  <2>2. GoodField(f)
    BY <1>2, <2>1, AfterGood
  <2>3. a \in Logs
    BY <2>1, MutationsTyped
  <2>4. b \in Logs
    <3> HIDE DEF f
    <3> QED BY <1>2, <2>2, RecordingGood
  <2>5. stack' = WithTop(fr)
    BY <1>6
  <2>6. Replay(field, a) = f /\ Replay(f, b) = field'
    BY <1>6, ReplayOne, ReplayRecording
  <2> HIDE DEF a, b, f
  <2>7. /\ fr.before = Top.before /\ fr.stage = "watch"
        /\ fr.log = (Top.log \o a) \o b
    BY <1>3 DEF Frames
  <2> HIDE DEF fr
  <2>8. Replay(fr.before, fr.log) = field'
    <3>1. Top.log \o a \in Logs
      BY <1>3, <2>3, LogsJoin
    <3>2. Replay(Top.before, Top.log \o a) = f
      BY <1>2, <1>3, <2>3, <2>6, ReplayLonger
    <3> QED BY <3>1, <3>2, <2>4, <2>6, <2>7, ReplayLonger
  <2> QED BY <1>1, <2>5, <2>7, <2>8, TopExplained
<1> QED BY <1>4, <1>5, <1>6 DEF Compare, r, rest

LEMMA ReturnExplains ==
    ASSUME IInv, Explains, Return PROVE Explains'
<1>1. stack # <<>>
  BY DEF Return
<1>2. /\ Top \in Frames /\ Replay(Top.before, Top.log) = field
      /\ Depth \in 1..Len(stack) /\ Depth = Len(stack) /\ stack \in Seq(Frames)
      /\ Depth \in Nat
  BY <1>1, TopGood, TopExplains DEF IInv, Depth
<1>3. CASE Depth = 1
  <2>1. Depth' = 0
    BY <1>3 DEF Return, Depth
  <2> QED BY <2>1 DEF Explains, LogExplainsField, MarksHold
<1>4. CASE Depth # 1
  <2> DEFINE n == Depth - 1
  <2>1. stack' = [k \in 1..n |-> IF k = n THEN Answered(stack[k], Top) ELSE stack[k]]
    BY <1>4 DEF Return
  <2>2. n \in Nat /\ n \in 1..Len(stack) /\ n + 1 = Depth
    BY <1>2, <1>4
  <2> HIDE DEF n
  <2>3. Depth' = n
    BY <2>1, <2>2 DEF Depth
  <2>4. /\ stack[n] \in Frames /\ stack[n].log \in Logs /\ Top.log \in Logs
        /\ Replay(stack[n].before, stack[n].log) = Top.before
        /\ stack[n].stage # "group"
    <3>1. n \in 1..Depth /\ n # Depth
      BY <2>2, <1>2
    <3>2. stack[n] \in Frames
      BY <2>2, <1>2
    <3>3. stack[n].log \in Logs /\ Top.log \in Logs
      BY <3>2, <1>2 DEF Frames
    <3>4. Replay(stack[n].before, stack[n].log) = Top.before
      BY <3>1, <2>2 DEF Explains, LogExplainsField, Top
    <3>5. stack[n].stage # "group"
      BY <3>1 DEF Explains, MarksHold
    <3> QED BY <3>2, <3>3, <3>4, <3>5
  <2> DEFINE fr == Answered(stack[n], Top)
  <2>5. fr.before = stack[n].before /\ fr.stage = stack[n].stage
    BY <2>4 DEF Answered, Frames
  <2>6. Replay(fr.before, fr.log) = field'
    <3>1. CASE Top.failed
      <4>1. fr.log = stack[n].log /\ field' = Top.before
        BY <3>1, <2>4 DEF Answered, Frames, Return
      <4> QED BY <4>1, <2>4, <2>5
    <3>2. CASE ~Top.failed
      <4>1. fr.log = stack[n].log \o Top.log /\ field' = field
        BY <3>2, <2>4 DEF Answered, Frames, Return
      <4> QED BY <4>1, <2>4, <2>5, <1>2, ReplayLonger
    <3> QED BY <3>1, <3>2
  <2> HIDE DEF fr
  <2>7. \A k \in 1..n : stack'[k] = IF k = n THEN fr ELSE stack[k]
    BY <2>1 DEF fr
  <2>8. ASSUME NEW k \in 1..n
        PROVE  Replay(stack'[k].before, stack'[k].log)
                 = IF k = n THEN field' ELSE stack'[k + 1].before
    <3>1. CASE k = n
      BY <3>1, <2>6, <2>7
    <3>2. CASE k # n
      <4>1. k + 1 \in 1..n /\ k \in 1..Depth /\ k # Depth
        BY <3>2, <2>2
      <4>2. stack'[k] = stack[k]
        BY <3>2, <2>7
      <4>3. stack'[k + 1].before = stack[k + 1].before
        BY <4>1, <2>5, <2>7
      <4> QED BY <3>2, <4>1, <4>2, <4>3 DEF Explains, LogExplainsField
    <3> QED BY <3>1, <3>2
  <2>9. ASSUME NEW k \in 1..n
        PROVE  stack'[k].stage # "group"
    <3>1. k \in 1..Depth /\ k # Depth
      BY <2>2
    <3> QED BY <3>1, <2>4, <2>5, <2>7 DEF Explains, MarksHold
  <2>10. LogExplainsField'
    BY <2>3, <2>8 DEF LogExplainsField
  <2>11. MarksHold'
    BY <2>3, <2>9 DEF MarksHold
  <2> QED BY <2>10, <2>11 DEF Explains
<1> QED BY <1>3, <1>4

LEMMA NextExplains ==
    ASSUME IInv, Explains, [Next]_vars PROVE Explains'
<1>1. CASE UNCHANGED vars
  <2>1. field' = field /\ stack' = stack
    BY <1>1 DEF vars
  <2>2. Depth' = Depth
    BY <2>1 DEF Depth
  <2> QED
    BY <2>1, <2>2 DEF Explains, LogExplainsField, MarksHold
<1>2. CASE Next
  BY <1>2, CallExplains, RunListenerExplains, RunCallbackExplains, CloseGroupExplains,
     DispatchChildExplains, WatchExplains, CompareExplains, ReturnExplains
     DEF Next, Step, WatchStatus
<1> QED
  BY <1>1, <1>2

(* Whatever failed and was rolled back, at whatever depth and in whatever   *)
(* order, the mutations a dispatch answers with are those that lead from    *)
(* the state it began in to the state it leaves.                            *)
THEOREM LogsExplain == Spec => []LogExplainsField
<1>1. Init => Explains
  BY DEF Init, Explains, LogExplainsField, MarksHold, Depth
<1>2. IInv /\ Explains /\ [Next]_vars => Explains'
  BY NextExplains
<1>3. Explains => LogExplainsField
  BY DEF Explains
<1> QED
  BY <1>1, <1>2, <1>3, Invariance, PTL DEF Spec

-----------------------------------------------------------------------------
(* Watchers.                                                               *)

LogUnits(log) == {UnitOf(m.change) : m \in Range(log)}

EventUnits(e) ==
    CASE e.type = "battle.start" -> Range(UnitOrder)
      [] e.type \in {"status.lifecycle", "hp.change"} -> {e.unit}
      [] OTHER -> {}

Announced(es, u) == \E e \in es : e.type = "hp.change" /\ e.unit = u

DisturbedBy(log, u) ==
    \E m \in Range(log) : /\ m.by = "watcher" /\ m.change.kind \in {"attach", "detach"}
                          /\ Owner[m.change.inst] = u

Looked(fr) == Range(Touched(fr)) \cup {Owner[j] : j \in fr.todo}

(* While the watchers are run, one that disagrees is still to be looked at, *)
(* or what made it disagree is told of; outside that loop nothing is to be  *)
(* looked at.                                                               *)
Watching(fr, s) ==
    IF fr.stage = "watch"
    THEN \A i \in Watched : Owner[i] \in Looked(fr) =>
            \/ Settled(s, i) \/ DisturbedBy(fr.log, Owner[i])
            \/ Owner[i] \in fr.units \/ i \in fr.todo
            \/ Announced(Range(fr.sent), Owner[i])
    ELSE fr.todo = {}

(* After it, one that disagrees has an event on its way to it.              *)
Finishing(fr, s, es) ==
    fr.stage = "after" /\ ~fr.failed =>
        \A i \in Watched : Owner[i] \in Range(Touched(fr)) =>
            \/ Settled(s, i) \/ DisturbedBy(fr.log, Owner[i]) \/ Announced(es, Owner[i])

(* A call that waits for a nested one sees the state that one began in.     *)
WatchHolds ==
    \A k \in 1..Depth :
        /\ Watching(stack[k], field)
        /\ k = Depth => Finishing(stack[k], field, Range(stack[k].children))
        /\ k # Depth => /\ stack[k].stage # "watch"
                        /\ Finishing(stack[k], stack[k + 1].before,
                                     {stack[k + 1].event} \cup Range(stack[k].children))

LEMMA RangeJoin ==
    ASSUME NEW S, NEW a \in Seq(S), NEW b \in Seq(S)
    PROVE  Range(a \o b) = Range(a) \cup Range(b)
<1>1. /\ Len(a) \in Nat /\ Len(b) \in Nat /\ Len(a \o b) = Len(a) + Len(b)
      /\ DOMAIN a = 1..Len(a) /\ DOMAIN b = 1..Len(b)
      /\ DOMAIN (a \o b) = 1..(Len(a) + Len(b))
      /\ \A k \in 1..Len(a) : (a \o b)[k] = a[k]
      /\ \A k \in 1..Len(b) : (a \o b)[Len(a) + k] = b[k]
  OBVIOUS
<1> DEFINE c == a \o b
<1> HIDE DEF c
<1>2. ASSUME NEW k \in 1..(Len(a) + Len(b)) PROVE c[k] \in Range(a) \cup Range(b)
  <2>1. CASE k <= Len(a)
    BY <2>1, <1>1 DEF c, Range
  <2>2. CASE ~(k <= Len(a))
    <3>1. k - Len(a) \in 1..Len(b) /\ Len(a) + (k - Len(a)) = k
      BY <2>2, <1>1
    <3>2. c[k] = b[k - Len(a)]
      <4>1. c[Len(a) + (k - Len(a))] = b[k - Len(a)]
        BY <3>1, <1>1 DEF c
      <4> QED BY <4>1, <3>1
    <3> QED BY <3>1, <3>2, <1>1 DEF Range
  <2> QED BY <2>1, <2>2
<1>3. ASSUME NEW k \in 1..Len(a) PROVE a[k] \in Range(c)
  <2>1. k \in 1..(Len(a) + Len(b)) /\ c[k] = a[k]
    BY <1>1 DEF c
  <2> QED BY <2>1, <1>1 DEF Range, c
<1>4. ASSUME NEW k \in 1..Len(b) PROVE b[k] \in Range(c)
  <2>1. Len(a) + k \in 1..(Len(a) + Len(b)) /\ c[Len(a) + k] = b[k]
    BY <1>1 DEF c
  <2> QED BY <2>1, <1>1 DEF Range, c
<1>5. Range(c) \subseteq Range(a) \cup Range(b)
  BY <1>1, <1>2 DEF Range, c
<1>6. Range(a) \subseteq Range(c)
  BY <1>1, <1>3 DEF Range
<1>7. Range(b) \subseteq Range(c)
  BY <1>1, <1>4 DEF Range
<1> QED BY <1>5, <1>6, <1>7 DEF c

LEMMA RangeOfRest ==
    ASSUME NEW S, NEW a \in Seq(S), a # <<>>
    PROVE  Range(a) = {Head(a)} \cup Range(Tail(a))
<1> DEFINE t == Tail(a)
<1>1. /\ Len(a) \in Nat \ {0} /\ Len(t) = Len(a) - 1 /\ Head(a) = a[1]
      /\ DOMAIN a = 1..Len(a) /\ DOMAIN t = 1..(Len(a) - 1)
      /\ \A k \in 1..(Len(a) - 1) : t[k] = a[k + 1]
  OBVIOUS
<1> HIDE DEF t
<1>2. ASSUME NEW k \in 1..Len(a) PROVE a[k] = a[1] \/ a[k] \in Range(t)
  <2>1. CASE k # 1
    <3>1. k - 1 \in 1..(Len(a) - 1) /\ (k - 1) + 1 = k
      BY <1>1, <2>1
    <3>2. t[k - 1] = a[k]
      BY <3>1, <1>1
    <3> QED BY <3>1, <3>2, <1>1 DEF Range
  <2> QED BY <2>1
<1>3. ASSUME NEW k \in 1..(Len(a) - 1) PROVE t[k] \in Range(a)
  <2>1. k + 1 \in 1..Len(a)
    BY <1>1
  <2> QED BY <2>1, <1>1 DEF Range
<1>4. a[1] \in Range(a)
  BY <1>1 DEF Range
<1>5. Range(a) \subseteq {a[1]} \cup Range(t)
  BY <1>1, <1>2 DEF Range
<1>6. Range(t) \subseteq Range(a)
  BY <1>1, <1>3 DEF Range
<1> QED BY <1>1, <1>4, <1>5, <1>6 DEF t

LEMMA LogsUnite ==
    ASSUME NEW a \in Logs, NEW b \in Logs
    PROVE  /\ LogUnits(a \o b) = LogUnits(a) \cup LogUnits(b)
           /\ \A u : DisturbedBy(a \o b, u) <=> DisturbedBy(a, u) \/ DisturbedBy(b, u)
<1>1. Range(a \o b) = Range(a) \cup Range(b)
  BY RangeJoin DEF Logs
<1> QED BY <1>1 DEF LogUnits, DisturbedBy

LEMMA TouchedRange ==
    ASSUME NEW fr \in Frames
    PROVE  Range(Touched(fr)) = EventUnits(fr.event) \cup LogUnits(fr.log)
<1> DEFINE own == CASE fr.event.type = "battle.start" -> UnitOrder
                    [] fr.event.type \in {"status.lifecycle", "hp.change"} -> <<fr.event.unit>>
                    [] OTHER -> <<>>
           rest == [k \in DOMAIN fr.log |-> UnitOf(fr.log[k].change)]
<1>1. own \in Seq(Units) /\ fr.log \in Logs
  BY UnitsAssumption DEF Frames, Events
<1>2. DOMAIN fr.log = 1..Len(fr.log) /\ Len(fr.log) \in Nat
  BY <1>1 DEF Logs
<1>3. rest \in Seq(Range(rest))
  <2>1. rest \in [1..Len(fr.log) -> Range(rest)]
    BY <1>2 DEF Range
  <2> QED BY <2>1, <1>2
<1>4. Range(rest) = LogUnits(fr.log)
  BY DEF Range, LogUnits
<1>5. Range(own) = EventUnits(fr.event)
  <2>1. CASE fr.event.type = "battle.start"
    BY <2>1 DEF EventUnits
  <2>2. CASE fr.event.type \in {"status.lifecycle", "hp.change"}
    <3>1. own = <<fr.event.unit>> /\ EventUnits(fr.event) = {fr.event.unit}
      BY <2>2 DEF EventUnits
    <3> QED BY <3>1 DEF Range
  <2>3. CASE fr.event.type \notin {"battle.start", "status.lifecycle", "hp.change"}
    <3>1. own = <<>> /\ EventUnits(fr.event) = {}
      BY <2>3 DEF EventUnits
    <3> QED BY <3>1 DEF Range
  <2> QED BY <2>1, <2>2, <2>3
<1>6. Touched(fr) = own \o rest
  BY DEF Touched
<1> HIDE DEF own, rest
<1>7. own \in Seq(Units \cup Range(rest)) /\ rest \in Seq(Units \cup Range(rest))
  BY <1>1, <1>3
<1>8. Range(own \o rest) = Range(own) \cup Range(rest)
  BY <1>7, RangeJoin
<1> QED BY <1>4, <1>5, <1>6, <1>8

(* What the watchers of a unit see of the state.                            *)
SameView(f, g, u) ==
    /\ f.statuses[u] = g.statuses[u] /\ (u \in f.high <=> u \in g.high)
    /\ \A i \in Instances : Owner[i] = u => f.seen[i] = g.seen[i]

Shaped(f) == /\ DOMAIN f = {"statuses", "high", "seen"}
             /\ DOMAIN f.statuses = Units /\ DOMAIN f.seen = Instances

LEMMA ReducedKeeps ==
    ASSUME NEW f, Shaped(f), NEW ch \in Altering
    PROVE  /\ Shaped(Reduced(f, ch))
           /\ \A u \in Units : u # UnitOf(ch) => SameView(f, Reduced(f, ch), u)
<1>1. ch \in Changes /\ ch.kind \notin {"none", "custom"}
  BY DEF Altering
<1>2. CASE ch.kind \in {"raise", "lower"}
  <2>1. UnitOf(ch) = ch.unit
    BY <1>1, <1>2, ChangeFacts DEF StatusKinds, RecordKinds
  <2>2. /\ Reduced(f, ch).statuses = f.statuses /\ Reduced(f, ch).seen = f.seen
        /\ DOMAIN Reduced(f, ch) = DOMAIN f
        /\ \A u : u # ch.unit => (u \in f.high <=> u \in Reduced(f, ch).high)
    BY <1>2 DEF Reduced, Shaped
  <2> QED BY <2>1, <2>2 DEF Shaped, SameView
<1>3. CASE ch.kind \in {"attach", "detach"}
  <2>1. UnitOf(ch) = Owner[ch.inst] /\ ch.inst \in Instances
    BY <1>1, <1>3, ChangeFacts DEF UnitKinds
  <2>2. PICK list : Reduced(f, ch) = Relisted(f, ch.inst, list)
    BY <1>3 DEF Reduced, Listed, Delisted
  <2> DEFINE g == Relisted(f, ch.inst, list)
  <2>3. /\ DOMAIN g = {"statuses", "high", "seen"} /\ g.high = f.high
        /\ g.statuses = [f.statuses EXCEPT ![Owner[ch.inst]] = list]
        /\ g.seen = [f.seen EXCEPT ![ch.inst] = "none"]
    BY DEF Relisted
  <2> HIDE DEF g
  <2>4. Shaped(g)
    BY <2>3 DEF Shaped
  <2>5. \A u \in Units : u # Owner[ch.inst] => SameView(f, g, u)
    BY <2>1, <2>3 DEF Shaped, SameView
  <2> QED BY <2>1, <2>2, <2>4, <2>5 DEF g
<1>4. CASE ch.kind \in {"seen_in", "seen_out"}
  <2>1. UnitOf(ch) = Owner[ch.inst] /\ ch.inst \in Instances
    BY <1>1, <1>4, ChangeFacts DEF UnitKinds
  <2>2. PICK r : Reduced(f, ch) = [f EXCEPT !.seen[ch.inst] = r]
    BY <1>4 DEF Reduced
  <2>3. /\ Reduced(f, ch).statuses = f.statuses /\ Reduced(f, ch).high = f.high
        /\ DOMAIN Reduced(f, ch) = DOMAIN f
        /\ Reduced(f, ch).seen = [f.seen EXCEPT ![ch.inst] = r]
    BY <2>2 DEF Shaped
  <2> QED BY <2>1, <2>3 DEF Shaped, SameView
<1> QED BY <1>1, <1>2, <1>3, <1>4, ChangeFacts DEF UnitKinds, StatusKinds, RecordKinds

(* A log leaves the units it does not name as they were.                    *)
LEMMA ReplayKeeps ==
    ASSUME NEW f, Shaped(f), NEW log \in Logs, NEW u \in Units, u \notin LogUnits(log)
    PROVE  SameView(f, Replay(f, log), u)
<1>1. Len(log) \in Nat /\ DOMAIN log = 1..Len(log)
      /\ \A n \in 1..Len(log) : log[n] \in [change : Altering, by : {"listener", "watcher"}]
  <2>1. \A S : \A q \in Seq(S) : \A n \in 1..Len(q) : q[n] \in S
    OBVIOUS
  <2>2. log \in Seq([change : Altering, by : {"listener", "watcher"}])
    BY DEF Logs
  <2>3. Len(log) \in Nat /\ DOMAIN log = 1..Len(log)
    BY <2>2
  <2>4. \A n \in 1..Len(log) : log[n] \in [change : Altering, by : {"listener", "watcher"}]
    BY <2>1, <2>2
  <2> QED BY <2>3, <2>4
<1>2. PICK h : Redoes(h, f, log)
  BY <1>1, RedoExists
<1>3. /\ h[0] = f
      /\ \A n \in Nat : n + 1 <= Len(log) => h[n + 1] = Reduced(h[n], log[n + 1].change)
  BY <1>1, <1>2 DEF Redoes
<1> DEFINE T == {n \in Nat : n <= Len(log) => Shaped(h[n]) /\ SameView(f, h[n], u)}
<1>4. 0 \in T
  BY <1>3 DEF SameView
<1>5. ASSUME NEW n \in T PROVE n + 1 \in T
  <2> SUFFICES ASSUME n + 1 <= Len(log)
               PROVE  Shaped(h[n + 1]) /\ SameView(f, h[n + 1], u)
    OBVIOUS
  <2>1. n \in Nat /\ n + 1 \in 1..Len(log) /\ Shaped(h[n]) /\ SameView(f, h[n], u)
    BY <1>1
  <2>2. log[n + 1].change \in Altering /\ u # UnitOf(log[n + 1].change)
    BY <2>1, <1>1 DEF LogUnits, Range
  <2>3. h[n + 1] = Reduced(h[n], log[n + 1].change)
    BY <2>1, <1>3
  <2> QED BY <2>1, <2>2, <2>3, ReducedKeeps DEF SameView
<1>6. Len(log) \in T
  <2>1. T \in SUBSET Nat
    OBVIOUS
  <2> HIDE DEF T
  <2> QED BY <1>1, <1>4, <1>5, <2>1, NatSetInduction
<1>7. Replay(f, log) = h[Len(log)]
  BY <1>1, <1>2, ReplayIs
<1> QED BY <1>1, <1>6, <1>7

LEMMA ViewSettles ==
    ASSUME NEW f, NEW g, NEW i \in Watched, SameView(f, g, Owner[i]), Settled(f, i)
    PROVE  Settled(g, i)
<1>1. i \in Instances /\ Boosting \subseteq Instances
  BY StatusAssumption
<1>2. \A j : Owner[j] = Owner[i] => (Attached(f, j) <=> Attached(g, j))
  BY DEF SameView, Attached
<1>3. InRange(f, Owner[i]) <=> InRange(g, Owner[i])
  BY <1>2 DEF SameView, InRange
<1>4. Actual(f, i) = Actual(g, i)
  BY <1>3 DEF Actual
<1> QED BY <1>1, <1>2, <1>4 DEF Settled, SameView

LEMMA GoodShaped ==
    ASSUME NEW f, GoodField(f) PROVE Shaped(f)
BY DEF GoodField, Fields, Shaped

(* A watcher's callback changes what another watcher sees of its unit only  *)
(* with an event that tells so, or by attaching or removing a status there. *)
LEMMA ChangeTold ==
    ASSUME NEW f, GoodField(f), NEW ch \in Effecting
    PROVE  /\ \A u \in Units : \/ SameView(f, After(f, ch), u)
                               \/ Announced(Range(Emitted(f, ch)), u)
                               \/ DisturbedBy(Mutations(f, ch, "watcher"), u)
           /\ \A u \in LogUnits(Mutations(f, ch, "watcher")) :
                 \/ Announced(Range(Emitted(f, ch)), u)
                 \/ DisturbedBy(Mutations(f, ch, "watcher"), u)
<1>1. ch \in Changes /\ ch.kind \in UnitKinds \cup StatusKinds
  BY DEF Effecting, Changes
<1>2. CASE ~Alters(f, ch)
  <2>1. After(f, ch) = f /\ Mutations(f, ch, "watcher") = <<>>
    BY <1>2 DEF After, Mutations
  <2>2. LogUnits(<<>>) = {}
    BY DEF LogUnits, Range
  <2> QED BY <2>1, <2>2 DEF SameView
<1>3. CASE Alters(f, ch)
  <2> DEFINE m == [change |-> ch, by |-> "watcher"]
  <2>1. After(f, ch) = Reduced(f, ch) /\ Mutations(f, ch, "watcher") = <<m>>
    BY <1>3 DEF After, Mutations
  <2>2. Range(<<m>>) = {m} /\ m.change = ch /\ m.by = "watcher"
    BY DEF Range
  <2> HIDE DEF m
  <2>3. ch \in Altering
    BY <1>1, <1>3 DEF Alters, Altering
  <2>4. \A u \in Units : u # UnitOf(ch) => SameView(f, After(f, ch), u)
    BY <2>1, <2>3, ReducedKeeps, GoodShaped
  <2>5. LogUnits(<<m>>) = {UnitOf(ch)}
    BY <2>2 DEF LogUnits
  <2>6. \/ Announced(Range(Emitted(f, ch)), UnitOf(ch))
        \/ DisturbedBy(<<m>>, UnitOf(ch))
    <3>1. CASE ch.kind \in {"raise", "lower"}
      <4> DEFINE e == [type |-> "hp.change", unit |-> ch.unit, only |-> AnyModifier]
      <4>1. Emitted(f, ch) = <<e>> /\ UnitOf(ch) = ch.unit
        BY <1>1, <1>3, <3>1, ChangeFacts DEF Emitted, StatusKinds, RecordKinds
      <4>2. Range(<<e>>) = {e} /\ e.type = "hp.change" /\ e.unit = ch.unit
        BY DEF Range
      <4> QED BY <4>1, <4>2 DEF Announced
    <3>2. CASE ch.kind \in {"attach", "detach"}
      <4>1. UnitOf(ch) = Owner[ch.inst]
        BY <1>1, <3>2, ChangeFacts DEF UnitKinds
      <4> QED BY <4>1, <3>2, <2>2 DEF DisturbedBy
    <3> QED BY <3>1, <3>2, <1>1, <1>3 DEF Alters, UnitKinds, StatusKinds
  <2> QED BY <2>1, <2>4, <2>5, <2>6
<1> QED BY <1>2, <1>3

LEMMA RecordingTold ==
    ASSUME NEW f, GoodField(f), NEW i \in Instances, NEW r \in {"in", "out"},
           Attached(f, i)
    PROVE  /\ Recording(f, i, r).statuses = f.statuses
           /\ Recording(f, i, r).high = f.high
           /\ Recording(f, i, r).seen[i] = r
           /\ \A j \in Instances : j # i => Recording(f, i, r).seen[j] = f.seen[j]
           /\ LogUnits(RecordingLog(f, i, r)) \subseteq {Owner[i]}
<1> DEFINE ch == SeenAs(i, r)
<1>1. /\ ch.kind = (IF r = "in" THEN "seen_in" ELSE "seen_out")
      /\ ch.inst = i /\ UnitOf(ch) = Owner[i]
  BY StatusAssumption DEF SeenAs, UnitOf
<1> HIDE DEF ch
<1>2. Alters(f, ch) <=> f.seen[i] # r
  BY <1>1 DEF Alters
<1>3. Reduced(f, ch) = [f EXCEPT !.seen[i] = r]
  BY <1>1 DEF Reduced
<1>4. Recording(f, i, r) = IF f.seen[i] # r THEN [f EXCEPT !.seen[i] = r] ELSE f
  BY <1>2, <1>3 DEF Recording, After, ch
<1>5. LogUnits(RecordingLog(f, i, r)) \subseteq {Owner[i]}
  <2>1. Mutations(f, ch, "watcher") \in {<<>>, <<[change |-> ch, by |-> "watcher"]>>}
    BY DEF Mutations
  <2>2. LogUnits(<<>>) = {}
    BY DEF LogUnits, Range
  <2>3. LogUnits(<<[change |-> ch, by |-> "watcher"]>>) = {Owner[i]}
    <3>1. Range(<<[change |-> ch, by |-> "watcher"]>>) = {[change |-> ch, by |-> "watcher"]}
      BY DEF Range
    <3> QED BY <3>1, <1>1 DEF LogUnits
  <2>4. RecordingLog(f, i, r) \in {<<>>, Mutations(f, ch, "watcher")}
    BY DEF RecordingLog, ch
  <2> QED BY <2>1, <2>2, <2>3, <2>4
<1>6. Shaped(f)
  BY GoodShaped
<1> QED BY <1>4, <1>5, <1>6 DEF Shaped

LEMMA TopWatched ==
    ASSUME IInv, WatchHolds, stack # <<>>,
           NEW fr, stack' = WithTop(fr), fr.before = Top.before, fr.event = Top.event,
           Watching(fr, field'), Finishing(fr, field', Range(fr.children))
    PROVE  WatchHolds'
<1>1. Depth \in 1..Len(stack) /\ Depth = Len(stack) /\ Depth \in Nat
      /\ DOMAIN stack = 1..Len(stack)
  BY DEF IInv, Depth
<1>2. Len(stack') = Len(stack)
      /\ \A k \in 1..Len(stack) : stack'[k] = IF k = Depth THEN fr ELSE stack[k]
  BY <1>1 DEF WithTop, IInv
<1>3. Depth' = Depth
  BY <1>1, <1>2 DEF Depth
<1>4. ASSUME NEW k \in 1..Depth, k # Depth
      PROVE  /\ Watching(stack'[k], field')
             /\ stack'[k].stage # "watch"
             /\ Finishing(stack'[k], stack'[k + 1].before,
                          {stack'[k + 1].event} \cup Range(stack'[k].children))
  <2>1. k + 1 \in 1..Len(stack) /\ stack'[k] = stack[k]
    BY <1>1, <1>2, <1>4
  <2>2. stack'[k + 1].before = stack[k + 1].before
        /\ stack'[k + 1].event = stack[k + 1].event
    BY <2>1, <1>1, <1>2 DEF Top
  <2>3. /\ Watching(stack[k], field) /\ stack[k].stage # "watch"
        /\ Finishing(stack[k], stack[k + 1].before,
                     {stack[k + 1].event} \cup Range(stack[k].children))
    BY <1>4 DEF WatchHolds
  <2> QED BY <2>1, <2>2, <2>3 DEF Watching
<1>5. ASSUME NEW k \in 1..Depth, k = Depth
      PROVE  /\ Watching(stack'[k], field')
             /\ Finishing(stack'[k], field', Range(stack'[k].children))
  BY <1>1, <1>2, <1>5
<1> HIDE DEF Watching, Finishing
<1> QED BY <1>3, <1>4, <1>5 DEF WatchHolds

LEMMA TopWatches ==
    ASSUME IInv, WatchHolds, stack # <<>>
    PROVE  Watching(Top, field) /\ Finishing(Top, field, Range(Top.children))
<1>1. Depth \in 1..Depth
  BY TopGood DEF Depth
<1> QED BY <1>1 DEF WatchHolds, Top

LEMMA CallWatches ==
    ASSUME IInv, NEW e \in Events, NEW ch \in Effecting, Call(e, ch)
    PROVE  WatchHolds'
<1> DEFINE fr == Frame(field', e, 0)
<1>1. stack' = <<fr>>
  BY DEF Call
<1>2. fr.stage = "listen" /\ fr.todo = {}
  BY DEF Frame
<1> HIDE DEF fr
<1>3. Depth' = 1 /\ stack'[1] = fr /\ \A k \in 1..1 : k = 1
  BY <1>1 DEF Depth
<1>4. Watching(fr, field') /\ Finishing(fr, field', Range(fr.children))
  BY <1>2 DEF Watching, Finishing
<1> QED BY <1>3, <1>4 DEF WatchHolds

(* A step that stays within the listeners.                                  *)
LEMMA ListenWatches ==
    ASSUME IInv, WatchHolds, RunListener \/ RunCallback \/ CloseGroup
    PROVE  WatchHolds'
<1>1. stack # <<>> /\ Top.stage \in {"listen", "group"}
  BY DEF RunListener, RunCallback, CloseGroup
<1>2. Top \in Frames /\ Watching(Top, field)
  BY <1>1, TopGood, TopWatches
<1>3. Top.todo = {}
  BY <1>1, <1>2 DEF Watching
<1>4. ASSUME NEW fr, stack' = WithTop(fr), fr.before = Top.before, fr.event = Top.event,
             fr.stage \in {"listen", "group"}, fr.todo = {}
      PROVE  WatchHolds'
  <2>1. Watching(fr, field') /\ Finishing(fr, field', Range(fr.children))
    BY <1>4 DEF Watching, Finishing
  <2> QED BY <1>1, <1>4, <2>1, TopWatched
<1>5. CASE RunListener
  <2> DEFINE m == Foremost(Top.before, Top.pending)
             fr == [Top EXCEPT !.stage = "group", !.pending = @ \ {m},
                               !.group = Group(m),
                               !.mark = [field |-> field, log |-> Top.log]]
  <2>1. stack' = WithTop(fr)
    BY <1>5 DEF RunListener
  <2> HIDE DEF m
  <2>2. fr.before = Top.before /\ fr.event = Top.event /\ fr.stage = "group" /\ fr.todo = {}
    BY <1>2, <1>3 DEF Frames
  <2> HIDE DEF fr
  <2> QED BY <2>1, <2>2, <1>4
<1>6. CASE RunCallback
  <2> DEFINE c == FirstRanked(Top.group)
             rest == [Top EXCEPT !.group = @ \ {c}]
  <2>1. Top.stage = "group"
    BY <1>6 DEF RunCallback
  <2>2. PICK b, s, l : stack' = WithTop([rest EXCEPT !.fault = b])
                       \/ stack' = WithTop([rest EXCEPT !.sent = s, !.log = l])
    <3>1. CASE stack' = WithTop([rest EXCEPT !.fault = TRUE])
      BY <3>1
    <3>2. ASSUME NEW ch \in Effects[c],
                 stack' = WithTop([rest EXCEPT
                            !.sent = @ \o Emitted(field, ch),
                            !.log = @ \o Mutations(field, ch, "listener")])
          PROVE  \E s, l : stack' = WithTop([rest EXCEPT !.sent = s, !.log = l])
      BY <3>2
    <3> QED BY <3>1, <3>2, <1>6 DEF RunCallback
  <2> HIDE DEF c
  <2>3. ASSUME NEW fr \in {[rest EXCEPT !.fault = b], [rest EXCEPT !.sent = s, !.log = l]}
        PROVE  /\ fr.before = Top.before /\ fr.event = Top.event
               /\ fr.stage = "group" /\ fr.todo = {}
    BY <2>1, <1>2, <1>3 DEF Frames
  <2> HIDE DEF rest
  <2> QED BY <2>2, <2>3, <1>4
<1>7. CASE CloseGroup
  <2> DEFINE closed == [Top EXCEPT !.stage = "listen", !.fault = FALSE,
                                   !.mark = [field |-> Top.before, log |-> <<>>]]
             undone == [closed EXCEPT !.failed = TRUE, !.sent = <<>>,
                                      !.log = Top.mark.log]
             told == Dispatching(closed)
  <2>1. stack' = WithTop(undone) \/ stack' = WithTop(told)
    BY <1>7 DEF CloseGroup
  <2>2. /\ undone.before = Top.before /\ undone.event = Top.event
        /\ undone.stage = "listen" /\ undone.todo = {}
    BY <1>2, <1>3 DEF Frames
  <2>3. /\ told.before = Top.before /\ told.event = Top.event
        /\ told.stage = "listen" /\ told.todo = {}
    BY <1>2, <1>3 DEF Frames, Dispatching
  <2> HIDE DEF undone, told
  <2> QED BY <2>1, <2>2, <2>3, <1>4
<1> QED BY <1>5, <1>6, <1>7

LEMMA DispatchChildWatches ==
    ASSUME IInv, WatchHolds, DispatchChild PROVE WatchHolds'
<1> DEFINE e == Head(Top.children)
           rest == [Top EXCEPT !.children = Tail(@)]
           fr == Frame(field, e, Top.depth + 1)
<1>1. /\ stack # <<>> /\ field' = field /\ Top.stage \in {"listen", "after"}
      /\ Top.children # <<>>
  BY DEF DispatchChild
<1>2. /\ Top \in Frames /\ Watching(Top, field) /\ Finishing(Top, field, Range(Top.children))
      /\ Depth \in 1..Len(stack) /\ Depth = Len(stack) /\ Depth \in Nat
      /\ DOMAIN stack = 1..Len(stack) /\ Len(stack) \in Nat
  BY <1>1, TopGood, TopWatches DEF IInv, Depth
<1>3. Top.todo = {}
  BY <1>1, <1>2 DEF Watching
<1>4. /\ rest \in Frames /\ rest.before = Top.before /\ rest.event = Top.event
      /\ rest.stage = Top.stage /\ rest.failed = Top.failed /\ rest.log = Top.log
      /\ rest.todo = {} /\ rest.children = Tail(Top.children)
  <2>1. Top.children \in Seq(Events)
    BY <1>2 DEF Frames
  <2>2. Tail(Top.children) \in Seq(Events)
    BY <2>1, <1>1
  <2> QED BY <1>2, <1>3, <2>2 DEF Frames
<1>5. fr.before = field /\ fr.event = e /\ fr.stage = "listen" /\ fr.todo = {}
  BY DEF Frame
<1>6. Range(Top.children) = {e} \cup Range(Tail(Top.children))
  <2>1. Top.children \in Seq(Events)
    BY <1>2 DEF Frames
  <2> QED BY <2>1, <1>1, RangeOfRest
<1>7. CASE stack' = WithTop([rest EXCEPT !.failed = TRUE])
  <2> DEFINE g == [rest EXCEPT !.failed = TRUE]
  <2>1. /\ g.before = Top.before /\ g.event = Top.event /\ g.failed = TRUE
        /\ g.stage = Top.stage /\ g.todo = {}
    BY <1>2, <1>3 DEF Frames
  <2>2. stack' = WithTop(g)
    BY <1>7
  <2> HIDE DEF g
  <2>3. Watching(g, field') /\ Finishing(g, field', Range(g.children))
    BY <1>1, <2>1 DEF Watching, Finishing
  <2> QED BY <1>1, <2>1, <2>2, <2>3, TopWatched
<1>8. CASE stack' = Append(WithTop(rest), fr)
  <2> HIDE DEF rest, fr, e
  <2>1. /\ WithTop(rest) \in Seq(Frames) /\ Len(WithTop(rest)) = Len(stack)
        /\ \A k \in 1..Len(stack) :
             WithTop(rest)[k] = IF k = Depth THEN rest ELSE stack[k]
    BY <1>2, <1>4 DEF WithTop, IInv
  <2>2. /\ Len(stack') = Len(stack) + 1 /\ stack'[Len(stack) + 1] = fr
        /\ \A k \in 1..Len(stack) : stack'[k] = WithTop(rest)[k]
    BY <1>8, <2>1
  <2>3. Depth' = Depth + 1
    BY <2>2, <1>2 DEF Depth
  <2>4. Range(Touched(rest)) = Range(Touched(Top))
    BY <1>2, <1>4, TouchedRange
  <2>5. Finishing(rest, field, {e} \cup Range(rest.children))
    BY <1>2, <1>4, <1>6, <2>4 DEF Finishing
  <2>6. ASSUME NEW k \in 1..(Depth + 1), k # Depth + 1
        PROVE  /\ Watching(stack'[k], field') /\ stack'[k].stage # "watch"
               /\ Finishing(stack'[k], stack'[k + 1].before,
                            {stack'[k + 1].event} \cup Range(stack'[k].children))
    <3>1. CASE k = Depth
      <4>1. stack'[k] = rest /\ stack'[k + 1] = fr
        BY <3>1, <1>2, <2>1, <2>2
      <4>2. Watching(rest, field')
        BY <1>1, <1>4 DEF Watching
      <4> QED BY <4>1, <4>2, <2>5, <1>1, <1>4, <1>5
    <3>2. CASE k # Depth
      <4>1. k \in 1..Depth /\ k + 1 \in 1..Len(stack) /\ k \in 1..Len(stack)
        BY <2>6, <3>2, <1>2
      <4>2. stack'[k] = stack[k]
        BY <3>2, <4>1, <2>1, <2>2
      <4>3. stack'[k + 1].before = stack[k + 1].before
            /\ stack'[k + 1].event = stack[k + 1].event
        <5>1. stack'[k + 1] = IF k + 1 = Depth THEN rest ELSE stack[k + 1]
          BY <4>1, <2>1, <2>2
        <5> QED BY <5>1, <1>4 DEF Top
      <4>4. /\ Watching(stack[k], field) /\ stack[k].stage # "watch"
            /\ Finishing(stack[k], stack[k + 1].before,
                         {stack[k + 1].event} \cup Range(stack[k].children))
        BY <3>2, <4>1 DEF WatchHolds
      <4> QED BY <4>2, <4>3, <4>4 DEF Watching
    <3> QED BY <3>1, <3>2
  <2>7. ASSUME NEW k \in 1..(Depth + 1), k = Depth + 1
        PROVE  /\ Watching(stack'[k], field')
               /\ Finishing(stack'[k], field', Range(stack'[k].children))
    <3>1. stack'[k] = fr
      BY <2>7, <2>2, <1>2
    <3> QED BY <3>1, <1>5 DEF Watching, Finishing
  <2> HIDE DEF Watching, Finishing
  <2> QED BY <2>3, <2>6, <2>7 DEF WatchHolds
<1> QED BY <1>7, <1>8 DEF DispatchChild

LEMMA BeginWatchWatches ==
    ASSUME IInv, WatchHolds, BeginWatch PROVE WatchHolds'
<1> DEFINE fr == [Top EXCEPT !.stage = "watch", !.units = Range(Touched(Top))]
<1>1. stack # <<>> /\ field' = field /\ Top.stage = "listen" /\ stack' = WithTop(fr)
  BY DEF BeginWatch
<1>2. Top \in Frames /\ Watching(Top, field)
  BY <1>1, TopGood, TopWatches
<1>3. Top.todo = {}
  BY <1>1, <1>2 DEF Watching
<1>4. Range(Touched(Top)) \subseteq Units
  BY <1>2, TouchedTyped DEF Range
<1>5. /\ fr \in Frames /\ fr.before = Top.before /\ fr.event = Top.event
      /\ fr.log = Top.log /\ fr.stage = "watch" /\ fr.todo = {}
      /\ fr.units = Range(Touched(Top))
  BY <1>2, <1>3, <1>4 DEF Frames, Stages
<1> HIDE DEF fr
<1>6. Range(Touched(fr)) = Range(Touched(Top))
  BY <1>2, <1>5, TouchedRange
<1>7. Watching(fr, field') /\ Finishing(fr, field', Range(fr.children))
  BY <1>5, <1>6 DEF Watching, Finishing, Looked
<1> QED BY <1>1, <1>5, <1>7, TopWatched

LEMMA WatchUnitWatches ==
    ASSUME IInv, WatchHolds, WatchUnit PROVE WatchHolds'
<1> DEFINE u == Earliest(Top)
           is == {i \in Watched : Owner[i] = u /\ Attached(field, i)}
           fr == [Top EXCEPT !.units = Dropped(@, u), !.todo = is]
<1>1. /\ stack # <<>> /\ field' = field /\ Top.stage = "watch" /\ Due(Top) = {}
      /\ stack' = WithTop(fr)
  BY DEF WatchUnit
<1>2. Top \in Frames /\ Watching(Top, field)
  BY <1>1, TopGood, TopWatches
<1>3. is \subseteq Watched /\ (\A i \in is : Owner[i] = u)
      /\ \A i \in Watched : Owner[i] = u => i \in is \/ Settled(field, i)
  BY DEF Settled
<1> HIDE DEF u, is
<1>4. /\ fr \in Frames /\ fr.before = Top.before /\ fr.event = Top.event
      /\ fr.log = Top.log /\ fr.stage = "watch" /\ fr.todo = is
      /\ fr.units = Top.units \ {u} /\ fr.sent = Top.sent
  BY <1>1, <1>2, <1>3 DEF Frames, Dropped
<1> HIDE DEF fr
<1>5. Range(Touched(fr)) = Range(Touched(Top))
  BY <1>2, <1>4, TouchedRange
<1>6. \A i \in Top.todo : i \in Watched => Settled(field, i)
  BY <1>1 DEF Due, Settled
<1>7. ASSUME NEW i \in Watched, Owner[i] \in Looked(fr)
      PROVE  \/ Settled(field, i) \/ DisturbedBy(fr.log, Owner[i])
             \/ Owner[i] \in fr.units \/ i \in fr.todo
             \/ Announced(Range(fr.sent), Owner[i])
  <2>1. CASE Owner[i] = u
    <3>1. i \in is \/ Settled(field, i)
      BY <2>1, <1>3
    <3> QED BY <3>1, <1>4
  <2>2. CASE Owner[i] # u
    <3>1. Owner[i] \in Looked(Top)
      BY <2>2, <1>3, <1>4, <1>5, <1>7 DEF Looked
    <3>2. \/ Settled(field, i) \/ DisturbedBy(Top.log, Owner[i])
          \/ Owner[i] \in Top.units \/ i \in Top.todo
          \/ Announced(Range(Top.sent), Owner[i])
      BY <3>1, <1>1, <1>2 DEF Watching
    <3> QED BY <3>2, <2>2, <1>4, <1>6
  <2> QED BY <2>1, <2>2
<1>8. Watching(fr, field') /\ Finishing(fr, field', Range(fr.children))
  BY <1>1, <1>4, <1>7 DEF Watching, Finishing
<1> QED BY <1>1, <1>4, <1>8, TopWatched

LEMMA EndWatchWatches ==
    ASSUME IInv, WatchHolds, EndWatch PROVE WatchHolds'
<1> DEFINE mid == [Top EXCEPT !.stage = "after", !.todo = {}]
           fr == Dispatching(mid)
<1>1. /\ stack # <<>> /\ field' = field /\ Top.stage = "watch" /\ Due(Top) = {}
      /\ Top.units = {} /\ stack' = WithTop(fr)
  BY DEF EndWatch
<1>2. Top \in Frames /\ Watching(Top, field)
  BY <1>1, TopGood, TopWatches
<1>3. /\ mid \in Frames /\ mid.sent = Top.sent /\ mid.event = Top.event /\ mid.log = Top.log
      /\ mid.before = Top.before /\ mid.stage = "after" /\ mid.todo = {}
      /\ GoodFrame(mid)
  <2>1. mid \in Frames
    BY <1>2 DEF Frames, Stages
  <2>2. GoodFrame(Top)
    BY <1>1, TopGood
  <2> QED BY <1>2, <2>1, <2>2 DEF Frames, GoodFrame
<1> HIDE DEF mid
<1>4. fr \in Frames
  BY <1>3, DispatchingGood DEF GoodFrame
<1>5. /\ fr.before = Top.before /\ fr.event = Top.event /\ fr.log = Top.log
      /\ fr.stage = "after" /\ fr.todo = {}
      /\ ~fr.failed => fr.children = Top.sent
  BY <1>3 DEF Dispatching, Frames
<1> HIDE DEF fr
<1>6. Range(Touched(fr)) = Range(Touched(Top))
  BY <1>2, <1>4, <1>5, TouchedRange
<1>7. \A i \in Top.todo : i \in Watched => Settled(field, i)
  BY <1>1 DEF Due, Settled
<1>8. ASSUME ~fr.failed, NEW i \in Watched, Owner[i] \in Range(Touched(fr))
      PROVE  \/ Settled(field, i) \/ DisturbedBy(fr.log, Owner[i])
             \/ Announced(Range(fr.children), Owner[i])
  <2>1. \/ Settled(field, i) \/ DisturbedBy(Top.log, Owner[i])
        \/ Owner[i] \in Top.units \/ i \in Top.todo
        \/ Announced(Range(Top.sent), Owner[i])
    BY <1>1, <1>2, <1>6, <1>8 DEF Watching, Looked
  <2> QED BY <2>1, <1>1, <1>5, <1>7, <1>8
<1>9. Watching(fr, field') /\ Finishing(fr, field', Range(fr.children))
  BY <1>1, <1>5, <1>8 DEF Watching, Finishing
<1> QED BY <1>1, <1>5, <1>9, TopWatched

(* One status was looked at, after which the state is that of f with the    *)
(* status's record set, if it is still there.                               *)
LEMMA ComparedWatches ==
    ASSUME IInv, WatchHolds, stack # <<>>, Top.stage = "watch",
           NEW i \in Top.todo, Owner[i] \in Units, NEW r \in {"in", "out"},
           NEW f, GoodField(f), NEW a \in Logs, NEW es \in Seq(Events),
           Attached(f, i) => \/ Actual(f, i) = r
                             \/ Announced(Range(es), Owner[i]) \/ DisturbedBy(a, Owner[i]),
           \A u \in Units : SameView(field, f, u) \/ Announced(Range(es), u) \/ DisturbedBy(a, u),
           \A u \in LogUnits(a) : Announced(Range(es), u) \/ DisturbedBy(a, u),
           field' = Recording(f, i, r),
           NEW fr \in Frames, stack' = WithTop(fr), fr.before = Top.before,
           fr.event = Top.event, fr.stage = "watch", fr.todo = Top.todo \ {i},
           fr.units = Top.units, fr.sent = Top.sent \o es,
           fr.log = (Top.log \o a) \o RecordingLog(f, i, r)
    PROVE  WatchHolds'
<1> DEFINE b == RecordingLog(f, i, r)
<1>1. /\ Top \in Frames /\ Watching(Top, field) /\ i \in Instances /\ i \in Watched
      /\ Top.log \in Logs /\ Top.sent \in Seq(Events) /\ Top.todo \subseteq Watched
  <2>1. Top \in Frames /\ Watching(Top, field)
    BY TopGood, TopWatches
  <2> QED BY <2>1, StatusAssumption DEF Frames
<1>2. b \in Logs /\ LogUnits(b) \subseteq {Owner[i]}
  <2>1. CASE Attached(f, i)
    BY <2>1, <1>1, RecordingGood, RecordingTold
  <2>2. CASE ~Attached(f, i)
    <3>1. b = <<>>
      BY <2>2 DEF RecordingLog
    <3> QED BY <3>1 DEF Logs, LogUnits, Range
  <2> QED BY <2>1, <2>2
<1>3. \A j \in Watched : j # i /\ Settled(f, j) => Settled(field', j)
  <2> SUFFICES ASSUME NEW j \in Watched, j # i, Settled(f, j)
               PROVE  Settled(field', j)
    OBVIOUS
  <2>1. CASE Attached(f, i)
    <3>1. /\ field'.statuses = f.statuses /\ field'.high = f.high
          /\ field'.seen[j] = f.seen[j]
      BY <2>1, <1>1, RecordingTold, StatusAssumption
    <3>2. \A x : Attached(field', x) <=> Attached(f, x)
      BY <3>1 DEF Attached
    <3>3. Actual(field', j) = Actual(f, j)
      BY <3>1, <3>2 DEF Actual, InRange
    <3> QED BY <3>1, <3>2, <3>3 DEF Settled
  <2>2. CASE ~Attached(f, i)
    BY <2>2 DEF Recording
  <2> QED BY <2>1, <2>2
<1>4. \/ Settled(field', i)
      \/ Announced(Range(es), Owner[i]) \/ DisturbedBy(a, Owner[i])
  <2>1. CASE Attached(f, i)
    <3>1. /\ field'.statuses = f.statuses /\ field'.high = f.high /\ field'.seen[i] = r
      BY <2>1, <1>1, RecordingTold
    <3>2. \A x : Attached(field', x) <=> Attached(f, x)
      BY <3>1 DEF Attached
    <3>3. Actual(field', i) = Actual(f, i)
      BY <3>1, <3>2 DEF Actual, InRange
    <3> QED BY <2>1, <3>1, <3>3 DEF Settled
  <2>2. CASE ~Attached(f, i)
    BY <2>2 DEF Recording, Settled
  <2> QED BY <2>1, <2>2
<1> HIDE DEF b
<1>5. /\ fr.log = (Top.log \o a) \o b /\ Top.log \o a \in Logs
      /\ LogUnits(fr.log) = (LogUnits(Top.log) \cup LogUnits(a)) \cup LogUnits(b)
      /\ \A u : DisturbedBy(Top.log, u) \/ DisturbedBy(a, u) => DisturbedBy(fr.log, u)
  <2>1. Top.log \o a \in Logs
    BY <1>1, LogsJoin
  <2>2. /\ LogUnits(Top.log \o a) = LogUnits(Top.log) \cup LogUnits(a)
        /\ \A u : DisturbedBy(Top.log \o a, u) <=> DisturbedBy(Top.log, u) \/ DisturbedBy(a, u)
    BY <1>1, LogsUnite
  <2>3. fr.log = (Top.log \o a) \o b
    BY DEF b
  <2>4. /\ LogUnits(fr.log) = LogUnits(Top.log \o a) \cup LogUnits(b)
        /\ \A u : DisturbedBy(fr.log, u) <=> DisturbedBy(Top.log \o a, u) \/ DisturbedBy(b, u)
    BY <1>2, <2>1, <2>3, LogsUnite
  <2> QED BY <2>1, <2>2, <2>3, <2>4
<1>6. \A u : Announced(Range(Top.sent), u) \/ Announced(Range(es), u)
               => Announced(Range(fr.sent), u)
  <2>1. Range(fr.sent) = Range(Top.sent) \cup Range(es)
    BY <1>1, RangeJoin
  <2> QED BY <2>1 DEF Announced
<1>7. ASSUME NEW j \in Watched, Owner[j] \in Looked(fr)
      PROVE  \/ Settled(field', j) \/ DisturbedBy(fr.log, Owner[j])
             \/ Owner[j] \in fr.units \/ j \in fr.todo
             \/ Announced(Range(fr.sent), Owner[j])
  <2>1. CASE j = i
    BY <2>1, <1>4, <1>5, <1>6
  <2>2. CASE j # i
    <3>1. \/ Owner[j] \in Looked(Top)
          \/ Announced(Range(es), Owner[j]) \/ DisturbedBy(a, Owner[j])
      <4>1. Range(Touched(fr)) = EventUnits(Top.event) \cup LogUnits(fr.log)
        BY TouchedRange
      <4>2. Range(Touched(Top)) = EventUnits(Top.event) \cup LogUnits(Top.log)
        BY <1>1, TouchedRange
      <4>3. Owner[i] \in Looked(Top) /\ {Owner[x] : x \in fr.todo} \subseteq Looked(Top)
        BY DEF Looked
      <4>4. CASE Owner[j] \in LogUnits(a)
        BY <4>4
      <4>5. CASE Owner[j] \notin LogUnits(a)
        <5>1. Owner[j] \in Range(Touched(Top)) \cup {Owner[i]} \cup {Owner[x] : x \in fr.todo}
          BY <4>1, <4>2, <4>5, <1>2, <1>5, <1>7 DEF Looked
        <5> QED BY <5>1, <4>3 DEF Looked
      <4> QED BY <4>4, <4>5
    <3>2. CASE Owner[j] \in Looked(Top)
      <4>1. \/ Settled(field, j) \/ DisturbedBy(Top.log, Owner[j])
            \/ Owner[j] \in Top.units \/ j \in Top.todo
            \/ Announced(Range(Top.sent), Owner[j])
        BY <3>2, <1>1 DEF Watching
      <4>2. CASE Settled(field, j)
        <5>1. Owner[j] \in Units
          BY StatusAssumption
        <5>2. CASE SameView(field, f, Owner[j])
          BY <4>2, <5>2, <2>2, <1>3, ViewSettles
        <5>3. CASE Announced(Range(es), Owner[j]) \/ DisturbedBy(a, Owner[j])
          BY <5>3, <1>5, <1>6
        <5> QED BY <5>1, <5>2, <5>3
      <4> QED BY <4>1, <4>2, <2>2, <1>5, <1>6
    <3> QED BY <3>1, <3>2, <1>5, <1>6
  <2> QED BY <2>1, <2>2
<1>8. Watching(fr, field') /\ Finishing(fr, field', Range(fr.children))
  BY <1>7 DEF Watching, Finishing
<1> QED BY <1>8, TopWatched

LEMMA CompareWatches ==
    ASSUME IInv, WatchHolds, NEW i \in Watched, Compare(i) PROVE WatchHolds'
<1> DEFINE r == Actual(field, i)
           rest == [Top EXCEPT !.todo = @ \ {i}]
<1>1. stack # <<>> /\ Top.stage = "watch" /\ i \in Top.todo /\ Attached(field, i)
  BY DEF Compare, FirstDue, Due
<1>2. /\ Top \in Frames /\ GoodField(field) /\ i \in Instances /\ Owner[i] \in Units
      /\ r \in {"in", "out"} /\ IInv'
  BY <1>1, TopGood, CompareIInv, StatusAssumption DEF IInv, Actual
<1>3. stack' \in Seq(Frames) /\ Depth \in 1..Len(stack)
  BY <1>1, <1>2, TopGood DEF IInv
<1>4. ASSUME NEW fr, stack' = WithTop(fr) PROVE fr \in Frames
  <2>1. stack'[Depth] = fr /\ Len(stack') = Len(stack)
    BY <1>3, <1>4 DEF WithTop, IInv
  <2> HIDE DEF IInv
  <2> QED BY <2>1, <1>3
<1>5. \A u \in Units : SameView(field, field, u)
  BY DEF SameView
<1> HIDE DEF r
<1>6. CASE /\ field' = Recording(field, i, r)
           /\ stack' = WithTop([rest EXCEPT !.log = @ \o RecordingLog(field, i, r)])
  <2> DEFINE fr == [rest EXCEPT !.log = @ \o RecordingLog(field, i, r)]
             none == <<>>
  <2>1. stack' = WithTop(fr)
    BY <1>6
  <2>2. /\ fr.before = Top.before /\ fr.event = Top.event /\ fr.stage = "watch"
        /\ fr.todo = Top.todo \ {i} /\ fr.units = Top.units /\ fr.sent = Top.sent
        /\ fr.log = Top.log \o RecordingLog(field, i, r)
    BY <1>1, <1>2 DEF Frames
  <2> HIDE DEF fr
  <2>3. fr \in Frames
    BY <2>1, <1>4
  <2>4. none \in Logs /\ none \in Seq(Events) /\ LogUnits(none) = {}
    BY DEF Logs, LogUnits, Range
  <2>5. Top.log \o none = Top.log /\ Top.sent \o none = Top.sent
    <3>1. Top.log \in Seq(Range(Top.log)) /\ Top.sent \in Seq(Events)
      BY <1>2 DEF Frames, Logs, Range
    <3> QED BY <3>1
  <2>6. Actual(field, i) = r
    BY DEF r
  <2> HIDE DEF none
  <2>7. fr.sent = Top.sent \o none /\ fr.log = (Top.log \o none) \o RecordingLog(field, i, r)
    BY <2>2, <2>5
  <2>8. \A u \in LogUnits(none) : Announced(Range(none), u) \/ DisturbedBy(none, u)
    BY <2>4
  <2>9. Attached(field, i) => \/ Actual(field, i) = r
                              \/ Announced(Range(none), Owner[i]) \/ DisturbedBy(none, Owner[i])
    BY <2>6
  <2>10. \A u \in Units : SameView(field, field, u) \/ Announced(Range(none), u)
                            \/ DisturbedBy(none, u)
    BY <1>5
  <2> QED
    BY <1>1, <1>2, <1>6, <2>1, <2>2, <2>3, <2>4, <2>7, <2>8, <2>9, <2>10, ComparedWatches
<1>7. CASE /\ UNCHANGED field
           /\ stack' = WithTop([rest EXCEPT !.failed = TRUE, !.stage = "after",
                                            !.todo = {}, !.units = {}, !.sent = <<>>])
  <2> DEFINE fr == [rest EXCEPT !.failed = TRUE, !.stage = "after",
                                !.todo = {}, !.units = {}, !.sent = <<>>]
  <2>1. /\ fr.before = Top.before /\ fr.event = Top.event /\ fr.stage = "after"
        /\ fr.failed = TRUE /\ fr.todo = {}
    BY <1>2 DEF Frames
  <2>2. stack' = WithTop(fr)
    BY <1>7
  <2> HIDE DEF fr
  <2>3. Watching(fr, field') /\ Finishing(fr, field', Range(fr.children))
    BY <2>1 DEF Watching, Finishing
  <2> QED BY <1>1, <2>1, <2>2, <2>3, TopWatched
<1>8. ASSUME NEW ch \in Effects[Branch(i, r)], Branch(i, r) \in Executable,
             field' = Recording(After(field, ch), i, r),
             stack' = WithTop([rest EXCEPT
                        !.sent = @ \o Emitted(field, ch),
                        !.log = @ \o Mutations(field, ch, "watcher")
                                  \o RecordingLog(After(field, ch), i, r)])
      PROVE  WatchHolds'
  <2> DEFINE f == After(field, ch)
             a == Mutations(field, ch, "watcher")
             es == Emitted(field, ch)
             fr == [rest EXCEPT !.sent = @ \o es, !.log = (@ \o a) \o RecordingLog(f, i, r)]
  <2>1. ch \in Effecting /\ ch \in Changes
    BY <1>8, CallbackAssumption, EffectsAreChanges
  <2>2. GoodField(f) /\ a \in Logs /\ es \in Seq(Events)
    BY <1>2, <2>1, AfterGood, MutationsTyped, EmittedTyped
  <2>3. /\ \A u \in Units : SameView(field, f, u) \/ Announced(Range(es), u) \/ DisturbedBy(a, u)
        /\ \A u \in LogUnits(a) : Announced(Range(es), u) \/ DisturbedBy(a, u)
    BY <1>2, <2>1, ChangeTold
  <2>4. stack' = WithTop(fr) /\ field' = Recording(f, i, r)
    BY <1>8
  <2> HIDE DEF f, a, es
  <2>5. Attached(f, i) => \/ Actual(f, i) = r
                          \/ Announced(Range(es), Owner[i]) \/ DisturbedBy(a, Owner[i])
    <3>1. ASSUME SameView(field, f, Owner[i]) PROVE Actual(f, i) = r
      <4>1. \A j : Owner[j] = Owner[i] => (Attached(f, j) <=> Attached(field, j))
        BY <3>1 DEF SameView, Attached
      <4>2. InRange(f, Owner[i]) <=> InRange(field, Owner[i])
        BY <3>1, <4>1 DEF SameView, InRange
      <4> QED BY <4>2 DEF Actual, r
    <3> QED BY <3>1, <2>3, <1>2
  <2>6. /\ fr.before = Top.before /\ fr.event = Top.event /\ fr.stage = "watch"
        /\ fr.todo = Top.todo \ {i} /\ fr.units = Top.units /\ fr.sent = Top.sent \o es
        /\ fr.log = (Top.log \o a) \o RecordingLog(f, i, r)
    BY <1>1, <1>2 DEF Frames
  <2> HIDE DEF fr
  <2>7. fr \in Frames
    BY <2>4, <1>4
  <2> QED
    BY <1>1, <1>2, <2>2, <2>3, <2>4, <2>5, <2>6, <2>7, ComparedWatches
<1> QED
  BY <1>6, <1>7, <1>8 DEF Compare, r, rest

(* A call that succeeds has settled the watchers of what it touched.        *)
LEMMA ReturnSettles ==
    ASSUME IInv, WatchHolds, Return, ~Top.failed
    PROVE  /\ stack # <<>> /\ Top \in Frames
           /\ \A i \in Watched : Owner[i] \in Range(Touched(Top)) =>
                 Settled(field, i) \/ DisturbedBy(Top.log, Owner[i])
<1>1. stack # <<>> /\ Top.stage = "after" /\ Top.children = <<>>
  BY DEF Return, Over
<1>2. Top \in Frames /\ Finishing(Top, field, Range(Top.children))
  BY <1>1, TopGood, TopWatches
<1>3. \A u : ~Announced(Range(Top.children), u)
  BY <1>1 DEF Announced, Range
<1> QED BY <1>1, <1>2, <1>3 DEF Finishing

LEMMA ReturnWatches ==
    ASSUME IInv, Explains, WatchHolds, Return PROVE WatchHolds'
<1>1. stack # <<>>
  BY DEF Return
<1>2. /\ Top \in Frames /\ Depth \in 1..Len(stack) /\ Depth = Len(stack) /\ stack \in Seq(Frames)
      /\ Depth \in Nat /\ Replay(Top.before, Top.log) = field /\ GoodFrame(Top)
  BY <1>1, TopGood, TopExplains DEF IInv, Depth
<1>3. CASE Depth = 1
  <2>1. Depth' = 0
    BY <1>3 DEF Return, Depth
  <2> QED BY <2>1 DEF WatchHolds
<1>4. CASE Depth # 1
  <2> DEFINE n == Depth - 1
             c == stack[n]
             fr == Answered(c, Top)
  <2>1. stack' = [k \in 1..n |-> IF k = n THEN Answered(stack[k], Top) ELSE stack[k]]
    BY <1>4 DEF Return
  <2>2. n \in Nat /\ n \in 1..Len(stack) /\ n + 1 = Depth
    BY <1>2, <1>4
  <2>3. /\ c \in Frames /\ c.stage # "watch" /\ c.todo = {}
        /\ Finishing(c, Top.before, {Top.event} \cup Range(c.children))
    <3>1. n \in 1..Depth /\ n # Depth
      <4> HIDE DEF n
      <4> QED BY <2>2, <1>2
    <3>2. /\ Watching(c, field) /\ c.stage # "watch"
          /\ Finishing(c, Top.before, {Top.event} \cup Range(c.children))
      <4> HIDE DEF n, Watching, Finishing
      <4> QED BY <3>1, <2>2 DEF WatchHolds, Top
    <3>3. c \in Frames
      <4> HIDE DEF n
      <4> QED BY <2>2, <1>2
    <3> QED BY <3>2, <3>3 DEF Watching
  <2> HIDE DEF n
  <2>4. Depth' = n
    BY <2>1, <2>2 DEF Depth
  <2>5. \A k \in 1..n : stack'[k] = IF k = n THEN fr ELSE stack[k]
    BY <2>1
  <2> HIDE DEF c
  <2>6. /\ fr.before = c.before /\ fr.event = c.event /\ fr.stage = c.stage
        /\ fr.todo = {} /\ fr.children = c.children
        /\ Top.failed => fr.failed
        /\ ~Top.failed => fr.failed = c.failed /\ fr.log = c.log \o Top.log
    BY <2>3 DEF Answered, Frames
  <2>7. fr \in Frames
    <3>1. GoodFrame(c)
      BY <2>2 DEF c, IInv
    <3> QED BY <3>1, <1>2, AnsweredGood DEF GoodFrame
  <2> HIDE DEF fr
  <2>8. Watching(fr, field')
    BY <2>3, <2>6 DEF Watching
  <2>9. Finishing(fr, field', Range(fr.children))
    <3> SUFFICES ASSUME fr.stage = "after", ~fr.failed, NEW i \in Watched,
                        Owner[i] \in Range(Touched(fr))
                 PROVE  \/ Settled(field', i) \/ DisturbedBy(fr.log, Owner[i])
                        \/ Announced(Range(fr.children), Owner[i])
      BY DEF Finishing
    <3>1. ~Top.failed /\ ~c.failed /\ field' = field /\ fr.log = c.log \o Top.log
      BY <2>6 DEF Return
    <3>2. c.log \in Logs /\ Top.log \in Logs
      BY <2>3, <1>2 DEF Frames
    <3>3. /\ LogUnits(fr.log) = LogUnits(c.log) \cup LogUnits(Top.log)
          /\ \A u : DisturbedBy(fr.log, u) <=> DisturbedBy(c.log, u) \/ DisturbedBy(Top.log, u)
      BY <3>1, <3>2, LogsUnite
    <3>4. /\ Range(Touched(fr)) = EventUnits(c.event) \cup LogUnits(fr.log)
          /\ Range(Touched(c)) = EventUnits(c.event) \cup LogUnits(c.log)
          /\ Range(Touched(Top)) = EventUnits(Top.event) \cup LogUnits(Top.log)
      BY <2>3, <2>6, <2>7, <1>2, TouchedRange
    <3>5. CASE Owner[i] \in Range(Touched(Top))
      <4>1. Settled(field, i) \/ DisturbedBy(Top.log, Owner[i])
        BY <3>1, <3>5, ReturnSettles
      <4> QED BY <4>1, <3>1, <3>3
    <3>6. CASE Owner[i] \notin Range(Touched(Top))
      <4>1. Owner[i] \in Range(Touched(c)) /\ Owner[i] \notin LogUnits(Top.log)
        BY <3>3, <3>4, <3>6
      <4>2. \/ Settled(Top.before, i) \/ DisturbedBy(c.log, Owner[i])
            \/ Announced({Top.event} \cup Range(c.children), Owner[i])
        BY <4>1, <2>3, <2>6, <3>1 DEF Finishing
      <4>3. ~(Top.event.type = "hp.change" /\ Top.event.unit = Owner[i])
        BY <3>4, <3>6 DEF EventUnits
      <4>4. Announced({Top.event} \cup Range(c.children), Owner[i])
              => Announced(Range(fr.children), Owner[i])
        BY <4>3, <2>6 DEF Announced
      <4>5. CASE Settled(Top.before, i)
        <5>1. Shaped(Top.before) /\ Owner[i] \in Units
          BY <1>2, GoodShaped, StatusAssumption DEF GoodFrame
        <5>2. SameView(Top.before, field, Owner[i])
          BY <5>1, <4>1, <3>2, <1>2, ReplayKeeps
        <5> QED BY <4>5, <5>2, <3>1, ViewSettles
      <4> QED BY <4>2, <4>4, <4>5, <3>3
    <3> QED BY <3>5, <3>6
  <2>10. ASSUME NEW k \in 1..n, k # n
         PROVE  /\ Watching(stack'[k], field') /\ stack'[k].stage # "watch"
                /\ Finishing(stack'[k], stack'[k + 1].before,
                             {stack'[k + 1].event} \cup Range(stack'[k].children))
    <3>1. k + 1 \in 1..n /\ k \in 1..Depth /\ k # Depth
      BY <2>2, <2>10
    <3>2. stack'[k] = stack[k]
      BY <2>5, <2>10
    <3>3. stack'[k + 1].before = stack[k + 1].before
          /\ stack'[k + 1].event = stack[k + 1].event
      BY <3>1, <2>5, <2>6 DEF c
    <3>4. /\ Watching(stack[k], field) /\ stack[k].stage # "watch"
          /\ Finishing(stack[k], stack[k + 1].before,
                       {stack[k + 1].event} \cup Range(stack[k].children))
      BY <3>1 DEF WatchHolds
    <3> QED BY <3>2, <3>3, <3>4 DEF Watching
  <2>11. ASSUME NEW k \in 1..n, k = n
         PROVE  /\ Watching(stack'[k], field')
                /\ Finishing(stack'[k], field', Range(stack'[k].children))
    <3>1. stack'[k] = fr
      BY <2>5, <2>11
    <3> QED BY <3>1, <2>8, <2>9
  <2> HIDE DEF Watching, Finishing
  <2> QED BY <2>4, <2>10, <2>11 DEF WatchHolds
<1> QED BY <1>3, <1>4

LEMMA NextWatches ==
    ASSUME IInv, Explains, WatchHolds, [Next]_vars PROVE WatchHolds'
<1>1. CASE UNCHANGED vars
  <2>1. field' = field /\ stack' = stack
    BY <1>1 DEF vars
  <2>2. Depth' = Depth
    BY <2>1 DEF Depth
  <2> QED BY <2>1, <2>2 DEF WatchHolds
<1>2. CASE Next
  BY <1>2, CallWatches, ListenWatches, DispatchChildWatches, BeginWatchWatches,
     WatchUnitWatches, EndWatchWatches, CompareWatches, ReturnWatches
     DEF Next, Step, WatchStatus
<1> QED BY <1>1, <1>2

(* A dispatch that succeeds leaves the watchers of every unit it touched in *)
(* agreement with the property they watch, whatever the callbacks, their    *)
(* rank and the nested dispatches changed on the way.                       *)
THEOREM WatchersSettle == Spec => TouchedWatchersSettle
<1>1. Init => IInv /\ Explains /\ WatchHolds
  BY InitIInv DEF Init, Explains, LogExplainsField, MarksHold, WatchHolds, Depth
<1>2. IInv /\ Explains /\ WatchHolds /\ [Next]_vars => (IInv /\ Explains /\ WatchHolds)'
  BY NextIInv, NextExplains, NextWatches
<1>3. IInv /\ WatchHolds =>
        (Succeeds => \A i \in Watched : Owner[i] \in Affected =>
            Disturbed(Owner[i]) \/ Settled(field, i))
  <2> SUFFICES ASSUME IInv, WatchHolds, Succeeds, NEW i \in Watched, Owner[i] \in Affected
               PROVE  Disturbed(Owner[i]) \/ Settled(field, i)
    OBVIOUS
  <2>1. /\ Top \in Frames
        /\ Owner[i] \in Range(Touched(Top)) =>
             Settled(field, i) \/ DisturbedBy(Top.log, Owner[i])
    BY ReturnSettles DEF Succeeds
  <2>2. Range(Touched(Top)) = EventUnits(Top.event) \cup LogUnits(Top.log)
    BY <2>1, TouchedRange
  <2>5. Owner[i] \in Range(Touched(Top))
    <3>1. CASE Owner[i] \in {UnitOf(Top.log[k].change) : k \in DOMAIN Top.log}
      BY <2>2, <3>1 DEF LogUnits, Range
    <3>2. CASE Top.event.type # "custom.event" /\ Owner[i] = Top.event.unit
      <4>1. /\ Top.event.unit \in Units
            /\ Top.event.type \in {"battle.start", "status.lifecycle", "hp.change"}
        BY <2>1, <3>2 DEF Frames, Events, EventTypes, Emittable
      <4>2. Owner[i] \in EventUnits(Top.event)
        BY <4>1, <3>2 DEF EventUnits, Units
      <4> QED BY <2>2, <4>2
    <3> QED BY <3>1, <3>2 DEF Affected
  <2>6. DisturbedBy(Top.log, Owner[i]) => Disturbed(Owner[i])
    BY DEF DisturbedBy, Disturbed, Range
  <2> QED BY <2>1, <2>5, <2>6
<1> QED
  BY <1>1, <1>2, <1>3, PTL DEF Spec, TouchedWatchersSettle
=============================================================================
