------------------------ MODULE CommitBoundaryProofs ------------------------
(***************************************************************************)
(* Proofs about CommitBoundary for every set of units, every maximum of    *)
(* hit points and every bound: what is published is whole, although the    *)
(* gate examines only the units that the mutations touch; every defeat is  *)
(* credited once; a defeat is never handed over in parts; what is planned  *)
(* always leads the reducer to the candidate; and the second commit of a   *)
(* call refuses it for the known reasons only.                             *)
(***************************************************************************)
EXTENDS CommitBoundary, FiniteSetTheorems, SequenceTheorems, TLAPS

(* A unit between two producers: its defeat is recorded with its status.   *)
Plain(x) ==
  /\ x.lifecycle_status = "active" => x.hp > 0 /\ ~x.defeat_record
  /\ x.lifecycle_status = "defeated" => x.defeat_record

Sane(s) == s \in States /\ \A u \in Units : s.units[u] # Absent => Plain(s.units[u])

Flag(x) == IF x # Absent /\ x.defeat_record THEN 1 ELSE 0

RecordsOf(ms, u) == {i \in DOMAIN ms : ms[i].unit = u /\ ms[i].field = "defeat_record"}

IsList(ms) == ms \in Seq(Range(ms)) /\ IsPlan(ms)

(* The list ms may lead from s to t: units it does not touch are the same, *)
(* no unit vanishes, and each new defeat record is in the list once.       *)
Follows(ms, s, t) ==
  /\ IsList(ms) /\ Sane(t)
  /\ \A u \in Units \ Touched(ms) : t.units[u] = s.units[u]
  /\ \A u \in Units : s.units[u] # Absent => t.units[u] # Absent
  /\ \A u \in Units : Flag(s.units[u]) + Cardinality(RecordsOf(ms, u)) = Flag(t.units[u])
  /\ \A u \in Units : IsFiniteSet(RecordsOf(ms, u))

(* Between graphs nothing is open, and a call begins with what is held.    *)
GraphsAreClosed ==
  /\ stage = "between" => planned = <<>> /\ frame = NoFrame /\ candidate = settled /\ graphs > 0
  /\ graphs = 0 => settled = published

IInv ==
  /\ TypeOK /\ GraphsAreClosed
  /\ Sane(published) /\ WholeState(published)
  /\ \A u \in Units : credited[u] = Flag(published.units[u])
  /\ Follows(stepMutations, published, settled)
  /\ Follows(planned, settled, candidate)
  /\ frame # NoFrame => Follows(frame.planned, settled, frame.candidate)

-----------------------------------------------------------------------------
(* Lists                                                                   *)

(* The empty list leads nowhere.                                           *)
LEMMA NothingFollows ==
  ASSUME NEW s, Sane(s)
  PROVE  Follows(<<>>, s, s)
<1>1. IsList(<<>>)
  BY DEF IsList, IsPlan
<1>2. \A u \in Units : RecordsOf(<<>>, u) = {}
  BY DEF RecordsOf
<1>3. \A u \in Units : Flag(s.units[u]) \in {0, 1}
  BY DEF Flag
<1>4. \A u \in Units : IsFiniteSet(RecordsOf(<<>>, u)) /\ Cardinality(RecordsOf(<<>>, u)) = 0
  BY <1>2, FS_EmptySet
<1>5. \A u \in Units : Flag(s.units[u]) + Cardinality(RecordsOf(<<>>, u)) = Flag(s.units[u])
  BY <1>3, <1>4
<1>6. QED
  BY <1>1, <1>4, <1>5 DEF Follows

(* Where the elements of a concatenation come from.                        *)
LEMMA Concatenated ==
  ASSUME NEW p, NEW q, IsList(p), IsList(q)
  PROVE  /\ IsList(p \o q)
         /\ Len(p) \in Nat /\ Len(q) \in Nat
         /\ DOMAIN p = 1..Len(p) /\ DOMAIN q = 1..Len(q)
         /\ DOMAIN (p \o q) = 1..(Len(p) + Len(q))
         /\ \A i \in 1..Len(p) : (p \o q)[i] = p[i]
         /\ \A i \in 1..Len(q) : (p \o q)[Len(p) + i] = q[i]
         /\ \A i \in 1..(Len(p) + Len(q)) : i > Len(p) => i - Len(p) \in 1..Len(q)
<1> DEFINE S == Range(p) \cup Range(q)
<1>1. p \in Seq(S) /\ q \in Seq(S)
  <2>1. p \in Seq(Range(p)) /\ q \in Seq(Range(q))
    BY DEF IsList
  <2>2. Range(p) \subseteq S /\ Range(q) \subseteq S
    OBVIOUS
  <2>3. QED
    BY <2>1, <2>2, SeqMonotonic
<1> HIDE DEF S
<1>2. /\ p \o q \in Seq(S)
      /\ Len(p \o q) = Len(p) + Len(q)
      /\ \A i \in 1..(Len(p) + Len(q)) : (p \o q)[i] = IF i <= Len(p) THEN p[i] ELSE q[i - Len(p)]
  BY <1>1, ConcatProperties
<1>3. /\ Len(p) \in Nat /\ Len(q) \in Nat
      /\ DOMAIN p = 1..Len(p) /\ DOMAIN q = 1..Len(q)
      /\ DOMAIN (p \o q) = 1..(Len(p) + Len(q))
  BY <1>1, <1>2
<1>4. /\ \A i \in 1..Len(p) : (p \o q)[i] = p[i]
      /\ \A i \in 1..Len(q) : (p \o q)[Len(p) + i] = q[i]
      /\ \A i \in 1..(Len(p) + Len(q)) : i > Len(p) => i - Len(p) \in 1..Len(q)
  BY <1>2, <1>3
<1>5. \A i \in 1..(Len(p) + Len(q)) :
        \/ i \in 1..Len(p) /\ (p \o q)[i] = p[i]
        \/ i - Len(p) \in 1..Len(q) /\ (p \o q)[i] = q[i - Len(p)]
  BY <1>2, <1>3
<1>6. IsPlan(p \o q)
  BY <1>3, <1>5 DEF IsPlan, IsList
<1>7. p \o q \in Seq(Range(p \o q))
  <2> DEFINE pq == p \o q
  <2>1. pq \in [1..(Len(p) + Len(q)) -> Range(pq)]
    <3>1. pq \in Seq(S) /\ Len(pq) = Len(p) + Len(q)
      BY <1>2
    <3>2. \A i \in 1..(Len(p) + Len(q)) : pq[i] \in Range(pq)
      BY <1>3 DEF Range
    <3> HIDE DEF pq
    <3>3. pq \in [1..Len(pq) -> S]
      BY <3>1
    <3>4. QED
      BY <3>1, <3>2, <3>3
  <2> HIDE DEF pq
  <2>2. Len(p) + Len(q) \in Nat
    BY <1>3
  <2>3. pq \in Seq(Range(pq))
    BY <2>1, <2>2, SeqDef
  <2>4. QED
    BY <2>3 DEF pq
<1>8. QED
  BY <1>3, <1>4, <1>6, <1>7 DEF IsList
(* The defeat records of a concatenation, when each unit has at most one.  *)
LEMMA RecordsConcatenated ==
  ASSUME NEW p, NEW q, IsList(p), IsList(q), NEW u,
         IsFiniteSet(RecordsOf(p, u)), IsFiniteSet(RecordsOf(q, u)),
         Cardinality(RecordsOf(p, u)) + Cardinality(RecordsOf(q, u)) <= 1
  PROVE  /\ IsFiniteSet(RecordsOf(p \o q, u))
         /\ Cardinality(RecordsOf(p \o q, u)) = Cardinality(RecordsOf(p, u)) + Cardinality(RecordsOf(q, u))
<1> DEFINE P == RecordsOf(p, u)
           Q == RecordsOf(q, u)
<1>1. \A i : i \in RecordsOf(p \o q, u) <=> i \in P \/ (i - Len(p) \in Q /\ i \in 1..(Len(p) + Len(q)))
  <2>1. ASSUME NEW i \in 1..(Len(p) + Len(q))
        PROVE  i \in RecordsOf(p \o q, u) <=> i \in P \/ i - Len(p) \in Q
    <3>1. CASE i <= Len(p)
      <4>1. i \in 1..Len(p) /\ (p \o q)[i] = p[i] /\ i - Len(p) \notin 1..Len(q)
        BY <3>1, Concatenated
      <4>2. QED
        BY <4>1, Concatenated DEF RecordsOf
    <3>2. CASE i > Len(p)
      <4>1. /\ i - Len(p) \in 1..Len(q) /\ i \notin 1..Len(p)
            /\ (p \o q)[i] = q[i - Len(p)]
        <5>1. i - Len(p) \in 1..Len(q) /\ i \notin 1..Len(p) /\ Len(p) + (i - Len(p)) = i
          BY <3>2, Concatenated
        <5>2. (p \o q)[Len(p) + (i - Len(p))] = q[i - Len(p)]
          BY <5>1, Concatenated
        <5>3. QED
          BY <5>1, <5>2
      <4>2. QED
        BY <4>1, Concatenated DEF RecordsOf
    <3>3. QED
      BY <3>1, <3>2, Concatenated
  <2>2. RecordsOf(p \o q, u) \subseteq 1..(Len(p) + Len(q)) /\ P \subseteq 1..(Len(p) + Len(q))
    BY Concatenated DEF RecordsOf
  <2>3. QED
    BY <2>1, <2>2
<1>2. Cardinality(P) \in Nat /\ Cardinality(Q) \in Nat
  BY FS_CardinalityType
<1>3. CASE Cardinality(Q) = 0
  <2>1. Q = {}
    BY <1>3, FS_EmptySet
  <2>2. RecordsOf(p \o q, u) = P
    BY <1>1, <2>1
  <2>3. QED
    BY <1>2, <1>3, <2>2
<1>4. CASE Cardinality(Q) = 1
  <2>1. P = {}
    BY <1>2, <1>4, FS_EmptySet
  <2>2. PICK j : Q = {j}
    BY <1>4, FS_Singleton
  <2>3. j \in 1..Len(q)
    BY <2>2, Concatenated DEF RecordsOf
  <2>4. RecordsOf(p \o q, u) = {Len(p) + j}
    <3>1. \A i : i \in 1..(Len(p) + Len(q)) => (i - Len(p) = j <=> i = Len(p) + j)
      BY <2>3, Concatenated
    <3>2. Len(p) + j \in 1..(Len(p) + Len(q))
      BY <2>3, Concatenated
    <3>3. \A i : i \in RecordsOf(p \o q, u) <=> i = Len(p) + j
      BY <1>1, <2>1, <2>2, <3>1, <3>2
    <3>4. QED
      BY <3>3
  <2>5. IsFiniteSet(RecordsOf(p \o q, u)) /\ Cardinality(RecordsOf(p \o q, u)) = 1
    BY <2>4, FS_Singleton
  <2>6. Cardinality(P) = 0
    BY <1>2, <1>4
  <2>7. QED
    BY <1>4, <2>5, <2>6
<1>5. QED
  BY <1>2, <1>3, <1>4

(* A list that leads from r to s, and one that leads on to t.              *)
LEMMA FollowsOn ==
  ASSUME NEW r, NEW s, NEW t, NEW p, NEW q, Follows(p, r, s), Follows(q, s, t)
  PROVE  Follows(p \o q, r, t)
<1>1. IsList(p) /\ IsList(q) /\ IsList(p \o q)
  BY Concatenated DEF Follows
<1>2. Touched(p) \subseteq Touched(p \o q) /\ Touched(q) \subseteq Touched(p \o q)
  <2>1. ASSUME NEW i \in DOMAIN p PROVE p[i].unit \in {(p \o q)[k].unit : k \in DOMAIN (p \o q)}
    <3>1. i \in DOMAIN (p \o q) /\ (p \o q)[i] = p[i]
      BY <1>1, Concatenated
    <3>2. QED
      BY <3>1
  <2>2. ASSUME NEW i \in DOMAIN q PROVE q[i].unit \in {(p \o q)[k].unit : k \in DOMAIN (p \o q)}
    <3>1. Len(p) + i \in DOMAIN (p \o q) /\ (p \o q)[Len(p) + i] = q[i]
      BY <1>1, Concatenated
    <3>2. QED
      BY <3>1
  <2>3. QED
    BY <2>1, <2>2 DEF Touched
<1>3. ASSUME NEW u \in Units
      PROVE  /\ IsFiniteSet(RecordsOf(p \o q, u))
             /\ Flag(r.units[u]) + Cardinality(RecordsOf(p \o q, u)) = Flag(t.units[u])
  <2>1. /\ IsFiniteSet(RecordsOf(p, u)) /\ IsFiniteSet(RecordsOf(q, u))
        /\ Flag(r.units[u]) + Cardinality(RecordsOf(p, u)) = Flag(s.units[u])
        /\ Flag(s.units[u]) + Cardinality(RecordsOf(q, u)) = Flag(t.units[u])
    BY DEF Follows
  <2>2. Flag(r.units[u]) \in {0, 1} /\ Flag(s.units[u]) \in {0, 1} /\ Flag(t.units[u]) \in {0, 1}
    BY DEF Flag
  <2>3. Cardinality(RecordsOf(p, u)) \in Nat /\ Cardinality(RecordsOf(q, u)) \in Nat
    BY <2>1, FS_CardinalityType
  <2>4. Cardinality(RecordsOf(p, u)) + Cardinality(RecordsOf(q, u)) <= 1
    BY <2>1, <2>2, <2>3
  <2>5. QED
    BY <1>1, <2>1, <2>2, <2>3, <2>4, RecordsConcatenated
<1>4. QED
  BY <1>1, <1>2, <1>3 DEF Follows

-----------------------------------------------------------------------------
(* Changes                                                                 *)

(* The mutations of a change to a unit that is there.                      *)
LEMMA ListedFields ==
  ASSUME NEW u \in Units, NEW x \in UnitStates, NEW y \in UnitStates,
         NEW fs \in Seq(UnitFields)
  PROVE  LET ms == Listed(ChangeOf(u, x, y, fs)) IN
         /\ IsList(ms) /\ DOMAIN ms = 1..Len(fs) /\ Len(fs) \in Nat
         /\ \A i \in 1..Len(fs) :
              fs[i] \in UnitFields /\ ms[i] = Mutation(u, fs[i], x[fs[i]], y[fs[i]])
         /\ Touched(ms) = IF fs = <<>> THEN {} ELSE {u}
<1> DEFINE c == ChangeOf(u, x, y, fs)
           ms == Listed(c)
<1>1. c.unit = u /\ c.before = x /\ c.after = y /\ c.fields = fs
  BY DEF ChangeOf
<1>2. DOMAIN fs = 1..Len(fs) /\ Len(fs) \in Nat /\ \A i \in 1..Len(fs) : fs[i] \in UnitFields
  OBVIOUS
<1>3. ms = [i \in 1..Len(fs) |-> Mutation(u, fs[i], x[fs[i]], y[fs[i]])]
  <2>1. \A i \in 1..Len(fs) :
          (LET f == c.fields[i] IN
           IF f \in UnitFields THEN Mutation(c.unit, f, c.before[f], c.after[f])
                               ELSE Mutation(c.unit, f, c.before, c.after))
            = Mutation(u, fs[i], x[fs[i]], y[fs[i]])
    BY <1>1, <1>2
  <2>2. ms = [i \in 1..Len(fs) |->
          (LET f == c.fields[i] IN
           IF f \in UnitFields THEN Mutation(c.unit, f, c.before[f], c.after[f])
                               ELSE Mutation(c.unit, f, c.before, c.after))]
    BY <1>1, <1>2 DEF Listed
  <2> HIDE DEF c
  <2>3. QED
    BY <2>1, <2>2
<1> HIDE DEF c, ms
<1>4. DOMAIN ms = 1..Len(fs) /\ \A i \in 1..Len(fs) : ms[i] = Mutation(u, fs[i], x[fs[i]], y[fs[i]])
  BY <1>3
<1>5. ms \in Seq(Range(ms))
  <2>1. ms \in [1..Len(fs) -> Range(ms)]
    BY <1>3, <1>4 DEF Range
  <2>2. QED
    BY <1>2, <2>1, SeqDef
<1>6. IsPlan(ms)
  BY <1>2, <1>4 DEF IsPlan, Mutation, UnitFields
<1>7. Touched(ms) = IF fs = <<>> THEN {} ELSE {u}
  <2>1. \A i \in DOMAIN ms : ms[i].unit = u
    BY <1>4 DEF Mutation
  <2>2. u # NoUnit
    BY UnitsAssumption
  <2>3. fs = <<>> <=> Len(fs) = 0
    OBVIOUS
  <2>4. fs # <<>> => 1 \in DOMAIN ms
    BY <1>2, <1>4, <2>3
  <2>5. fs = <<>> => DOMAIN ms = {}
    BY <1>4, <2>3
  <2>6. QED
    BY <2>1, <2>2, <2>4, <2>5 DEF Touched
<1>8. QED
  BY <1>2, <1>4, <1>5, <1>6, <1>7 DEF ms, c, IsList

(* What it means that they fit: the fields written still hold their values.*)
LEMMA FittingFields ==
  ASSUME NEW s, NEW u \in Units, NEW x \in UnitStates, NEW y \in UnitStates,
         NEW fs \in Seq(UnitFields), Fits(s, ChangeOf(u, x, y, fs))
  PROVE  \A i \in 1..Len(fs) : s.units[u] # Absent /\ s.units[u][fs[i]] = x[fs[i]]
<1> SUFFICES ASSUME NEW i \in 1..Len(fs)
             PROVE  s.units[u] # Absent /\ s.units[u][fs[i]] = x[fs[i]]
  OBVIOUS
<1> DEFINE m == Mutation(u, fs[i], x[fs[i]], y[fs[i]])
<1>1. Listed(ChangeOf(u, x, y, fs))[i] = m /\ fs[i] \in UnitFields
  BY ListedFields
<1>2. Accepts(s, m)
  BY <1>1 DEF Fits, ChangeOf
<1>3. fs[i] # "other" /\ fs[i] # "unit"
  BY <1>1 DEF UnitFields
<1>4. m.unit = u /\ m.field = fs[i] /\ m.before = x[fs[i]]
  BY DEF Mutation
<1> HIDE DEF m
<1>5. Read(s, m) = s.units[u][fs[i]]
  BY <1>3, <1>4 DEF Read
<1>6. QED
  BY <1>1, <1>2, <1>4, <1>5 DEF Accepts

(* A change to a unit that is there leads to the state it is applied to.   *)
LEMMA UnitChangeFollows ==
  ASSUME NEW s, Sane(s), NEW u \in Units, s.units[u] # Absent,
         NEW x \in UnitStates, NEW y \in UnitStates, NEW fs \in Seq(UnitFields),
         Plain(Merged(s.units[u], y, fs)),
         IsFiniteSet(RecordsOf(Listed(ChangeOf(u, x, y, fs)), u)),
         Flag(s.units[u]) + Cardinality(RecordsOf(Listed(ChangeOf(u, x, y, fs)), u))
           = Flag(Merged(s.units[u], y, fs))
  PROVE  Follows(Listed(ChangeOf(u, x, y, fs)), s, Applied(s, ChangeOf(u, x, y, fs)))
<1> DEFINE c == ChangeOf(u, x, y, fs)
           ms == Listed(c)
           z == Merged(s.units[u], y, fs)
           t == Applied(s, c)
<1>1. s \in States /\ s.units[u] \in UnitStates
  BY DEF Sane, States
<1>2. z \in UnitStates
  BY <1>1 DEF Merged, UnitStates
<1>3. t = [s EXCEPT !.units[u] = z]
  <2>1. u # NoUnit /\ x # Absent
    BY UnitsAssumption, AbsentAssumption
  <2>2. QED
    BY <2>1 DEF Applied, ChangeOf
<1>4. IsList(ms) /\ Touched(ms) = IF fs = <<>> THEN {} ELSE {u}
  BY ListedFields
<1>5. fs = <<>> => z = s.units[u]
  <2>1. fs = <<>> => Range(fs) = {}
    BY DEF Range
  <2>2. QED
    BY <1>1, <2>1 DEF Merged, UnitStates
<1>6. \A v \in Units : v # u => RecordsOf(ms, v) = {}
  <2>1. DOMAIN ms = 1..Len(fs) /\ \A i \in 1..Len(fs) : ms[i] = Mutation(u, fs[i], x[fs[i]], y[fs[i]])
    BY ListedFields
  <2> HIDE DEF ms
  <2>2. \A i \in DOMAIN ms : ms[i].unit = u
    BY <2>1 DEF Mutation
  <2>3. QED
    BY <2>2 DEF RecordsOf
<1> HIDE DEF c, ms, z, t
<1>7. t \in States /\ t.units[u] = z /\ \A v \in Units : v # u => t.units[v] = s.units[v]
  BY <1>1, <1>2, <1>3 DEF States
<1>8. z # Absent
  BY <1>2, AbsentAssumption
<1>9. Sane(t)
  BY <1>7 DEF Sane, z
<1>10. \A v \in Units \ Touched(ms) : t.units[v] = s.units[v]
  BY <1>4, <1>5, <1>7
<1>11. ASSUME NEW v \in Units
       PROVE  /\ IsFiniteSet(RecordsOf(ms, v))
              /\ Flag(s.units[v]) + Cardinality(RecordsOf(ms, v)) = Flag(t.units[v])
  <2>1. CASE v = u
    BY <1>7, <2>1 DEF ms, c, z
  <2>2. CASE v # u
    <3>1. Flag(s.units[v]) \in {0, 1}
      BY DEF Flag
    <3>2. IsFiniteSet(RecordsOf(ms, v)) /\ Cardinality(RecordsOf(ms, v)) = 0
      BY <1>6, <2>2, FS_EmptySet
    <3>3. QED
      BY <1>7, <2>2, <3>1, <3>2
  <2>3. QED
    BY <2>1, <2>2
<1>12. Follows(ms, s, t)
  BY <1>4, <1>7, <1>8, <1>9, <1>10, <1>11 DEF Follows
<1>13. QED
  BY <1>12 DEF ms, c, t

(* The defeat records among the mutations of a change.                     *)
LEMMA RecordsListed ==
  ASSUME NEW u \in Units, NEW x \in UnitStates, NEW y \in UnitStates,
         NEW fs \in Seq(UnitFields)
  PROVE  LET rs == RecordsOf(Listed(ChangeOf(u, x, y, fs)), u) IN
         rs = {i \in 1..Len(fs) : fs[i] = "defeat_record"}
<1> DEFINE ms == Listed(ChangeOf(u, x, y, fs))
<1>1. DOMAIN ms = 1..Len(fs) /\ \A i \in 1..Len(fs) : ms[i] = Mutation(u, fs[i], x[fs[i]], y[fs[i]])
  BY ListedFields
<1> HIDE DEF ms
<1>2. \A i \in 1..Len(fs) : ms[i].unit = u /\ ms[i].field = fs[i]
  BY <1>1 DEF Mutation
<1>3. RecordsOf(ms, u) = {i \in 1..Len(fs) : fs[i] = "defeat_record"}
  BY <1>1, <1>2 DEF RecordsOf
<1>4. QED
  BY <1>3 DEF ms

(* The three lists of fields a hit can write.                              *)
LEMMA FieldLists ==
  LET whole == <<"hp", "lifecycle_status", "defeat_record">> IN
  /\ <<>> \in Seq(UnitFields) /\ <<"hp">> \in Seq(UnitFields) /\ whole \in Seq(UnitFields)
  /\ <<>> \o <<>> \o <<>> = <<>>
  /\ <<"hp">> \o <<>> \o <<>> = <<"hp">>
  /\ <<"hp">> \o <<"lifecycle_status">> \o <<"defeat_record">> = whole
<1> DEFINE a == <<"hp">>
           b == <<"lifecycle_status">>
           d == <<"defeat_record">>
           whole == <<"hp", "lifecycle_status", "defeat_record">>
<1>1. a \in Seq(UnitFields) /\ b \in Seq(UnitFields) /\ d \in Seq(UnitFields)
  BY DEF UnitFields
<1>2. whole \in Seq(UnitFields) /\ Len(whole) = 3
  BY DEF UnitFields
<1>3. whole[1] = "hp" /\ whole[2] = "lifecycle_status" /\ whole[3] = "defeat_record"
  OBVIOUS
<1>4. Len(a) = 1 /\ Len(b) = 1 /\ Len(d) = 1
  OBVIOUS
<1>5. a[1] = "hp" /\ b[1] = "lifecycle_status" /\ d[1] = "defeat_record"
  OBVIOUS
<1> HIDE DEF a, b, d, whole
<1>6. a \o <<>> = a /\ <<>> \o <<>> = <<>>
  BY <1>1, ConcatEmptySeq
<1>7. /\ a \o b \in Seq(UnitFields) /\ Len(a \o b) = 2
      /\ (a \o b)[1] = "hp" /\ (a \o b)[2] = "lifecycle_status"
  BY <1>1, <1>4, <1>5, ConcatProperties
<1> DEFINE e == a \o b
<1> HIDE DEF e
<1>8. /\ e \o d \in Seq(UnitFields) /\ Len(e \o d) = 3
      /\ (e \o d)[1] = "hp" /\ (e \o d)[2] = "lifecycle_status" /\ (e \o d)[3] = "defeat_record"
  <2>1. e \in Seq(UnitFields) /\ Len(e) = 2 /\ e[1] = "hp" /\ e[2] = "lifecycle_status"
    BY <1>7 DEF e
  <2>2. QED
    BY <1>1, <1>4, <1>5, <2>1, ConcatProperties
<1>9. e \o d = whole
  <2>1. \A i \in 1..3 : i = 1 \/ i = 2 \/ i = 3
    OBVIOUS
  <2>2. \A i \in 1..Len(e \o d) : (e \o d)[i] = whole[i]
    BY <1>3, <1>8, <2>1
  <2>3. QED
    BY <1>2, <1>8, <2>2, SeqEqual
<1>10. QED
  BY <1>1, <1>2, <1>6, <1>9 DEF a, b, d, e, whole

(* Which fields a hit writes.                                              *)
LEMMA HitFields ==
  ASSUME NEW u \in Units, NEW x \in UnitStates, NEW n \in Nat,
         Hittable(x), Plain(x)
  PROVE  \E y \in UnitStates, fs \in Seq(UnitFields) :
           /\ Hit(u, x, n) = ChangeOf(u, x, y, fs)
           /\ \/ fs = <<>>
              \/ fs = <<"hp">> /\ y.hp > 0
              \/ /\ fs = <<"hp", "lifecycle_status", "defeat_record">>
                 /\ y.hp = 0 /\ y.lifecycle_status = "defeated" /\ y.defeat_record
<1> DEFINE left == IF x.hp > n THEN x.hp - n ELSE 0
           y == [x EXCEPT !.hp = left,
                          !.lifecycle_status = IF left = 0 THEN "defeated" ELSE @,
                          !.defeat_record = @ \/ left = 0]
           fs == When(left # x.hp, "hp") \o When(left = 0, "lifecycle_status")
                                         \o When(left = 0, "defeat_record")
<1>1. x.lifecycle_status = "active" /\ x.hp \in Nat /\ x.hp > 0 /\ x.defeat_record = FALSE
  BY DEF Hittable, Plain, UnitStates
<1>2. left \in Nat
  BY <1>1
<1> HIDE DEF left
<1>3. y \in UnitStates /\ y.hp = left /\ (left = 0 => y.lifecycle_status = "defeated" /\ y.defeat_record)
  BY <1>2 DEF UnitStates
<1>4. Hit(u, x, n) = ChangeOf(u, x, y, fs)
  BY <1>1 DEF Hit, left
<1>5. CASE left = x.hp
  <2>1. fs = <<>>
    BY <1>1, <1>5, FieldLists DEF When
  <2> HIDE DEF fs
  <2>2. fs \in Seq(UnitFields)
    BY <2>1, FieldLists
  <2>3. QED
    BY <1>3, <1>4, <2>1, <2>2
<1>6. CASE left # x.hp /\ left # 0
  <2>1. fs = <<"hp">>
    BY <1>6, FieldLists DEF When
  <2> HIDE DEF fs
  <2>2. fs \in Seq(UnitFields)
    BY <2>1, FieldLists
  <2>3. y.hp > 0
    BY <1>2, <1>3, <1>6
  <2>4. QED
    BY <1>3, <1>4, <2>1, <2>2, <2>3
<1>7. CASE left = 0
  <2>1. fs = <<"hp", "lifecycle_status", "defeat_record">>
    BY <1>1, <1>7, FieldLists DEF When
  <2> HIDE DEF fs
  <2>2. fs \in Seq(UnitFields)
    BY <2>1, FieldLists
  <2>3. QED
    BY <1>3, <1>4, <1>7, <2>1, <2>2
<1>8. QED
  BY <1>1, <1>5, <1>6, <1>7

(* A change that writes no defeat record.                                  *)
LEMMA QuietChangeFollows ==
  ASSUME NEW s, Sane(s), NEW u \in Units, s.units[u] # Absent,
         NEW x \in UnitStates, NEW y \in UnitStates, NEW fs \in Seq(UnitFields),
         "defeat_record" \notin Range(fs),
         Plain(Merged(s.units[u], y, fs))
  PROVE  Follows(Listed(ChangeOf(u, x, y, fs)), s, Applied(s, ChangeOf(u, x, y, fs)))
<1> DEFINE v == s.units[u]
           z == Merged(v, y, fs)
           rs == RecordsOf(Listed(ChangeOf(u, x, y, fs)), u)
<1>1. v \in UnitStates /\ v # Absent
  BY DEF Sane, States
<1>2. rs = {}
  <2>1. rs = {i \in 1..Len(fs) : fs[i] = "defeat_record"}
    BY RecordsListed
  <2>2. \A i \in 1..Len(fs) : fs[i] # "defeat_record"
    BY DEF Range
  <2> HIDE DEF rs
  <2>3. QED
    BY <2>1, <2>2
<1>3. IsFiniteSet(rs) /\ Cardinality(rs) = 0
  BY <1>2, FS_EmptySet
<1>4. z \in UnitStates /\ z.defeat_record = v.defeat_record
  BY <1>1 DEF Merged, UnitStates
<1>5. z # Absent
  BY <1>4, AbsentAssumption
<1>6. Flag(v) \in {0, 1}
  BY DEF Flag
<1> HIDE DEF rs, z, v
<1>7. Flag(v) + Cardinality(rs) = Flag(z)
  <2>1. Flag(z) = Flag(v)
    BY <1>1, <1>4, <1>5 DEF Flag
  <2>2. QED
    BY <1>3, <1>6, <2>1
<1>8. QED
  BY <1>3, <1>7, UnitChangeFollows DEF rs, z, v

(* A hit planned from state h and applied to state s.                      *)
LEMMA HitFollows ==
  ASSUME NEW s, Sane(s), NEW u \in Units, s.units[u] # Absent,
         NEW x \in UnitStates, Hittable(x), Plain(x), NEW n \in Nat,
         Fits(s, Hit(u, x, n))
  PROVE  Follows(Listed(Hit(u, x, n)), s, Applied(s, Hit(u, x, n)))
<1>1. PICK y \in UnitStates, fs \in Seq(UnitFields) :
        /\ Hit(u, x, n) = ChangeOf(u, x, y, fs)
        /\ \/ fs = <<>>
           \/ fs = <<"hp">> /\ y.hp > 0
           \/ /\ fs = <<"hp", "lifecycle_status", "defeat_record">>
              /\ y.hp = 0 /\ y.lifecycle_status = "defeated" /\ y.defeat_record
  BY HitFields
<1> DEFINE v == s.units[u]
           z == Merged(v, y, fs)
           rs == RecordsOf(Listed(ChangeOf(u, x, y, fs)), u)
<1>2. v \in UnitStates /\ Plain(v)
  BY DEF Sane, States
<1>3. rs = {i \in 1..Len(fs) : fs[i] = "defeat_record"}
  BY RecordsListed
<1>4. \A i \in 1..Len(fs) : v[fs[i]] = x[fs[i]]
  BY <1>1, FittingFields
<1>5. Flag(v) \in {0, 1} /\ Flag(v) = IF v.defeat_record THEN 1 ELSE 0
  BY DEF Flag
<1>6. z \in UnitStates /\ z # Absent
  <2>1. z \in UnitStates
    BY <1>2 DEF Merged, UnitStates
  <2>2. QED
    BY <2>1, AbsentAssumption
<1>7. CASE fs = <<>>
  <2>1. Range(fs) = {}
    BY <1>7 DEF Range
  <2>2. z = v
    BY <1>2, <2>1 DEF Merged, UnitStates
  <2>3. QED
    BY <1>1, <1>2, <2>1, <2>2, QuietChangeFollows
<1>8. CASE fs = <<"hp">> /\ y.hp > 0
  <2>1. Range(fs) = {"hp"}
    BY <1>8 DEF Range
  <2>2. z.hp = y.hp /\ z.lifecycle_status = v.lifecycle_status /\ z.defeat_record = v.defeat_record
    BY <2>1 DEF Merged
  <2> HIDE DEF z, v
  <2>3. Plain(z)
    BY <1>2, <1>8, <2>2 DEF Plain
  <2>4. QED
    BY <1>1, <2>1, <2>3, QuietChangeFollows DEF z, v
<1>9. CASE /\ fs = <<"hp", "lifecycle_status", "defeat_record">>
            /\ y.hp = 0 /\ y.lifecycle_status = "defeated" /\ y.defeat_record
  <2>1. Range(fs) = {"hp", "lifecycle_status", "defeat_record"} /\ Len(fs) = 3
    BY <1>9 DEF Range
  <2>2. rs = {3}
    <3>1. \A i \in 1..3 : fs[i] = "defeat_record" <=> i = 3
      BY <1>9
    <3>2. QED
      BY <1>3, <2>1, <3>1
  <2>3. IsFiniteSet(rs) /\ Cardinality(rs) = 1
    BY <2>2, FS_Singleton
  <2>4. z.lifecycle_status = "defeated" /\ z.defeat_record
    BY <1>9, <2>1 DEF Merged
  <2>5. v.defeat_record = x.defeat_record
    BY <1>4, <1>9, <2>1
  <2>6. x.defeat_record = FALSE
    BY DEF Plain, Hittable, UnitStates
  <2> HIDE DEF rs, z, v
  <2>7. Plain(z)
    BY <2>4 DEF Plain
  <2>8. Flag(v) + Cardinality(rs) = Flag(z)
    BY <1>5, <1>6, <2>3, <2>4, <2>5, <2>6 DEF Flag
  <2>9. QED
    BY <1>1, <2>3, <2>7, <2>8, UnitChangeFollows DEF rs, z, v
<1>10. QED
  BY <1>1, <1>7, <1>8, <1>9

(* A heal, which may reach a unit that was defeated.                       *)
LEMMA HealFollows ==
  ASSUME NEW s, Sane(s), NEW u \in Units, s.units[u] # Absent,
         NEW x \in UnitStates, Plain(x), NEW y \in UnitStates, x.hp > 0 => y.hp > 0,
         Fits(s, ChangeOf(u, x, y, <<"hp">>))
  PROVE  Follows(Listed(ChangeOf(u, x, y, <<"hp">>)), s, Applied(s, ChangeOf(u, x, y, <<"hp">>)))
<1> DEFINE fs == <<"hp">>
           v == s.units[u]
           z == Merged(v, y, fs)
<1>1. v \in UnitStates /\ Plain(v)
  BY DEF Sane, States
<1>2. fs \in Seq(UnitFields) /\ Len(fs) = 1 /\ fs[1] = "hp" /\ Range(fs) = {"hp"}
  BY DEF UnitFields, Range
<1>3. Fits(s, ChangeOf(u, x, y, fs))
  OBVIOUS
<1> HIDE DEF fs
<1>4. v.hp = x.hp
  BY <1>2, <1>3, FittingFields
<1>5. z.hp = y.hp /\ z.lifecycle_status = v.lifecycle_status /\ z.defeat_record = v.defeat_record
  BY <1>2 DEF Merged
<1> HIDE DEF z, v
<1>6. Plain(z)
  BY <1>1, <1>4, <1>5 DEF Plain
<1>7. Follows(Listed(ChangeOf(u, x, y, fs)), s, Applied(s, ChangeOf(u, x, y, fs)))
  BY <1>2, <1>6, QuietChangeFollows DEF z, v
<1>8. QED
  BY <1>7 DEF fs

(* A removal, of an active or a defeated unit.                             *)
LEMMA RemovalFollows ==
  ASSUME NEW s, Sane(s), NEW u \in Units, s.units[u] # Absent,
         NEW x \in UnitStates, NEW y \in UnitStates, y.lifecycle_status = "removed"
  PROVE  LET c == ChangeOf(u, x, y, <<"lifecycle_status", "removed_record">>) IN
         Follows(Listed(c), s, Applied(s, c))
<1> DEFINE fs == <<"lifecycle_status", "removed_record">>
           z == Merged(s.units[u], y, fs)
<1>1. fs \in Seq(UnitFields) /\ Range(fs) = {"lifecycle_status", "removed_record"}
  BY DEF UnitFields, Range
<1> HIDE DEF fs
<1>2. z.lifecycle_status = "removed"
  BY <1>1 DEF Merged
<1>3. Plain(z)
  BY <1>2 DEF Plain
<1>4. Follows(Listed(ChangeOf(u, x, y, fs)), s, Applied(s, ChangeOf(u, x, y, fs)))
  BY <1>1, <1>3, QuietChangeFollows
<1>5. QED
  BY <1>4 DEF fs

(* A unit enters.                                                          *)
LEMMA SpawnFollows ==
  ASSUME NEW s, Sane(s), NEW u \in Units,
         Fits(s, ChangeOf(u, Absent, Newborn(u), <<"unit">>))
  PROVE  LET c == ChangeOf(u, Absent, Newborn(u), <<"unit">>) IN
         Follows(Listed(c), s, Applied(s, c))
<1> DEFINE c == ChangeOf(u, Absent, Newborn(u), <<"unit">>)
           ms == Listed(c)
           m == Mutation(u, "unit", Absent, Newborn(u))
           t == Applied(s, c)
<1>1. c.unit = u /\ c.before = Absent /\ c.after = Newborn(u) /\ c.fields = <<"unit">>
  BY DEF ChangeOf
<1>2. ms = <<m>>
  BY <1>1 DEF Listed, UnitFields
<1>3. m.unit = u /\ m.field = "unit" /\ m.before = Absent
  BY DEF Mutation
<1>4. u # NoUnit /\ MaxHp[u] \in Nat \ {0}
  BY UnitsAssumption
<1>5. Newborn(u) \in UnitStates /\ Newborn(u).defeat_record = FALSE /\ Plain(Newborn(u))
  BY <1>4 DEF Newborn, UnitStates, Plain
<1>6. Newborn(u) # Absent
  BY <1>5, AbsentAssumption
<1>7. t = [s EXCEPT !.units[u] = Newborn(u)]
  BY <1>1, <1>4 DEF Applied
<1>8. Accepts(s, m)
  <2>1. Accepts(s, ms[1])
    BY <1>1 DEF Fits
  <2>2. QED
    BY <1>2, <2>1
<1>9. s \in States
  BY DEF Sane
<1> HIDE DEF c, ms, m, t
<1>10. s.units[u] = Absent
  BY <1>3, <1>8 DEF Accepts, Read
<1>11. t \in States /\ t.units[u] = Newborn(u) /\ \A v \in Units : v # u => t.units[v] = s.units[v]
  BY <1>5, <1>7, <1>9 DEF States
<1>12. Sane(t)
  BY <1>5, <1>11 DEF Sane
<1>13. IsList(ms)
  <2>1. Range(ms) = {m}
    BY <1>2 DEF Range
  <2>2. IsPlan(ms)
    BY <1>2, <1>3 DEF IsPlan, UnitFields
  <2>3. QED
    BY <1>2, <2>1, <2>2 DEF IsList
<1>14. Touched(ms) = {u}
  BY <1>2, <1>3, <1>4 DEF Touched
<1>15. \A v \in Units : RecordsOf(ms, v) = {}
  BY <1>2, <1>3 DEF RecordsOf
<1>16. ASSUME NEW v \in Units
       PROVE  /\ IsFiniteSet(RecordsOf(ms, v))
              /\ Flag(s.units[v]) + Cardinality(RecordsOf(ms, v)) = Flag(t.units[v])
  <2>1. IsFiniteSet(RecordsOf(ms, v)) /\ Cardinality(RecordsOf(ms, v)) = 0
    BY <1>15, FS_EmptySet
  <2>2. Flag(s.units[v]) \in {0, 1}
    BY DEF Flag
  <2>3. Flag(t.units[v]) = Flag(s.units[v])
    <3>1. CASE v = u
      BY <1>5, <1>10, <1>11, <3>1 DEF Flag
    <3>2. CASE v # u
      BY <1>11, <3>2
    <3>3. QED
      BY <3>1, <3>2
  <2>4. QED
    BY <2>1, <2>2, <2>3
<1>17. Follows(ms, s, t)
  BY <1>6, <1>11, <1>12, <1>13, <1>14, <1>16 DEF Follows
<1>18. QED
  BY <1>17 DEF ms, c, t

(* A write outside the units.                                              *)
LEMMA OtherFollows ==
  ASSUME NEW s, Sane(s), NEW h, Sane(h)
  PROVE  LET c == ChangeOf(NoUnit, h.other, ~h.other, <<"other">>) IN
         Follows(Listed(c), s, Applied(s, c))
<1> DEFINE c == ChangeOf(NoUnit, h.other, ~h.other, <<"other">>)
           ms == Listed(c)
           m == Mutation(NoUnit, "other", h.other, ~h.other)
           t == Applied(s, c)
<1>1. c.unit = NoUnit /\ c.before = h.other /\ c.after = ~h.other /\ c.fields = <<"other">>
  BY DEF ChangeOf
<1>2. ms = <<m>>
  BY <1>1 DEF Listed, UnitFields
<1>3. m.unit = NoUnit /\ m.field = "other"
  BY DEF Mutation
<1>4. t = [s EXCEPT !.other = ~h.other]
  BY <1>1 DEF Applied
<1>5. s \in States /\ (~h.other) \in BOOLEAN
  BY DEF Sane
<1> HIDE DEF c, ms, m, t
<1>6. t \in States /\ t.units = s.units
  BY <1>4, <1>5 DEF States
<1>7. Sane(t)
  BY <1>6 DEF Sane
<1>8. IsList(ms)
  <2>1. Range(ms) = {m}
    BY <1>2 DEF Range
  <2>2. IsPlan(ms)
    BY <1>2, <1>3 DEF IsPlan, UnitFields
  <2>3. QED
    BY <1>2, <2>1, <2>2 DEF IsList
<1>9. \A v \in Units : RecordsOf(ms, v) = {}
  BY <1>2, <1>3 DEF RecordsOf
<1>10. \A v \in Units : IsFiniteSet(RecordsOf(ms, v)) /\ Cardinality(RecordsOf(ms, v)) = 0
  BY <1>9, FS_EmptySet
<1>11. \A v \in Units : Flag(s.units[v]) \in {0, 1}
  BY DEF Flag
<1>12. \A v \in Units : Flag(s.units[v]) + Cardinality(RecordsOf(ms, v)) = Flag(t.units[v])
  BY <1>6, <1>10, <1>11
<1>13. Follows(ms, s, t)
  BY <1>6, <1>7, <1>8, <1>10, <1>12 DEF Follows
<1>14. QED
  BY <1>13 DEF ms, c, t

(* What any producer plans from h, where no unit has vanished since.       *)
LEMMA ProducedFollows ==
  ASSUME NEW s, Sane(s), NEW h, Sane(h),
         \A u \in Units : h.units[u] # Absent => s.units[u] # Absent,
         NEW c \in Producible(h), Fits(s, c)
  PROVE  Follows(Listed(c), s, Applied(s, c))
<1>1. ASSUME NEW u \in Units, h.units[u] # Absent
      PROVE  h.units[u] \in UnitStates /\ Plain(h.units[u]) /\ s.units[u] # Absent
  BY <1>1 DEF Sane, States
<1>2. CASE c \in DamageChanges(h)
  <2>1. PICK u \in Units, n \in Amounts : Hittable(h.units[u]) /\ c = Hit(u, h.units[u], n)
    BY <1>2 DEF DamageChanges
  <2>2. h.units[u] # Absent /\ n \in Nat
    BY <2>1, BoundsAssumption DEF Hittable
  <2>3. QED
    BY <1>1, <2>1, <2>2, HitFollows
<1>3. CASE c \in HealChanges(h)
  <2>1. PICK u \in Units, n \in Amounts :
          /\ h.units[u] # Absent
          /\ c = ChangeOf(u, h.units[u],
                    [h.units[u] EXCEPT !.hp = IF h.units[u].hp + n >= MaxHp[u] THEN MaxHp[u] ELSE @ + n],
                    <<"hp">>)
    BY <1>3 DEF HealChanges
  <2> DEFINE x == h.units[u]
             y == [x EXCEPT !.hp = IF x.hp + n >= MaxHp[u] THEN MaxHp[u] ELSE @ + n]
  <2>2. x \in UnitStates /\ Plain(x) /\ s.units[u] # Absent
    BY <1>1, <2>1
  <2>3. MaxHp[u] \in Nat /\ MaxHp[u] > 0 /\ n \in Nat
    BY UnitsAssumption, BoundsAssumption
  <2>4. c = ChangeOf(u, x, y, <<"hp">>)
    BY <2>1
  <2> HIDE DEF x
  <2>5. y \in UnitStates /\ (x.hp > 0 => y.hp > 0)
    BY <2>2, <2>3 DEF UnitStates
  <2> HIDE DEF y
  <2>6. QED
    BY <2>2, <2>4, <2>5, HealFollows
<1>4. CASE c \in RemoveChanges(h)
  <2>1. PICK u \in Units :
          /\ h.units[u] # Absent
          /\ c = ChangeOf(u, h.units[u],
                    [h.units[u] EXCEPT !.lifecycle_status = "removed", !.removed_record = TRUE],
                    <<"lifecycle_status", "removed_record">>)
    BY <1>4 DEF RemoveChanges
  <2> DEFINE x == h.units[u]
             y == [x EXCEPT !.lifecycle_status = "removed", !.removed_record = TRUE]
  <2>2. x \in UnitStates /\ s.units[u] # Absent
    BY <1>1, <2>1
  <2>3. c = ChangeOf(u, x, y, <<"lifecycle_status", "removed_record">>)
    BY <2>1
  <2> HIDE DEF x
  <2>4. y \in UnitStates /\ y.lifecycle_status = "removed"
    BY <2>2 DEF UnitStates
  <2> HIDE DEF y
  <2>5. QED
    BY <2>2, <2>3, <2>4, RemovalFollows
<1>5. CASE c \in SpawnChanges(h)
  BY <1>5, SpawnFollows DEF SpawnChanges
<1>6. CASE c \in OtherChanges(h)
  BY <1>6, OtherFollows DEF OtherChanges
<1>7. QED
  BY <1>2, <1>3, <1>4, <1>5, <1>6 DEF Producible

-----------------------------------------------------------------------------
(* The invariant                                                           *)

(* A list of mutations and a state it leads to have their types.           *)
LEMMA FollowsTypes ==
  ASSUME NEW ms, NEW s, NEW t, Follows(ms, s, t)
  PROVE  IsPlan(ms) /\ t \in States /\ Sane(t)
BY DEF Follows, IsList, Sane

LEMMA InitHolds == Init => IInv
<1> SUFFICES ASSUME Init PROVE IInv
  OBVIOUS
<1>1. \A u \in Units : Newborn(u) \in UnitStates /\ Plain(Newborn(u)) /\ Whole(u, Newborn(u))
                        /\ ~Newborn(u).defeat_record
  BY UnitsAssumption DEF Newborn, UnitStates, Plain, Whole
<1>2. Sane(published)
  <2>1. published \in States
    BY BoundsAssumption DEF Init, States
  <2>2. QED
    BY <1>1, <2>1, BoundsAssumption DEF Init, Sane
<1>3. WholeState(published)
  BY <1>1, BoundsAssumption DEF Init, WholeState
<1>4. \A u \in Units : credited[u] = Flag(published.units[u])
  BY <1>1, BoundsAssumption DEF Init, Flag
<1>5. Follows(stepMutations, published, settled) /\ Follows(planned, settled, candidate)
  BY <1>2, NothingFollows DEF Init
<1>6. TypeOK
  BY <1>2, <1>5, FollowsTypes, BoundsAssumption DEF Init, TypeOK
<1>7. QED
  BY <1>2, <1>3, <1>4, <1>5, <1>6 DEF IInv, Init, GraphsAreClosed

LEMMA ProduceKeeps == IInv /\ Produce => IInv'
<1> SUFFICES ASSUME IInv, Produce PROVE IInv'
  OBVIOUS
<1>1. /\ Sane(settled) /\ Sane(candidate)
      /\ \A u \in Units : settled.units[u] # Absent => candidate.units[u] # Absent
  BY DEF IInv, Follows
<1>2. PICK h \in {candidate, settled} : \E c \in Producible(h) :
        Fits(candidate, c) /\ candidate' = Applied(candidate, c) /\ planned' = planned \o Listed(c)
  BY DEF Produce
<1>3. PICK c \in Producible(h) :
        Fits(candidate, c) /\ candidate' = Applied(candidate, c) /\ planned' = planned \o Listed(c)
  BY <1>2
<1>4. Follows(Listed(c), candidate, candidate')
  BY <1>1, <1>3, ProducedFollows
<1>5. Follows(planned', settled, candidate')
  BY <1>3, <1>4, FollowsOn DEF IInv
<1>6. /\ stage' = stage /\ complete' = complete /\ frame' = frame /\ settled' = settled
      /\ stepMutations' = stepMutations /\ stepComplete' = stepComplete /\ graphs' = graphs
      /\ published' = published /\ returned' = returned /\ credited' = credited
      /\ stage = "planning" /\ budget' = budget - 1 /\ budget > 0
  BY DEF Produce, stepVars, outerVars
<1>7. TypeOK'
  BY <1>5, <1>6, FollowsTypes DEF IInv, TypeOK
<1>8. GraphsAreClosed'
  BY <1>6 DEF IInv, GraphsAreClosed
<1>9. QED
  BY <1>5, <1>6, <1>7, <1>8 DEF IInv, WholeState

LEMMA DispatchKeeps == IInv /\ (BeginDispatch \/ EndDispatch \/ NodeFails) => IInv'
<1> SUFFICES ASSUME IInv, BeginDispatch \/ EndDispatch \/ NodeFails PROVE IInv'
  OBVIOUS
<1>1. /\ stage' = stage /\ settled' = settled /\ budget' = budget
      /\ stepMutations' = stepMutations /\ stepComplete' = stepComplete /\ graphs' = graphs
      /\ published' = published /\ returned' = returned /\ credited' = credited
      /\ stage = "planning" /\ complete' \in BOOLEAN
  BY DEF BeginDispatch, EndDispatch, NodeFails, stepVars, outerVars, IInv, TypeOK
<1>2. /\ Follows(planned', settled, candidate')
      /\ frame' # NoFrame => Follows(frame'.planned, settled, frame'.candidate)
  <2>1. CASE BeginDispatch
    BY <2>1 DEF BeginDispatch, IInv
  <2>2. CASE EndDispatch
    BY <2>2 DEF EndDispatch, IInv
  <2>3. CASE NodeFails
    BY <2>3 DEF NodeFails, RollBack, IInv
  <2>4. QED
    BY <2>1, <2>2, <2>3
<1>3. TypeOK'
  BY <1>1, <1>2, FollowsTypes DEF IInv, TypeOK
<1>4. GraphsAreClosed'
  BY <1>1 DEF IInv, GraphsAreClosed
<1>5. QED
  BY <1>1, <1>2, <1>3, <1>4 DEF IInv, WholeState

LEMMA CommitGraphKeeps == IInv /\ CommitGraph => IInv'
<1> SUFFICES ASSUME IInv, CommitGraph PROVE IInv'
  OBVIOUS
<1>1. /\ stage' = "between" /\ frame = NoFrame /\ frame' = frame /\ budget' = budget
      /\ published' = published /\ returned' = returned /\ credited' = credited
      /\ candidate' = settled' /\ planned' = <<>> /\ complete' = TRUE /\ graphs' = graphs + 1
      /\ stepComplete' \in BOOLEAN
  BY DEF CommitGraph, outerVars, IInv, TypeOK
<1>2. \/ settled' = candidate /\ stepMutations' = stepMutations \o planned
      \/ settled' = settled /\ stepMutations' = stepMutations
  BY DEF CommitGraph, AppendedToStep
<1>3. Follows(stepMutations', published, settled')
  BY <1>2, FollowsOn DEF IInv
<1>4. Follows(planned', settled', candidate')
  BY <1>1, <1>3, FollowsTypes, NothingFollows
<1>5. TypeOK'
  BY <1>1, <1>3, <1>4, FollowsTypes DEF IInv, TypeOK
<1>6. graphs \in Nat
  BY DEF IInv, TypeOK
<1>7. GraphsAreClosed'
  BY <1>1, <1>6 DEF GraphsAreClosed
<1>8. QED
  BY <1>1, <1>3, <1>4, <1>5, <1>7 DEF IInv, WholeState

LEMMA OwnWriteKeeps == IInv /\ OwnWrite => IInv'
<1> SUFFICES ASSUME IInv, OwnWrite PROVE IInv'
  OBVIOUS
<1>1. PICK c \in Producible(settled) :
        /\ Fits(settled, c) /\ settled' = Applied(settled, c)
        /\ stepMutations' = stepMutations \o Listed(c)
  BY DEF OwnWrite, AppendedToStep
<1>2. /\ stage = "between" /\ stage' = stage /\ frame' = frame /\ planned' = planned
      /\ published' = published /\ returned' = returned /\ credited' = credited
      /\ complete' = complete /\ stepComplete' = stepComplete /\ graphs' = graphs
      /\ candidate' = settled' /\ budget' = budget - 1 /\ budget > 0
  BY DEF OwnWrite, outerVars
<1>3. planned = <<>> /\ frame = NoFrame /\ graphs > 0
  BY <1>2 DEF IInv, GraphsAreClosed
<1>4. Sane(settled)
  BY FollowsTypes DEF IInv
<1>5. Follows(Listed(c), settled, settled')
  BY <1>1, <1>4, ProducedFollows
<1>6. Follows(stepMutations', published, settled')
  BY <1>1, <1>5, FollowsOn DEF IInv
<1>7. Follows(planned', settled', candidate')
  BY <1>2, <1>3, <1>6, FollowsTypes, NothingFollows
<1>8. TypeOK'
  BY <1>2, <1>3, <1>6, <1>7, FollowsTypes DEF IInv, TypeOK
<1>9. GraphsAreClosed'
  <2>1. graphs \in Nat
    BY DEF IInv, TypeOK
  <2>2. QED
    BY <1>2, <1>3, <2>1 DEF GraphsAreClosed
<1>10. QED
  BY <1>2, <1>3, <1>6, <1>7, <1>8, <1>9 DEF IInv, WholeState

LEMMA NextGraphKeeps == IInv /\ NextGraph => IInv'
<1> SUFFICES ASSUME IInv, NextGraph PROVE IInv'
  OBVIOUS
<1>1. /\ stage' = "planning"
      /\ UNCHANGED <<candidate, planned, complete, frame, settled, stepMutations, stepComplete,
                     graphs, published, returned, credited, budget>>
  BY DEF NextGraph, graphVars, stepVars, outerVars
<1>2. TypeOK' /\ GraphsAreClosed'
  BY <1>1 DEF IInv, TypeOK, IsPlan, GraphsAreClosed
<1>3. QED
  BY <1>1, <1>2 DEF IInv, WholeState

(* What passes a commit is whole: the units its list touches were examined,*)
(* the others are those of the state it started from, which was whole.     *)
LEMMA AdoptedIsWhole ==
  ASSUME NEW ms, NEW t, NEW done, IInv, Follows(ms, published, t), Adopt(Publishable(published, t, ms, done), t, ms)
  PROVE  /\ Sane(published') /\ WholeState(published') /\ credited' \in [Units -> Nat]
         /\ \A u \in Units : credited'[u] = Flag(published'.units[u])
<1>1. \A u \in Units : Flag(published.units[u]) \in {0, 1} /\ Flag(t.units[u]) \in {0, 1}
  BY DEF Flag
<1>2. CASE Publishable(published, t, ms, done)
  <2>1. published' = t /\ credited' = [u \in Units |-> credited[u] + Credits(ms)[u]]
    BY <1>2 DEF Adopt
  <2>2. ASSUME NEW u \in Units, t.units[u] # Absent
        PROVE  Whole(u, t.units[u])
    <3>1. CASE u \in Touched(ms)
      BY <1>2, <2>2, <3>1 DEF Publishable, IntegrityPassed
    <3>2. CASE u \notin Touched(ms)
      <4>1. t.units[u] = published.units[u]
        BY <3>2 DEF Follows
      <4>2. QED
        BY <2>2, <4>1 DEF IInv, WholeState
    <3>3. QED
      BY <3>1, <3>2
  <2>3. ASSUME NEW u \in Units
        PROVE  credited[u] + Credits(ms)[u] = Flag(t.units[u])
    <3>1. Credits(ms)[u] = Cardinality(RecordsOf(ms, u))
      BY DEF Credits, RecordsOf
    <3>2. credited[u] = Flag(published.units[u])
      BY DEF IInv
    <3>3. QED
      BY <3>1, <3>2 DEF Follows
  <2>4. credited' = [u \in Units |-> Flag(t.units[u])]
    BY <2>1, <2>3
  <2>5. credited' \in [Units -> Nat] /\ \A u \in Units : credited'[u] = Flag(t.units[u])
    BY <1>1, <2>4
  <2>6. QED
    BY <2>1, <2>2, <2>5, FollowsTypes DEF WholeState
<1>3. CASE ~Publishable(published, t, ms, done)
  <2>1. published' = published /\ credited' = credited
    BY <1>3 DEF Adopt
  <2>2. QED
    BY <2>1 DEF IInv, TypeOK, WholeState
<1>4. QED
  BY <1>2, <1>3

LEMMA NewCallKeeps ==
  ASSUME IInv, NewCall, Sane(published'), WholeState(published'), returned' \in States,
         credited' \in [Units -> Nat], \A u \in Units : credited'[u] = Flag(published'.units[u])
  PROVE  IInv'
<1>1. /\ stage' = "planning" /\ settled' = published' /\ candidate' = published'
      /\ planned' = <<>> /\ complete' = TRUE /\ frame' = NoFrame
      /\ stepMutations' = <<>> /\ stepComplete' = TRUE /\ graphs' = 0 /\ budget' = budget
  BY DEF NewCall
<1>2. Follows(stepMutations', published', settled') /\ Follows(planned', settled', candidate')
  BY <1>1, NothingFollows
<1>3. published' \in States
  BY DEF Sane
<1>4. TypeOK'
  BY <1>1, <1>2, <1>3, FollowsTypes DEF IInv, TypeOK
<1>5. GraphsAreClosed'
  BY <1>1 DEF GraphsAreClosed
<1>6. WholeState(published)'
  BY DEF WholeState
<1>7. QED
  BY <1>1, <1>2, <1>4, <1>5, <1>6 DEF IInv

LEMMA PublishKeeps == IInv /\ (PublishStep \/ PublishTurnBegin) => IInv'
<1>1. ASSUME IInv, PublishStep PROVE IInv'
  <2>1. /\ Adopt(Publishable(published, settled, stepMutations, stepComplete), settled, stepMutations)
        /\ returned' = published' /\ NewCall
    BY <1>1 DEF PublishStep
  <2>2. Follows(stepMutations, published, settled)
    BY <1>1 DEF IInv
  <2>3. /\ Sane(published') /\ WholeState(published') /\ credited' \in [Units -> Nat]
        /\ \A u \in Units : credited'[u] = Flag(published'.units[u])
    BY <1>1, <2>1, <2>2, AdoptedIsWhole
  <2>4. returned' \in States
    BY <2>1, <2>3 DEF Sane
  <2>5. QED
    BY <1>1, <2>1, <2>3, <2>4, NewCallKeeps
<1>2. ASSUME IInv, PublishTurnBegin PROVE IInv'
  <2>1. /\ Adopt(Publishable(published, candidate, planned, complete), candidate, planned)
        /\ returned' = candidate /\ NewCall /\ graphs = 0
    BY <1>2 DEF PublishTurnBegin
  <2>2. Follows(planned, published, candidate)
    BY <1>2, <2>1 DEF IInv, GraphsAreClosed
  <2>3. /\ Sane(published') /\ WholeState(published') /\ credited' \in [Units -> Nat]
        /\ \A u \in Units : credited'[u] = Flag(published'.units[u])
    BY <1>2, <2>1, <2>2, AdoptedIsWhole
  <2>4. returned' \in States
    BY <2>1, <2>2, FollowsTypes
  <2>5. QED
    BY <1>2, <2>1, <2>3, <2>4, NewCallKeeps
<1>3. QED
  BY <1>1, <1>2

-----------------------------------------------------------------------------
(* The theorems                                                            *)

(* The strengthened invariant: what has been planned leads from state to   *)
(* state unit by unit, at both levels of commit and behind a rollback.     *)
THEOREM CommitsInductive == Spec => []IInv
<1>1. Init => IInv
  BY InitHolds
<1>2. IInv /\ [Next]_vars => IInv'
  <2> SUFFICES ASSUME IInv, [Next]_vars PROVE IInv'
    OBVIOUS
  <2>1. CASE Produce
    BY <2>1, ProduceKeeps
  <2>2. CASE BeginDispatch \/ EndDispatch \/ NodeFails
    BY <2>2, DispatchKeeps
  <2>3. CASE CommitGraph
    BY <2>3, CommitGraphKeeps
  <2>4. CASE OwnWrite
    BY <2>4, OwnWriteKeeps
  <2>5. CASE NextGraph
    BY <2>5, NextGraphKeeps
  <2>6. CASE PublishStep \/ PublishTurnBegin
    BY <2>6, PublishKeeps
  <2>7. CASE UNCHANGED vars
    BY <2>7 DEF vars, graphVars, stepVars, outerVars, IInv, TypeOK, IsPlan, GraphsAreClosed, WholeState
  <2>8. QED
    BY <2>1, <2>2, <2>3, <2>4, <2>5, <2>6, <2>7 DEF Next
<1>3. QED
  BY <1>1, <1>2, PTL DEF Spec

(* States, plans and counters keep their types.                            *)
THEOREM CommitTypes == Spec => []TypeOK
<1>1. IInv => TypeOK
  BY DEF IInv
<1>2. QED
  BY <1>1, CommitsInductive, PTL

(* What the caller holds passes the integrity check of every unit, although*)
(* each commit examines only the units its mutations name.                 *)
THEOREM PublishedStaysWhole == Spec => []PublishedIsWhole
<1>1. IInv => PublishedIsWhole
  BY DEF IInv, PublishedIsWhole
<1>2. QED
  BY <1>1, CommitsInductive, PTL

(* A unit that fell and was not removed was credited once, one that did not*)
(* fall never, and none twice (credited in _combine_scheduler_transitions).*)
THEOREM KillsAreCreditedOnce == Spec => []Fates!FallenAreCredited
<1>1. ASSUME IInv PROVE Fates!FallenAreCredited
  <2> SUFFICES ASSUME NEW u \in Units
               PROVE  /\ Life(published.units[u]) \in {"absent", "active"} => credited[u] = 0
                      /\ Life(published.units[u]) = "defeated" => credited[u] = 1
                      /\ credited[u] <= 1
    BY DEF Fates!FallenAreCredited
  <2>1. credited[u] = Flag(published.units[u])
    BY <1>1 DEF IInv
  <2>2. CASE published.units[u] = Absent
    BY <2>1, <2>2 DEF Flag, Life
  <2>3. CASE published.units[u] # Absent
    <3>1. Plain(published.units[u]) /\ published.units[u] \in UnitStates
      BY <1>1, <2>3 DEF IInv, Sane, States
    <3> QED BY <2>1, <2>3, <3>1 DEF Plain, Flag, Life, UnitStates
  <2> QED BY <2>2, <2>3
<1> QED BY <1>1, CommitsInductive, PTL

(* No producer is handed a unit whose defeat is only half written.         *)
THEOREM DefeatsAreHandedOverWhole == Spec => []DefeatIsHandedOverWhole
<1>1. IInv => DefeatIsHandedOverWhole
  BY FollowsTypes DEF IInv, Sane, Plain, DefeatIsHandedOverWhole
<1>2. QED
  BY <1>1, CommitsInductive, PTL

-----------------------------------------------------------------------------
(* What the reducer makes of a list, told without its loop.                *)

(* A set of naturals with 0 and every successor is the set of naturals.     *)
LEMMA NatSetInduction ==
  ASSUME NEW T \in SUBSET Nat, 0 \in T, \A n \in T : n + 1 \in T
  PROVE  T = Nat
<1> SUFFICES ASSUME NEW m \in Nat, m \notin T
             PROVE  FALSE
  OBVIOUS
<1> DEFINE below == {n \in T : n <= m}
           next == [n \in below |-> n + 1]
<1>1. IsFiniteSet(below) /\ Cardinality(below) \in Nat
  BY FS_BoundedSetOfNaturals, FS_CardinalityType
<1>2. IsFiniteSet(below \ {0}) /\ Cardinality(below \ {0}) = Cardinality(below) - 1
  <2>1. 0 \in below
    OBVIOUS
  <2> HIDE DEF below
  <2> QED BY <1>1, <2>1, FS_RemoveElement
<1>3. next \in [below -> below \ {0}]
  <2>1. ASSUME NEW n \in below PROVE n + 1 \in below \ {0}
    <3>1. n \in Nat /\ n + 1 \in T /\ n <= m /\ n # m
      OBVIOUS
    <3> QED BY <3>1
  <2> HIDE DEF below
  <2> QED BY <2>1
<1> HIDE DEF below, next
<1>4. PICK x \in below, y \in below : x # y /\ next[x] = next[y]
  BY <1>1, <1>2, <1>3, FS_PigeonHole
<1> QED BY <1>4 DEF below, next

Runs(h, s, ms) ==
  h = [n \in 0..Len(ms) |->
         IF n = 0 THEN [ok |-> TRUE, state |-> s] ELSE ReducedOn(s, h[n - 1], ms[n])]

LEMMA RunExists ==
  ASSUME NEW s, NEW ms, Len(ms) \in Nat
  PROVE  \E h : Runs(h, s, ms)
<1> DEFINE Partly(h, k) ==
             h[0] = [ok |-> TRUE, state |-> s] /\ \A n \in 1..k : h[n] = ReducedOn(s, h[n - 1], ms[n])
           T == {k \in Nat : \E h : Partly(h, k)}
<1>1. 0 \in T
  <2>1. Partly([n \in 0..0 |-> [ok |-> TRUE, state |-> s]], 0)
    OBVIOUS
  <2>2. \E h : Partly(h, 0)
    <3> HIDE DEF Partly
    <3> QED BY <2>1
  <2> QED BY <2>2
<1>2. ASSUME NEW k \in T PROVE k + 1 \in T
  <2>1. PICK h : Partly(h, k)
    BY <1>2
  <2> DEFINE g == [n \in 0..(k + 1) |->
                     IF n <= k THEN h[n] ELSE ReducedOn(s, h[k], ms[k + 1])]
  <2>2. g[0] = [ok |-> TRUE, state |-> s]
    BY <2>1
  <2>3. \A n \in 1..(k + 1) : g[n] = ReducedOn(s, g[n - 1], ms[n])
    <3>1. ASSUME NEW n \in 1..(k + 1), n <= k
          PROVE  g[n] = ReducedOn(s, g[n - 1], ms[n])
      <4>1. n \in 0..k /\ n # 0 /\ n - 1 \in 0..(k + 1) /\ n - 1 <= k
        BY <3>1
      <4>2. h[n] = ReducedOn(s, h[n - 1], ms[n])
        BY <2>1, <4>1
      <4>3. g[n] = h[n] /\ g[n - 1] = h[n - 1]
        BY <3>1, <4>1
      <4> QED BY <4>2, <4>3
    <3>2. g[k + 1] = ReducedOn(s, g[(k + 1) - 1], ms[k + 1])
      <4>1. g[k + 1] = ReducedOn(s, h[k], ms[k + 1]) /\ (k + 1) - 1 = k
        OBVIOUS
      <4>2. g[k] = h[k]
        OBVIOUS
      <4> QED BY <4>1, <4>2
    <3>3. \A n \in 1..(k + 1) : n <= k \/ n = k + 1
      OBVIOUS
    <3> HIDE DEF g
    <3> QED BY <3>1, <3>2, <3>3
  <2>4. Partly(g, k + 1)
    BY <2>2, <2>3
  <2>5. \E f : Partly(f, k + 1)
    <3> HIDE DEF Partly
    <3> QED BY <2>4
  <2> QED BY <2>5
<1>3. T = Nat
  <2>1. T \in SUBSET Nat
    OBVIOUS
  <2> HIDE DEF T
  <2> QED BY <1>1, <1>2, <2>1, NatSetInduction
<1> DEFINE l == Len(ms)
<1>4. PICK h : Partly(h, l)
  BY <1>3
<1> DEFINE g == [n \in 0..l |-> h[n]]
<1>5. ASSUME NEW n \in 0..l
      PROVE  h[n] = IF n = 0 THEN [ok |-> TRUE, state |-> s] ELSE ReducedOn(s, g[n - 1], ms[n])
  <2>1. n = 0 \/ (n \in 1..l /\ n # 0 /\ n - 1 \in 0..l)
    <3> HIDE DEF Partly, T, g
    <3> QED BY ONLY Len(ms) \in Nat, n \in 0..l DEF l
  <2>2. n - 1 \in 0..l => g[n - 1] = h[n - 1]
    OBVIOUS
  <2> HIDE DEF g
  <2> QED BY <1>4, <2>1, <2>2
<1>6. Runs(g, s, ms)
  <2>1. g = [n \in 0..l |-> IF n = 0 THEN [ok |-> TRUE, state |-> s] ELSE ReducedOn(s, g[n - 1], ms[n])]
    <3>1. [n \in 0..l |-> h[n]]
            = [n \in 0..l |-> IF n = 0 THEN [ok |-> TRUE, state |-> s] ELSE ReducedOn(s, g[n - 1], ms[n])]
      <4> HIDE DEF g
      <4> QED BY <1>5, Zenon
    <3>2. g = [n \in 0..l |-> h[n]]
      OBVIOUS
    <3> HIDE DEF g
    <3> QED BY <3>1, <3>2
  <2> HIDE DEF g
  <2> QED BY <2>1 DEF Runs
<1> QED BY <1>6

LEMMA ReduceRuns ==
  ASSUME NEW s, NEW ms, Len(ms) \in Nat
  PROVE  \E h : Runs(h, s, ms) /\ Reduce(s, ms) = h[Len(ms)]
<1> DEFINE reduced == CHOOSE h : Runs(h, s, ms)
<1>1. Runs(reduced, s, ms)
  <2>1. \E h : Runs(h, s, ms)
    BY RunExists
  <2> QED BY <2>1
<1>2. Reduce(s, ms) = reduced[Len(ms)]
  BY DEF Reduce, Runs
<1> HIDE DEF reduced
<1> QED BY <1>1, <1>2

(* Each mutation of the list is accepted by the state the ones before it   *)
(* have made.                                                              *)
Steps(h, ms) ==
  \A n \in 1..Len(ms) : Accepts(h[n - 1], ms[n]) /\ h[n] = Write(h[n - 1], ms[n])
Leads(ms, s, t) == \E h : h[0] = s /\ h[Len(ms)] = t /\ Steps(h, ms)

LEMMA RunsStart ==
  ASSUME NEW s, NEW ms, Len(ms) \in Nat, NEW h, Runs(h, s, ms)
  PROVE  /\ h[0] = [ok |-> TRUE, state |-> s]
         /\ \A n \in 1..Len(ms) : h[n] = ReducedOn(s, h[n - 1], ms[n])
<1> DEFINE l == Len(ms)
           next(n) == IF n = 0 THEN [ok |-> TRUE, state |-> s]
                      ELSE ReducedOn(s, h[n - 1], ms[n])
<1>1. h = [n \in 0..l |-> next(n)]
  BY DEF Runs
<1> HIDE DEF next
<1>2. \A n \in 0..l : h[n] = next(n)
  BY <1>1
<1>3. 0 \in 0..l /\ \A n \in 1..l : n \in 0..l /\ n # 0
  OBVIOUS
<1> QED BY <1>2, <1>3 DEF next

LEMMA LeadsExplains ==
  ASSUME NEW ms, Len(ms) \in Nat, NEW s, NEW t, Leads(ms, s, t)
  PROVE  Explains(ms, s, t)
<1>1. PICK h : h[0] = s /\ h[Len(ms)] = t /\ Steps(h, ms)
  BY DEF Leads
<1>2. PICK r : Runs(r, s, ms) /\ Reduce(s, ms) = r[Len(ms)]
  BY ReduceRuns
<1>3. /\ r[0] = [ok |-> TRUE, state |-> s]
       /\ \A i \in 1..Len(ms) : r[i] = ReducedOn(s, r[i - 1], ms[i])
  BY <1>2, RunsStart
<1> DEFINE T == {n \in Nat : n <= Len(ms) => r[n] = [ok |-> TRUE, state |-> h[n]]}
<1>4. 0 \in T
  BY <1>1, <1>3
<1>5. ASSUME NEW n \in T PROVE n + 1 \in T
  <2> SUFFICES ASSUME n + 1 <= Len(ms)
               PROVE  r[n + 1] = [ok |-> TRUE, state |-> h[n + 1]]
    OBVIOUS
  <2>1. n \in Nat /\ n + 1 \in 1..Len(ms) /\ r[n] = [ok |-> TRUE, state |-> h[n]]
    OBVIOUS
  <2>2. r[n + 1] = ReducedOn(s, r[n], ms[n + 1])
    <3>1. (n + 1) - 1 = n
      BY <2>1
    <3> HIDE DEF T
    <3> QED BY <1>3, <2>1, <3>1
  <2>3. Accepts(h[n], ms[n + 1]) /\ h[n + 1] = Write(h[n], ms[n + 1])
    <3>1. (n + 1) - 1 = n
      BY <2>1
    <3> QED BY <1>1, <2>1, <3>1 DEF Steps
  <2> HIDE DEF T
  <2> QED BY <2>1, <2>2, <2>3 DEF ReducedOn
<1>6. T = Nat
  <2>1. T \in SUBSET Nat
    OBVIOUS
  <2> HIDE DEF T
  <2> QED BY <1>4, <1>5, <2>1, NatSetInduction
<1>7. r[Len(ms)] = [ok |-> TRUE, state |-> h[Len(ms)]]
  BY <1>6
<1> QED BY <1>1, <1>2, <1>7 DEF Explains

LEMMA NothingLeads == ASSUME NEW s PROVE Leads(<<>>, s, s)
<1>1. Steps([n \in {0} |-> s], <<>>)
  BY DEF Steps
<1>2. [n \in {0} |-> s][0] = s /\ Len(<<>>) = 0
  OBVIOUS
<1> QED BY <1>1, <1>2 DEF Leads

LEMMA LeadsOn ==
  ASSUME NEW p, NEW q, IsList(p), IsList(q), NEW r, NEW s, NEW t,
         Leads(p, r, s), Leads(q, s, t)
  PROVE  Leads(p \o q, r, t)
<1> DEFINE a == Len(p)
           b == Len(q)
<1>1. PICK g : g[0] = r /\ g[a] = s /\ Steps(g, p)
  BY DEF Leads
<1>2. PICK h : h[0] = s /\ h[b] = t /\ Steps(h, q)
  BY DEF Leads
<1>3. /\ a \in Nat /\ b \in Nat /\ Len(p \o q) = a + b
      /\ \A i \in 1..a : (p \o q)[i] = p[i]
      /\ \A i \in 1..b : (p \o q)[a + i] = q[i]
  <2>1. /\ a \in Nat /\ b \in Nat /\ DOMAIN (p \o q) = 1..(a + b)
        /\ \A i \in 1..a : (p \o q)[i] = p[i]
        /\ \A i \in 1..b : (p \o q)[a + i] = q[i]
    BY Concatenated
  <2>2. Len(p \o q) = a + b
    <3>1. p \o q \in Seq(Range(p \o q))
      BY Concatenated DEF IsList
    <3>2. DOMAIN (p \o q) = 1..Len(p \o q) /\ Len(p \o q) \in Nat
      BY <3>1
    <3> HIDE DEF a, b
    <3> QED BY <2>1, <3>2
  <2> QED BY <2>1, <2>2
<1> HIDE DEF a, b
<1> DEFINE f == [n \in 0..(a + b) |-> IF n <= a THEN g[n] ELSE h[n - a]]
<1>4. f[0] = r /\ f[a + b] = t
  <2>1. f[0] = r
    BY <1>1, <1>3
  <2>2. b = 0 => f[a + b] = t
    BY <1>1, <1>2, <1>3
  <2>3. b > 0 => f[a + b] = t
    BY <1>2, <1>3
  <2> QED BY <1>3, <2>1, <2>2, <2>3
<1>5. ASSUME NEW n \in 1..(a + b)
      PROVE  Accepts(f[n - 1], (p \o q)[n]) /\ f[n] = Write(f[n - 1], (p \o q)[n])
  <2>1. CASE n <= a
    <3>1. n \in 1..a /\ f[n] = g[n] /\ f[n - 1] = g[n - 1]
      BY <1>3, <2>1
    <3> HIDE DEF f
    <3> QED BY <1>1, <1>3, <3>1 DEF Steps, a
  <2>2. CASE ~ (n <= a)
    <3>1. n - a \in 1..b /\ a + (n - a) = n
      BY <1>3, <2>2
    <3>2. f[n] = h[n - a]
      BY <1>3, <2>2
    <3>3. f[n - 1] = h[(n - a) - 1]
      <4>1. CASE n - 1 <= a
        <5>1. n - 1 = a /\ (n - a) - 1 = 0
          BY <1>3, <2>2, <4>1
        <5>2. f[a] = g[a]
          BY <1>3
        <5> HIDE DEF f
        <5> QED BY <1>1, <1>2, <5>1, <5>2
      <4>2. CASE ~ (n - 1 <= a)
        <5>1. n - 1 \in 0..(a + b) /\ (n - 1) - a = (n - a) - 1
          BY <1>3
        <5> QED BY <4>2, <5>1
      <4> QED BY <4>1, <4>2
    <3>4. (p \o q)[n] = q[n - a]
      BY <1>3, <3>1
    <3> HIDE DEF f
    <3> QED BY <1>2, <3>1, <3>2, <3>3, <3>4 DEF Steps, b
  <2> QED BY <2>1, <2>2
<1> HIDE DEF f
<1> QED BY <1>3, <1>4, <1>5 DEF Leads, Steps

-----------------------------------------------------------------------------
(* A unit that left does not come back, nor is it credited afterwards.     *)
StaysGone(x, y) ==
  x.lifecycle_status = "removed" =>
    y.lifecycle_status = "removed" /\ y.defeat_record = x.defeat_record

(* What a list does to the lives of the units: one that enters is named    *)
(* whole, the life of one that is there changes as the gate admits, and one*)
(* that left is left alone.                                                *)
Passes(ms, s, t) ==
  /\ Touched(ms) \subseteq Units
  /\ \A u \in Units :
       /\ s.units[u] = Absent /\ t.units[u] # Absent => "unit" \in TouchedFields(ms, u)
       /\ s.units[u] # Absent => /\ Change(ms, u, s.units[u], t.units[u])
                                 /\ StaysGone(s.units[u], t.units[u])

LEMMA NothingPasses == ASSUME NEW s PROVE Passes(<<>>, s, s)
BY DEF Passes, Change, Touched, StaysGone

LEMMA TouchedOn ==
  ASSUME NEW p, NEW q, IsList(p), IsList(q), NEW u
  PROVE  /\ TouchedFields(p, u) \subseteq TouchedFields(p \o q, u)
         /\ TouchedFields(q, u) \subseteq TouchedFields(p \o q, u)
<1>1. ASSUME NEW i \in DOMAIN p, p[i].unit = u
      PROVE  p[i].field \in TouchedFields(p \o q, u)
  <2>1. i \in DOMAIN (p \o q) /\ (p \o q)[i] = p[i]
    BY Concatenated
  <2> QED BY <1>1, <2>1 DEF TouchedFields
<1>2. ASSUME NEW i \in DOMAIN q, q[i].unit = u
      PROVE  q[i].field \in TouchedFields(p \o q, u)
  <2>1. Len(p) + i \in DOMAIN (p \o q) /\ (p \o q)[Len(p) + i] = q[i]
    BY Concatenated
  <2> QED BY <1>2, <2>1 DEF TouchedFields
<1>3. \A f \in TouchedFields(p, u) : f \in TouchedFields(p \o q, u)
  BY <1>1 DEF TouchedFields
<1>4. \A f \in TouchedFields(q, u) : f \in TouchedFields(p \o q, u)
  BY <1>2 DEF TouchedFields
<1> QED BY <1>3, <1>4

LEMMA PassesOn ==
  ASSUME NEW p, NEW q, IsList(p), IsList(q), NEW r, NEW s, NEW t,
         Passes(p, r, s), Passes(q, s, t)
  PROVE  Passes(p \o q, r, t)
<1>1. ASSUME NEW i \in DOMAIN (p \o q), (p \o q)[i].unit # NoUnit
      PROVE  (p \o q)[i].unit \in Units
  <2>1. \/ \E j \in DOMAIN p : (p \o q)[i] = p[j]
        \/ \E j \in DOMAIN q : (p \o q)[i] = q[j]
    <3>1. i \in 1..(Len(p) + Len(q)) /\ Len(p) \in Nat /\ Len(q) \in Nat
      BY Concatenated
    <3>2. CASE i <= Len(p)
      <4>1. i \in DOMAIN p /\ (p \o q)[i] = p[i]
        BY <3>1, <3>2, Concatenated
      <4> QED BY <4>1
    <3>3. CASE i > Len(p)
      <4>1. i - Len(p) \in DOMAIN q /\ Len(p) + (i - Len(p)) = i
        BY <3>1, <3>3, Concatenated
      <4>2. (p \o q)[Len(p) + (i - Len(p))] = q[i - Len(p)]
        BY <4>1, Concatenated
      <4> QED BY <4>1, <4>2
    <3> QED BY <3>1, <3>2, <3>3
  <2> QED BY <1>1, <2>1 DEF Passes, Touched
<1>2. Touched(p \o q) \subseteq Units
  BY <1>1 DEF Touched
<1> SUFFICES ASSUME NEW u \in Units
             PROVE  /\ r.units[u] = Absent /\ t.units[u] # Absent
                         => "unit" \in TouchedFields(p \o q, u)
                    /\ r.units[u] # Absent => /\ Change(p \o q, u, r.units[u], t.units[u])
                                              /\ StaysGone(r.units[u], t.units[u])
  BY <1>2 DEF Passes
<1> DEFINE x == r.units[u]
           y == s.units[u]
           z == t.units[u]
<1>3. /\ x = Absent /\ y # Absent => "unit" \in TouchedFields(p, u)
      /\ x # Absent => Change(p, u, x, y) /\ StaysGone(x, y)
      /\ y = Absent /\ z # Absent => "unit" \in TouchedFields(q, u)
      /\ y # Absent => Change(q, u, y, z) /\ StaysGone(y, z)
  BY DEF Passes
<1>4. /\ TouchedFields(p, u) \subseteq TouchedFields(p \o q, u)
      /\ TouchedFields(q, u) \subseteq TouchedFields(p \o q, u)
  BY TouchedOn
<1>5. \A required : Covers(p, u, required) \/ Covers(q, u, required)
                      => Covers(p \o q, u, required)
  BY <1>4 DEF Covers
<1> HIDE DEF x, y, z
<1>6. x = Absent /\ z # Absent => "unit" \in TouchedFields(p \o q, u)
  BY <1>3, <1>4
<1>7. ASSUME x # Absent PROVE Change(p \o q, u, x, z)
  <2>1. y # Absent /\ Change(p, u, x, y) /\ Change(q, u, y, z)
    BY <1>3, <1>7 DEF Change
  <2>2. z # Absent
    BY <2>1 DEF Change
  <2> QED BY <1>5, <1>7, <2>1, <2>2 DEF Change
<1>8. ASSUME x # Absent PROVE StaysGone(x, z)
  <2>1. y # Absent
    BY <1>3, <1>8 DEF Change
  <2> QED BY <1>3, <1>8, <2>1 DEF StaysGone
<1> QED BY <1>6, <1>7, <1>8 DEF x, z

-----------------------------------------------------------------------------
(* A list of one mutation. *)
LEMMA OneLeads ==
  ASSUME NEW s, NEW m, Accepts(s, m)
  PROVE  Leads(<<m>>, s, Write(s, m))
<1> DEFINE t == Write(s, m)
           h == [n \in 0..1 |-> IF n = 0 THEN s ELSE t]
<1>1. h[0] = s /\ h[1] = t
  OBVIOUS
<1>2. Len(<<m>>) = 1 /\ <<m>>[1] = m
  OBVIOUS
<1>3. Steps(h, <<m>>)
  <2> HIDE DEF h
  <2>1. \A n \in 1..1 : n = 1 /\ n - 1 = 0
    OBVIOUS
  <2> QED BY <1>1, <1>2, <2>1 DEF Steps
<1> HIDE DEF h
<1> QED BY <1>1, <1>2, <1>3 DEF Leads

(* The unit x with the fields F taken from y. *)
Mixed(x, y, F) ==
  [hp |-> IF "hp" \in F THEN y.hp ELSE x.hp,
   lifecycle_status |-> IF "lifecycle_status" \in F THEN y.lifecycle_status
                        ELSE x.lifecycle_status,
   defeat_record |-> IF "defeat_record" \in F THEN y.defeat_record ELSE x.defeat_record,
   removed_record |-> IF "removed_record" \in F THEN y.removed_record ELSE x.removed_record]

LEMMA MixedFacts ==
  ASSUME NEW x \in UnitStates, NEW y \in UnitStates, NEW F
  PROVE  /\ Mixed(x, y, F) \in UnitStates
         /\ Mixed(x, y, {}) = x
         /\ \A f \in UnitFields : f \notin F => Mixed(x, y, F)[f] = x[f]
<1>1. Mixed(x, y, F) \in UnitStates /\ Mixed(x, y, {}) = x
  BY DEF Mixed, UnitStates
<1>2. \A f \in UnitFields : f \notin F => Mixed(x, y, F)[f] = x[f]
  BY DEF Mixed, UnitFields
<1> QED BY <1>1, <1>2

LEMMA MixedOne ==
  ASSUME NEW x, NEW y, NEW F, NEW f \in UnitFields
  PROVE  [Mixed(x, y, F) EXCEPT ![f] = y[f]] = Mixed(x, y, F \cup {f})
<1>1. CASE f = "hp"
  BY <1>1 DEF Mixed
<1>2. CASE f = "lifecycle_status"
  BY <1>2 DEF Mixed
<1>3. CASE f = "defeat_record"
  BY <1>3 DEF Mixed
<1>4. CASE f = "removed_record"
  BY <1>4 DEF Mixed
<1> QED BY <1>1, <1>2, <1>3, <1>4 DEF UnitFields

(* The state s with the fields F of unit u taken from y. *)
WithFields(s, u, y, F) == [s EXCEPT !.units[u] = Mixed(s.units[u], y, F)]

(* One field more. *)
LEMMA FieldLeads ==
  ASSUME NEW s, Sane(s), NEW u \in Units, s.units[u] # Absent,
         NEW x \in UnitStates, NEW y \in UnitStates, NEW F, NEW f \in UnitFields,
         f \notin F, s.units[u][f] = x[f]
  PROVE  LET m == Mutation(u, f, x[f], y[f]) IN
         /\ Accepts(WithFields(s, u, y, F), m)
         /\ Write(WithFields(s, u, y, F), m) = WithFields(s, u, y, F \cup {f})
<1> DEFINE v == s.units[u]
           b == Mixed(v, y, F)
           w == [s EXCEPT !.units[u] = b]
           m == Mutation(u, f, x[f], y[f])
<1>1. s \in States /\ v \in UnitStates /\ s.units \in [Units -> UnitStates \cup {Absent}]
  BY DEF Sane, States
<1>2. f # "other" /\ f # "unit"
  BY DEF UnitFields
<1>3. b \in UnitStates /\ b[f] = x[f]
  BY <1>1, MixedFacts
<1>4. [b EXCEPT ![f] = y[f]] = Mixed(v, y, F \cup {f})
  BY MixedOne
<1> HIDE DEF b, v
<1>5. w.units[u] = b /\ b # Absent
  BY <1>1, <1>3, AbsentAssumption DEF States
<1>6. m.unit = u /\ m.field = f /\ m.before = x[f] /\ m.after = y[f]
  BY DEF Mutation
<1> HIDE DEF w, m
<1>7. Accepts(w, m)
  BY <1>2, <1>3, <1>5, <1>6 DEF Accepts, Read
<1>8. Write(w, m) = [w EXCEPT !.units[u] = [b EXCEPT ![f] = y[f]]]
  <2>1. Write(w, m) = [w EXCEPT !.units[u] = [w.units[u] EXCEPT ![f] = y[f]]]
    BY <1>2, <1>6 DEF Write
  <2> QED BY <1>5, <2>1
<1>9. [w EXCEPT !.units[u] = [b EXCEPT ![f] = y[f]]]
        = [s EXCEPT !.units[u] = [b EXCEPT ![f] = y[f]]]
  BY <1>1 DEF w, States
<1> QED BY <1>4, <1>7, <1>8, <1>9 DEF w, m, b, v, WithFields

(* The fields of a change are written one after the other, each against    *)
(* the value it had when the change was planned.                           *)
LEMMA FieldsLead ==
  ASSUME NEW s, Sane(s), NEW u \in Units, s.units[u] # Absent,
         NEW x \in UnitStates, NEW y \in UnitStates, NEW fs \in Seq(UnitFields),
         \A i, j \in 1..Len(fs) : i # j => fs[i] # fs[j],
         Fits(s, ChangeOf(u, x, y, fs))
  PROVE  Leads(Listed(ChangeOf(u, x, y, fs)), s, Applied(s, ChangeOf(u, x, y, fs)))
<1> DEFINE c == ChangeOf(u, x, y, fs)
           ms == Listed(c)
           v == s.units[u]
           F(n) == {fs[i] : i \in 1..n}
           h == [n \in 0..Len(fs) |-> WithFields(s, u, y, F(n))]
<1>1. s \in States /\ v \in UnitStates /\ s.units \in [Units -> UnitStates \cup {Absent}]
  BY DEF Sane, States
<1>2. /\ IsList(ms) /\ Len(fs) \in Nat /\ DOMAIN ms = 1..Len(fs)
      /\ \A i \in 1..Len(fs) :
           fs[i] \in UnitFields /\ ms[i] = Mutation(u, fs[i], x[fs[i]], y[fs[i]])
  BY ListedFields
<1>3. Len(ms) = Len(fs)
  <2>1. ms \in Seq(Range(ms))
    BY <1>2 DEF IsList
  <2> HIDE DEF ms
  <2>2. DOMAIN ms = 1..Len(ms) /\ Len(ms) \in Nat
    BY <2>1
  <2> QED BY <1>2, <2>2
<1>4. \A i \in 1..Len(fs) : v[fs[i]] = x[fs[i]]
  BY FittingFields
<1>5. Applied(s, c) = WithFields(s, u, y, F(Len(fs)))
  <2>1. u # NoUnit /\ x # Absent
    BY UnitsAssumption, AbsentAssumption
  <2>2. Applied(s, c) = [s EXCEPT !.units[u] = Merged(v, y, fs)]
    BY <2>1 DEF Applied, ChangeOf
  <2>3. F(Len(fs)) = Range(fs)
    BY DEF Range
  <2>4. Merged(v, y, fs) = Mixed(v, y, Range(fs))
    BY DEF Merged, Mixed
  <2> QED BY <2>2, <2>3, <2>4 DEF WithFields
<1>6. s = WithFields(s, u, y, F(0))
  <2>1. F(0) = {}
    OBVIOUS
  <2>2. Mixed(v, y, {}) = v
    BY <1>1, MixedFacts
  <2>3. s = [s EXCEPT !.units[u] = s.units[u]]
    BY <1>1 DEF States
  <2> QED BY <2>1, <2>2, <2>3 DEF WithFields
<1>7. h[0] = s /\ h[Len(fs)] = Applied(s, c)
  <2> HIDE DEF F, v
  <2> QED BY <1>2, <1>5, <1>6
<1>8. ASSUME NEW n \in 1..Len(fs)
      PROVE  Accepts(h[n - 1], ms[n]) /\ h[n] = Write(h[n - 1], ms[n])
  <2> DEFINE f == fs[n]
             k == n - 1
  <2>1. k \in 0..Len(fs) /\ n \in 0..Len(fs)
    BY <1>2
  <2>2. F(n) = F(k) \cup {f}
    <3>1. 1..n = (1..k) \cup {n}
      BY <1>2
    <3> HIDE DEF k
    <3> QED BY <3>1
  <2>3. f \notin F(k) /\ f \in UnitFields /\ v[f] = x[f]
    <3>1. \A i \in 1..k : i \in 1..Len(fs) /\ i # n
      BY <1>2
    <3>2. f \in UnitFields /\ v[f] = x[f]
      BY <1>2, <1>4
    <3> HIDE DEF k
    <3> QED BY <3>1, <3>2
  <2>4. h[k] = WithFields(s, u, y, F(k))
    BY <2>1
  <2>5. h[n] = WithFields(s, u, y, F(n))
    BY <2>1
  <2>6. ms[n] = Mutation(u, f, x[f], y[f])
    BY <1>2
  <2> HIDE DEF f, F, k, h, ms
  <2> DEFINE G == F(k)
  <2> HIDE DEF G
  <2>7. f \notin G /\ f \in UnitFields /\ s.units[u][f] = x[f]
    BY <2>3 DEF G
  <2>8. /\ Accepts(WithFields(s, u, y, G), Mutation(u, f, x[f], y[f]))
        /\ Write(WithFields(s, u, y, G), Mutation(u, f, x[f], y[f]))
             = WithFields(s, u, y, G \cup {f})
    BY <2>7, FieldLeads
  <2>9. h[n] = Write(h[k], ms[n]) /\ Accepts(h[k], ms[n])
    BY <2>2, <2>4, <2>5, <2>6, <2>8 DEF G
  <2> QED BY <2>9 DEF k
<1>9. Steps(h, ms)
  <2> HIDE DEF h, ms
  <2> QED BY <1>3, <1>8 DEF Steps
<1> HIDE DEF h, ms
<1>10. Leads(ms, s, Applied(s, c))
  BY <1>3, <1>7, <1>9 DEF Leads
<1> QED BY <1>10 DEF ms

(* The lists of fields that the producers write in a unit that is there.   *)
Whole3 == <<"hp", "lifecycle_status", "defeat_record">>
Gone2 == <<"lifecycle_status", "removed_record">>
Lives(x, y, fs) ==
  \/ fs \in {<<>>, <<"hp">>}
  \/ fs = Whole3 /\ x.lifecycle_status = "active" /\ y.lifecycle_status = "defeated"
  \/ fs = Gone2 /\ y.lifecycle_status = "removed"

LEMMA LivesFields ==
  ASSUME NEW x, NEW y, NEW fs \in Seq(UnitFields), Lives(x, y, fs)
  PROVE  \A i, j \in 1..Len(fs) : i # j => fs[i] # fs[j]
<1>1. CASE fs = <<>>
  <2>1. Len(fs) = 0
    BY <1>1
  <2> QED BY <2>1
<1>2. CASE fs = <<"hp">>
  <2>1. Len(fs) = 1
    BY <1>2
  <2> QED BY <2>1
<1>3. CASE fs = Whole3
  <2>1. Len(fs) = 3 /\ fs[1] = "hp" /\ fs[2] = "lifecycle_status" /\ fs[3] = "defeat_record"
    BY <1>3 DEF Whole3
  <2>2. \A i \in 1..3 : i = 1 \/ i = 2 \/ i = 3
    OBVIOUS
  <2> QED BY <2>1, <2>2
<1>4. CASE fs = Gone2
  <2>1. Len(fs) = 2 /\ fs[1] = "lifecycle_status" /\ fs[2] = "removed_record"
    BY <1>4 DEF Gone2
  <2>2. \A i \in 1..2 : i = 1 \/ i = 2
    OBVIOUS
  <2> QED BY <2>1, <2>2
<1> QED BY <1>1, <1>2, <1>3, <1>4 DEF Lives

LEMMA FieldsPass ==
  ASSUME NEW s, Sane(s), NEW u \in Units, s.units[u] # Absent,
         NEW x \in UnitStates, NEW y \in UnitStates, NEW fs \in Seq(UnitFields),
         Lives(x, y, fs), Fits(s, ChangeOf(u, x, y, fs))
  PROVE  Passes(Listed(ChangeOf(u, x, y, fs)), s, Applied(s, ChangeOf(u, x, y, fs)))
<1> DEFINE c == ChangeOf(u, x, y, fs)
           ms == Listed(c)
           v == s.units[u]
           z == Merged(v, y, fs)
           t == Applied(s, c)
<1>1. s \in States /\ v \in UnitStates /\ s.units \in [Units -> UnitStates \cup {Absent}]
  BY DEF Sane, States
<1>2. DOMAIN ms = 1..Len(fs) /\ \A i \in 1..Len(fs) : ms[i] = Mutation(u, fs[i], x[fs[i]], y[fs[i]])
  BY ListedFields
<1>3. TouchedFields(ms, u) = Range(fs)
  <2>1. DOMAIN fs = 1..Len(fs)
    OBVIOUS
  <2>2. \A i \in 1..Len(fs) : ms[i].unit = u /\ ms[i].field = fs[i]
    BY <1>2 DEF Mutation
  <2> HIDE DEF ms
  <2> QED BY <1>2, <2>1, <2>2 DEF TouchedFields, Range
<1>4. \A i \in 1..Len(fs) : v[fs[i]] = x[fs[i]]
  BY FittingFields
<1>5. z \in UnitStates /\ z # Absent
  <2>1. z \in UnitStates
    BY <1>1 DEF Merged, UnitStates
  <2> QED BY <2>1, AbsentAssumption
<1>6. t.units[u] = z /\ \A w \in Units : w # u => t.units[w] = s.units[w]
  <2>1. u # NoUnit /\ x # Absent
    BY UnitsAssumption, AbsentAssumption
  <2>2. t = [s EXCEPT !.units[u] = z]
    BY <2>1 DEF Applied, ChangeOf
  <2> QED BY <1>1, <2>2 DEF States
<1>7. /\ "lifecycle_status" \notin Range(fs) => z.lifecycle_status = v.lifecycle_status
      /\ "lifecycle_status" \in Range(fs) => z.lifecycle_status = y.lifecycle_status
  BY DEF Merged
<1> HIDE DEF c, ms, z, t, v
<1>8. v.lifecycle_status \in {"active", "defeated", "removed"}
  BY <1>1 DEF UnitStates
<1>9. Change(ms, u, v, z)
  <2>1. CASE fs \in {<<>>, <<"hp">>}
    <3>1. Range(fs) \subseteq {"hp"}
      BY <2>1 DEF Range
    <3>2. z.lifecycle_status = v.lifecycle_status
      BY <1>7, <3>1
    <3> QED BY <1>5, <3>2 DEF Change, v
  <2>2. CASE fs = Whole3 /\ x.lifecycle_status = "active" /\ y.lifecycle_status = "defeated"
    <3>1. /\ Range(fs) = {"hp", "lifecycle_status", "defeat_record"}
          /\ 2 \in 1..Len(fs) /\ fs[2] = "lifecycle_status"
      BY <2>2 DEF Range, Whole3
    <3>2. v.lifecycle_status = "active"
      BY <1>4, <2>2, <3>1
    <3>3. z.lifecycle_status = "defeated"
      BY <1>7, <2>2, <3>1
    <3>4. Covers(ms, u, {"hp", "lifecycle_status", "defeat_record"})
      BY <1>3, <3>1 DEF Covers
    <3> QED BY <1>5, <3>2, <3>3, <3>4 DEF Change, v
  <2>3. CASE fs = Gone2 /\ y.lifecycle_status = "removed"
    <3>1. Range(fs) = {"lifecycle_status", "removed_record"}
      BY <2>3 DEF Range, Gone2
    <3>2. z.lifecycle_status = "removed"
      BY <1>7, <2>3, <3>1
    <3>3. Covers(ms, u, {"lifecycle_status", "removed_record"})
      BY <1>3, <3>1 DEF Covers
    <3> QED BY <1>5, <1>8, <3>2, <3>3 DEF Change, v
  <2> QED BY <2>1, <2>2, <2>3 DEF Lives
<1>10. \A w \in Units : w # u => Change(ms, w, s.units[w], t.units[w])
  BY <1>6 DEF Change
<1>11. Touched(ms) \subseteq Units
  BY ListedFields DEF ms, c
<1>12. StaysGone(v, z)
  <2> SUFFICES ASSUME v.lifecycle_status = "removed"
               PROVE  z.lifecycle_status = "removed" /\ z.defeat_record = v.defeat_record
    BY DEF StaysGone
  <2>1. "defeat_record" \notin Range(fs) => z.defeat_record = v.defeat_record
    BY DEF z, Merged
  <2>2. CASE fs \in {<<>>, <<"hp">>}
    <3>1. Range(fs) \subseteq {"hp"}
      BY <2>2 DEF Range
    <3> QED BY <1>7, <2>1, <3>1
  <2>3. CASE fs = Whole3 /\ x.lifecycle_status = "active" /\ y.lifecycle_status = "defeated"
    <3>1. 2 \in 1..Len(fs) /\ fs[2] = "lifecycle_status"
      BY <2>3 DEF Whole3
    <3> QED BY <1>4, <2>3, <3>1
  <2>4. CASE fs = Gone2 /\ y.lifecycle_status = "removed"
    <3>1. Range(fs) = {"lifecycle_status", "removed_record"}
      BY <2>4 DEF Range, Gone2
    <3> QED BY <1>7, <2>1, <2>4, <3>1
  <2> QED BY <2>2, <2>3, <2>4 DEF Lives
<1>13. \A w \in Units : w # u => StaysGone(s.units[w], t.units[w])
  BY <1>6 DEF StaysGone
<1>14. Passes(ms, s, t)
  BY <1>6, <1>9, <1>10, <1>11, <1>12, <1>13 DEF Passes, v
<1> QED BY <1>14 DEF ms, c, t

(* What any producer plans can be applied mutation by mutation.            *)
Carries(ms, s, t) == Leads(ms, s, t) /\ Passes(ms, s, t)

LEMMA SpawnCarries ==
  ASSUME NEW s, Sane(s), NEW u \in Units,
         Fits(s, ChangeOf(u, Absent, Newborn(u), <<"unit">>))
  PROVE  LET c == ChangeOf(u, Absent, Newborn(u), <<"unit">>) IN
         Carries(Listed(c), s, Applied(s, c))
<1> DEFINE c == ChangeOf(u, Absent, Newborn(u), <<"unit">>)
           m == Mutation(u, "unit", Absent, Newborn(u))
           t == Applied(s, c)
<1>1. c.unit = u /\ c.before = Absent /\ c.after = Newborn(u) /\ c.fields = <<"unit">>
  BY DEF ChangeOf
<1>2. Listed(c) = <<m>>
  BY <1>1 DEF Listed, UnitFields
<1>3. Accepts(s, m)
  <2>1. Accepts(s, Listed(c)[1])
    BY <1>1 DEF Fits
  <2> QED BY <1>2, <2>1
<1>4. m.unit = u /\ m.field = "unit" /\ m.before = Absent /\ m.after = Newborn(u)
  BY DEF Mutation
<1>5. t = [s EXCEPT !.units[u] = Newborn(u)]
  BY <1>1, UnitsAssumption DEF Applied
<1> HIDE DEF c, m, t
<1>6. Write(s, m) = t
  BY <1>4, <1>5 DEF Write
<1>7. s.units[u] = Absent
  BY <1>3, <1>4 DEF Accepts, Read
<1>8. \A w \in Units : w # u => t.units[w] = s.units[w]
  BY <1>5 DEF Sane, States
<1>9. "unit" \in TouchedFields(<<m>>, u)
  BY <1>4 DEF TouchedFields
<1>10. \A w \in Units : w # u => Change(<<m>>, w, s.units[w], t.units[w])
  BY <1>8 DEF Change
<1>11. Passes(<<m>>, s, t)
  <2>1. Touched(<<m>>) \subseteq Units
    BY <1>4 DEF Touched
  <2>2. \A w \in Units : w # u => StaysGone(s.units[w], t.units[w])
    BY <1>8 DEF StaysGone
  <2> QED BY <1>7, <1>8, <1>9, <1>10, <2>1, <2>2 DEF Passes
<1>12. Leads(<<m>>, s, t)
  BY <1>3, <1>6, OneLeads
<1> QED BY <1>2, <1>11, <1>12 DEF Carries, c, t

LEMMA OtherCarries ==
  ASSUME NEW s, Sane(s), NEW old, NEW new, Fits(s, ChangeOf(NoUnit, old, new, <<"other">>))
  PROVE  LET c == ChangeOf(NoUnit, old, new, <<"other">>) IN
         Carries(Listed(c), s, Applied(s, c))
<1> DEFINE c == ChangeOf(NoUnit, old, new, <<"other">>)
           m == Mutation(NoUnit, "other", old, new)
           t == Applied(s, c)
<1>1. c.unit = NoUnit /\ c.before = old /\ c.after = new /\ c.fields = <<"other">>
  BY DEF ChangeOf
<1>2. Listed(c) = <<m>>
  BY <1>1 DEF Listed, UnitFields
<1>3. Accepts(s, m)
  <2>1. Accepts(s, Listed(c)[1])
    BY <1>1 DEF Fits
  <2> QED BY <1>2, <2>1
<1>4. m.unit = NoUnit /\ m.field = "other" /\ m.after = new
  BY DEF Mutation
<1>5. t = [s EXCEPT !.other = new]
  BY <1>1 DEF Applied
<1> HIDE DEF c, m, t
<1>6. Write(s, m) = t
  BY <1>4, <1>5 DEF Write
<1>7. t.units = s.units
  BY <1>5 DEF Sane, States
<1>8. Passes(<<m>>, s, t)
  <2>1. Touched(<<m>>) \subseteq Units
    BY <1>4 DEF Touched
  <2> QED BY <1>7, <2>1 DEF Passes, Change, StaysGone
<1>9. Leads(<<m>>, s, t)
  BY <1>3, <1>6, OneLeads
<1> QED BY <1>2, <1>8, <1>9 DEF Carries, c, t

LEMMA UnitCarries ==
  ASSUME NEW s, Sane(s), NEW u \in Units, s.units[u] # Absent,
         NEW x \in UnitStates, NEW y \in UnitStates, NEW fs \in Seq(UnitFields),
         Lives(x, y, fs), Fits(s, ChangeOf(u, x, y, fs))
  PROVE  Carries(Listed(ChangeOf(u, x, y, fs)), s, Applied(s, ChangeOf(u, x, y, fs)))
<1>1. \A i, j \in 1..Len(fs) : i # j => fs[i] # fs[j]
  BY LivesFields
<1>2. Leads(Listed(ChangeOf(u, x, y, fs)), s, Applied(s, ChangeOf(u, x, y, fs)))
  BY <1>1, FieldsLead
<1> QED BY <1>2, FieldsPass DEF Carries

LEMMA ProducedCarries ==
  ASSUME NEW s, Sane(s), NEW h, Sane(h),
         \A u \in Units : h.units[u] # Absent => s.units[u] # Absent,
         NEW c \in Producible(h), Fits(s, c)
  PROVE  Carries(Listed(c), s, Applied(s, c))
<1>1. ASSUME NEW u \in Units, h.units[u] # Absent
      PROVE  h.units[u] \in UnitStates /\ Plain(h.units[u]) /\ s.units[u] # Absent
  BY <1>1 DEF Sane, States
<1>2. <<"hp">> \in Seq(UnitFields) /\ Gone2 \in Seq(UnitFields)
  BY DEF UnitFields, Gone2
<1>3. CASE c \in DamageChanges(h)
  <2>1. PICK u \in Units, n \in Amounts : Hittable(h.units[u]) /\ c = Hit(u, h.units[u], n)
    BY <1>3 DEF DamageChanges
  <2> DEFINE x == h.units[u]
  <2>2. x # Absent /\ n \in Nat /\ x.lifecycle_status = "active"
    BY <2>1, BoundsAssumption DEF Hittable
  <2>3. x \in UnitStates /\ Plain(x) /\ s.units[u] # Absent
    BY <1>1, <2>2
  <2> HIDE DEF x
  <2>4. PICK y \in UnitStates, fs \in Seq(UnitFields) :
          /\ Hit(u, x, n) = ChangeOf(u, x, y, fs)
          /\ \/ fs = <<>>
             \/ fs = <<"hp">> /\ y.hp > 0
             \/ /\ fs = <<"hp", "lifecycle_status", "defeat_record">>
                /\ y.hp = 0 /\ y.lifecycle_status = "defeated" /\ y.defeat_record
    BY <2>1, <2>2, <2>3, HitFields DEF x
  <2>5. Lives(x, y, fs)
    BY <2>2, <2>4 DEF Lives, Whole3
  <2>6. c = ChangeOf(u, x, y, fs)
    BY <2>1, <2>4 DEF x
  <2> QED BY <2>3, <2>5, <2>6, UnitCarries
<1>4. CASE c \in HealChanges(h)
  <2>1. PICK u \in Units, n \in Amounts :
          /\ h.units[u] # Absent
          /\ c = ChangeOf(u, h.units[u],
                    [h.units[u] EXCEPT !.hp = IF h.units[u].hp + n >= MaxHp[u] THEN MaxHp[u] ELSE @ + n],
                    <<"hp">>)
    BY <1>4 DEF HealChanges
  <2> DEFINE x == h.units[u]
             y == [x EXCEPT !.hp = IF x.hp + n >= MaxHp[u] THEN MaxHp[u] ELSE @ + n]
  <2>2. x \in UnitStates /\ s.units[u] # Absent
    BY <1>1, <2>1
  <2>3. MaxHp[u] \in Nat /\ n \in Nat
    BY UnitsAssumption, BoundsAssumption
  <2>4. c = ChangeOf(u, x, y, <<"hp">>)
    BY <2>1
  <2> HIDE DEF x
  <2>5. y \in UnitStates
    BY <2>2, <2>3 DEF UnitStates
  <2> HIDE DEF y
  <2>6. Lives(x, y, <<"hp">>)
    BY DEF Lives
  <2> QED BY <1>2, <2>2, <2>4, <2>5, <2>6, UnitCarries
<1>5. CASE c \in RemoveChanges(h)
  <2>1. PICK u \in Units :
          /\ h.units[u] # Absent
          /\ c = ChangeOf(u, h.units[u],
                    [h.units[u] EXCEPT !.lifecycle_status = "removed", !.removed_record = TRUE],
                    Gone2)
    BY <1>5 DEF RemoveChanges, Gone2
  <2> DEFINE x == h.units[u]
             y == [x EXCEPT !.lifecycle_status = "removed", !.removed_record = TRUE]
  <2>2. x \in UnitStates /\ s.units[u] # Absent
    BY <1>1, <2>1
  <2>3. c = ChangeOf(u, x, y, Gone2)
    BY <2>1
  <2> HIDE DEF x
  <2>4. y \in UnitStates /\ y.lifecycle_status = "removed"
    BY <2>2 DEF UnitStates
  <2> HIDE DEF y
  <2>5. Lives(x, y, Gone2)
    BY <2>4 DEF Lives
  <2> QED BY <1>2, <2>2, <2>3, <2>4, <2>5, UnitCarries
<1>6. CASE c \in SpawnChanges(h)
  BY <1>6, SpawnCarries DEF SpawnChanges
<1>7. CASE c \in OtherChanges(h)
  <2>1. c = ChangeOf(NoUnit, h.other, ~h.other, <<"other">>)
    BY <1>7 DEF OtherChanges
  <2> DEFINE new == ~h.other
  <2>2. c = ChangeOf(NoUnit, h.other, new, <<"other">>)
    BY <2>1
  <2> HIDE DEF new
  <2> QED BY <2>2, OtherCarries
<1> QED BY <1>3, <1>4, <1>5, <1>6, <1>7 DEF Producible

LEMMA NothingCarries == ASSUME NEW s PROVE Carries(<<>>, s, s)
BY NothingLeads, NothingPasses DEF Carries

LEMMA CarriesOn ==
  ASSUME NEW p, NEW q, IsList(p), IsList(q), NEW r, NEW s, NEW t,
         Carries(p, r, s), Carries(q, s, t)
  PROVE  Carries(p \o q, r, t)
BY LeadsOn, PassesOn DEF Carries

-----------------------------------------------------------------------------
(* At both levels of commit, and behind a rollback, what is noted down can *)
(* be applied mutation by mutation, and the gate admits each life it makes.*)
Carried ==
  /\ Carries(stepMutations, published, settled)
  /\ Carries(planned, settled, candidate)
  /\ frame # NoFrame => Carries(frame.planned, settled, frame.candidate)

LEMMA ProduceCarries == ASSUME IInv, Carried, Produce PROVE Carried'
<1>1. /\ Sane(settled) /\ Sane(candidate) /\ IsList(planned)
      /\ \A u \in Units : settled.units[u] # Absent => candidate.units[u] # Absent
  BY DEF IInv, Follows
<1>2. PICK h \in {candidate, settled} : \E c \in Producible(h) :
        Fits(candidate, c) /\ candidate' = Applied(candidate, c) /\ planned' = planned \o Listed(c)
  BY DEF Produce
<1>3. PICK c \in Producible(h) :
        Fits(candidate, c) /\ candidate' = Applied(candidate, c) /\ planned' = planned \o Listed(c)
  BY <1>2
<1>4. Carries(Listed(c), candidate, candidate')
  BY <1>1, <1>3, ProducedCarries
<1>5. IsList(Listed(c))
  BY <1>1, <1>3, ProducedFollows DEF Follows
<1>6. Carries(planned', settled, candidate')
  BY <1>1, <1>3, <1>4, <1>5, CarriesOn DEF Carried
<1>7. UNCHANGED <<settled, stepMutations, published, frame>>
  BY DEF Produce, stepVars, outerVars
<1> QED BY <1>6, <1>7 DEF Carried

LEMMA DispatchCarries ==
  ASSUME IInv, Carried, BeginDispatch \/ EndDispatch \/ NodeFails PROVE Carried'
<1>1. UNCHANGED <<settled, stepMutations, published>>
  BY DEF BeginDispatch, EndDispatch, NodeFails, stepVars, outerVars
<1>2. CASE BeginDispatch
  BY <1>1, <1>2 DEF BeginDispatch, Carried
<1>3. CASE EndDispatch
  BY <1>1, <1>3 DEF EndDispatch, Carried
<1>4. CASE NodeFails
  BY <1>1, <1>4 DEF NodeFails, RollBack, Carried
<1> QED BY <1>2, <1>3, <1>4

LEMMA CommitGraphCarries == ASSUME IInv, Carried, CommitGraph PROVE Carried'
<1>1. /\ frame' = NoFrame /\ published' = published
      /\ candidate' = settled' /\ planned' = <<>>
  BY DEF CommitGraph, outerVars
<1>2. \/ settled' = candidate /\ stepMutations' = stepMutations \o planned
      \/ settled' = settled /\ stepMutations' = stepMutations
  BY DEF CommitGraph, AppendedToStep
<1>3. IsList(stepMutations) /\ IsList(planned)
  BY DEF IInv, Follows
<1>4. Carries(stepMutations', published', settled')
  BY <1>1, <1>2, <1>3, CarriesOn DEF Carried
<1> QED BY <1>1, <1>4, NothingCarries DEF Carried

LEMMA OwnWriteCarries == ASSUME IInv, Carried, OwnWrite PROVE Carried'
<1>1. PICK c \in Producible(settled) :
        /\ Fits(settled, c) /\ settled' = Applied(settled, c)
        /\ stepMutations' = stepMutations \o Listed(c)
  BY DEF OwnWrite, AppendedToStep
<1>2. /\ stage = "between" /\ frame' = frame /\ planned' = planned
      /\ published' = published /\ candidate' = settled'
  BY DEF OwnWrite, outerVars
<1>3. planned = <<>> /\ frame = NoFrame
  BY <1>2 DEF IInv, GraphsAreClosed
<1>4. Sane(settled) /\ IsList(stepMutations)
  BY DEF IInv, Follows
<1>5. Carries(Listed(c), settled, settled') /\ IsList(Listed(c))
  BY <1>1, <1>4, ProducedCarries, ProducedFollows DEF Follows
<1>6. Carries(stepMutations', published', settled')
  BY <1>1, <1>2, <1>4, <1>5, CarriesOn DEF Carried
<1> QED BY <1>2, <1>3, <1>6, NothingCarries DEF Carried

LEMMA CarriedStep == ASSUME IInv, Carried, [Next]_vars PROVE Carried'
<1>1. CASE NextGraph \/ UNCHANGED vars
  BY <1>1 DEF NextGraph, vars, graphVars, stepVars, outerVars, Carried
<1>2. CASE PublishStep \/ PublishTurnBegin
  <2>1. NewCall
    BY <1>2 DEF PublishStep, PublishTurnBegin
  <2> QED BY <2>1, NothingCarries DEF NewCall, Carried
<1> QED BY <1>1, <1>2, ProduceCarries, DispatchCarries, CommitGraphCarries, OwnWriteCarries DEF Next

THEOREM PlansAreCarried == Spec => []Carried
<1>1. ASSUME Init PROVE Carried
  BY <1>1, NothingCarries DEF Init, Carried
<1>2. ASSUME IInv, Carried, [Next]_vars PROVE Carried'
  BY <1>2, CarriedStep
<1> QED BY <1>1, <1>2, CommitsInductive, PTL DEF Spec

LEMMA ListLength == ASSUME NEW ms, IsList(ms) PROVE Len(ms) \in Nat
BY DEF IsList

(* What has been noted down leads the reducer to the state the next        *)
(* producer works on, whatever was rolled back or refused before: no commit*)
(* is ever refused for a mismatch or a conflict.                           *)
THEOREM PlansAlwaysExplain == Spec => []PlansExplainStates
<1>1. ASSUME IInv, Carried PROVE PlansExplainStates
  <2>1. Len(planned) \in Nat /\ Len(stepMutations) \in Nat
    BY <1>1, ListLength DEF IInv, Follows
  <2> QED BY <1>1, <2>1, LeadsExplains DEF Carried, Carries, PlansExplainStates
<1> QED BY <1>1, CommitsInductive, PlansAreCarried, PTL

(* The second commit of a whole call agrees with the commits of its graphs,*)
(* but for a unit that entered and left during the call, or a unit that a  *)
(* write outside the graphs broke.                                         *)
THEOREM CommitsCompose == Spec => []StepsCompose
<1>1. ASSUME IInv, Carried PROVE StepsCompose
  <2> SUFFICES ASSUME stepComplete, ~Publishable(published, settled, stepMutations, TRUE),
                      WholeState(settled)
               PROVE  \E u \in Units :
                        /\ published.units[u] = Absent /\ settled.units[u] # Absent
                        /\ settled.units[u].lifecycle_status # "active"
    BY DEF StepsCompose
  <2>1. Explains(stepMutations, published, settled)
    <3>1. Len(stepMutations) \in Nat
      BY <1>1, ListLength DEF IInv, Follows
    <3> QED BY <1>1, <3>1, LeadsExplains DEF Carried, Carries
  <2>2. PICK u \in Touched(stepMutations) :
          ~ (/\ settled.units[u] # Absent => Whole(u, settled.units[u])
             /\ Change(stepMutations, u, published.units[u], settled.units[u]))
    BY <2>1 DEF Publishable, IntegrityPassed
  <2>3. Passes(stepMutations, published, settled)
    BY <1>1 DEF Carried, Carries
  <2>4. u \in Units
    BY <2>3 DEF Passes
  <2>5. ~ Change(stepMutations, u, published.units[u], settled.units[u])
    BY <2>2, <2>4 DEF WholeState
  <2>6. published.units[u] = Absent
    BY <2>3, <2>4, <2>5 DEF Passes
  <2>7. settled.units[u] # Absent
    BY <2>5, <2>6 DEF Change
  <2>8. "unit" \in TouchedFields(stepMutations, u)
    BY <2>3, <2>4, <2>6, <2>7 DEF Passes
  <2>9. settled.units[u].lifecycle_status # "active"
    BY <2>5, <2>6, <2>7, <2>8 DEF Change
  <2> QED BY <2>4, <2>6, <2>7, <2>9
<1> QED BY <1>1, CommitsInductive, PlansAreCarried, PTL

-----------------------------------------------------------------------------
(* Refinement: what the caller sees of the units follows UnitLives         *)

Seen == [u \in Units |-> Life(published.units[u])]

LEMMA SeenTypes ==
  ASSUME NEW s, Sane(s)
  PROVE  [u \in Units |-> Life(s.units[u])] \in [Units -> {"absent", "active", "defeated", "removed"}]
<1> SUFFICES ASSUME NEW u \in Units
             PROVE  Life(s.units[u]) \in {"absent", "active", "defeated", "removed"}
  OBVIOUS
<1>1. s.units[u] \in UnitStates \cup {Absent}
  BY DEF Sane, States
<1> QED BY <1>1 DEF Life, UnitStates

LEMMA LivesBegin == ASSUME Init PROVE Fates!Init
<1>1. /\ published.units = InitialUnits
      /\ \A u \in Units : InitialUnits[u] \in {Newborn(u), Absent}
      /\ credited = [u \in Units |-> 0]
  BY BoundsAssumption DEF Init
<1>2. \A u \in Units : Life(published.units[u]) \in {"absent", "active"}
  BY <1>1 DEF Life, Newborn
<1> QED BY <1>1, <1>2 DEF Fates!Init

(* What one commit of a call, or the one graph of a turn begin, makes of a *)
(* unit.                                                                   *)
LEMMA AdoptedMoves ==
  ASSUME IInv, Carried, IInv', NEW ms, NEW t,
         Follows(ms, published, t), Carries(ms, published, t),
         Publishable(published, t, ms, TRUE), published' = t, NEW u \in Units
  PROVE  Fates!Stays(u) \/ Fates!Enters(u) \/ Fates!Falls(u) \/ Fates!Leaves(u)
<1> DEFINE x == published.units[u]
           y == t.units[u]
<1>1. /\ credited[u] = Flag(x) /\ credited'[u] = Flag(y)
  BY DEF IInv
<1>2. Seen[u] = Life(x) /\ Seen'[u] = Life(y)
  BY DEF Seen
<1>3. /\ x # Absent => Plain(x) /\ x \in UnitStates
      /\ y # Absent => Plain(y) /\ y \in UnitStates
  BY DEF IInv, Follows, Sane, States
<1>4. Flag(x) \in {0, 1} /\ Flag(y) \in {0, 1} /\ Flag(x) <= Flag(y)
  <2>1. /\ Flag(x) + Cardinality(RecordsOf(ms, u)) = Flag(y)
        /\ Cardinality(RecordsOf(ms, u)) \in Nat
    BY FS_CardinalityType DEF Follows
  <2>2. Flag(x) \in {0, 1} /\ Flag(y) \in {0, 1}
    BY DEF Flag
  <2> QED BY <2>1, <2>2
<1>5. /\ x = Absent /\ y # Absent => "unit" \in TouchedFields(ms, u)
      /\ x # Absent => Change(ms, u, x, y) /\ StaysGone(x, y)
  BY DEF Carries, Passes
<1>6. x = Absent /\ y # Absent => y.lifecycle_status = "active"
  <2>1. ASSUME "unit" \in TouchedFields(ms, u) PROVE u \in Touched(ms)
    <3>1. PICK i \in DOMAIN ms : ms[i].unit = u
      BY <2>1 DEF TouchedFields
    <3> QED BY <3>1, UnitsAssumption DEF Touched
  <2>2. ASSUME x = Absent, y # Absent PROVE Change(ms, u, x, y)
    <3>1. u \in Touched(ms)
      BY <1>5, <2>1, <2>2
    <3> QED BY <3>1 DEF Publishable, IntegrityPassed
  <2> HIDE DEF x, y
  <2> QED BY <2>2 DEF Change
<1> HIDE DEF x, y
<1>7. CASE x = Absent
  <2>1. CASE y = Absent
    BY <1>1, <1>2, <1>7, <2>1 DEF Fates!Stays, Life, Flag, Seen
  <2>2. CASE y # Absent
    <3>1. Life(x) = "absent" /\ Life(y) = "active" /\ Flag(x) = 0 /\ Flag(y) = 0
      BY <1>3, <1>6, <1>7, <2>2 DEF Life, Flag, Plain
    <3> QED BY <1>1, <1>2, <3>1 DEF Fates!Enters, Fates!Moves, Seen
  <2> QED BY <2>1, <2>2
<1>8. CASE x # Absent
  <2>1. y # Absent /\ Life(x) = x.lifecycle_status /\ Life(y) = y.lifecycle_status
    BY <1>5, <1>8 DEF Change, Life
  <2>2. /\ Life(x) = "active" => Flag(x) = 0
        /\ Life(x) = "defeated" => Flag(x) = 1
        /\ Life(y) = "active" => Flag(y) = 0
        /\ Life(y) = "defeated" => Flag(y) = 1
    BY <1>3, <1>8, <2>1 DEF Plain, Flag
  <2>3. CASE Life(x) = Life(y)
    <3>1. Life(x) \in {"active", "defeated", "removed"}
      BY <1>3, <1>8, <2>1 DEF UnitStates
    <3>2. Life(x) = "removed" => Flag(x) = Flag(y)
      BY <1>5, <1>8, <2>1 DEF StaysGone, Flag
    <3>3. Flag(x) = Flag(y)
      BY <2>2, <2>3, <3>1, <3>2
    <3> QED BY <1>1, <1>2, <2>3, <3>3 DEF Fates!Stays, Seen
  <2>4. CASE Life(x) = "active" /\ Life(y) = "defeated"
    BY <1>1, <1>2, <2>2, <2>4 DEF Fates!Falls, Fates!Moves, Fates!Credited, Seen
  <2>5. CASE Life(x) \in {"active", "defeated"} /\ Life(y) = "removed"
    <3>1. Flag(y) = Flag(x) \/ (Life(x) = "active" /\ Flag(x) = 0 /\ Flag(y) = 1)
      BY <1>4, <2>2, <2>5
    <3> QED BY <1>1, <1>2, <2>5, <3>1
            DEF Fates!Leaves, Fates!Moves, Fates!Credited, Seen
  <2> QED BY <1>5, <1>8, <2>1, <2>3, <2>4, <2>5 DEF Change
<1> QED BY <1>7, <1>8

LEMMA LivesMove == ASSUME IInv, Carried, IInv', Next PROVE Fates!Call \/ UNCHANGED Fates!vars
<1>1. CASE UNCHANGED outerVars
  BY <1>1 DEF outerVars, Fates!vars
<1>2. CASE PublishStep \/ PublishTurnBegin
  <2>1. PICK ms \in {stepMutations, planned}, t \in {settled, candidate} :
          /\ Follows(ms, published, t) /\ Carries(ms, published, t)
          /\ \E whole : Adopt(Publishable(published, t, ms, whole), t, ms)
    <3>1. CASE PublishStep
      BY <3>1 DEF PublishStep, IInv, Carried
    <3>2. CASE PublishTurnBegin
      <4>1. settled = published
        BY <3>2 DEF PublishTurnBegin, IInv, GraphsAreClosed
      <4> QED BY <3>2, <4>1 DEF PublishTurnBegin, IInv, Carried
    <3> QED BY <1>2, <3>1, <3>2
  <2>2. PICK whole : Adopt(Publishable(published, t, ms, whole), t, ms)
    BY <2>1
  <2>3. CASE ~ Publishable(published, t, ms, whole)
    BY <2>2, <2>3 DEF Adopt, Fates!vars
  <2>4. CASE Publishable(published, t, ms, whole)
    <3>1. published' = t
      BY <2>2, <2>4 DEF Adopt
    <3>2. Publishable(published, t, ms, TRUE)
      BY <2>4 DEF Publishable
    <3>3. \A u \in Units : Fates!Stays(u) \/ Fates!Enters(u) \/ Fates!Falls(u) \/ Fates!Leaves(u)
      BY <2>1, <3>1, <3>2, AdoptedMoves
    <3>4. Seen' \in [Units -> {"absent", "active", "defeated", "removed"}]
      <4>1. Sane(published')
        BY DEF IInv
      <4> QED BY <4>1, SeenTypes DEF Seen
    <3>5. credited' \in [Units -> Nat]
      BY DEF IInv, TypeOK
    <3> QED BY <3>3, <3>4, <3>5 DEF Fates!Call, Seen
  <2> QED BY <2>3, <2>4
<1> QED
  BY <1>1, <1>2 DEF Next, Produce, BeginDispatch, EndDispatch, NodeFails, CommitGraph, OwnWrite, NextGraph

(* However calls plan, roll back, refuse and commit, the caller sees each  *)
(* unit enter once, fall with its one credit and leave for good            *)
(* (_combine_scheduler_transitions, CommittedStateIntegrityGate).          *)
THEOREM ImplementsUnitLives == Spec => UnitsFollowTheirLives
<1>1. IInv /\ Carried /\ IInv' /\ [Next]_vars => [Fates!Call]_(Fates!vars)
  <2>1. ASSUME UNCHANGED vars PROVE UNCHANGED Fates!vars
    BY <2>1 DEF vars, outerVars, Fates!vars
  <2> QED BY <2>1, LivesMove
<1>2. Init => Fates!Init
  BY LivesBegin
<1> QED BY <1>1, <1>2, CommitsInductive, PlansAreCarried, PTL
        DEF Spec, UnitsFollowTheirLives, Fates!Spec
=============================================================================
