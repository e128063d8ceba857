------------------------- MODULE QueueSystemProofs -------------------------
(***************************************************************************)
(* Type correctness of the queues and the accounting of their entries, for *)
(* every set of intents, queues, units, policies and bounds.               *)
(*                                                                         *)
(* EntriesAccounted is not inductive: that the entry taken out is the one  *)
(* planned needs that two entries with one id are both known as twins, and *)
(* that no entry sits in two places.                                       *)
(***************************************************************************)
EXTENDS QueueSystem, SequenceTheorems, FiniteSetTheorems, TLAPS

Sits(qs, s) == \E q \in Queues : \E i \in 1..Len(qs[q]) : qs[q][i].serial = s

(* No entry is in two places. *)
OneSeat(qs) ==
  \A q, r \in Queues : \A i \in 1..Len(qs[q]), j \in 1..Len(qs[r]) :
    qs[q][i].serial = qs[r][j].serial => q = r /\ i = j

(* Entries of one queue that share their id are twins. *)
Apart(qs, tw) ==
  \A q \in Queues : \A i, j \in 1..Len(qs[q]) :
    i # j /\ Id(qs[q][i]) = Id(qs[q][j])
      => qs[q][i].serial \in tw /\ qs[q][j].serial \in tw

TakenOut(qs, q, i) == [qs EXCEPT ![q] = Without(@, i)]
PutBack(qs, q, i, f) == [qs EXCEPT ![q] = [@ EXCEPT ![i] = f]]

Account(qs, n, r, d, tw) ==
  \A s \in (1..n) \ tw :
    \/ Sits(qs, s) /\ r[s] = 0 /\ s \notin d
    \/ ~Sits(qs, s) /\ r[s] = 1 /\ s \notin d
    \/ ~Sits(qs, s) /\ r[s] = 0 /\ s \in d

(* Nothing is known of an entry that was not queued yet. *)
Fresh(qs, n, r, d) ==
  \A s \in Serials : s > n => ~Sits(qs, s) /\ r[s] = 0 /\ s \notin d

IInv ==
  /\ TypeOK
  /\ OneSeat(queues)
  /\ Apart(queues, twins)
  /\ Account(queues, issued, ran, dropped, twins)
  /\ Fresh(queues, issued, ran, dropped)

----------------------------------------------------------------------------
(* Lemmas on the queue operators.                                          *)

(* Taking one element out leaves a sequence, shorter by one. *)
LEMMA WithoutSeq ==
  ASSUME NEW S, NEW q \in Seq(S), NEW i \in 1..Len(q)
  PROVE  /\ Without(q, i) \in Seq(S)
         /\ Len(Without(q, i)) = Len(q) - 1
         /\ \A k \in 1..(Len(q) - 1) : Without(q, i)[k] = IF k < i THEN q[k] ELSE q[k + 1]
<1>1. Without(q, i) \in [1..(Len(q) - 1) -> S]
  BY DEF Without
<1>2. Len(q) - 1 \in Nat
  OBVIOUS
<1> QED
  BY <1>1, <1>2, SeqDef DEF Without

(* A queue that lost the entry at i lost that entry and no other, and what  *)
(* was known of the places and the ids of the others still holds.           *)
LEMMA Removed ==
  ASSUME NEW qs \in [Queues -> Seq(Entries)], NEW tw, OneSeat(qs), Apart(qs, tw),
         NEW q \in Queues, NEW i \in 1..Len(qs[q]),
         NEW rs, rs = TakenOut(qs, q, i)
  PROVE  /\ rs \in [Queues -> Seq(Entries)]
         /\ OneSeat(rs) /\ Apart(rs, tw)
         /\ \A s : Sits(rs, s) <=> Sits(qs, s) /\ s # qs[q][i].serial
<1> DEFINE Was(r, k) == IF r = q /\ k >= i THEN k + 1 ELSE k
<1>1. /\ Without(qs[q], i) \in Seq(Entries)
      /\ Len(Without(qs[q], i)) = Len(qs[q]) - 1
      /\ \A k \in 1..(Len(qs[q]) - 1) :
           Without(qs[q], i)[k] = IF k < i THEN qs[q][k] ELSE qs[q][k + 1]
  BY WithoutSeq
<1>2. /\ rs \in [Queues -> Seq(Entries)]
      /\ rs[q] = Without(qs[q], i)
      /\ \A r \in Queues : r # q => rs[r] = qs[r]
  BY <1>1 DEF TakenOut
<1>3. \A r \in Queues : \A k \in 1..Len(rs[r]) :
        /\ Was(r, k) \in 1..Len(qs[r])
        /\ rs[r][k] = qs[r][Was(r, k)]
        /\ ~(r = q /\ Was(r, k) = i)
  BY <1>1, <1>2
<1>4. \A r \in Queues : \A j, k \in 1..Len(rs[r]) : Was(r, j) = Was(r, k) => j = k
  BY <1>1, <1>2
<1>5. \A r \in Queues : \A k \in 1..Len(qs[r]) :
        ~(r = q /\ k = i) => \E j \in 1..Len(rs[r]) : Was(r, j) = k
  <2> SUFFICES ASSUME NEW r \in Queues, NEW k \in 1..Len(qs[r]), ~(r = q /\ k = i)
               PROVE  \E j \in 1..Len(rs[r]) : Was(r, j) = k
    OBVIOUS
  <2>1. CASE r = q /\ k > i
    <3>1. k - 1 \in 1..Len(rs[r]) /\ Was(r, k - 1) = k
      BY <2>1, <1>1, <1>2
    <3> QED BY <3>1
  <2>2. CASE ~(r = q /\ k > i)
    <3>1. k \in 1..Len(rs[r]) /\ Was(r, k) = k
      BY <2>2, <1>1, <1>2
    <3> QED BY <3>1
  <2> QED BY <2>1, <2>2
<1> HIDE DEF Was
<1>6. OneSeat(rs)
  <2> SUFFICES ASSUME NEW a \in Queues, NEW b \in Queues,
                      NEW j \in 1..Len(rs[a]), NEW k \in 1..Len(rs[b]),
                      rs[a][j].serial = rs[b][k].serial
               PROVE  a = b /\ j = k
    BY DEF OneSeat
  <2>1. /\ Was(a, j) \in 1..Len(qs[a]) /\ rs[a][j] = qs[a][Was(a, j)]
        /\ Was(b, k) \in 1..Len(qs[b]) /\ rs[b][k] = qs[b][Was(b, k)]
    BY <1>3
  <2>2. a = b /\ Was(a, j) = Was(b, k)
    BY <2>1 DEF OneSeat
  <2> QED BY <2>2, <1>4
<1>7. Apart(rs, tw)
  <2> SUFFICES ASSUME NEW a \in Queues, NEW j \in 1..Len(rs[a]), NEW k \in 1..Len(rs[a]),
                      j # k, Id(rs[a][j]) = Id(rs[a][k])
               PROVE  rs[a][j].serial \in tw /\ rs[a][k].serial \in tw
    BY DEF Apart
  <2>1. /\ Was(a, j) \in 1..Len(qs[a]) /\ rs[a][j] = qs[a][Was(a, j)]
        /\ Was(a, k) \in 1..Len(qs[a]) /\ rs[a][k] = qs[a][Was(a, k)]
        /\ Was(a, j) # Was(a, k)
    BY <1>3, <1>4
  <2>2. Id(qs[a][Was(a, j)]) = Id(qs[a][Was(a, k)])
    BY <2>1
  <2> QED BY <2>1, <2>2 DEF Apart
<1>8. ASSUME NEW s PROVE Sits(rs, s) <=> Sits(qs, s) /\ s # qs[q][i].serial
  <2>1. ASSUME Sits(rs, s) PROVE Sits(qs, s) /\ s # qs[q][i].serial
    <3>0. PICK r \in Queues : \E k \in 1..Len(rs[r]) : rs[r][k].serial = s
      BY <2>1 DEF Sits
    <3>1. PICK k \in 1..Len(rs[r]) : rs[r][k].serial = s
      BY <3>0
    <3>2. qs[r][Was(r, k)].serial = s /\ Was(r, k) \in 1..Len(qs[r])
      BY <3>1, <1>3
    <3>3. s # qs[q][i].serial
      BY <3>2, <1>3 DEF OneSeat
    <3> QED BY <3>2, <3>3 DEF Sits
  <2>2. ASSUME Sits(qs, s), s # qs[q][i].serial PROVE Sits(rs, s)
    <3>0. PICK r \in Queues : \E k \in 1..Len(qs[r]) : qs[r][k].serial = s
      BY <2>2 DEF Sits
    <3>1. PICK k \in 1..Len(qs[r]) : qs[r][k].serial = s
      BY <3>0
    <3>2. PICK j \in 1..Len(rs[r]) : Was(r, j) = k
      BY <3>1, <2>2, <1>5
    <3> QED BY <3>1, <3>2, <1>3 DEF Sits
  <2> QED BY <2>1, <2>2
<1> QED BY <1>2, <1>6, <1>7, <1>8

(* Rewriting an entry in place keeps every serial and every id. *)
LEMMA Rewritten ==
  ASSUME NEW qs \in [Queues -> Seq(Entries)], NEW tw, OneSeat(qs), Apart(qs, tw),
         NEW q \in Queues, NEW i \in 1..Len(qs[q]), NEW f \in Entries,
         f.serial = qs[q][i].serial, Id(f) = Id(qs[q][i]),
         NEW rs, rs = PutBack(qs, q, i, f)
  PROVE  /\ rs \in [Queues -> Seq(Entries)]
         /\ OneSeat(rs) /\ Apart(rs, tw)
         /\ \A s : Sits(rs, s) <=> Sits(qs, s)
<1>1. /\ rs \in [Queues -> Seq(Entries)]
      /\ \A r \in Queues : Len(rs[r]) = Len(qs[r])
      /\ \A r \in Queues : \A k \in 1..Len(qs[r]) :
           rs[r][k].serial = qs[r][k].serial /\ Id(rs[r][k]) = Id(qs[r][k])
  <2>1. [qs[q] EXCEPT ![i] = f] \in Seq(Entries) /\ Len([qs[q] EXCEPT ![i] = f]) = Len(qs[q])
    OBVIOUS
  <2>2. rs[q] = [qs[q] EXCEPT ![i] = f] /\ \A r \in Queues : r # q => rs[r] = qs[r]
    BY DEF PutBack
  <2>3. rs \in [Queues -> Seq(Entries)]
    BY <2>1 DEF PutBack
  <2>4. \A k \in 1..Len(qs[q]) : [qs[q] EXCEPT ![i] = f][k] = IF k = i THEN f ELSE qs[q][k]
    OBVIOUS
  <2>5. ASSUME NEW r \in Queues
        PROVE  /\ Len(rs[r]) = Len(qs[r])
               /\ \A k \in 1..Len(qs[r]) :
                    rs[r][k].serial = qs[r][k].serial /\ Id(rs[r][k]) = Id(qs[r][k])
    <3>1. CASE r = q
      <4>1. ASSUME NEW k \in 1..Len(qs[r])
            PROVE  rs[r][k].serial = qs[r][k].serial /\ Id(rs[r][k]) = Id(qs[r][k])
        <5>1. CASE k = i
          <6>1. rs[r][k] = f
            BY <3>1, <5>1, <2>2, <2>4
          <6> QED BY <3>1, <5>1, <6>1
        <5>2. CASE k # i
          <6>1. rs[r][k] = qs[r][k]
            BY <3>1, <5>2, <2>2, <2>4
          <6> QED BY <6>1
        <5> QED BY <5>1, <5>2
      <4> QED BY <3>1, <4>1, <2>1, <2>2
    <3>2. CASE r # q
      <4>1. rs[r] = qs[r]
        BY <3>2, <2>2
      <4> QED BY <4>1
    <3> QED BY <3>1, <3>2
  <2> QED BY <2>3, <2>5
<1>2. OneSeat(rs)
  BY <1>1 DEF OneSeat
<1>3. Apart(rs, tw)
  <2> SUFFICES ASSUME NEW a \in Queues, NEW j \in 1..Len(rs[a]), NEW k \in 1..Len(rs[a]),
                      j # k, Id(rs[a][j]) = Id(rs[a][k])
               PROVE  rs[a][j].serial \in tw /\ rs[a][k].serial \in tw
    BY DEF Apart
  <2>1. /\ j \in 1..Len(qs[a]) /\ k \in 1..Len(qs[a])
        /\ rs[a][j].serial = qs[a][j].serial /\ rs[a][k].serial = qs[a][k].serial
        /\ Id(qs[a][j]) = Id(qs[a][k])
    BY <1>1
  <2> QED BY <2>1 DEF Apart
<1>4. ASSUME NEW s PROVE Sits(rs, s) <=> Sits(qs, s)
  <2>1. \A r \in Queues : 1..Len(rs[r]) = 1..Len(qs[r])
    BY <1>1
  <2>2. \A r \in Queues : \A k \in 1..Len(qs[r]) : rs[r][k].serial = s <=> qs[r][k].serial = s
    BY <1>1
  <2> QED BY <2>1, <2>2 DEF Sits
<1> QED BY <1>1, <1>2, <1>3, <1>4

(* A new entry with a new serial sits at the end of its queue. *)
LEMMA Appended ==
  ASSUME NEW qs \in [Queues -> Seq(Entries)], NEW tw, OneSeat(qs), Apart(qs, tw),
         NEW e \in Entries, Home[e.intent] \in Queues, ~Sits(qs, e.serial),
         NEW rs, rs = Pushed(qs, e)
  PROVE  /\ rs \in [Queues -> Seq(Entries)]
         /\ OneSeat(rs) /\ Apart(rs, tw \cup Doubled(qs, e))
         /\ \A s : Sits(rs, s) <=> Sits(qs, s) \/ s = e.serial
<1> DEFINE h == Home[e.intent]
<1>1. /\ rs \in [Queues -> Seq(Entries)]
      /\ Len(rs[h]) = Len(qs[h]) + 1 /\ rs[h][Len(qs[h]) + 1] = e
      /\ \A k \in 1..Len(qs[h]) : rs[h][k] = qs[h][k]
      /\ \A r \in Queues : r # h => rs[r] = qs[r]
      /\ Len(qs[h]) \in Nat
  BY DEF Pushed
<1>2. ASSUME NEW k \in 1..Len(qs[h]), Id(qs[h][k]) = Id(e)
      PROVE  qs[h][k].serial \in Doubled(qs, e) /\ e.serial \in Doubled(qs, e)
  <2>1. DOMAIN qs[h] = 1..Len(qs[h])
    OBVIOUS
  <2>2. qs[h][k].serial \in Rivals(qs, e)
    BY <1>2, <2>1 DEF Rivals
  <2> QED BY <2>2 DEF Doubled
<1> HIDE DEF h
<1>3. OneSeat(rs)
  <2> SUFFICES ASSUME NEW a \in Queues, NEW b \in Queues,
                      NEW j \in 1..Len(rs[a]), NEW k \in 1..Len(rs[b]),
                      rs[a][j].serial = rs[b][k].serial
               PROVE  a = b /\ j = k
    BY DEF OneSeat
  <2>1. ASSUME NEW c \in Queues, NEW l \in 1..Len(rs[c])
        PROVE  \/ l \in 1..Len(qs[c]) /\ rs[c][l] = qs[c][l] /\ qs[c][l].serial # e.serial
               \/ c = h /\ l = Len(qs[h]) + 1 /\ rs[c][l] = e
    <3>1. CASE l \in 1..Len(qs[c])
      BY <3>1, <1>1 DEF Sits
    <3>2. CASE l \notin 1..Len(qs[c])
      BY <3>2, <1>1
    <3> QED BY <3>1, <3>2
  <2>2. CASE j \in 1..Len(qs[a]) /\ k \in 1..Len(qs[b]) /\ rs[a][j] = qs[a][j] /\ rs[b][k] = qs[b][k]
    BY <2>2 DEF OneSeat
  <2> QED BY <2>1, <2>2
<1>4. Apart(rs, tw \cup Doubled(qs, e))
  <2> SUFFICES ASSUME NEW q \in Queues, NEW i \in 1..Len(rs[q]), NEW j \in 1..Len(rs[q]),
                      i # j, Id(rs[q][i]) = Id(rs[q][j])
               PROVE  /\ rs[q][i].serial \in tw \cup Doubled(qs, e)
                      /\ rs[q][j].serial \in tw \cup Doubled(qs, e)
    BY DEF Apart
  <2>1. CASE i \in 1..Len(qs[q]) /\ j \in 1..Len(qs[q])
    <3>1. rs[q][i] = qs[q][i] /\ rs[q][j] = qs[q][j]
      BY <2>1, <1>1
    <3>2. Id(qs[q][i]) = Id(qs[q][j])
      BY <3>1
    <3> QED BY <2>1, <3>1, <3>2 DEF Apart
  <2>2. CASE i \in 1..Len(qs[q]) /\ j \notin 1..Len(qs[q])
    <3>1. q = h /\ rs[h][i] = qs[h][i] /\ rs[h][j] = e
      BY <2>2, <1>1
    <3>2. Id(qs[h][i]) = Id(e)
      BY <3>1
    <3> QED BY <2>2, <3>1, <3>2, <1>2
  <2>3. CASE i \notin 1..Len(qs[q]) /\ j \in 1..Len(qs[q])
    <3>1. q = h /\ rs[h][j] = qs[h][j] /\ rs[h][i] = e
      BY <2>3, <1>1
    <3>2. Id(qs[h][j]) = Id(e)
      BY <3>1
    <3> QED BY <2>3, <3>1, <3>2, <1>2
  <2>4. CASE i \notin 1..Len(qs[q]) /\ j \notin 1..Len(qs[q])
    <3>1. q = h
      BY <2>4, <1>1
    <3>2. i = Len(qs[h]) + 1 /\ j = Len(qs[h]) + 1
      BY <2>4, <3>1, <1>1
    <3> QED BY <3>2
  <2> QED BY <2>1, <2>2, <2>3, <2>4
<1>5. ASSUME NEW s PROVE Sits(rs, s) <=> Sits(qs, s) \/ s = e.serial
  <2>1. ASSUME Sits(qs, s) PROVE Sits(rs, s)
    <3>1. PICK r \in Queues : \E k \in 1..Len(qs[r]) : qs[r][k].serial = s
      BY <2>1 DEF Sits
    <3>2. PICK k \in 1..Len(qs[r]) : qs[r][k].serial = s
      BY <3>1
    <3>3. k \in 1..Len(rs[r]) /\ rs[r][k] = qs[r][k]
      BY <1>1
    <3> QED BY <3>2, <3>3 DEF Sits
  <2>2. Sits(rs, e.serial)
    <3>1. h \in Queues /\ Len(qs[h]) + 1 \in 1..Len(rs[h])
      BY <1>1 DEF h
    <3> QED BY <3>1, <1>1 DEF Sits
  <2>3. ASSUME Sits(rs, s) PROVE Sits(qs, s) \/ s = e.serial
    <3>1. PICK r \in Queues : \E k \in 1..Len(rs[r]) : rs[r][k].serial = s
      BY <2>3 DEF Sits
    <3>2. PICK k \in 1..Len(rs[r]) : rs[r][k].serial = s
      BY <3>1
    <3>3. CASE k \in 1..Len(qs[r])
      <4>1. rs[r][k] = qs[r][k]
        BY <3>3, <1>1
      <4> QED BY <3>2, <3>3, <4>1 DEF Sits
    <3>4. CASE k \notin 1..Len(qs[r])
      <4>1. rs[r][k] = e
        BY <3>4, <1>1
      <4> QED BY <3>2, <4>1
    <3> QED BY <3>3, <3>4
  <2> QED BY <2>1, <2>2, <2>3
<1> QED BY <1>1, <1>3, <1>4, <1>5

(* The two ways to say that an entry is queued. *)
LEMMA QueuedSits ==
  ASSUME queues \in [Queues -> Seq(Entries)]
  PROVE  \A s : s \in Queued <=> Sits(queues, s)
<1>1. \A q \in Queues : DOMAIN queues[q] = 1..Len(queues[q])
  OBVIOUS
<1> QED BY <1>1 DEF Queued, QueuedIn, Sits

(* What an entry at a position is, and where its id is found. *)
LEMMA PositionFacts ==
  ASSUME TypeOK, NEW p \in Positions
  PROVE  /\ p[1] \in Queues /\ p[2] \in 1..Len(queues[p[1]]) /\ At(p) \in Entries
         /\ \A i \in Found(queues[p[1]], At(p)) :
              i \in 1..Len(queues[p[1]]) /\ Id(queues[p[1]][i]) = Id(At(p))
<1>1. p[1] \in Queues /\ queues[p[1]] \in Seq(Entries) /\ p[2] \in DOMAIN queues[p[1]]
  BY DEF TypeOK, Positions
<1>2. DOMAIN queues[p[1]] = 1..Len(queues[p[1]])
  BY <1>1
<1>3. At(p) \in Entries
  BY <1>1 DEF At
<1>4. \A i \in Found(queues[p[1]], At(p)) :
        i \in 1..Len(queues[p[1]]) /\ Id(queues[p[1]][i]) = Id(At(p))
  BY <1>2 DEF Found
<1> QED BY <1>1, <1>2, <1>3, <1>4

LEMMA SelectedPositions ==
  Selected \subseteq Positions
BY DEF Selected, Leading, Admitted, Blocked, Waiting

----------------------------------------------------------------------------
(* The inductive invariant.                                                *)

THEOREM InitIInv == Init => IInv
<1> SUFFICES ASSUME Init PROVE IInv
  OBVIOUS
<1>1. \A q \in Queues : queues[q] = <<>> /\ Len(queues[q]) = 0
  BY DEF Init
<1>2. TypeOK
  <2>1. [q \in Queues |-> <<>>] \in [Queues -> Seq(Entries)]
    OBVIOUS
  <2>2. 0 \in 0..MaxClock /\ 0 \in 0..MaxIssued
    BY QueueAssumption
  <2>3. [s \in Serials |-> 0] \in [Serials -> Nat]
    OBVIOUS
  <2> QED BY <2>1, <2>2, <2>3 DEF Init, TypeOK
<1>3. \A s : ~Sits(queues, s)
  BY <1>1 DEF Sits
<1>4. OneSeat(queues) /\ Apart(queues, twins)
  BY <1>1 DEF OneSeat, Apart
<1>5. Account(queues, issued, ran, dropped, twins)
  BY DEF Init, Account
<1>6. Fresh(queues, issued, ran, dropped)
  BY <1>3 DEF Init, Fresh
<1> QED BY <1>2, <1>4, <1>5, <1>6 DEF IInv

(* A new entry of the intent i for the actor u. *)
LEMMA EnqueueStep ==
  ASSUME IInv, QueueAssumption, NEW i \in Intents, NEW u \in Units, NEW slot \in Nat,
         Enqueue(i, u, slot), UNCHANGED battle
  PROVE  IInv'
<1> DEFINE e == Entry(i, u, slot, issued + 1)
<1>1. TypeOK /\ issued < MaxIssued /\ issued + 1 \in Serials /\ issued \in Nat
  BY DEF IInv, TypeOK, Enqueue, Serials, QueueAssumption
<1>2. e \in Entries /\ e.serial = issued + 1 /\ e.intent = i
  BY <1>1 DEF Entry, Entries
<1>3. /\ queues' = Pushed(queues, e) /\ issued' = issued + 1
      /\ twins' = twins \cup Doubled(queues, e) /\ ran' = ran /\ dropped' = dropped
  BY DEF Enqueue
<1>4. ~Sits(queues, e.serial) /\ ran[e.serial] = 0 /\ e.serial \notin dropped
  BY <1>1, <1>2 DEF IInv, Fresh
<1>5. Home[e.intent] \in Queues
  BY <1>2, QueueAssumption
<1>6. queues \in [Queues -> Seq(Entries)]
  BY <1>1 DEF TypeOK
<1> HIDE DEF e
<1>7. /\ queues' \in [Queues -> Seq(Entries)]
      /\ OneSeat(queues') /\ Apart(queues', twins \cup Doubled(queues, e))
      /\ \A s : Sits(queues', s) <=> Sits(queues, s) \/ s = e.serial
  BY <1>2, <1>3, <1>4, <1>5, <1>6, Appended DEF IInv
<1>8. TypeOK'
  <2>1. ASSUME NEW j \in DOMAIN queues[Home[e.intent]]
        PROVE  queues[Home[e.intent]][j].serial \in Serials
    <3>1. queues[Home[e.intent]] \in Seq(Entries)
      BY <1>5, <1>6
    <3>2. queues[Home[e.intent]][j] \in Entries
      BY <3>1
    <3> QED BY <3>2 DEF Entries
  <2>2. Rivals(queues, e) \subseteq Serials
    BY <2>1 DEF Rivals
  <2>4. Doubled(queues, e) \subseteq Serials
    BY <2>2, <1>1, <1>2 DEF Doubled
  <2>3. issued' \in 0..MaxIssued
    BY <1>1, <1>3 DEF Serials
  <2> QED BY <2>4, <2>3, <1>1, <1>3, <1>7 DEF TypeOK, battle
<1>9. Account(queues', issued', ran', dropped', twins')
  BY <1>1, <1>2, <1>3, <1>4, <1>7 DEF IInv, Account
<1>10. Fresh(queues', issued', ran', dropped')
  BY <1>1, <1>2, <1>3, <1>7 DEF IInv, Fresh, Serials
<1> QED BY <1>3, <1>7, <1>8, <1>9, <1>10 DEF IInv

(* The execution of the entry at p takes out the first entry with its id:  *)
(* itself, or both are twins.                                              *)
LEMMA ExecuteStep ==
  ASSUME IInv, QueueAssumption, NEW p \in Positions, Execute(p)
  PROVE  IInv'
<1> DEFINE q == p[1]
           e == At(p)
<1>1. TypeOK /\ queues \in [Queues -> Seq(Entries)]
  BY DEF IInv, TypeOK
<1>2. /\ q \in Queues /\ p[2] \in 1..Len(queues[q]) /\ e \in Entries /\ e = queues[q][p[2]]
      /\ \A i \in Found(queues[q], e) : i \in 1..Len(queues[q]) /\ Id(queues[q][i]) = Id(e)
  BY <1>1, PositionFacts DEF At
<1>3. PICK i \in Found(queues[q], e) : queues' = TakenOut(queues, q, i)
  BY DEF Execute, TakenOut
<1> DEFINE f == queues[q][i]
<1>4. i \in 1..Len(queues[q]) /\ Id(f) = Id(e)
  BY <1>2, <1>3
<1>5. /\ ran' = [ran EXCEPT ![e.serial] = @ + 1] /\ settling' = TRUE
      /\ clock' \in {clock, clock + 1} /\ (clock' = clock \/ clock # MaxClock) /\ window' \in Windows
      /\ UNCHANGED <<canAct, live, issued, dropped, twins>>
  BY DEF Execute
<1>6. f.serial = e.serial \/ (f.serial \in twins /\ e.serial \in twins)
  BY <1>1, <1>2, <1>4 DEF IInv, Apart
<1>7. Sits(queues, e.serial)
  BY <1>2 DEF Sits
<1>8. e.serial \in Serials /\ e.serial <= issued /\ issued \in Nat
  <2>1. e.serial \in Serials /\ issued \in Nat
    <3>1. e.serial \in Serials
      BY <1>2 DEF Entries
    <3>2. issued \in Nat
      BY <1>1, QueueAssumption DEF TypeOK
    <3> QED BY <3>1, <3>2
  <2>2. ~(e.serial > issued)
    BY <2>1, <1>7 DEF IInv, Fresh
  <2> QED BY <2>1, <2>2, QueueAssumption DEF Serials
<1> HIDE DEF q, e
<1>9. /\ queues' \in [Queues -> Seq(Entries)]
      /\ OneSeat(queues') /\ Apart(queues', twins)
      /\ \A s : Sits(queues', s) <=> Sits(queues, s) /\ s # f.serial
  BY <1>1, <1>2, <1>3, <1>4, Removed DEF IInv
<1> HIDE DEF f
<1>10. TypeOK'
  BY <1>1, <1>5, <1>8, <1>9 DEF TypeOK
<1>11. Account(queues', issued', ran', dropped', twins')
  <2> SUFFICES ASSUME NEW s \in (1..issued) \ twins
               PROVE  \/ Sits(queues', s) /\ ran'[s] = 0 /\ s \notin dropped
                      \/ ~Sits(queues', s) /\ ran'[s] = 1 /\ s \notin dropped
                      \/ ~Sits(queues', s) /\ ran'[s] = 0 /\ s \in dropped
    BY <1>5 DEF Account
  <2>1. /\ \/ Sits(queues, s) /\ ran[s] = 0 /\ s \notin dropped
           \/ ~Sits(queues, s) /\ ran[s] = 1 /\ s \notin dropped
           \/ ~Sits(queues, s) /\ ran[s] = 0 /\ s \in dropped
        /\ s \in Serials /\ ran \in [Serials -> Nat]
    BY <1>1 DEF IInv, Account, TypeOK, Serials
  <2>2. CASE s = e.serial
    <3>1. f.serial = s
      BY <2>2, <1>6
    <3>2. ran'[s] = ran[s] + 1
      BY <2>1, <2>2, <1>5
    <3> QED BY <2>1, <2>2, <3>1, <3>2, <1>7, <1>9
  <2>3. CASE s # e.serial
    <3>1. f.serial # s /\ ran'[s] = ran[s]
      BY <2>1, <2>3, <1>5, <1>6
    <3> QED BY <2>1, <3>1, <1>9
  <2> QED BY <2>2, <2>3
<1>12. Fresh(queues', issued', ran', dropped')
  <2> SUFFICES ASSUME NEW s \in Serials, s > issued
               PROVE  ~Sits(queues', s) /\ ran'[s] = 0 /\ s \notin dropped
    BY <1>5 DEF Fresh
  <2>1. ~Sits(queues, s) /\ ran[s] = 0 /\ s \notin dropped /\ ran \in [Serials -> Nat]
    BY <1>1 DEF IInv, Fresh, TypeOK
  <2> QED BY <2>1, <1>5, <1>7, <1>9
<1> QED BY <1>5, <1>9, <1>10, <1>11, <1>12 DEF IInv

(* A terminal resolution takes out, or rewrites in place, the first entry   *)
(* with the id of the planned one.                                          *)
LEMMA TerminalizeStep ==
  ASSUME IInv, QueueAssumption, NEW p \in Positions, Terminalize(p),
         UNCHANGED <<battle, issued, ran, twins>>
  PROVE  IInv'
<1> DEFINE q == p[1]
           e == At(p)
<1>1. TypeOK /\ queues \in [Queues -> Seq(Entries)] /\ issued \in Nat
  BY DEF IInv, TypeOK
<1>2. /\ q \in Queues /\ e \in Entries
      /\ \A i \in Found(queues[q], e) : i \in 1..Len(queues[q]) /\ Id(queues[q][i]) = Id(e)
  BY <1>1, PositionFacts
<1>3. PICK i \in Found(queues[q], e) :
        \/ queues' = [queues EXCEPT ![q][i].waiting = TRUE] /\ dropped' = dropped
        \/ /\ queues' = [queues EXCEPT ![q][i] =
                           [queues[q][i] EXCEPT !.waiting = FALSE, !.targets = RetargetTo[e.intent]]]
           /\ dropped' = dropped
        \/ /\ queues' = TakenOut(queues, q, i)
           /\ dropped' = dropped \cup {queues[q][i].serial}
  BY DEF Terminalize, TakenOut
<1> DEFINE f == queues[q][i]
<1>4. i \in 1..Len(queues[q]) /\ f \in Entries
  BY <1>1, <1>2, <1>3
<1>5. UNCHANGED <<settling, canAct, live, window, clock, issued, ran, twins>>
  BY DEF battle
<1>6. RetargetTo[e.intent] \subseteq Units
  BY <1>2, QueueAssumption DEF Entries
<1>7. ASSUME NEW g \in Entries, g.serial = f.serial, Id(g) = Id(f),
             queues' = PutBack(queues, q, i, g), dropped' = dropped
      PROVE  IInv'
  <2> HIDE DEF q, e, f
  <2>1. /\ queues' \in [Queues -> Seq(Entries)]
        /\ OneSeat(queues') /\ Apart(queues', twins)
        /\ \A s : Sits(queues', s) <=> Sits(queues, s)
    BY <1>1, <1>2, <1>4, <1>7, Rewritten DEF IInv, f
  <2>2. TypeOK'
    BY <1>1, <1>5, <1>7, <2>1 DEF TypeOK
  <2>3. Account(queues', issued', ran', dropped', twins')
    BY <1>5, <1>7, <2>1 DEF IInv, Account
  <2>4. Fresh(queues', issued', ran', dropped')
    BY <1>5, <1>7, <2>1 DEF IInv, Fresh
  <2> QED BY <1>5, <2>1, <2>2, <2>3, <2>4 DEF IInv
<1>8. CASE queues' = [queues EXCEPT ![q][i].waiting = TRUE] /\ dropped' = dropped
  <2> DEFINE g == [f EXCEPT !.waiting = TRUE]
  <2>1. g \in Entries /\ g.serial = f.serial /\ Id(g) = Id(f)
    BY <1>4 DEF Entries, Id
  <2>2. queues' = PutBack(queues, q, i, g)
    BY <1>8 DEF PutBack
  <2> QED BY <2>1, <2>2, <1>7, <1>8
<1>9. CASE /\ queues' = [queues EXCEPT ![q][i] =
                  [queues[q][i] EXCEPT !.waiting = FALSE, !.targets = RetargetTo[e.intent]]]
           /\ dropped' = dropped
  <2> DEFINE g == [f EXCEPT !.waiting = FALSE, !.targets = RetargetTo[e.intent]]
  <2>1. g \in Entries /\ g.serial = f.serial /\ Id(g) = Id(f)
    BY <1>4, <1>6 DEF Entries, Id
  <2>2. queues' = PutBack(queues, q, i, g)
    BY <1>9 DEF PutBack
  <2> QED BY <2>1, <2>2, <1>7, <1>9
<1>10. CASE /\ queues' = TakenOut(queues, q, i)
            /\ dropped' = dropped \cup {f.serial}
  <2>1. Sits(queues, f.serial)
    BY <1>2, <1>4 DEF Sits
  <2>2. f.serial \in Serials /\ f.serial <= issued
    <3>1. f.serial \in Serials
      BY <1>4 DEF Entries
    <3> QED BY <1>1, <2>1, <3>1 DEF IInv, Fresh, Serials
  <2> HIDE DEF q, e
  <2>3. /\ queues' \in [Queues -> Seq(Entries)]
        /\ OneSeat(queues') /\ Apart(queues', twins)
        /\ \A s : Sits(queues', s) <=> Sits(queues, s) /\ s # f.serial
    BY <1>1, <1>2, <1>4, <1>10, Removed DEF IInv
  <2> HIDE DEF f
  <2>4. TypeOK'
    BY <1>1, <1>5, <1>10, <2>2, <2>3 DEF TypeOK
  <2>5. Account(queues', issued', ran', dropped', twins')
    BY <1>5, <1>10, <2>1, <2>3 DEF IInv, Account
  <2>6. Fresh(queues', issued', ran', dropped')
    BY <1>1, <1>5, <1>10, <2>2, <2>3 DEF IInv, Fresh, Serials
  <2> QED BY <1>5, <2>3, <2>4, <2>5, <2>6 DEF IInv
<1> QED BY <1>3, <1>8, <1>9, <1>10

THEOREM NextIInv == IInv /\ [Next]_vars => IInv'
<1> SUFFICES ASSUME IInv, [Next]_vars PROVE IInv'
  OBVIOUS
<1>0. QueueAssumption /\ TypeOK
  BY QueueAssumption DEF IInv
<1>1. CASE ListenerQueues
  <2>1. PICK x \in Inserts : Enqueue(x[1], x[2], Len(queues[Home[x[1]]])) /\ UNCHANGED battle
    BY <1>1 DEF ListenerQueues
  <2>2. x[1] \in Intents /\ x[2] \in Units
    BY QueueAssumption
  <2>3. Len(queues[Home[x[1]]]) \in Nat
    BY <2>2, <1>0 DEF QueueAssumption, TypeOK
  <2> QED BY <2>1, <2>2, <2>3, <1>0, EnqueueStep
<1>2. CASE BattleChanges \/ EndSettlement \/ OtherStep \/ UNCHANGED vars
  <2>1. UNCHANGED <<queues, issued, ran, dropped, twins>>
    BY <1>2 DEF BattleChanges, EndSettlement, OtherStep, vars, history
  <2>2. TypeOK'
    BY <1>0, <1>2, <2>1 DEF TypeOK, BattleChanges, EndSettlement, OtherStep, vars, history, battle
  <2> QED BY <2>1, <2>2 DEF IInv
<1>3. CASE RequestUltimate
  <2>1. PICK i \in Intents, u \in canAct : Enqueue(i, u, clock) /\ UNCHANGED battle
    BY <1>3 DEF RequestUltimate
  <2>2. u \in Units /\ clock \in Nat
    BY <1>0 DEF TypeOK, QueueAssumption
  <2> QED BY <2>1, <2>2, <1>0, EnqueueStep
<1>4. CASE DrainSelected \/ DrainCommanded
  <2>1. PICK p \in Selected : Drain(p)
    BY <1>4 DEF DrainSelected, DrainCommanded
  <2>2. p \in Positions
    BY <2>1, SelectedPositions
  <2>3. CASE Execute(p)
    BY <2>2, <2>3, <1>0, ExecuteStep
  <2>4. CASE Terminalize(p) /\ UNCHANGED <<battle, issued, ran, twins>>
    BY <2>2, <2>4, <1>0, TerminalizeStep
  <2> QED BY <2>1, <2>3, <2>4 DEF Drain
<1> QED BY <1>1, <1>2, <1>3, <1>4 DEF Next

(* The queues hold well-formed entries whatever the policies are. *)
THEOREM QueueTypes == Spec => []TypeOK
<1>1. IInv => TypeOK
  BY DEF IInv
<1> QED BY <1>1, InitIInv, NextIInv, PTL DEF Spec

(* An entry whose id was never shared is queued once and has not run, or it *)
(* left by exactly one execution or one terminal resolution: no call order,  *)
(* policy or length of the queues can run it twice or lose it.               *)
THEOREM EntriesAreAccounted == Spec => []EntriesAccounted
<1>1. IInv => EntriesAccounted
  BY QueuedSits DEF IInv, TypeOK, Account, EntriesAccounted
<1> QED BY <1>1, InitIInv, NextIInv, PTL DEF Spec
----------------------------------------------------------------------------
(* Age in a queue.  What SameIntentInOrder needs beyond IInv is that the    *)
(* entries of a queue stand in the order they were queued in, whatever was  *)
(* taken out from between them.                                             *)

ByAge(qs) ==
  \A q \in Queues : \A i, j \in 1..Len(qs[q]) : i < j => qs[q][i].serial < qs[q][j].serial

LEMMA RemovedByAge ==
  ASSUME NEW qs \in [Queues -> Seq(Entries)], ByAge(qs),
         NEW q \in Queues, NEW i \in 1..Len(qs[q])
  PROVE  ByAge(TakenOut(qs, q, i))
<1> DEFINE s == qs[q]
           rs == TakenOut(qs, q, i)
<1>1. s \in Seq(Entries) /\ i \in 1..Len(s) /\ Len(s) \in Nat
  OBVIOUS
<1>2. rs[q] = Without(s, i) /\ \A r \in Queues : r # q => rs[r] = qs[r]
  BY DEF TakenOut
<1>3. \A j, k \in 1..Len(s) : j < k => s[j].serial < s[k].serial
  BY DEF ByAge
<1> HIDE DEF s, rs
<1>4. /\ Len(Without(s, i)) = Len(s) - 1
      /\ \A k \in 1..(Len(s) - 1) : Without(s, i)[k] = IF k < i THEN s[k] ELSE s[k + 1]
  BY <1>1, WithoutSeq
<1>5. ASSUME NEW j \in 1..(Len(s) - 1), NEW k \in 1..(Len(s) - 1), j < k
      PROVE  Without(s, i)[j].serial < Without(s, i)[k].serial
  <2>1. /\ j \in 1..Len(s) /\ j + 1 \in 1..Len(s) /\ k \in 1..Len(s) /\ k + 1 \in 1..Len(s)
        /\ j < k /\ j < k + 1 /\ j + 1 < k + 1
    BY <1>1, <1>5
  <2>2. Without(s, i)[j] = IF j < i THEN s[j] ELSE s[j + 1]
    BY <1>4
  <2>3. Without(s, i)[k] = IF k < i THEN s[k] ELSE s[k + 1]
    BY <1>4
  <2>4. s[j].serial < s[k].serial /\ s[j].serial < s[k + 1].serial
        /\ s[j + 1].serial < s[k + 1].serial
    BY <1>3, <2>1
  <2>5. ~(~(j < i) /\ k < i)
    BY <1>1, <2>1
  <2> QED BY <2>2, <2>3, <2>4, <2>5
<1>6. ASSUME NEW r \in Queues, NEW j \in 1..Len(rs[r]), NEW k \in 1..Len(rs[r]), j < k
      PROVE  rs[r][j].serial < rs[r][k].serial
  <2>1. CASE r = q
    BY <1>2, <1>4, <1>5, <1>6, <2>1
  <2>2. CASE r # q
    BY <1>2, <1>6, <2>2 DEF ByAge
  <2> QED BY <2>1, <2>2
<1> QED BY <1>6 DEF ByAge, rs

LEMMA RewrittenByAge ==
  ASSUME NEW qs \in [Queues -> Seq(Entries)], ByAge(qs),
         NEW q \in Queues, NEW i \in 1..Len(qs[q]), NEW f \in Entries,
         f.serial = qs[q][i].serial
  PROVE  ByAge(PutBack(qs, q, i, f))
<1> DEFINE s == qs[q]
           rs == PutBack(qs, q, i, f)
<1>1. s \in Seq(Entries) /\ i \in 1..Len(s) /\ f.serial = s[i].serial
  OBVIOUS
<1>2. rs[q] = [s EXCEPT ![i] = f] /\ \A r \in Queues : r # q => rs[r] = qs[r]
  BY DEF PutBack
<1>3. \A j, k \in 1..Len(s) : j < k => s[j].serial < s[k].serial
  BY DEF ByAge
<1> HIDE DEF s, rs
<1>4. /\ Len(rs[q]) = Len(s)
      /\ \A k \in 1..Len(s) : rs[q][k] = IF k = i THEN f ELSE s[k]
  BY <1>1, <1>2
<1>5. \A k \in 1..Len(s) : rs[q][k].serial = s[k].serial
  BY <1>1, <1>4
<1>6. ASSUME NEW r \in Queues, NEW j \in 1..Len(rs[r]), NEW k \in 1..Len(rs[r]), j < k
      PROVE  rs[r][j].serial < rs[r][k].serial
  <2>1. CASE r = q
    BY <1>3, <1>4, <1>5, <1>6, <2>1
  <2>2. CASE r # q
    BY <1>2, <1>6, <2>2 DEF ByAge
  <2> QED BY <2>1, <2>2
<1> QED BY <1>6 DEF ByAge, rs

LEMMA AppendedByAge ==
  ASSUME NEW qs \in [Queues -> Seq(Entries)], ByAge(qs),
         NEW e \in Entries, Home[e.intent] \in Queues,
         \A i \in 1..Len(qs[Home[e.intent]]) : qs[Home[e.intent]][i].serial < e.serial
  PROVE  ByAge(Pushed(qs, e))
<1> DEFINE h == Home[e.intent]
           s == qs[h]
           rs == Pushed(qs, e)
<1>1. s \in Seq(Entries) /\ Len(s) \in Nat /\ h \in Queues
  OBVIOUS
<1>2. rs[h] = Append(s, e) /\ \A r \in Queues : r # h => rs[r] = qs[r]
  BY DEF Pushed
<1>3. /\ \A j, k \in 1..Len(s) : j < k => s[j].serial < s[k].serial
      /\ \A j \in 1..Len(s) : s[j].serial < e.serial
  BY DEF ByAge
<1> HIDE DEF s, h, rs
<1>4. /\ Len(rs[h]) = Len(s) + 1 /\ rs[h][Len(s) + 1] = e
      /\ \A k \in 1..Len(s) : rs[h][k] = s[k]
  BY <1>1, <1>2
<1>5. ASSUME NEW r \in Queues, NEW j \in 1..Len(rs[r]), NEW k \in 1..Len(rs[r]), j < k
      PROVE  rs[r][j].serial < rs[r][k].serial
  <2>1. CASE r = h /\ k = Len(s) + 1
    <3>1. j \in 1..Len(s)
      BY <1>1, <1>4, <1>5, <2>1
    <3> QED BY <1>3, <1>4, <2>1, <3>1
  <2>2. CASE r = h /\ k # Len(s) + 1
    <3>1. j \in 1..Len(s) /\ k \in 1..Len(s)
      BY <1>1, <1>4, <1>5, <2>2
    <3> QED BY <1>3, <1>4, <1>5, <2>2, <3>1
  <2>3. CASE r # h
    BY <1>2, <1>5, <2>3 DEF ByAge
  <2> QED BY <2>1, <2>2, <2>3
<1> QED BY <1>5 DEF ByAge, rs

LEMMA EnqueueKeepsAge ==
  ASSUME IInv, ByAge(queues), NEW i \in Intents, NEW u \in Units, NEW slot \in Nat,
         Enqueue(i, u, slot)
  PROVE  ByAge(queues')
<1> DEFINE e == Entry(i, u, slot, issued + 1)
<1>1. TypeOK /\ queues \in [Queues -> Seq(Entries)] /\ issued \in Nat /\ issued + 1 \in Serials
  BY QueueAssumption DEF IInv, TypeOK, Enqueue, Serials
<1>2. e \in Entries /\ e.serial = issued + 1 /\ e.intent = i /\ queues' = Pushed(queues, e)
  BY <1>1 DEF Entry, Entries, Enqueue
<1>3. Home[e.intent] \in Queues
  BY <1>2, QueueAssumption
<1> HIDE DEF e
<1>4. ASSUME NEW k \in 1..Len(queues[Home[e.intent]])
      PROVE  queues[Home[e.intent]][k].serial < e.serial
  <2> DEFINE s == queues[Home[e.intent]][k].serial
  <2>1. queues[Home[e.intent]] \in Seq(Entries)
    BY <1>1, <1>3
  <2>2. queues[Home[e.intent]][k] \in Entries
    BY <2>1
  <2>3. s \in Serials /\ Sits(queues, s)
    BY <1>3, <2>2 DEF Entries, Sits
  <2>4. ~(s > issued)
    BY <2>3 DEF IInv, Fresh
  <2>5. s \in Nat
    BY <2>3 DEF Serials
  <2> HIDE DEF s
  <2>6. s < e.serial
    BY <1>1, <1>2, <2>4, <2>5
  <2> QED BY <2>6 DEF s
<1> QED BY <1>1, <1>2, <1>3, <1>4, AppendedByAge

LEMMA DrainKeepsAge ==
  ASSUME IInv, ByAge(queues), NEW p \in Positions, Drain(p)
  PROVE  ByAge(queues')
<1> DEFINE q == p[1]
           e == At(p)
<1>1. TypeOK /\ queues \in [Queues -> Seq(Entries)]
  BY DEF IInv, TypeOK
<1>2. /\ q \in Queues /\ e \in Entries
      /\ \A i \in Found(queues[q], e) : i \in 1..Len(queues[q])
  BY <1>1, PositionFacts
<1>3. RetargetTo[e.intent] \subseteq Units
  BY <1>2, QueueAssumption DEF Entries
<1>4. PICK i \in Found(queues[q], e) :
        \/ queues' = [queues EXCEPT ![q][i].waiting = TRUE]
        \/ queues' = [queues EXCEPT ![q][i] =
                         [queues[q][i] EXCEPT !.waiting = FALSE, !.targets = RetargetTo[e.intent]]]
        \/ queues' = TakenOut(queues, q, i)
  BY DEF Drain, Execute, Terminalize, TakenOut
<1> DEFINE f == queues[q][i]
<1>5. i \in 1..Len(queues[q]) /\ f \in Entries
  BY <1>1, <1>2, <1>4
<1>6. CASE queues' = [queues EXCEPT ![q][i].waiting = TRUE]
  <2> DEFINE g == [f EXCEPT !.waiting = TRUE]
  <2>1. g \in Entries /\ g.serial = f.serial
    BY <1>5 DEF Entries
  <2>2. queues' = PutBack(queues, q, i, g)
    BY <1>6 DEF PutBack
  <2> HIDE DEF g, q
  <2> QED BY <1>1, <1>2, <1>5, <2>1, <2>2, RewrittenByAge
<1>7. CASE queues' = [queues EXCEPT ![q][i] =
                  [queues[q][i] EXCEPT !.waiting = FALSE, !.targets = RetargetTo[e.intent]]]
  <2> DEFINE g == [f EXCEPT !.waiting = FALSE, !.targets = RetargetTo[e.intent]]
  <2>1. g \in Entries /\ g.serial = f.serial
    BY <1>3, <1>5 DEF Entries
  <2>2. queues' = PutBack(queues, q, i, g)
    BY <1>7 DEF PutBack
  <2> HIDE DEF g, q
  <2> QED BY <1>1, <1>2, <1>5, <2>1, <2>2, RewrittenByAge
<1>8. CASE queues' = TakenOut(queues, q, i)
  BY <1>1, <1>2, <1>5, <1>8, RemovedByAge
<1> QED BY <1>4, <1>6, <1>7, <1>8

LEMMA NextByAge == IInv /\ ByAge(queues) /\ [Next]_vars => ByAge(queues')
<1> SUFFICES ASSUME IInv, ByAge(queues), [Next]_vars PROVE ByAge(queues')
  OBVIOUS
<1>1. CASE ListenerQueues
  <2>1. PICK x \in Inserts : Enqueue(x[1], x[2], Len(queues[Home[x[1]]]))
    BY <1>1 DEF ListenerQueues
  <2>2. x[1] \in Intents /\ x[2] \in Units
    BY QueueAssumption
  <2>3. Len(queues[Home[x[1]]]) \in Nat
    BY <2>2, QueueAssumption DEF IInv, TypeOK
  <2> QED BY <2>1, <2>2, <2>3, EnqueueKeepsAge
<1>2. CASE BattleChanges \/ EndSettlement \/ OtherStep \/ UNCHANGED vars
  BY <1>2 DEF BattleChanges, EndSettlement, OtherStep, vars, ByAge
<1>3. CASE RequestUltimate
  <2>1. PICK i \in Intents, u \in canAct : Enqueue(i, u, clock)
    BY <1>3 DEF RequestUltimate
  <2>2. u \in Units /\ clock \in Nat
    BY QueueAssumption DEF IInv, TypeOK
  <2> QED BY <2>1, <2>2, EnqueueKeepsAge
<1>4. CASE DrainSelected \/ DrainCommanded
  <2>1. PICK p \in Selected : Drain(p)
    BY <1>4 DEF DrainSelected, DrainCommanded
  <2>2. p \in Positions
    BY <2>1, SelectedPositions
  <2> QED BY <2>1, <2>2, DrainKeepsAge
<1> QED BY <1>1, <1>2, <1>3, <1>4 DEF Next

----------------------------------------------------------------------------
(* The order of the drain.                                                  *)

(* Of two entries of one intent that may be drained, the one in front has  *)
(* the smaller sort key: they differ in their drain order alone.            *)
LEMMA InFrontFirst ==
  ASSUME TypeOK, NEW p \in Admitted, NEW o \in Positions, o[1] = p[1], o[2] < p[2],
         At(o).intent = At(p).intent, ~Awaits(At(o)), PlanOk(At(o))
  PROVE  o \in Admitted /\ Before(SortKey(o), SortKey(p))
<1> DEFINE q == p[1]
           n == Len(queues[q])
<1>1. p \in Positions /\ p[2] \in Open(q) /\ HeadOk(q) /\ PlanOk(At(p))
  BY DEF Admitted
<1>2. q \in Queues /\ p[2] \in 1..n /\ o[2] \in 1..n
  BY <1>1, PositionFacts
<1>3. queues[q] \in Seq(Entries) /\ DOMAIN queues[q] = 1..n /\ n \in Nat
  BY <1>2 DEF TypeOK
<1>4. o[2] \in Open(q) /\ Open(q) \subseteq 1..n
  BY <1>2, <1>3 DEF Open, At
<1>5. o \in Admitted
  BY <1>1, <1>4 DEF Admitted
<1>6. p \notin Waiting /\ o \notin Waiting
  BY <1>1, <1>4 DEF Waiting
<1>7. InForce(At(p)) /\ InForce(At(o))
  BY <1>1 DEF PlanOk
<1> DEFINE before(r) == {j \in Open(q) : j < r}
<1>8. DrainOrder(o) < DrainOrder(p) /\ DrainOrder(o) \in Nat /\ DrainOrder(p) \in Nat
  <2>1. before(o[2]) \subseteq before(p[2]) /\ o[2] \in before(p[2]) \ before(o[2])
    <3>1. o[2] \in Int /\ p[2] \in Int /\ \A j \in Open(q) : j \in Int
      BY <1>2, <1>4
    <3> QED BY <1>4, <3>1
  <2>2. IsFiniteSet(before(p[2]))
    <3>1. IsFiniteSet(1..n)
      BY <1>3, FS_Interval
    <3>2. before(p[2]) \subseteq 1..n
      BY <1>4
    <3> QED BY <3>1, <3>2, FS_Subset
  <2> HIDE DEF before
  <2>3. IsFiniteSet(before(o[2])) /\ Cardinality(before(o[2])) < Cardinality(before(p[2]))
    <3>1. before(o[2]) # before(p[2])
      BY <2>1
    <3>2. /\ IsFiniteSet(before(o[2]))
          /\ Cardinality(before(o[2])) <= Cardinality(before(p[2]))
          /\ Cardinality(before(o[2])) # Cardinality(before(p[2]))
      BY <2>1, <2>2, <3>1, FS_Subset
    <3>3. Cardinality(before(o[2])) \in Nat /\ Cardinality(before(p[2])) \in Nat
      BY <2>2, <3>2, FS_CardinalityType
    <3> QED BY <3>2, <3>3
  <2>4. Cardinality(before(o[2])) \in Nat /\ Cardinality(before(p[2])) \in Nat
    BY <2>2, <2>3, FS_CardinalityType
  <2>5. DrainOrder(o) = Cardinality(before(o[2])) /\ DrainOrder(p) = Cardinality(before(p[2]))
    BY DEF DrainOrder, before
  <2> QED BY <2>3, <2>4, <2>5
<1> DEFINE f == FamilyOrder[Family[At(p).intent]]
           pr == Priority[At(p).intent]
<1>9. /\ SortKey(p) = <<f, 0, pr, DrainOrder(p)>> \o IdKey(At(p))
      /\ SortKey(o) = <<f, 0, pr, DrainOrder(o)>> \o IdKey(At(o))
  BY <1>6, <1>7 DEF SortKey
<1>10. \A a, b : LET k == <<f, 0, pr, a>> \o <<b[1], b[2]>>
                 IN  k[1] = f /\ k[2] = 0 /\ k[3] = pr /\ k[4] = a
  <2> HIDE DEF f, pr
  <2> QED OBVIOUS
<1>11. IdKey(At(p)) = <<IdKey(At(p))[1], IdKey(At(p))[2]>>
       /\ IdKey(At(o)) = <<IdKey(At(o))[1], IdKey(At(o))[2]>>
  BY DEF IdKey
<1>12. /\ SortKey(p)[1] = f /\ SortKey(p)[2] = 0 /\ SortKey(p)[3] = pr
       /\ SortKey(p)[4] = DrainOrder(p)
       /\ SortKey(o)[1] = f /\ SortKey(o)[2] = 0 /\ SortKey(o)[3] = pr
       /\ SortKey(o)[4] = DrainOrder(o)
  <2> HIDE DEF f, pr
  <2> QED BY <1>9, <1>10, <1>11
<1>13. Before(SortKey(o), SortKey(p))
  <2>1. \A m \in 1..(4 - 1) : m = 1 \/ m = 2 \/ m = 3
    OBVIOUS
  <2>2. \A m \in 1..(4 - 1) : SortKey(o)[m] = SortKey(p)[m]
    <3> HIDE DEF f, pr
    <3> QED BY <1>12, <2>1
  <2>3. SortKey(o)[4] < SortKey(p)[4]
    BY <1>8, <1>12
  <2>4. 4 \in 1..6
    OBVIOUS
  <2> QED BY <2>2, <2>3, <2>4 DEF Before
<1> QED BY <1>5, <1>13

(* An entry runs only as the selected one of the admitted plans.            *)
LEMMA RunsSelected ==
  ASSUME TypeOK, [Next]_vars, NEW s, ran'[s] # ran[s]
  PROVE  \E p \in Leading(Admitted) : At(p).serial = s
<1>1. ran' # ran
  OBVIOUS
<1>2. DrainSelected \/ DrainCommanded
  BY <1>1 DEF Next, vars, history, ListenerQueues, Enqueue, BattleChanges, EndSettlement,
     OtherStep, RequestUltimate
<1>3. PICK p \in Selected : Drain(p)
  BY <1>2 DEF DrainSelected, DrainCommanded
<1>4. p \in Admitted /\ Execute(p)
  BY <1>1, <1>3 DEF Drain
<1>5. p \in Leading(Admitted)
  BY <1>3, <1>4 DEF Selected
<1>6. ran' = [ran EXCEPT ![At(p).serial] = @ + 1]
  BY <1>4 DEF Execute
<1>7. s = At(p).serial
  BY <1>6
<1> QED BY <1>5, <1>7

(* No entry is overtaken by a later one of its intent, unless it waits or   *)
(* has no admitted plan (plan_next_drain and its sort key).                 *)
THEOREM IntentsStayInOrder == Spec => SameIntentInOrder
<1>1. IInv /\ ByAge(queues) /\ [Next]_vars
        => \A p \in Positions : ran'[At(p).serial] # ran[At(p).serial] =>
             \A o \in Positions :
               o[1] = p[1] /\ At(o).intent = At(p).intent /\ At(o).serial < At(p).serial
                 => Awaits(At(o)) \/ ~PlanOk(At(o))
  <2> SUFFICES ASSUME IInv, ByAge(queues), [Next]_vars,
                      NEW p \in Positions, ran'[At(p).serial] # ran[At(p).serial],
                      NEW o \in Positions,
                      o[1] = p[1], At(o).intent = At(p).intent, At(o).serial < At(p).serial,
                      ~Awaits(At(o)), PlanOk(At(o))
               PROVE  FALSE
    OBVIOUS
  <2>1. TypeOK
    BY DEF IInv
  <2>2. PICK r \in Leading(Admitted) : At(r).serial = At(p).serial
    BY <2>1, RunsSelected
  <2>3. r \in Admitted /\ r \in Positions
    BY <2>2 DEF Leading, Admitted
  <2>4. /\ r[1] \in Queues /\ r[2] \in 1..Len(queues[r[1]])
        /\ p[1] \in Queues /\ p[2] \in 1..Len(queues[p[1]])
        /\ o[2] \in 1..Len(queues[p[1]])
        /\ At(o) \in Entries /\ At(p) \in Entries
    BY <2>1, <2>3, PositionFacts
  <2>5. r[1] = p[1] /\ r[2] = p[2]
    <3>1. OneSeat(queues)
      BY DEF IInv
    <3>2. queues[r[1]][r[2]].serial = queues[p[1]][p[2]].serial
      BY <2>2 DEF At
    <3> QED BY ONLY <2>4, <3>1, <3>2 DEF OneSeat
  <2>6. At(r) = At(p)
    BY <2>5 DEF At
  <2>7. At(o).serial \in Int /\ At(p).serial \in Int
    BY <2>4 DEF Entries, Serials
  <2>8. ~(p[2] < o[2]) /\ p[2] # o[2]
    <3>1. p[2] < o[2] => At(p).serial < At(o).serial
      BY <2>4 DEF ByAge, At
    <3>2. p[2] = o[2] => At(p) = At(o)
      BY DEF At
    <3> QED BY <2>7, <3>1, <3>2
  <2>9. o[2] < r[2]
    BY <2>4, <2>5, <2>8
  <2>10. o \in Admitted /\ Before(SortKey(o), SortKey(r))
    BY <2>1, <2>3, <2>5, <2>6, <2>9, InFrontFirst
  <2> QED BY <2>2, <2>10 DEF Leading
<1>2. Init => ByAge(queues)
  <2> SUFFICES ASSUME Init, NEW q \in Queues PROVE Len(queues[q]) = 0
    BY DEF ByAge
  <2> QED BY DEF Init
<1>3. ByAge(queues)' <=> ByAge(queues')
  BY DEF ByAge
<1> QED BY <1>1, <1>2, <1>3, NextByAge, InitIInv, NextIInv, PTL DEF Spec, SameIntentInOrder
=============================================================================
