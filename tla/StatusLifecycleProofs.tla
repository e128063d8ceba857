------------------------- MODULE StatusLifecycleProofs -------------------------
(***************************************************************************)
(* Proofs about StatusLifecycle for every set of effects and modifiers:    *)
(* the invariants of the details, and that a sweep counts every status     *)
(* nobody touched exactly once.                                            *)
(***************************************************************************)
EXTENDS StatusLifecycle, SequenceTheorems, TLAPS

(* What a detail of the list, of the sweep's copy or at its head is.       *)
Sound(d) ==
  /\ d \in Details /\ d.stacks > 0
  /\ d.remaining = 0 => Duration[d.id] = 0

Distinct(s) == \A i, j \in DOMAIN s : ModifierOf(s[i]) = ModifierOf(s[j]) => i = j

SoundList(s) == s \in Seq(Details) /\ Distinct(s) /\ \A i \in DOMAIN s : Sound(s[i])

(* The sweep stands inside its copy, and holds the detail of that place,   *)
(* as it was copied when nobody touched it.                                *)
HeadIsCurrent ==
  stage # "idle" =>
    /\ next \in DOMAIN start /\ Len(head) = 1 /\ Sound(head[1])
    /\ head[1].id = start[next].id
    /\ ModifierOf(start[next]) \notin touched => head[1] = start[next]

IInv ==
  /\ TypeOK /\ ListMatchesDetails
  /\ SoundList(details) /\ SoundList(start)
  /\ HeadIsCurrent /\ SweepCountsOnce

-----------------------------------------------------------------------------
(* Taking position i out of a sequence: what is left, and where.           *)
LEMMA RemoveAtElements ==
  ASSUME NEW S, NEW s \in Seq(S), NEW i \in 1..Len(s)
  PROVE  /\ RemoveAt(s, i) \in Seq(S)
         /\ Len(RemoveAt(s, i)) = Len(s) - 1
         /\ \A k \in 1..(Len(s) - 1) : RemoveAt(s, i)[k] = IF k < i THEN s[k] ELSE s[k + 1]
<1> DEFINE a == SubSeq(s, 1, i - 1)
           b == SubSeq(s, i + 1, Len(s))
<1>1. Len(s) \in Nat /\ \A j \in 1..Len(s) : s[j] \in S
  OBVIOUS
<1>2. a \in Seq(S) /\ Len(a) = i - 1 /\ \A k \in 1..(i - 1) : a[k] = s[k]
  BY <1>1, SubSeqProperties
<1>3. b \in Seq(S) /\ Len(b) = Len(s) - i /\ \A k \in 1..(Len(s) - i) : b[k] = s[i + k]
  BY <1>1, SubSeqProperties
<1>4. RemoveAt(s, i) = a \o b
  BY DEF RemoveAt
<1> HIDE DEF a, b
<1>5. /\ a \o b \in Seq(S) /\ Len(a \o b) = Len(a) + Len(b)
      /\ \A k \in 1..(Len(a) + Len(b)) : (a \o b)[k] = IF k <= Len(a) THEN a[k] ELSE b[k - Len(a)]
  BY <1>2, <1>3, ConcatProperties
<1>6. Len(a \o b) = Len(s) - 1
  BY <1>1, <1>2, <1>3, <1>5
<1>7. ASSUME NEW k \in 1..(Len(s) - 1)
      PROVE  (a \o b)[k] = IF k < i THEN s[k] ELSE s[k + 1]
  <2>1. (a \o b)[k] = IF k <= i - 1 THEN a[k] ELSE b[k - (i - 1)]
    BY <1>1, <1>2, <1>3, <1>5
  <2>2. CASE k < i
    BY <1>1, <1>2, <2>1, <2>2
  <2>3. CASE ~(k < i)
    <3>1. k - (i - 1) \in 1..(Len(s) - i) /\ i + (k - (i - 1)) = k + 1
      BY <1>1, <2>3
    <3>2. b[k - (i - 1)] = s[k + 1]
      BY <1>3, <3>1
    <3> QED
      BY <1>1, <2>1, <2>3, <3>2
  <2> QED
    BY <1>1, <2>2, <2>3
<1> QED
  BY <1>4, <1>5, <1>6, <1>7

LEMMA RemoveAtPositions ==
  ASSUME NEW S, NEW s \in Seq(S), NEW i \in 1..Len(s)
  PROVE  /\ \A k \in DOMAIN RemoveAt(s, i) :
              \E j \in DOMAIN s \ {i} : RemoveAt(s, i)[k] = s[j] /\ j = IF k < i THEN k ELSE k + 1
         /\ \A j \in DOMAIN s \ {i} :
              \E k \in DOMAIN RemoveAt(s, i) : RemoveAt(s, i)[k] = s[j]
<1> DEFINE r == RemoveAt(s, i)
<1>1. /\ r \in Seq(S) /\ Len(r) = Len(s) - 1
      /\ \A k \in 1..(Len(s) - 1) : r[k] = IF k < i THEN s[k] ELSE s[k + 1]
  BY RemoveAtElements
<1> HIDE DEF r
<1>2. DOMAIN r = 1..(Len(s) - 1) /\ DOMAIN s = 1..Len(s) /\ Len(s) \in Nat
  BY <1>1
<1>3. ASSUME NEW k \in DOMAIN r
      PROVE  \E j \in DOMAIN s \ {i} : r[k] = s[j] /\ j = IF k < i THEN k ELSE k + 1
  BY <1>1, <1>2
<1>4. ASSUME NEW j \in DOMAIN s \ {i}
      PROVE  \E k \in DOMAIN r : r[k] = s[j]
  <2>1. CASE j < i
    BY <1>1, <1>2, <2>1
  <2>2. CASE j > i
    <3>1. j - 1 \in DOMAIN r /\ r[j - 1] = s[j]
      BY <1>1, <1>2, <2>2
    <3> QED
      BY <3>1
  <2> QED
    BY <1>2, <2>1, <2>2
<1> QED
  BY <1>3, <1>4 DEF r

-----------------------------------------------------------------------------
(* The three ways in which the details change.                             *)

Kept(m) == Instances(m)' = Instances(m)

(* A detail of a modifier that has none is added.                          *)
LEMMA Appending ==
  ASSUME SoundList(details), ListMatchesDetails,
         NEW d, Sound(d), ~Present(ModifierOf(d)),
         details' = Append(details, d), statuses' = statuses \cup {ModifierOf(d)}
  PROVE  /\ SoundList(details)' /\ ListMatchesDetails'
         /\ \A m \in Modifiers \ {ModifierOf(d)} : Kept(m)
<1>1. details \in Seq(Details) /\ d \in Details
  BY DEF SoundList, Sound
<1>2. /\ details' \in Seq(Details) /\ Len(details') = Len(details) + 1
      /\ \A i \in 1..Len(details) : details'[i] = details[i]
      /\ details'[Len(details) + 1] = d
  BY <1>1, AppendProperties
<1>3. /\ DOMAIN details = 1..Len(details) /\ Len(details) \in Nat
      /\ DOMAIN details' = 1..(Len(details) + 1)
  BY <1>1, <1>2
<1>4. \A i \in DOMAIN details' : (i \in DOMAIN details /\ details'[i] = details[i])
                                  \/ (i = Len(details) + 1 /\ details'[i] = d)
  BY <1>2, <1>3
<1>5. \A i \in DOMAIN details : i \in DOMAIN details' /\ details'[i] = details[i]
  BY <1>2, <1>3
<1>6. \E i \in DOMAIN details' : details'[i] = d
  BY <1>2, <1>3
<1>7. Distinct(details')
  BY <1>4 DEF Distinct, SoundList, Present, ModifierOf
<1>8. SoundList(details)'
  BY <1>2, <1>4, <1>7 DEF SoundList, Distinct, Sound, ModifierOf
<1>9. ListMatchesDetails'
  BY <1>4, <1>5, <1>6 DEF ListMatchesDetails, ModifierOf
<1>10. \A m \in Modifiers \ {ModifierOf(d)} : Kept(m)
  BY <1>4, <1>5 DEF Kept, Instances, ModifierOf
<1> QED
  BY <1>8, <1>9, <1>10

(* The detail of a modifier is written over, for the same modifier.        *)
LEMMA Writing ==
  ASSUME SoundList(details), ListMatchesDetails,
         NEW i \in DOMAIN details, NEW d, Sound(d),
         ModifierOf(d) = ModifierOf(details[i]),
         Write(i, d), UNCHANGED statuses
  PROVE  /\ SoundList(details)' /\ ListMatchesDetails'
         /\ Instances(ModifierOf(d))' = {d}
         /\ \A m \in Modifiers \ {ModifierOf(d)} : Kept(m)
<1>1. details \in Seq(Details) /\ d \in Details /\ DOMAIN details = 1..Len(details)
  BY DEF SoundList, Sound
<1>2. details' = [details EXCEPT ![i] = d]
  BY DEF Write
<1>3. details' \in Seq(Details) /\ DOMAIN details' = DOMAIN details
  BY <1>1, <1>2, ExceptSeq
<1>4. \A j \in DOMAIN details : details'[j] = IF j = i THEN d ELSE details[j]
  BY <1>2
<1>5. SoundList(details)'
  BY <1>3, <1>4 DEF SoundList, Distinct, Sound, ModifierOf
<1>6. ListMatchesDetails'
  BY <1>3, <1>4 DEF ListMatchesDetails, ModifierOf
<1>7. Instances(ModifierOf(d))' = {d}
  BY <1>3, <1>4 DEF Instances, ModifierOf, SoundList, Distinct
<1>8. \A m \in Modifiers \ {ModifierOf(d)} : Kept(m)
  BY <1>3, <1>4 DEF Kept, Instances, ModifierOf
<1> QED
  BY <1>5, <1>6, <1>7, <1>8

(* The detail of a modifier is taken out, and with it the status id.       *)
LEMMA TakingOut ==
  ASSUME SoundList(details), ListMatchesDetails,
         NEW i \in DOMAIN details, NEW m, m = ModifierOf(details[i]), TakeOut(i)
  PROVE  /\ SoundList(details)' /\ ListMatchesDetails'
         /\ Instances(m)' = {}
         /\ \A n \in Modifiers \ {m} : Kept(n)
<1>1. details \in Seq(Details) /\ i \in 1..Len(details)
  BY DEF SoundList
<1>2. details' = RemoveAt(details, i)
  BY DEF TakeOut
<1>3. details' \in Seq(Details)
  BY <1>1, <1>2, RemoveAtElements
<1>4. \A k \in DOMAIN details' :
        \E j \in DOMAIN details \ {i} : details'[k] = details[j] /\ j = IF k < i THEN k ELSE k + 1
  BY <1>1, <1>2, RemoveAtPositions
<1>5. \A j \in DOMAIN details \ {i} : \E k \in DOMAIN details' : details'[k] = details[j]
  BY <1>1, <1>2, RemoveAtPositions
<1>6. statuses' = statuses \ {ModifierOf(details[i])}
  BY DEF TakeOut, SoundList, Distinct
<1>7. ASSUME NEW k \in DOMAIN details', NEW l \in DOMAIN details',
             ModifierOf(details'[k]) = ModifierOf(details'[l])
      PROVE  k = l
  <2>1. PICK j \in DOMAIN details \ {i} : details'[k] = details[j] /\ j = IF k < i THEN k ELSE k + 1
    BY <1>4
  <2>2. PICK h \in DOMAIN details \ {i} : details'[l] = details[h] /\ h = IF l < i THEN l ELSE l + 1
    BY <1>4
  <2>3. j = h
    BY <1>7, <2>1, <2>2 DEF SoundList, Distinct
  <2>4. k \in Nat /\ l \in Nat /\ i \in Nat
    BY <1>1, <1>3
  <2> QED
    BY <2>1, <2>2, <2>3, <2>4
<1>8. SoundList(details)'
  BY <1>3, <1>4, <1>7 DEF SoundList, Distinct, Sound, ModifierOf
<1>9. ListMatchesDetails'
  <2>1. \A j \in DOMAIN details \ {i} : ModifierOf(details[j]) # ModifierOf(details[i])
    BY DEF SoundList, Distinct
  <2>2. {ModifierOf(details'[k]) : k \in DOMAIN details'}
          = {ModifierOf(details[j]) : j \in DOMAIN details \ {i}}
    BY <1>4, <1>5
  <2>3. {ModifierOf(details[j]) : j \in DOMAIN details \ {i}}
          = {ModifierOf(details[j]) : j \in DOMAIN details} \ {ModifierOf(details[i])}
    BY <2>1
  <2>4. statuses' = {ModifierOf(details'[k]) : k \in DOMAIN details'}
    BY <1>6, <2>2, <2>3 DEF ListMatchesDetails
  <2> QED
    BY <2>4 DEF ListMatchesDetails, ModifierOf
<1>10. Instances(m)' = {}
  BY <1>4 DEF Instances, ModifierOf, SoundList, Distinct
<1>11. \A n \in Modifiers \ {m} : Kept(n)
  BY <1>4, <1>5 DEF Kept, Instances, ModifierOf
<1> QED
  BY <1>8, <1>9, <1>10, <1>11

-----------------------------------------------------------------------------
(* What a step of either kind owes the invariant.                          *)

Passed(i) == i < next \/ (i = next /\ stage = "callbacks")

Accounted(i) ==
  \/ ~Passed(i) /\ Instances(ModifierOf(start[i])) = {start[i]}
  \/ Passed(i) /\ Instances(ModifierOf(start[i])) = Settled(start[i])
  \/ Passed(i) /\ ~alive /\ Instances(ModifierOf(start[i])) = {start[i]}

LEMMA CountsOnceByPlace ==
  SweepCountsOnce <=>
    \A i \in DOMAIN start : ModifierOf(start[i]) \notin touched => Accounted(i)
BY DEF SweepCountsOnce, Accounted, Passed

LEMMA ModifierType ==
  ASSUME NEW d \in Details
  PROVE  ModifierOf(d) \in Modifiers
BY EffectsAssumption DEF Details, ModifierOf

LEMMA StatusesType ==
  ASSUME SoundList(details), ListMatchesDetails
  PROVE  statuses \subseteq Modifiers
BY ModifierType DEF SoundList, Sound, ListMatchesDetails

(* An effect that touches modifier m and leaves the others alone.          *)
LEMMA EffectKeeps ==
  ASSUME IInv, Settling, NEW m \in Modifiers,
         SoundList(details)', ListMatchesDetails',
         \A n \in Modifiers \ {m} : Kept(n),
         touched' = touched \cup {m}, ops' = ops + 1,
         UNCHANGED <<alive, stage, moment, start, next, head>>
  PROVE  IInv'
<1>1. statuses' \subseteq Modifiers
  BY StatusesType, EffectsAssumption DEF SoundList, Sound, ListMatchesDetails, ModifierOf, Details
<1>2. ops' \in 0..MaxOps
  BY ModifiersAssumption DEF IInv, TypeOK, Settling
<1>3. TypeOK'
  BY <1>1, <1>2 DEF IInv, TypeOK, SoundList
<1>4. HeadIsCurrent'
  BY DEF IInv, HeadIsCurrent, Sound, ModifierOf
<1>5. ASSUME NEW i \in DOMAIN start, ModifierOf(start[i]) \notin touched'
      PROVE  Accounted(i)'
  <2>1. start[i] \in Details
    BY DEF IInv, SoundList, Sound
  <2>2. ModifierOf(start[i]) \in Modifiers \ {m} /\ ModifierOf(start[i]) \notin touched
    BY <1>5, <2>1, ModifierType
  <2>3. Accounted(i)
    BY <2>2, CountsOnceByPlace DEF IInv
  <2>4. \A n : n = ModifierOf(start[i]) => Instances(n)' = Instances(n)
    BY <2>2 DEF Kept
  <2> QED
    BY <2>3, <2>4 DEF Accounted, Passed, Settled, Instances, ModifierOf
<1>6. SweepCountsOnce'
  BY <1>5 DEF SweepCountsOnce, Accounted, Passed, Settled, Instances, ModifierOf
<1> QED
  BY <1>3, <1>4, <1>6 DEF IInv, SoundList, Distinct, Sound, ModifierOf

(* A step of the sweep that leaves place next behind.                      *)
LEMMA PlacePassed ==
  ASSUME IInv, stage # "idle", MoveOn,
         SoundList(details)', ListMatchesDetails',
         NEW c, c = start[next],
         \A n \in Modifiers \ {ModifierOf(c)} : Kept(n),
         ModifierOf(c) \notin touched =>
           \/ Instances(ModifierOf(c))' = Settled(c)
           \/ ~alive /\ Instances(ModifierOf(c))' = {c},
         UNCHANGED <<alive, moment, start, touched, ops>>
  PROVE  IInv'
<1>1. next \in DOMAIN start /\ DOMAIN start = 1..Len(start) /\ Len(start) \in Nat
  BY DEF IInv, HeadIsCurrent, SoundList
<1>2. /\ next' = next + 1 /\ stage' \in {"entry", "idle"}
      /\ stage' = "entry" => next' \in DOMAIN start /\ head' = <<start[next']>>
      /\ stage' = "idle" => head' = <<>>
  BY DEF MoveOn, StageAt, HeadAt
<1>3. \A i \in DOMAIN start : start[i] \in Details /\ Sound(start[i])
  BY DEF IInv, SoundList, Sound
<1>4. head' \in Seq(Details) /\ Len(head') <= 1
  <2>1. CASE stage' = "entry"
    <3>1. PICK d \in Details : head' = <<d>>
      BY <1>2, <1>3, <2>1
    <3> QED
      BY <3>1
  <2>2. CASE stage' = "idle"
    BY <1>2, <2>2
  <2> QED
    BY <1>2, <2>1, <2>2
<1>5. statuses' \subseteq Modifiers
  BY EffectsAssumption DEF SoundList, Sound, ListMatchesDetails, ModifierOf, Details
<1>6. TypeOK'
  BY <1>1, <1>2, <1>4, <1>5 DEF IInv, TypeOK, SoundList, Stages
<1>7. HeadIsCurrent'
  BY <1>2, <1>3 DEF HeadIsCurrent, Sound, ModifierOf
<1>8. ASSUME NEW i \in DOMAIN start, ModifierOf(start[i]) \notin touched
      PROVE  Accounted(i)'
  <2>1. CASE i = next
    <3>1. Passed(i)'
      BY <1>1, <1>2, <2>1 DEF Passed
    <3> QED
      BY <1>8, <2>1, <3>1 DEF Accounted, Settled, Instances, ModifierOf
  <2>2. CASE i # next
    <3>1. Accounted(i)
      BY <1>8, CountsOnceByPlace DEF IInv
    <3>2. ModifierOf(start[i]) \in Modifiers \ {ModifierOf(c)}
      BY <1>1, <1>3, <2>2, ModifierType DEF IInv, SoundList, Distinct
    <3>3. \A n : n = ModifierOf(start[i]) => Instances(n)' = Instances(n)
      BY <3>2 DEF Kept
    <3>4. Passed(i)' <=> Passed(i)
      BY <1>1, <1>2, <2>2 DEF Passed
    <3> QED
      BY <3>1, <3>3, <3>4 DEF Accounted, Settled, Instances, ModifierOf
  <2> QED
    BY <2>1, <2>2
<1>9. SweepCountsOnce'
  BY <1>8 DEF SweepCountsOnce, Accounted, Passed, Settled, Instances, ModifierOf
<1> QED
  BY <1>6, <1>7, <1>9 DEF IInv, SoundList, Distinct, Sound, ModifierOf

-----------------------------------------------------------------------------
(* The settlements.                                                        *)

(* Reapplying an effect yields a detail of its modifier, sound unless the  *)
(* last stack went.                                                        *)
LEMMA ReappliedType ==
  ASSUME NEW e \in Effects, NEW old, Sound(old)
  PROVE  /\ Reapplied(e, old) \in Details /\ Reapplied(e, old).id = e
         /\ Reapplied(e, old).stacks # 0 => Sound(Reapplied(e, old))
<1> DEFINE d == Reapplied(e, old)
<1>1. old.stacks \in Nat /\ old.stacks > 0 /\ old.remaining \in Nat
  BY DEF Sound, Details
<1>2. MaxStacks(e) \in Nat /\ LayerDelta[e] \in Int /\ Duration[e] \in Nat
  BY EffectsAssumption DEF MaxStacks
<1>3. Clamp(e, old.stacks + LayerDelta[e]) \in Nat
  BY <1>1, <1>2 DEF Clamp
<1>4. d.stacks \in Nat /\ d.id = e
  BY <1>1, <1>3 DEF Reapplied
<1>5. d.remaining \in Nat /\ (d.remaining = 0 => Duration[e] = 0)
  BY <1>1, <1>2 DEF Reapplied
<1>6. d = [id |-> d.id, stacks |-> d.stacks, remaining |-> d.remaining]
  BY DEF Reapplied
<1>7. d \in Details
  BY <1>4, <1>5, <1>6 DEF Details
<1> QED
  BY <1>4, <1>5, <1>7 DEF Sound

LEMMA DetailAt ==
  ASSUME IInv, NEW i \in DOMAIN details
  PROVE  /\ Sound(details[i]) /\ details[i] \in Details
         /\ ModifierOf(details[i]) \in Modifiers
BY ModifierType DEF IInv, SoundList, Sound

LEMMA TakingOutKeeps ==
  ASSUME IInv, Settling, NEW i \in DOMAIN details, TakeOut(i),
         Remember(ModifierOf(details[i])), ops' = ops + 1,
         UNCHANGED <<alive, stage, moment, start, next, head>>
  PROVE  IInv'
<1>1. PICK m \in Modifiers : m = ModifierOf(details[i])
  BY DetailAt
<1>2. /\ SoundList(details)' /\ ListMatchesDetails'
      /\ \A n \in Modifiers \ {m} : Kept(n)
  BY <1>1, TakingOut DEF IInv
<1>3. touched' = touched \cup {m}
  BY <1>1 DEF Remember
<1> QED
  BY <1>2, <1>3, EffectKeeps

LEMMA SettlementStep ==
  ASSUME IInv, Settlement
  PROVE  IInv'
<1>1. ASSUME NEW e \in Effects, AddModifier(e)
      PROVE  IInv'
  <2>1. PICK d : d = [id |-> e, stacks |-> 1, remaining |-> Duration[e]]
    OBVIOUS
  <2>2. Sound(d) /\ d \in Details /\ ModifierOf(d) = Modifier[e] /\ Modifier[e] \in Modifiers
    BY <2>1, EffectsAssumption DEF Sound, Details, ModifierOf
  <2>3. Settling /\ details' = Append(details, d) /\ Remember(Modifier[e])
    BY <1>1, <2>1 DEF AddModifier
  <2>4. ~Present(ModifierOf(d))
    BY <1>1, <2>2 DEF AddModifier, NewOperation
  <2>5. /\ SoundList(details)' /\ ListMatchesDetails'
        /\ \A n \in Modifiers \ {Modifier[e]} : Kept(n)
    BY <1>1, <2>2, <2>3, <2>4, Appending DEF IInv, AddModifier
  <2>6. touched' = touched \cup {Modifier[e]}
    BY <2>3 DEF Remember
  <2> QED
    BY <1>1, <2>2, <2>3, <2>5, <2>6, EffectKeeps DEF AddModifier
<1>2. ASSUME NEW e \in Effects, Reapply(e)
      PROVE  IInv'
  <2>1. PICK i \in Slots(e) :
          IF Reapplied(e, details[i]).stacks = 0
          THEN TakeOut(i) /\ Remember(Modifier[e])
          ELSE /\ Write(i, Reapplied(e, details[i]))
               /\ Remember(Modifier[e]) /\ UNCHANGED statuses
    BY <1>2 DEF Reapply
  <2>2. i \in DOMAIN details /\ ModifierOf(details[i]) = Modifier[e]
    BY DEF Slots
  <2>3. Settling /\ ops' = ops + 1 /\ UNCHANGED <<alive, stage, moment, start, next, head>>
    BY <1>2 DEF Reapply
  <2>4. CASE Reapplied(e, details[i]).stacks = 0
    BY <2>1, <2>2, <2>3, <2>4, TakingOutKeeps
  <2>5. CASE Reapplied(e, details[i]).stacks # 0
    <3>1. PICK d : d = Reapplied(e, details[i])
      OBVIOUS
    <3>2. Sound(d) /\ d \in Details /\ d.id = e
      BY <2>2, <2>5, <3>1, DetailAt, ReappliedType
    <3>3. ModifierOf(d) = Modifier[e] /\ Modifier[e] \in Modifiers
      BY <3>2, EffectsAssumption DEF ModifierOf
    <3>4. Write(i, d) /\ Remember(Modifier[e]) /\ UNCHANGED statuses
      BY <2>1, <2>5, <3>1
    <3>5. /\ SoundList(details)' /\ ListMatchesDetails'
          /\ \A n \in Modifiers \ {Modifier[e]} : Kept(n)
      BY <2>2, <3>2, <3>3, <3>4, Writing DEF IInv
    <3>6. touched' = touched \cup {Modifier[e]}
      BY <3>4 DEF Remember
    <3> QED
      BY <2>3, <3>3, <3>5, <3>6, EffectKeeps
  <2> QED
    BY <2>4, <2>5
<1>3. ASSUME NEW m \in Modifiers, RemoveModifier(m)
      PROVE  IInv'
  <2>1. PICK i \in DOMAIN details : ModifierOf(details[i]) = m /\ TakeOut(i)
    BY <1>3 DEF RemoveModifier
  <2> QED
    BY <1>3, <2>1, TakingOutKeeps DEF RemoveModifier
<1>4. ASSUME NEW order, Dispel(order)
      PROVE  IInv'
  <2>1. PICK i \in DOMAIN details : TakeOut(i) /\ Remember(ModifierOf(details[i]))
    BY <1>4 DEF Dispel
  <2> QED
    BY <1>4, <2>1, TakingOutKeeps DEF Dispel
<1>5. CASE Defeat
  <2>1. ops' \in 0..MaxOps
    BY <1>5, ModifiersAssumption DEF IInv, TypeOK, Settling, Defeat
  <2>2. TypeOK'
    BY <1>5, <2>1 DEF IInv, TypeOK, Defeat
  <2>3. HeadIsCurrent' /\ ListMatchesDetails' /\ SoundList(details)' /\ SoundList(start)'
    BY <1>5 DEF IInv, Defeat, HeadIsCurrent, ListMatchesDetails, SoundList, Distinct, Sound, ModifierOf
  <2>4. SweepCountsOnce'
    BY <1>5 DEF IInv, Defeat, SweepCountsOnce, Settled, Instances, ModifierOf
  <2> QED
    BY <2>2, <2>3, <2>4 DEF IInv
<1> QED
  BY <1>1, <1>2, <1>3, <1>4, <1>5 DEF Settlement

-----------------------------------------------------------------------------
(* The steps of the sweep.                                                 *)

(* Where the sweep stands, and what it holds there.                        *)
LEMMA CurrentPlace ==
  ASSUME IInv, stage # "idle"
  PROVE  /\ next \in DOMAIN start /\ Sound(start[next]) /\ Sound(head[1])
         /\ ModifierOf(head[1]) = ModifierOf(start[next])
         /\ ModifierOf(start[next]) \in Modifiers
         /\ ModifierOf(start[next]) \notin touched =>
              head[1] = start[next] /\ Accounted(next)
BY ModifierType, CountsOnceByPlace DEF IInv, HeadIsCurrent, SoundList, Sound, ModifierOf

(* An untouched status is there as copied until its place is passed.       *)
LEMMA UntouchedIsThere ==
  ASSUME IInv, stage \notin {"idle", "callbacks"},
         ModifierOf(start[next]) \notin touched
  PROVE  /\ Instances(ModifierOf(start[next])) = {start[next]}
         /\ \E i \in DOMAIN details : details[i] = head[1]
<1>1. Accounted(next) /\ head[1] = start[next] /\ next \in Nat
  BY CurrentPlace DEF IInv, TypeOK
<1>2. Instances(ModifierOf(start[next])) = {start[next]}
  BY <1>1 DEF Accounted, Passed
<1> QED
  BY <1>1, <1>2 DEF Instances

LEMMA SweepStep ==
  ASSUME IInv, Sweep
  PROVE  IInv'
<1>1. CASE DispatchPhase
  <2>1. TypeOK' /\ HeadIsCurrent'
    BY <1>1 DEF IInv, TypeOK, HeadIsCurrent, DispatchPhase, Stages, Sound, ModifierOf
  <2>2. stage # "callbacks" /\ stage' # "callbacks"
    BY <1>1 DEF DispatchPhase
  <2>3. SweepCountsOnce'
    BY <1>1, <2>2 DEF IInv, DispatchPhase, SweepCountsOnce, Settled, Instances, ModifierOf
  <2>4. ListMatchesDetails' /\ SoundList(details)' /\ SoundList(start)'
    BY <1>1 DEF IInv, DispatchPhase, ListMatchesDetails, SoundList, Distinct, Sound, ModifierOf
  <2> QED
    BY <2>1, <2>3, <2>4 DEF IInv
<1>2. ASSUME stage # "idle", MoveOn,
             UNCHANGED <<alive, statuses, details, moment, start, touched, ops>>,
             ModifierOf(start[next]) \notin touched =>
               \/ Instances(ModifierOf(start[next])) = Settled(start[next])
               \/ ~alive /\ Instances(ModifierOf(start[next])) = {start[next]}
      PROVE  IInv'
  <2>1. PICK c : c = start[next]
    OBVIOUS
  <2>2. ListMatchesDetails' /\ SoundList(details)'
    BY <1>2 DEF IInv, ListMatchesDetails, SoundList, Distinct, Sound, ModifierOf
  <2>3. \A n : Instances(n)' = Instances(n)
    BY <1>2 DEF Instances, ModifierOf
  <2>4. \A n \in Modifiers \ {ModifierOf(c)} : Kept(n)
    BY <2>3 DEF Kept
  <2>5. ModifierOf(c) \notin touched =>
          \/ Instances(ModifierOf(c))' = Settled(c)
          \/ ~alive /\ Instances(ModifierOf(c))' = {c}
    BY <1>2, <2>1, <2>3
  <2> QED
    BY <1>2, <2>1, <2>2, <2>4, <2>5, PlacePassed
<1>3. CASE ReadAgain
  <2>1. stage \notin {"idle", "callbacks"}
    BY <1>3 DEF ReadAgain
  <2>2. CASE \E i \in DOMAIN details : details[i].id = head[1].id
    <3>1. PICK i \in DOMAIN details : details[i].id = head[1].id /\ head' = <<details[i]>>
      BY <1>3, <2>2 DEF ReadAgain
    <3>2. /\ stage' \in {"middle", "ready"}
          /\ UNCHANGED <<alive, statuses, details, moment, start, next, touched, ops>>
      BY <1>3, <2>2 DEF ReadAgain
    <3>3. Sound(details[i]) /\ details[i] \in Details
      BY DetailAt
    <3>4. TypeOK'
      BY <3>1, <3>2, <3>3 DEF IInv, TypeOK, Stages
    <3>5. ModifierOf(start[next]) \notin touched => details[i] = start[next]
      <4>1. ModifierOf(details[i]) = ModifierOf(start[next])
        BY <2>1, <3>1, CurrentPlace DEF ModifierOf
      <4>2. details[i] \in Instances(ModifierOf(start[next]))
        BY <4>1 DEF Instances
      <4> QED
        BY <2>1, <4>2, UntouchedIsThere
    <3>6. next \in DOMAIN start /\ details[i].id = start[next].id
      BY <2>1, <3>1 DEF IInv, HeadIsCurrent
    <3>7. PICK d : d = details[i]
      OBVIOUS
    <3>8. head' = <<d>> /\ Len(head') = 1 /\ head'[1] = d
      BY <3>1, <3>7
    <3>9. HeadIsCurrent'
      BY <3>2, <3>3, <3>5, <3>6, <3>7, <3>8 DEF HeadIsCurrent, Sound, ModifierOf
    <3>10. SweepCountsOnce'
      BY <2>1, <3>2 DEF IInv, SweepCountsOnce, Settled, Instances, ModifierOf
    <3>11. ListMatchesDetails' /\ SoundList(details)' /\ SoundList(start)'
      BY <3>2 DEF IInv, ListMatchesDetails, SoundList, Distinct, Sound, ModifierOf
    <3> QED
      BY <3>4, <3>9, <3>10, <3>11 DEF IInv
  <2>3. CASE \A i \in DOMAIN details : details[i].id # head[1].id
    <3>1. ModifierOf(start[next]) \in touched
      BY <2>1, <2>3, UntouchedIsThere
    <3> QED
      BY <1>2, <1>3, <2>1, <2>3, <3>1 DEF ReadAgain
  <2> QED
    BY <2>2, <2>3
<1>4. CASE SkipStatus
  <2>1. stage \notin {"idle", "callbacks"}
    BY <1>4 DEF SkipStatus, AtTick
  <2>2. ASSUME ModifierOf(start[next]) \notin touched
        PROVE  \/ Instances(ModifierOf(start[next])) = Settled(start[next])
               \/ ~alive /\ Instances(ModifierOf(start[next])) = {start[next]}
    <3>1. /\ Instances(ModifierOf(start[next])) = {start[next]}
          /\ head[1] = start[next] /\ start[next].remaining \in Nat
      BY <2>1, <2>2, UntouchedIsThere, CurrentPlace DEF Sound, Details
    <3> QED
      BY <1>4, <3>1 DEF SkipStatus, CountsDown, Settled
  <2> QED
    BY <1>2, <1>4, <2>1, <2>2 DEF SkipStatus
<1>5. CASE NextStatus
  <2>1. stage = "callbacks" /\ next \in Nat
    BY <1>5 DEF NextStatus, IInv, TypeOK
  <2>2. Passed(next)
    BY <2>1 DEF Passed
  <2> QED
    BY <1>2, <1>5, <2>1, <2>2, CurrentPlace DEF NextStatus, Accounted
<1>6. CASE TickStatus
  <2>1. /\ stage \notin {"idle", "callbacks"} /\ MoveOn
        /\ UNCHANGED <<alive, statuses, moment, start, touched, ops>>
        /\ CountsDown(head[1]) /\ ~Expires(head[1])
    BY <1>6 DEF TickStatus, AtTick
  <2>2. PICK c : c = start[next]
    OBVIOUS
  <2>3. PICK d : d = [head[1] EXCEPT !.remaining = @ - 1]
    OBVIOUS
  <2>4. Sound(d) /\ d.id = head[1].id
    BY <2>1, <2>3, CurrentPlace DEF Sound, Details, Expires
  <2>5. ModifierOf(d) = ModifierOf(c) /\ ModifierOf(c) = ModifierOf(head[1])
    BY <2>1, <2>2, <2>4, CurrentPlace DEF ModifierOf
  <2>6. details' = [i \in DOMAIN details |-> IF details[i].id = d.id THEN d ELSE details[i]]
    BY <1>6, <2>3, <2>4 DEF TickStatus
  <2>7. CASE \E i \in DOMAIN details : details[i].id = d.id
    <3>1. PICK i \in DOMAIN details : details[i].id = d.id
      BY <2>7
    <3>2. \A j \in DOMAIN details : details[j].id = d.id => j = i
      BY <3>1 DEF IInv, SoundList, Distinct, ModifierOf
    <3>3. Write(i, d)
      <4>1. \A j \in DOMAIN details : details[j].id = d.id <=> j = i
        BY <3>1, <3>2
      <4>2. \A j \in DOMAIN details : details'[j] = IF j = i THEN d ELSE details[j]
        BY <2>6, <4>1
      <4>3. /\ DOMAIN details' = DOMAIN details
            /\ details' = [j \in DOMAIN details |-> details'[j]]
        BY <2>6
      <4>4. details' = [j \in DOMAIN details |-> IF j = i THEN d ELSE details[j]]
        BY <4>2, <4>3
      <4> QED
        BY <4>4 DEF Write, IInv, SoundList
    <3>4. ModifierOf(d) = ModifierOf(details[i])
      BY <3>1 DEF ModifierOf
    <3>5. /\ SoundList(details)' /\ ListMatchesDetails'
          /\ Instances(ModifierOf(c))' = {d}
          /\ \A n \in Modifiers \ {ModifierOf(c)} : Kept(n)
      <4>1. /\ SoundList(details)' /\ ListMatchesDetails'
            /\ Instances(ModifierOf(d))' = {d}
            /\ \A n \in Modifiers \ {ModifierOf(d)} : Kept(n)
        BY <2>1, <2>4, <3>3, <3>4, Writing DEF IInv
      <4> QED
        BY <2>5, <4>1
    <3>6. ModifierOf(c) \notin touched => Settled(c) = {d}
      BY <2>1, <2>2, <2>3, CurrentPlace DEF Settled, CountsDown, Expires, Sound, Details
    <3> QED
      BY <2>1, <2>2, <3>5, <3>6, PlacePassed
  <2>8. CASE \A i \in DOMAIN details : details[i].id # d.id
    <3>1. ModifierOf(start[next]) \in touched
      BY <2>1, <2>4, <2>8, UntouchedIsThere
    <3>2. UNCHANGED details
      BY <2>6, <2>8 DEF IInv, SoundList
    <3> QED
      BY <1>2, <2>1, <3>1, <3>2
  <2> QED
    BY <2>7, <2>8
<1>7. CASE ExpireStatus
  <2>1. /\ stage \notin {"idle", "callbacks"} /\ stage' = "callbacks"
        /\ UNCHANGED <<alive, moment, start, next, head, touched, ops>>
        /\ CountsDown(head[1]) /\ Expires(head[1])
    BY <1>7 DEF ExpireStatus, AtTick
  <2>2. PICK c : c = start[next]
    OBVIOUS
  <2>3. PICK m \in Modifiers : m = ModifierOf(c)
    BY <2>1, <2>2, CurrentPlace
  <2>4. next \in Nat
    BY DEF IInv, TypeOK
  <2>5. ASSUME SoundList(details)', ListMatchesDetails',
               \A n \in Modifiers \ {m} : Kept(n),
               m \notin touched => Instances(m)' = Settled(c)
        PROVE  IInv'
    <3>1. TypeOK' /\ HeadIsCurrent'
      <4>1. statuses' \subseteq Modifiers
        BY <2>5, EffectsAssumption DEF SoundList, Sound, ListMatchesDetails, ModifierOf, Details
      <4> QED
        BY <2>1, <2>5, <4>1 DEF IInv, TypeOK, HeadIsCurrent, SoundList, Stages, Sound, ModifierOf
    <3>2. ASSUME NEW i \in DOMAIN start, ModifierOf(start[i]) \notin touched
          PROVE  Accounted(i)'
      <4>1. CASE i = next
        BY <2>1, <2>2, <2>3, <2>4, <2>5, <3>2, <4>1 DEF Accounted, Passed, Settled, Instances, ModifierOf
      <4>2. CASE i # next
        <5>1. Accounted(i)
          BY <3>2, CountsOnceByPlace DEF IInv
        <5>2. ModifierOf(start[i]) \in Modifiers \ {m}
          BY <2>1, <2>2, <2>3, <4>2, ModifierType, CurrentPlace DEF IInv, SoundList, Distinct, Sound
        <5>3. \A n : n = ModifierOf(start[i]) => Instances(n)' = Instances(n)
          BY <2>5, <5>2 DEF Kept
        <5>4. Passed(i)' <=> Passed(i)
          BY <2>1, <4>2 DEF Passed
        <5> QED
          BY <2>1, <5>1, <5>3, <5>4 DEF Accounted, Settled, Instances, ModifierOf
      <4> QED
        BY <4>1, <4>2
    <3>3. SweepCountsOnce'
      BY <2>1, <3>2 DEF SweepCountsOnce, Accounted, Passed, Settled, Instances, ModifierOf
    <3> QED
      BY <2>1, <2>5, <3>1, <3>3 DEF IInv, SoundList, Distinct, Sound, ModifierOf
  <2>6. CASE \E i \in DOMAIN details : details[i].id = head[1].id /\ TakeOut(i)
    <3>1. PICK i \in DOMAIN details : details[i].id = head[1].id /\ TakeOut(i)
      BY <2>6
    <3>2. m = ModifierOf(details[i])
      BY <2>1, <2>2, <2>3, <3>1, CurrentPlace DEF ModifierOf
    <3>3. /\ SoundList(details)' /\ ListMatchesDetails' /\ Instances(m)' = {}
          /\ \A n \in Modifiers \ {m} : Kept(n)
      BY <3>1, <3>2, TakingOut DEF IInv
    <3>4. m \notin touched => Settled(c) = {}
      BY <2>1, <2>2, <2>3, CurrentPlace DEF Settled, CountsDown, Expires, Sound, Details
    <3> QED
      BY <2>5, <3>3, <3>4
  <2>7. CASE /\ \A i \in DOMAIN details : details[i].id # head[1].id
             /\ statuses' = {n \in statuses : n # ModifierOf(head[1]) \/ Present(n)}
             /\ UNCHANGED details
    <3>1. m \in touched
      BY <2>1, <2>2, <2>3, <2>7, UntouchedIsThere
    <3>2. \A n \in statuses : Present(n)
      BY DEF IInv, ListMatchesDetails, Present
    <3>3. UNCHANGED statuses
      BY <2>7, <3>2
    <3>4. SoundList(details)' /\ ListMatchesDetails' /\ \A n : Kept(n)
      BY <2>7, <3>3 DEF IInv, SoundList, Distinct, Sound, ListMatchesDetails, Kept, Instances, ModifierOf
    <3> QED
      BY <2>5, <3>1, <3>4
  <2> QED
    BY <1>7, <2>6, <2>7 DEF ExpireStatus
<1> QED
  BY <1>1, <1>3, <1>4, <1>5, <1>6, <1>7 DEF Sweep

LEMMA BeginSweepStep ==
  ASSUME IInv, NEW m \in Moments, BeginSweep(m)
  PROVE  IInv'
<1>1. /\ start' = details /\ next' = 1 /\ moment' = m /\ touched' = {}
      /\ UNCHANGED <<alive, statuses, details, ops>>
  BY DEF BeginSweep
<1>2. DOMAIN details = 1..Len(details) /\ Len(details) \in Nat
  BY DEF IInv, SoundList
<1>3. \/ stage' = "entry" /\ 1 \in DOMAIN details /\ head' = <<details[1]>>
      \/ stage' = "idle" /\ details = <<>> /\ head' = <<>>
  BY <1>2 DEF BeginSweep, HeadAt, StageAt, IInv, SoundList
<1>4. \A i \in DOMAIN details : Sound(details[i]) /\ details[i] \in Details
  BY DetailAt
<1>5. head' \in Seq(Details) /\ Len(head') <= 1
  <2>1. CASE stage' = "entry"
    <3>1. PICK d \in Details : head' = <<d>>
      BY <1>3, <1>4, <2>1
    <3> QED
      BY <3>1
  <2>2. CASE stage' = "idle"
    BY <1>3, <2>2
  <2> QED
    BY <1>3, <2>1, <2>2
<1>6. TypeOK'
  BY <1>1, <1>2, <1>3, <1>5 DEF IInv, TypeOK, Stages
<1>7. HeadIsCurrent'
  BY <1>1, <1>3, <1>4 DEF HeadIsCurrent, Sound, ModifierOf
<1>8. ASSUME NEW i \in DOMAIN details
      PROVE  Instances(ModifierOf(details[i])) = {details[i]} /\ ~(i < 1)
  BY <1>2 DEF Instances, IInv, SoundList, Distinct
<1>9. SweepCountsOnce'
  <2>1. \A i \in DOMAIN details : Accounted(i)'
    BY <1>1, <1>3, <1>8 DEF Accounted, Passed, Instances, ModifierOf
  <2> QED
    BY <1>1, <2>1 DEF SweepCountsOnce, Accounted, Passed, Settled, Instances, ModifierOf
<1> QED
  BY <1>1, <1>6, <1>7, <1>9
  DEF IInv, SoundList, Distinct, Sound, ListMatchesDetails, ModifierOf

-----------------------------------------------------------------------------
(* The invariant of the statuses of one unit holds in every behaviour.     *)
THEOREM StatusesInductive == Spec => []IInv
<1>1. Init => IInv
  <2> SUFFICES ASSUME Init PROVE IInv
    OBVIOUS
  <2>1. TypeOK /\ SoundList(details) /\ SoundList(start)
    BY ModifiersAssumption
    DEF Init, TypeOK, SoundList, Distinct, Stages, Moments
  <2> QED
    BY <2>1 DEF Init, IInv, ListMatchesDetails, HeadIsCurrent, SweepCountsOnce
<1>2. IInv /\ [Next]_vars => IInv'
  <2> SUFFICES ASSUME IInv, [Next]_vars PROVE IInv'
    OBVIOUS
  <2>1. CASE UNCHANGED vars
    <3>1. TypeOK' /\ ListMatchesDetails' /\ HeadIsCurrent'
      BY <2>1 DEF vars, IInv, TypeOK, ListMatchesDetails, HeadIsCurrent, Sound, ModifierOf
    <3>2. SoundList(details)' /\ SoundList(start)'
      BY <2>1 DEF vars, IInv, SoundList, Distinct, Sound, ModifierOf
    <3>3. SweepCountsOnce'
      BY <2>1 DEF vars, IInv, SweepCountsOnce, Settled, Instances, ModifierOf
    <3> QED
      BY <3>1, <3>2, <3>3 DEF IInv
  <2> QED
    BY <2>1, SettlementStep, SweepStep, BeginSweepStep DEF Next
<1> QED
  BY <1>1, <1>2, PTL DEF Spec

(* Every variable keeps its type (systems/status.py).                      *)
THEOREM StatusTypes == Spec => []TypeOK
BY StatusesInductive, PTL DEF IInv

(* The status id list names exactly the modifiers that have a detail       *)
(* (status._apply_remove_lifecycle_plan, _apply_expire_lifecycle_plan).    *)
THEOREM ListsMatch == Spec => []ListMatchesDetails
BY StatusesInductive, PTL DEF IInv

(* A modifier never has two instances (status._application_semantics).     *)
THEOREM InstancesAreUnique == Spec => []OneInstancePerModifier
<1>1. IInv => OneInstancePerModifier
  BY DEF IInv, SoundList, Distinct, OneInstancePerModifier
<1> QED
  BY <1>1, StatusesInductive, PTL

(* No depleted or overdue instance stays (status._status_stack_plan,       *)
(* plan_lifecycle_tick).                                                   *)
THEOREM CountsArePositive == Spec => []CountsStayPositive
<1>1. IInv => CountsStayPositive
  BY DEF IInv, SoundList, Sound, CountsStayPositive
<1> QED
  BY <1>1, StatusesInductive, PTL

(* A sweep counts every status that nobody touched exactly once            *)
(* (CombatScheduler._apply_status_lifecycle_tick).                         *)
THEOREM SweepsCountOnce == Spec => []SweepCountsOnce
BY StatusesInductive, PTL DEF IInv
=============================================================================
