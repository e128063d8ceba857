------------------------- MODULE SummonSystemProofs -------------------------
(* Type correctness of summons, the agreement of the registry with the     *)
(* units, and what a removal leaves behind, for every set of owners,       *)
(* servants, summoners and queues and for every bound.                     *)
(*                                                                         *)
(* Each of the three is kept by every operation on a state that has all of *)
(* them (Good); the candidate of a running action has them as well, since  *)
(* it is what the action publishes.                                        *)
EXTENDS SummonSystem, TLAPS

Good(b) == b \in Battles /\ Valid(b) /\ Forgotten(b) /\ Single(b)

IInv == TypeOK /\ Good(battle) /\ Good(draft)

-----------------------------------------------------------------------------
(* Identities                                                              *)

LEMMA Identities ==
  /\ ServantIds \subseteq SummonIds /\ MonsterIds \subseteq SummonIds
  /\ SummonIds \subseteq Ids /\ Owners \subseteq Ids
  /\ ServantIds \cap MonsterIds = {} /\ SummonIds \cap Owners = {}
  /\ \A s \in SummonIds : Master(s) \in Owners
  /\ NoUnit \notin Ids
<1>1. \A s \in ServantIds : s[1] \in Servants
  BY DEF ServantIds
<1>2. \A s \in MonsterIds : s[1] \in Summoners
  BY DEF MonsterIds
<1>3. ServantIds \cap MonsterIds = {}
  BY <1>1, <1>2, SummonAssumption
<1>4. \A s \in SummonIds : Master(s) \in Owners
  BY <1>1, <1>2, SummonAssumption DEF Master, SummonIds
<1> QED BY <1>3, <1>4, SummonAssumption DEF SummonIds, Ids

(* One field at a time, a battle stays one.                                *)
LEMMA FieldUpdates ==
  ASSUME NEW b \in Battles
  PROVE  /\ \A x \in [Ids -> Lives] : [b EXCEPT !.unit = x] \in Battles
         /\ \A x \in [SummonIds -> Marks] : [b EXCEPT !.entity = x] \in Battles
         /\ \A x \in [ServantIds -> Marks] : [b EXCEPT !.servants = x] \in Battles
         /\ \A x \in [Owners -> SUBSET SummonIds] : [b EXCEPT !.byOwner = x] \in Battles
         /\ \A x \in SUBSET SummonIds : [b EXCEPT !.lastServants = x] \in Battles
         /\ \A x \in SUBSET SummonIds : [b EXCEPT !.lastMonsters = x] \in Battles
         /\ \A x \in [Queues -> SUBSET Entries] : [b EXCEPT !.queues = x] \in Battles
         /\ \A x \in Ids \cup {NoUnit} : [b EXCEPT !.turnOwner = x] \in Battles
         /\ \A x \in Ids \cup {NoUnit} : [b EXCEPT !.activeTurn = x] \in Battles
         /\ \A x \in {"setup", "idle", "decision", "post"} : [b EXCEPT !.phase = x] \in Battles
         /\ \A x \in Nat : [b EXCEPT !.events = x] \in Battles
         /\ \A x \in Nat : [b EXCEPT !.turns = x] \in Battles
         /\ \A x \in 0..MaxEffects : [b EXCEPT !.budget = x] \in Battles
<1>1. \A x \in [Ids -> Lives] : [b EXCEPT !.unit = x] \in Battles
  BY DEF Battles
<1>2. \A x \in [SummonIds -> Marks] : [b EXCEPT !.entity = x] \in Battles
  BY DEF Battles
<1>3. \A x \in [ServantIds -> Marks] : [b EXCEPT !.servants = x] \in Battles
  BY DEF Battles
<1>4. \A x \in [Owners -> SUBSET SummonIds] : [b EXCEPT !.byOwner = x] \in Battles
  BY DEF Battles
<1>5. \A x \in SUBSET SummonIds : [b EXCEPT !.lastServants = x] \in Battles
  BY DEF Battles
<1>6. \A x \in SUBSET SummonIds : [b EXCEPT !.lastMonsters = x] \in Battles
  BY DEF Battles
<1>7. \A x \in [Queues -> SUBSET Entries] : [b EXCEPT !.queues = x] \in Battles
  BY DEF Battles
<1>8. \A x \in Ids \cup {NoUnit} : [b EXCEPT !.turnOwner = x] \in Battles
  BY DEF Battles
<1>9. \A x \in Ids \cup {NoUnit} : [b EXCEPT !.activeTurn = x] \in Battles
  BY DEF Battles
<1>10. \A x \in {"setup", "idle", "decision", "post"} : [b EXCEPT !.phase = x] \in Battles
  BY DEF Battles
<1>11. \A x \in Nat : [b EXCEPT !.events = x] \in Battles
  BY DEF Battles
<1>12. \A x \in Nat : [b EXCEPT !.turns = x] \in Battles
  BY DEF Battles
<1>13. \A x \in 0..MaxEffects : [b EXCEPT !.budget = x] \in Battles
  BY DEF Battles
<1> QED BY <1>1, <1>2, <1>3, <1>4, <1>5, <1>6, <1>7, <1>8, <1>9, <1>10, <1>11, <1>12, <1>13

-----------------------------------------------------------------------------
(* What spawning and removing write                                        *)

LEMMA SpawnedFields ==
  ASSUME NEW b \in Battles, NEW s \in SummonIds
  PROVE  LET c == Spawned(b, s) IN
         /\ c \in Battles
         /\ \A u \in Ids : c.unit[u] = IF u = s THEN "active" ELSE b.unit[u]
         /\ \A u \in SummonIds : c.entity[u] = IF u = s THEN "active" ELSE b.entity[u]
         /\ \A u \in ServantIds : c.servants[u] = IF u = s THEN "active" ELSE b.servants[u]
         /\ \A o \in Owners : c.byOwner[o] = IF o = Master(s) THEN b.byOwner[o] \cup {s} ELSE b.byOwner[o]
         /\ c.lastServants = IF s \in ServantIds THEN {s} ELSE b.lastServants
         /\ c.lastMonsters = IF s \in MonsterIds THEN {s} ELSE b.lastMonsters
         /\ c.queues = b.queues /\ c.turnOwner = b.turnOwner
<1> DEFINE c == Spawned(b, s)
           unit == Marked(b.unit, {s}, "active")
           entity == Marked(b.entity, {s}, "active")
           servants == Marked(b.servants, {s}, "active")
           byOwner == [b.byOwner EXCEPT ![Master(s)] = @ \cup {s}]
           lastServants == IF s \in ServantIds THEN {s} ELSE b.lastServants
           lastMonsters == IF s \in MonsterIds THEN {s} ELSE b.lastMonsters
<1>1. /\ b.unit \in [Ids -> Lives] /\ b.entity \in [SummonIds -> Marks]
      /\ b.servants \in [ServantIds -> Marks] /\ b.byOwner \in [Owners -> SUBSET SummonIds]
      /\ b.lastServants \in SUBSET SummonIds /\ b.lastMonsters \in SUBSET SummonIds
  BY DEF Battles
<1>2. "active" \in Lives /\ "active" \in Marks
  BY DEF Lives, Marks
<1>3. unit \in [Ids -> Lives] /\ \A u \in Ids : unit[u] = IF u \in {s} THEN "active" ELSE b.unit[u]
  BY <1>1, <1>2 DEF Marked
<1>4. entity \in [SummonIds -> Marks]
      /\ \A u \in SummonIds : entity[u] = IF u \in {s} THEN "active" ELSE b.entity[u]
  BY <1>1, <1>2 DEF Marked
<1>5. servants \in [ServantIds -> Marks]
      /\ \A u \in ServantIds : servants[u] = IF u \in {s} THEN "active" ELSE b.servants[u]
  BY <1>1, <1>2 DEF Marked
<1>6. byOwner \in [Owners -> SUBSET SummonIds]
      /\ \A o \in Owners : byOwner[o] = IF o = Master(s) THEN b.byOwner[o] \cup {s} ELSE b.byOwner[o]
  BY <1>1, Identities
<1>7. lastServants \in SUBSET SummonIds /\ lastMonsters \in SUBSET SummonIds
  BY <1>1
<1>8. c = [b EXCEPT !.unit = unit, !.entity = entity, !.servants = servants, !.byOwner = byOwner,
                    !.lastServants = lastServants, !.lastMonsters = lastMonsters]
  BY DEF Spawned
<1> HIDE DEF unit, entity, servants, byOwner, lastServants, lastMonsters, c
<1>9. c \in Battles
  <2>1. [b EXCEPT !.unit = unit] \in Battles
    BY <1>3, FieldUpdates
  <2>2. [b EXCEPT !.unit = unit, !.entity = entity] \in Battles
    BY <2>1, <1>4, FieldUpdates
  <2>3. [b EXCEPT !.unit = unit, !.entity = entity, !.servants = servants] \in Battles
    BY <2>2, <1>5, FieldUpdates
  <2>4. [b EXCEPT !.unit = unit, !.entity = entity, !.servants = servants,
                  !.byOwner = byOwner] \in Battles
    BY <2>3, <1>6, FieldUpdates
  <2>5. [b EXCEPT !.unit = unit, !.entity = entity, !.servants = servants,
                  !.byOwner = byOwner, !.lastServants = lastServants] \in Battles
    BY <2>4, <1>7, FieldUpdates
  <2> QED BY <2>5, <1>7, <1>8, FieldUpdates
<1>9a. /\ c.unit = unit /\ c.entity = entity /\ c.servants = servants /\ c.byOwner = byOwner
       /\ c.lastServants = lastServants /\ c.lastMonsters = lastMonsters
       /\ c.queues = b.queues /\ c.turnOwner = b.turnOwner
  BY <1>8 DEF Battles
<1>10. /\ c \in Battles
       /\ \A u \in Ids : c.unit[u] = IF u = s THEN "active" ELSE b.unit[u]
       /\ \A u \in SummonIds : c.entity[u] = IF u = s THEN "active" ELSE b.entity[u]
       /\ \A u \in ServantIds : c.servants[u] = IF u = s THEN "active" ELSE b.servants[u]
       /\ \A o \in Owners : c.byOwner[o] = IF o = Master(s) THEN b.byOwner[o] \cup {s} ELSE b.byOwner[o]
  BY <1>3, <1>4, <1>5, <1>6, <1>9, <1>9a
<1> QED BY <1>9a, <1>10 DEF c, lastServants, lastMonsters

LEMMA RemovedFields ==
  ASSUME NEW b \in Battles, NEW R \in SUBSET SummonIds
  PROVE  LET c == Removed(b, R) IN
         /\ c \in Battles
         /\ \A u \in Ids : c.unit[u] = IF u \in R THEN "removed" ELSE b.unit[u]
         /\ \A u \in SummonIds : c.entity[u] = IF u \in R THEN "removed" ELSE b.entity[u]
         /\ \A u \in ServantIds : c.servants[u] = IF u \in R THEN "removed" ELSE b.servants[u]
         /\ \A o \in Owners : c.byOwner[o] = b.byOwner[o] \ R
         /\ c.lastServants = b.lastServants \ R /\ c.lastMonsters = b.lastMonsters \ R
         /\ \A q \in Queues : c.queues[q] = Without(b.queues[q], R)
         /\ c.turnOwner = IF b.turnOwner \in R THEN NoUnit ELSE b.turnOwner
<1> DEFINE c == Removed(b, R)
           unit == Marked(b.unit, R, "removed")
           entity == Marked(b.entity, R, "removed")
           servants == Marked(b.servants, R, "removed")
           byOwner == [o \in Owners |-> b.byOwner[o] \ R]
           lastServants == b.lastServants \ R
           lastMonsters == b.lastMonsters \ R
           queues == [q \in Queues |-> Without(b.queues[q], R)]
           turnOwner == IF b.turnOwner \in R THEN NoUnit ELSE b.turnOwner
<1>1. /\ b.unit \in [Ids -> Lives] /\ b.entity \in [SummonIds -> Marks]
      /\ b.servants \in [ServantIds -> Marks] /\ b.byOwner \in [Owners -> SUBSET SummonIds]
      /\ b.lastServants \in SUBSET SummonIds /\ b.lastMonsters \in SUBSET SummonIds
      /\ b.queues \in [Queues -> SUBSET Entries] /\ b.turnOwner \in Ids \cup {NoUnit}
  BY DEF Battles
<1>2. "removed" \in Lives /\ "removed" \in Marks
  BY DEF Lives, Marks
<1>3. unit \in [Ids -> Lives] /\ \A u \in Ids : unit[u] = IF u \in R THEN "removed" ELSE b.unit[u]
  BY <1>1, <1>2 DEF Marked
<1>4. entity \in [SummonIds -> Marks]
      /\ \A u \in SummonIds : entity[u] = IF u \in R THEN "removed" ELSE b.entity[u]
  BY <1>1, <1>2 DEF Marked
<1>5. servants \in [ServantIds -> Marks]
      /\ \A u \in ServantIds : servants[u] = IF u \in R THEN "removed" ELSE b.servants[u]
  BY <1>1, <1>2 DEF Marked
<1>6. byOwner \in [Owners -> SUBSET SummonIds] /\ queues \in [Queues -> SUBSET Entries]
  BY <1>1 DEF Without
<1>7. /\ lastServants \in SUBSET SummonIds /\ lastMonsters \in SUBSET SummonIds
      /\ turnOwner \in Ids \cup {NoUnit}
  BY <1>1
<1>8. c = [b EXCEPT !.unit = unit, !.entity = entity, !.servants = servants, !.byOwner = byOwner,
                    !.lastServants = lastServants, !.lastMonsters = lastMonsters,
                    !.queues = queues, !.turnOwner = turnOwner]
  BY DEF Removed
<1>9. /\ \A o \in Owners : byOwner[o] = b.byOwner[o] \ R
      /\ \A q \in Queues : queues[q] = Without(b.queues[q], R)
  OBVIOUS
<1> HIDE DEF unit, entity, servants, byOwner, lastServants, lastMonsters, queues, turnOwner, c
<1>10. c \in Battles
  <2>1. [b EXCEPT !.unit = unit] \in Battles
    BY <1>3, FieldUpdates
  <2>2. [b EXCEPT !.unit = unit, !.entity = entity] \in Battles
    BY <2>1, <1>4, FieldUpdates
  <2>3. [b EXCEPT !.unit = unit, !.entity = entity, !.servants = servants] \in Battles
    BY <2>2, <1>5, FieldUpdates
  <2>4. [b EXCEPT !.unit = unit, !.entity = entity, !.servants = servants,
                  !.byOwner = byOwner] \in Battles
    BY <2>3, <1>6, FieldUpdates
  <2>5. [b EXCEPT !.unit = unit, !.entity = entity, !.servants = servants,
                  !.byOwner = byOwner, !.lastServants = lastServants] \in Battles
    BY <2>4, <1>7, FieldUpdates
  <2>6. [b EXCEPT !.unit = unit, !.entity = entity, !.servants = servants,
                  !.byOwner = byOwner, !.lastServants = lastServants,
                  !.lastMonsters = lastMonsters] \in Battles
    BY <2>5, <1>7, FieldUpdates
  <2>7. [b EXCEPT !.unit = unit, !.entity = entity, !.servants = servants,
                  !.byOwner = byOwner, !.lastServants = lastServants,
                  !.lastMonsters = lastMonsters, !.queues = queues] \in Battles
    BY <2>6, <1>6, FieldUpdates
  <2> QED BY <2>7, <1>7, <1>8, FieldUpdates
<1>11. /\ c.unit = unit /\ c.entity = entity /\ c.servants = servants /\ c.byOwner = byOwner
       /\ c.lastServants = lastServants /\ c.lastMonsters = lastMonsters
       /\ c.queues = queues /\ c.turnOwner = turnOwner
  BY <1>8 DEF Battles
<1>12. /\ c \in Battles
       /\ \A u \in Ids : c.unit[u] = IF u \in R THEN "removed" ELSE b.unit[u]
       /\ \A u \in SummonIds : c.entity[u] = IF u \in R THEN "removed" ELSE b.entity[u]
       /\ \A u \in ServantIds : c.servants[u] = IF u \in R THEN "removed" ELSE b.servants[u]
       /\ \A o \in Owners : c.byOwner[o] = b.byOwner[o] \ R
       /\ \A q \in Queues : c.queues[q] = Without(b.queues[q], R)
  BY <1>3, <1>4, <1>5, <1>9, <1>10, <1>11
<1> QED BY <1>11, <1>12 DEF c, lastServants, lastMonsters, turnOwner

-----------------------------------------------------------------------------
(* What keeps a battle good                                                *)

(* Fields that none of the three looks at.                                 *)
LEMMA Alike ==
  ASSUME NEW b, Good(b), NEW c \in Battles,
         c.unit = b.unit, c.entity = b.entity, c.servants = b.servants, c.byOwner = b.byOwner,
         c.lastServants = b.lastServants, c.lastMonsters = b.lastMonsters,
         \A q \in Queues : \A e \in c.queues[q] :
           \/ e \in b.queues[q]
           \/ b.unit[e.actor] # "removed" /\ b.unit[e.target] # "removed",
         \/ c.turnOwner \in {b.turnOwner, NoUnit}
         \/ c.turnOwner \in Ids /\ b.unit[c.turnOwner] # "removed"
  PROVE  Good(c)
<1>1. Valid(c)
  BY DEF Good, Valid
<1>2. Single(c)
  BY DEF Good, Single
<1>3. Forgotten(c)
  <2> SUFFICES ASSUME NEW s \in SummonIds, c.unit[s] = "removed"
               PROVE  /\ \A q \in Queues : \A e \in c.queues[q] : e.actor # s /\ e.target # s
                      /\ c.turnOwner # s /\ s \notin c.lastServants \cup c.lastMonsters
    BY DEF Forgotten
  <2>1. /\ \A q \in Queues : \A e \in b.queues[q] : e.actor # s /\ e.target # s
        /\ b.turnOwner # s /\ s \notin b.lastServants \cup b.lastMonsters
    BY DEF Good, Forgotten
  <2>2. s # NoUnit
    BY Identities
  <2> QED BY <2>1, <2>2
<1> QED BY <1>1, <1>2, <1>3 DEF Good

LEMMA RemovedIsGood ==
  ASSUME NEW b, Good(b), NEW R \in SUBSET SummonIds
  PROVE  Good(Removed(b, R))
<1> DEFINE c == Removed(b, R)
<1>0. b \in Battles
  BY DEF Good
<1>1. /\ c \in Battles
      /\ \A u \in Ids : c.unit[u] = IF u \in R THEN "removed" ELSE b.unit[u]
      /\ \A u \in SummonIds : c.entity[u] = IF u \in R THEN "removed" ELSE b.entity[u]
      /\ \A u \in ServantIds : c.servants[u] = IF u \in R THEN "removed" ELSE b.servants[u]
      /\ \A o \in Owners : c.byOwner[o] = b.byOwner[o] \ R
      /\ c.lastServants = b.lastServants \ R /\ c.lastMonsters = b.lastMonsters \ R
      /\ \A q \in Queues : c.queues[q] = Without(b.queues[q], R)
      /\ c.turnOwner = IF b.turnOwner \in R THEN NoUnit ELSE b.turnOwner
  BY <1>0, RemovedFields
<1> HIDE DEF c
<1>2. Valid(c)
  <2>1. ASSUME NEW s \in SummonIds
        PROVE  /\ c.entity[s] = "active" => c.unit[s] \in Present /\ s \in c.byOwner[Master(s)]
               /\ c.unit[s] \in Present => c.entity[s] = "active"
    BY <1>1, Identities DEF Good, Valid, Present
  <2>2. ASSUME NEW o \in Owners, NEW s \in c.byOwner[o]
        PROVE  Master(s) = o /\ c.entity[s] = "active"
    <3>1. s \in b.byOwner[o] /\ s \notin R
      BY <1>1
    <3>2. s \in SummonIds
      BY <3>1, <1>0 DEF Battles
    <3> QED BY <1>1, <3>1, <3>2 DEF Good, Valid
  <2>3. \A s \in ServantIds : c.servants[s] = c.entity[s]
    BY <1>1, Identities DEF Good, Valid
  <2>4. /\ c.lastServants \subseteq {s \in ServantIds : c.entity[s] # "none"}
        /\ c.lastMonsters \subseteq {s \in MonsterIds : c.entity[s] # "none"}
    BY <1>1, Identities DEF Good, Valid
  <2> QED BY <2>1, <2>2, <2>3, <2>4 DEF Valid
<1>3. Single(c)
  BY <1>1, Identities DEF Good, Single, Present
<1>4. Forgotten(c)
  <2> SUFFICES ASSUME NEW s \in SummonIds, c.unit[s] = "removed"
               PROVE  /\ \A q \in Queues : \A e \in c.queues[q] : e.actor # s /\ e.target # s
                      /\ c.turnOwner # s /\ s \notin c.lastServants \cup c.lastMonsters
    BY DEF Forgotten
  <2>1. s \in Ids /\ s # NoUnit
    BY Identities
  <2>2. CASE s \in R
    BY <2>1, <2>2, <1>1 DEF Without, Names
  <2>3. CASE s \notin R
    <3>1. b.unit[s] = "removed"
      BY <2>1, <2>3, <1>1
    <3> QED BY <3>1, <2>1, <1>1 DEF Good, Forgotten, Without
  <2> QED BY <2>2, <2>3
<1> QED BY <1>1, <1>2, <1>3, <1>4 DEF Good, c

(* A unit that was never there enters; its definition has nobody on the    *)
(* field.                                                                  *)
LEMMA SpawnedIsGood ==
  ASSUME NEW b, Good(b), NEW s \in SummonIds, b.unit[s] = "absent",
         s \in ServantIds => \A t \in ServantIds : t[1] = s[1] => b.unit[t] \notin Present
  PROVE  Good(Spawned(b, s))
<1> DEFINE c == Spawned(b, s)
<1>0. b \in Battles
  BY DEF Good
<1>1. /\ c \in Battles
      /\ \A u \in Ids : c.unit[u] = IF u = s THEN "active" ELSE b.unit[u]
      /\ \A u \in SummonIds : c.entity[u] = IF u = s THEN "active" ELSE b.entity[u]
      /\ \A u \in ServantIds : c.servants[u] = IF u = s THEN "active" ELSE b.servants[u]
      /\ \A o \in Owners : c.byOwner[o] = IF o = Master(s) THEN b.byOwner[o] \cup {s} ELSE b.byOwner[o]
      /\ c.lastServants = IF s \in ServantIds THEN {s} ELSE b.lastServants
      /\ c.lastMonsters = IF s \in MonsterIds THEN {s} ELSE b.lastMonsters
      /\ c.queues = b.queues /\ c.turnOwner = b.turnOwner
  BY <1>0, SpawnedFields
<1> HIDE DEF c
<1>2. Valid(c)
  <2>1. ASSUME NEW u \in SummonIds
        PROVE  /\ c.entity[u] = "active" => c.unit[u] \in Present /\ u \in c.byOwner[Master(u)]
               /\ c.unit[u] \in Present => c.entity[u] = "active"
    <3>1. Master(u) \in Owners
      BY Identities
    <3>2. /\ b.entity[u] = "active" => b.unit[u] \in Present /\ u \in b.byOwner[Master(u)]
          /\ b.unit[u] \in Present => b.entity[u] = "active"
      BY DEF Good, Valid
    <3>3. CASE u = s
      <4>1. s \in Ids
        BY Identities
      <4>2. c.unit[s] = "active" /\ c.entity[s] = "active"
        BY <1>1, <4>1
      <4>3. s \in c.byOwner[Master(s)]
        BY <1>1, <3>1, <3>3
      <4> QED BY <3>3, <4>2, <4>3 DEF Present
    <3>4. CASE u # s
      BY <1>1, <3>1, <3>2, <3>4, Identities
    <3> QED BY <3>3, <3>4
  <2>2. ASSUME NEW o \in Owners, NEW u \in c.byOwner[o]
        PROVE  Master(u) = o /\ c.entity[u] = "active"
    <3>1. CASE u = s /\ u \notin b.byOwner[o]
      BY <1>1, <3>1
    <3>2. CASE u \in b.byOwner[o]
      <4>1. u \in SummonIds
        BY <3>2, <1>0 DEF Battles
      <4> QED BY <1>1, <3>2, <4>1 DEF Good, Valid
    <3> QED BY <1>1, <3>1, <3>2
  <2>3. \A u \in ServantIds : c.servants[u] = c.entity[u]
    BY <1>1, Identities DEF Good, Valid
  <2>4. /\ c.lastServants \subseteq {u \in ServantIds : c.entity[u] # "none"}
        /\ c.lastMonsters \subseteq {u \in MonsterIds : c.entity[u] # "none"}
    BY <1>1, Identities DEF Good, Valid
  <2> QED BY <2>1, <2>2, <2>3, <2>4 DEF Valid
<1>3. Single(c)
  BY <1>1, Identities DEF Good, Single
<1>4. Forgotten(c)
  <2> SUFFICES ASSUME NEW u \in SummonIds, c.unit[u] = "removed"
               PROVE  /\ \A q \in Queues : \A e \in c.queues[q] : e.actor # u /\ e.target # u
                      /\ c.turnOwner # u /\ u \notin c.lastServants \cup c.lastMonsters
    BY DEF Forgotten
  <2>1. u # s /\ b.unit[u] = "removed"
    BY <1>1, Identities
  <2> QED BY <2>1, <1>1 DEF Good, Forgotten
<1> QED BY <1>1, <1>2, <1>3, <1>4 DEF Good, c

LEMMA WithServantIsGood ==
  ASSUME NEW b, Good(b), NEW d \in Servants, AdmitsServant(b, d)
  PROVE  Good(WithServant(b, d))
<1> DEFINE R == Fallen(b, d)
           c == Removed(b, R)
           s == <<d, Ordinal(b, d)>>
<1>1. s \in ServantIds /\ b.unit[s] = "absent"
  BY DEF AdmitsServant, ServantIds
<1>2. \A t \in {d} \X Index : t \in ServantIds
  BY DEF ServantIds
<1>3. R \in SUBSET SummonIds
  BY <1>2, Identities DEF Fallen, Instances
<1>4. s \in SummonIds /\ s \in Ids
  BY <1>1, Identities
<1>5. Good(c)
  BY <1>3, RemovedIsGood
<1>6. \A u \in Ids : c.unit[u] = IF u \in R THEN "removed" ELSE b.unit[u]
  BY <1>3, RemovedFields DEF Good
<1>7. c.unit[s] = "absent"
  BY <1>1, <1>4, <1>6 DEF Fallen
<1>8. ASSUME NEW t \in ServantIds, t[1] = d PROVE c.unit[t] \notin Present
  <2>1. t \in {d} \X Index /\ t \in Ids
    BY <1>8, Identities DEF ServantIds
  <2>2. b.unit[t] # "active"
    BY <2>1 DEF AdmitsServant, Instances
  <2>3. b.unit[t] = "defeated" => t \in R
    BY <2>1 DEF Fallen, Instances
  <2> QED BY <2>1, <2>2, <2>3, <1>6 DEF Present
<1>9. s[1] = d
  OBVIOUS
<1> HIDE DEF R, s, c
<1>10. Good(Spawned(c, s))
  BY <1>4, <1>5, <1>7, <1>8, <1>9, SpawnedIsGood
<1> QED BY <1>10 DEF WithServant, R, s, c

LEMMA WithMonsterIsGood ==
  ASSUME NEW b, Good(b), NEW o \in Summoners, AdmitsMonster(b, o)
  PROVE  Good(WithMonster(b, o))
<1>1. MonsterId(b, o) \in MonsterIds /\ b.unit[MonsterId(b, o)] = "absent"
  BY DEF AdmitsMonster, MonsterId, MonsterIds
<1>2. MonsterId(b, o) \in SummonIds /\ MonsterId(b, o) \notin ServantIds
  BY <1>1, Identities
<1> QED BY <1>1, <1>2, SpawnedIsGood DEF WithMonster

-----------------------------------------------------------------------------
(* Settlements                                                             *)

LEMMA SpentIsGood ==
  ASSUME NEW b, Good(b), b.budget # 0
  PROVE  Good(Spent(b)) /\ Spent(b).unit = b.unit /\ Spent(b).queues = b.queues
<1>0. b \in Battles
  BY DEF Good
<1>1. b.budget - 1 \in 0..MaxEffects
  BY <1>0, SummonAssumption DEF Battles
<1>2. Spent(b) \in Battles
  BY <1>0, <1>1, FieldUpdates DEF Spent
<1>3. /\ Spent(b).unit = b.unit /\ Spent(b).entity = b.entity /\ Spent(b).servants = b.servants
      /\ Spent(b).byOwner = b.byOwner /\ Spent(b).lastServants = b.lastServants
      /\ Spent(b).lastMonsters = b.lastMonsters /\ Spent(b).queues = b.queues
      /\ Spent(b).turnOwner = b.turnOwner
  BY <1>0 DEF Spent, Battles
<1> QED BY <1>2, <1>3, Alike

LEMMA DefeatIsGood ==
  ASSUME NEW b, Good(b), NEW u \in Ids, b.unit[u] = "active"
  PROVE  Good([b EXCEPT !.unit[u] = "defeated"])
<1> DEFINE c == [b EXCEPT !.unit[u] = "defeated"]
           unit == [b.unit EXCEPT ![u] = "defeated"]
<1>0. b \in Battles
  BY DEF Good
<1>1. unit \in [Ids -> Lives] /\ \A v \in Ids : unit[v] = IF v = u THEN "defeated" ELSE b.unit[v]
  BY <1>0 DEF Battles, Lives
<1>2. c = [b EXCEPT !.unit = unit]
  BY <1>0 DEF Battles
<1> HIDE DEF unit, c
<1>3. c \in Battles
  BY <1>0, <1>1, <1>2, FieldUpdates
<1>4. /\ c.unit = unit /\ c.entity = b.entity /\ c.servants = b.servants
      /\ c.byOwner = b.byOwner /\ c.lastServants = b.lastServants
      /\ c.lastMonsters = b.lastMonsters /\ c.queues = b.queues /\ c.turnOwner = b.turnOwner
  BY <1>0, <1>2 DEF Battles
<1>5. \A v \in SummonIds : /\ c.unit[v] \in Present <=> b.unit[v] \in Present
                           /\ c.unit[v] = "removed" => b.unit[v] = "removed"
  BY <1>1, <1>4, Identities DEF Present
<1>6. Valid(c)
  BY <1>4, <1>5 DEF Good, Valid
<1>7. Single(c)
  BY <1>5, Identities DEF Good, Single
<1>8. Forgotten(c)
  BY <1>4, <1>5 DEF Good, Forgotten
<1> QED BY <1>3, <1>6, <1>7, <1>8 DEF Good, c

LEMMA DefeatsAreGood ==
  ASSUME NEW b, Good(b), b.budget # 0, NEW S \in SUBSET Ids, NEW c \in Defeats(b, S)
  PROVE  Good(c)
<1>1. PICK u \in S : b.unit[u] = "active" /\ c = [Spent(b) EXCEPT !.unit[u] = "defeated"]
  BY DEF Defeats
<1>2. Good(Spent(b)) /\ Spent(b).unit[u] = "active"
  BY <1>1, SpentIsGood
<1> QED BY <1>1, <1>2, DefeatIsGood

LEMMA EnqueuesAreGood ==
  ASSUME NEW b, Good(b), b.budget # 0, NEW c \in Enqueues(b)
  PROVE  Good(c)
<1>0. b \in Battles
  BY DEF Good
<1>1. PICK q \in Queues, a \in {u \in Ids : b.unit[u] = "active"}, t \in {u \in Ids : b.unit[u] \in Present} :
        c = [Spent(b) EXCEPT !.queues[q] = @ \cup {[actor |-> a, target |-> t, age |-> b.budget]}]
  BY DEF Enqueues
<1> DEFINE e == [actor |-> a, target |-> t, age |-> b.budget]
           s == Spent(b)
           queues == [s.queues EXCEPT ![q] = @ \cup {e}]
<1>2. e \in Entries /\ e.actor = a /\ e.target = t
  BY <1>0 DEF Entries, Battles
<1>3. Good(s) /\ s \in Battles /\ s.unit = b.unit /\ s.queues = b.queues
  BY SpentIsGood DEF Good
<1>4. c = [s EXCEPT !.queues = queues]
  BY <1>1, <1>3 DEF Battles
<1> HIDE DEF e, s
<1>5. queues \in [Queues -> SUBSET Entries]
      /\ \A p \in Queues : queues[p] = IF p = q THEN s.queues[p] \cup {e} ELSE s.queues[p]
  BY <1>2, <1>3 DEF Battles
<1> HIDE DEF queues
<1>6. c \in Battles
  BY <1>3, <1>4, <1>5, FieldUpdates
<1>7. /\ c.unit = s.unit /\ c.entity = s.entity /\ c.servants = s.servants
      /\ c.byOwner = s.byOwner /\ c.lastServants = s.lastServants
      /\ c.lastMonsters = s.lastMonsters /\ c.queues = queues /\ c.turnOwner = s.turnOwner
  BY <1>3, <1>4 DEF Battles
<1>8. s.unit[a] # "removed" /\ s.unit[t] # "removed"
  BY <1>3 DEF Present
<1>9. \A p \in Queues : \A f \in c.queues[p] :
        \/ f \in s.queues[p]
        \/ s.unit[f.actor] # "removed" /\ s.unit[f.target] # "removed"
  BY <1>2, <1>5, <1>7, <1>8
<1> QED BY <1>3, <1>6, <1>7, <1>9, Alike

LEMMA SummoningsAreGood ==
  ASSUME NEW b, Good(b), b.budget # 0, NEW c \in Summonings(b)
  PROVE  Good(c)
<1>1. PICK o \in Summoners : AdmitsMonster(b, o) /\ c = Spent(WithMonster(b, o))
  BY DEF Summonings
<1>2. Good(WithMonster(b, o))
  BY <1>1, WithMonsterIsGood
<1>3. WithMonster(b, o).budget = b.budget
  BY DEF Good, Battles, WithMonster, Spawned
<1> QED BY <1>1, <1>2, <1>3, SpentIsGood

LEMMA EffectsAreGood ==
  ASSUME NEW b, Good(b), NEW c \in Effects(b)
  PROVE  Good(c)
<1>1. b.budget # 0 /\ c \in Defeats(b, Ids) \cup Enqueues(b) \cup Summonings(b)
  BY DEF Effects
<1>2. CASE c \in Defeats(b, Ids)
  BY <1>1, <1>2, DefeatsAreGood
<1>3. CASE c \in Enqueues(b)
  BY <1>1, <1>3, EnqueuesAreGood
<1>4. CASE c \in Summonings(b)
  BY <1>1, <1>4, SummoningsAreGood
<1> QED BY <1>1, <1>2, <1>3, <1>4

LEMMA SettledIsGood ==
  ASSUME NEW b, Good(b), NEW S \in SUBSET Ids, NEW c \in Settle(b, S)
  PROVE  Good(c)
<1>1. CASE c = b
  BY <1>1
<1>2. CASE b.budget # 0 /\ c \in Defeats(b, S)
  BY <1>2, DefeatsAreGood
<1> QED BY <1>1, <1>2 DEF Settle

-----------------------------------------------------------------------------
(* The first state and every step are good                                 *)

THEOREM InitIInv == Init => IInv
<1> SUFFICES ASSUME Init PROVE IInv
  OBVIOUS
<1>1. /\ battle.unit = [u \in Ids |-> IF u \in Owners THEN "active" ELSE "absent"]
      /\ battle.entity = [s \in SummonIds |-> "none"] /\ battle.servants = [s \in ServantIds |-> "none"]
      /\ battle.byOwner = [o \in Owners |-> {}] /\ battle.lastServants = {} /\ battle.lastMonsters = {}
      /\ battle.queues = [q \in Queues |-> {}] /\ battle.turnOwner = NoUnit
  BY DEF Init
<1>2. /\ battle.unit \in [Ids -> Lives] /\ battle.entity \in [SummonIds -> Marks]
      /\ battle.servants \in [ServantIds -> Marks] /\ battle.byOwner \in [Owners -> SUBSET SummonIds]
      /\ battle.queues \in [Queues -> SUBSET Entries]
  BY <1>1 DEF Lives, Marks
<1>3. battle \in Battles
  <2>1. MaxEffects \in 0..MaxEffects
    BY SummonAssumption
  <2>2. battle = [unit |-> battle.unit, entity |-> battle.entity, servants |-> battle.servants,
                  byOwner |-> battle.byOwner, lastServants |-> {}, lastMonsters |-> {},
                  queues |-> battle.queues, turnOwner |-> NoUnit, activeTurn |-> NoUnit,
                  phase |-> "setup", events |-> 0, turns |-> 0, budget |-> MaxEffects]
    BY DEF Init
  <2> DEFINE x1 == battle.unit
             x2 == battle.entity
             x3 == battle.servants
             x4 == battle.byOwner
             x5 == battle.queues
  <2> HIDE DEF x1, x2, x3, x4, x5
  <2>3. /\ x1 \in [Ids -> Lives] /\ x2 \in [SummonIds -> Marks] /\ x3 \in [ServantIds -> Marks]
        /\ x4 \in [Owners -> SUBSET SummonIds] /\ x5 \in [Queues -> SUBSET Entries]
    BY <1>2 DEF x1, x2, x3, x4, x5
  <2>4. {} \in SUBSET SummonIds /\ NoUnit \in Ids \cup {NoUnit} /\ 0 \in Nat
        /\ "setup" \in {"setup", "idle", "decision", "post"}
    OBVIOUS
  <2>5. [unit |-> x1, entity |-> x2, servants |-> x3, byOwner |-> x4, lastServants |-> {},
         lastMonsters |-> {}, queues |-> x5, turnOwner |-> NoUnit, activeTurn |-> NoUnit,
         phase |-> "setup", events |-> 0, turns |-> 0, budget |-> MaxEffects] \in Battles
    BY <2>1, <2>3, <2>4 DEF Battles
  <2> QED BY <2>2, <2>5 DEF x1, x2, x3, x4, x5
<1>4. \A s \in SummonIds : battle.unit[s] = "absent"
  BY <1>1, Identities
<1>5. Valid(battle)
  BY <1>1, <1>4, Identities DEF Valid, Present
<1>6. Forgotten(battle) /\ Single(battle)
  BY <1>4, Identities DEF Forgotten, Single, Present
<1>7. TypeOK
  BY <1>3 DEF Init, TypeOK
<1> QED BY <1>3, <1>5, <1>6, <1>7 DEF IInv, Good, Init

(* Between actions only good states are published.                         *)
LEMMA PublishIsGood ==
  ASSUME IInv, NEW S, Publish(S), \A b \in S : Good(b),
         call' \in {"none", "body", "cleanup", "listen"}, who' \in Ids \cup {NoUnit},
         kind' \in {"turn", "drain"}, due' \subseteq Owners
  PROVE  IInv'
<1>1. Good(battle)' /\ Good(draft)'
  BY DEF Publish, Good, Valid, Forgotten, Single
<1> QED BY <1>1 DEF IInv, TypeOK, Good

LEMMA IdlePublishIsGood ==
  ASSUME IInv, NEW S, Idle, Publish(S), \A b \in S : Good(b)
  PROVE  IInv'
<1>1. /\ call' \in {"none", "body", "cleanup", "listen"} /\ who' \in Ids \cup {NoUnit}
      /\ kind' \in {"turn", "drain"} /\ due' \subseteq Owners
  BY DEF Idle, IInv, TypeOK
<1> QED BY <1>1, PublishIsGood

LEMMA ReturnIsGood ==
  ASSUME IInv, NEW S, Return(S), \A b \in S : Good(b)
  PROVE  IInv'
<1>1. /\ Publish(S) /\ call' = "none" /\ who' = NoUnit /\ kind' = "turn" /\ due' = {}
  BY DEF Return
<1> QED BY <1>1, PublishIsGood

LEMMA ClosedIsGood ==
  ASSUME NEW b, Good(b)
  PROVE  Good(Closed(b))
<1> DEFINE c == Closed(b)
<1>0. b \in Battles
  BY DEF Good
<1>1. [b EXCEPT !.phase = "idle"] \in Battles
  BY <1>0, FieldUpdates
<1>2. [b EXCEPT !.phase = "idle", !.activeTurn = NoUnit] \in Battles
  BY <1>1, FieldUpdates
<1>3. c \in Battles
  BY <1>2, FieldUpdates DEF Closed
<1>4. /\ c.unit = b.unit /\ c.entity = b.entity /\ c.servants = b.servants
      /\ c.byOwner = b.byOwner /\ c.lastServants = b.lastServants
      /\ c.lastMonsters = b.lastMonsters /\ c.queues = b.queues /\ c.turnOwner = NoUnit
  BY <1>0 DEF Closed, Battles
<1> HIDE DEF c
<1>5. Good(c)
  BY <1>3, <1>4, Alike
<1> QED BY <1>5 DEF c

LEMMA InPhaseIsGood ==
  ASSUME NEW b, Good(b), NEW p \in {"setup", "idle", "decision", "post"}
  PROVE  Good([b EXCEPT !.phase = p])
<1> DEFINE c == [b EXCEPT !.phase = p]
<1>0. b \in Battles
  BY DEF Good
<1>1. c \in Battles
  BY <1>0, FieldUpdates
<1>2. /\ c.unit = b.unit /\ c.entity = b.entity /\ c.servants = b.servants
      /\ c.byOwner = b.byOwner /\ c.lastServants = b.lastServants
      /\ c.lastMonsters = b.lastMonsters /\ c.queues = b.queues /\ c.turnOwner = b.turnOwner
  BY <1>0 DEF Battles
<1> HIDE DEF c
<1>3. Good(c)
  BY <1>1, <1>2, Alike
<1> QED BY <1>3 DEF c

LEMMA DequeuedIsGood ==
  ASSUME NEW b, Good(b), NEW q \in Queues, NEW e
  PROVE  Good(Dequeued(b, q, e)) /\ Dequeued(b, q, e).unit = b.unit
<1> DEFINE c == Dequeued(b, q, e)
           queues == [b.queues EXCEPT ![q] = @ \ {e}]
<1>0. b \in Battles
  BY DEF Good
<1>1. queues \in [Queues -> SUBSET Entries] /\ \A p \in Queues : queues[p] \subseteq b.queues[p]
  BY <1>0 DEF Battles
<1>2. c = [b EXCEPT !.queues = queues]
  BY <1>0 DEF Dequeued, Battles
<1> HIDE DEF c, queues
<1>3. c \in Battles
  BY <1>0, <1>1, <1>2, FieldUpdates
<1>4. /\ c.unit = b.unit /\ c.entity = b.entity /\ c.servants = b.servants
      /\ c.byOwner = b.byOwner /\ c.lastServants = b.lastServants
      /\ c.lastMonsters = b.lastMonsters /\ c.queues = queues /\ c.turnOwner = b.turnOwner
  BY <1>0, <1>2 DEF Battles
<1>5. Good(c)
  BY <1>1, <1>3, <1>4, Alike
<1> QED BY <1>4, <1>5 DEF c

LEMMA ExecuteIsGood ==
  ASSUME IInv, NEW b, Good(b), NEW u \in Ids, NEW k \in {"turn", "drain"}, Execute(b, u, k)
  PROVE  IInv' /\ draft'.unit = b.unit /\ UNCHANGED <<battle, due>> /\ call' = "body"
<1> DEFINE c == [b EXCEPT !.turnOwner = u, !.events = @ + 1]
<1>0. b \in Battles /\ b.unit[u] = "active"
  BY DEF Good, Execute
<1>1. b.events + 1 \in Nat
  BY <1>0 DEF Battles
<1>2. [b EXCEPT !.turnOwner = u] \in Battles
  BY <1>0, FieldUpdates
<1>3. c \in Battles
  BY <1>1, <1>2, FieldUpdates
<1>4. /\ c.unit = b.unit /\ c.entity = b.entity /\ c.servants = b.servants
      /\ c.byOwner = b.byOwner /\ c.lastServants = b.lastServants
      /\ c.lastMonsters = b.lastMonsters /\ c.queues = b.queues /\ c.turnOwner = u
  BY <1>0 DEF Battles
<1>5. draft' = c
  BY DEF Execute
<1> HIDE DEF c
<1>6. Good(c)
  BY <1>0, <1>3, <1>4, Alike
<1>7. /\ UNCHANGED <<battle, due>> /\ call' = "body" /\ who' = u /\ kind' = k
  BY DEF Execute
<1>8. Good(draft)' /\ Good(battle)'
  BY <1>5, <1>6, <1>7 DEF IInv, Good, Valid, Forgotten, Single
<1> QED BY <1>4, <1>5, <1>7, <1>8 DEF IInv, TypeOK, Good

(* A step that leaves the published state alone is good if its candidate is.*)
LEMMA CandidateIsGood ==
  ASSUME IInv, UNCHANGED battle, Good(draft'),
         call' \in {"none", "body", "cleanup", "listen"}, who' \in Ids \cup {NoUnit},
         kind' \in {"turn", "drain"}, due' \subseteq Owners
  PROVE  IInv'
<1>1. Good(draft)' /\ Good(battle)'
  BY DEF IInv, Good, Valid, Forgotten, Single
<1> QED BY <1>1 DEF IInv, TypeOK, Good

THEOREM NextIInv == IInv /\ [Next]_vars => IInv'
<1> SUFFICES ASSUME IInv, [Next]_vars PROVE IInv'
  OBVIOUS
<1>0. /\ Good(battle) /\ battle \in Battles /\ Good(draft) /\ draft \in Battles
      /\ call \in {"none", "body", "cleanup", "listen"} /\ who \in Ids \cup {NoUnit}
      /\ kind \in {"turn", "drain"} /\ due \subseteq Owners
  BY DEF IInv, TypeOK, Good
<1>1. ASSUME NEW d \in Servants, SetupServant(d) PROVE IInv'
  <2>1. Idle /\ AdmitsServant(battle, d) /\ Publish(Settle(WithServant(battle, d), Ids))
    BY <1>1 DEF SetupServant
  <2>2. \A b \in Settle(WithServant(battle, d), Ids) : Good(b)
    BY <1>0, <2>1, WithServantIsGood, SettledIsGood
  <2> QED BY <2>1, <2>2, IdlePublishIsGood
<1>2. ASSUME NEW o \in Summoners, SetupMonster(o) PROVE IInv'
  <2>1. Idle /\ AdmitsMonster(battle, o) /\ Publish(Settle(WithMonster(battle, o), Ids))
    BY <1>2 DEF SetupMonster
  <2>2. \A b \in Settle(WithMonster(battle, o), Ids) : Good(b)
    BY <1>0, <2>1, WithMonsterIsGood, SettledIsGood
  <2> QED BY <2>1, <2>2, IdlePublishIsGood
<1>3. CASE StartBattle
  <2>1. Idle /\ Publish({[battle EXCEPT !.phase = "idle"]})
    BY <1>3 DEF StartBattle
  <2>2. \A b \in {[battle EXCEPT !.phase = "idle"]} : Good(b)
    BY <1>0, InPhaseIsGood
  <2> QED BY <2>1, <2>2, IdlePublishIsGood
<1>4. ASSUME NEW u \in Ids, BeginTurn(u) PROVE IInv'
  <2> DEFINE c == [battle EXCEPT !.phase = "decision", !.activeTurn = u, !.turnOwner = u, !.turns = @ + 1]
  <2>1. Idle /\ battle.unit[u] = "active" /\ Publish(Settle(c, Ids \ {u}))
    BY <1>4 DEF BeginTurn
  <2>2. c \in Battles
    <3>1. battle.turns + 1 \in Nat
      BY <1>0 DEF Battles
    <3>2. [battle EXCEPT !.phase = "decision"] \in Battles
      BY <1>0, FieldUpdates
    <3>3. [battle EXCEPT !.phase = "decision", !.activeTurn = u] \in Battles
      BY <3>2, FieldUpdates
    <3>4. [battle EXCEPT !.phase = "decision", !.activeTurn = u, !.turnOwner = u] \in Battles
      BY <3>3, FieldUpdates
    <3> QED BY <3>1, <3>4, FieldUpdates
  <2>3. /\ c.unit = battle.unit /\ c.entity = battle.entity /\ c.servants = battle.servants
        /\ c.byOwner = battle.byOwner /\ c.lastServants = battle.lastServants
        /\ c.lastMonsters = battle.lastMonsters /\ c.queues = battle.queues /\ c.turnOwner = u
    BY <1>0 DEF Battles
  <2> HIDE DEF c
  <2>4. Good(c)
    BY <1>0, <2>1, <2>2, <2>3, Alike
  <2>5. \A b \in Settle(c, Ids \ {u}) : Good(b)
    BY <2>4, SettledIsGood
  <2> QED BY <2>1, <2>5, IdlePublishIsGood
<1>5. CASE Effect
  <2>1. draft' \in Effects(draft) /\ UNCHANGED <<battle, call, who, kind, due>>
    BY <1>5 DEF Effect
  <2>2. Good(draft')
    BY <1>0, <2>1, EffectsAreGood
  <2> QED BY <1>0, <2>1, <2>2, CandidateIsGood
<1>6. CASE TakeTurn
  <2>1. battle.activeTurn \in Ids /\ Execute(battle, battle.activeTurn, "turn")
    BY <1>0, <1>6 DEF TakeTurn, Battles
  <2> QED BY <1>0, <2>1, ExecuteIsGood
<1>7. CASE StartCleanup
  BY <1>0, <1>7, CandidateIsGood DEF StartCleanup, Inactive
<1>8. CASE NextOwner
  BY <1>0, <1>8, CandidateIsGood DEF NextOwner
<1>9. ASSUME NEW q \in Queues, DrainEntry(q) PROVE IInv'
  <2>1. PICK e \in battle.queues[q] : Execute(Dequeued(battle, q, e), e.actor, "drain")
    BY <1>9 DEF DrainEntry, Foremost
  <2>2. e.actor \in Ids
    BY <1>0 DEF Battles, Entries
  <2>3. Good(Dequeued(battle, q, e))
    BY <1>0, DequeuedIsGood
  <2> QED BY <2>1, <2>2, <2>3, ExecuteIsGood
<1>10. ASSUME NEW q \in Queues, DropEntry(q) PROVE IInv'
  <2>1. PICK e \in battle.queues[q] : Idle /\ Publish({Dequeued(battle, q, e)})
    BY <1>10 DEF DropEntry, Foremost
  <2>2. \A b \in {Dequeued(battle, q, e)} : Good(b)
    BY <1>0, DequeuedIsGood
  <2> QED BY <2>1, <2>2, IdlePublishIsGood
<1>11. ASSUME NEW o \in Owners, SkipOwner(o) PROVE IInv'
  BY <1>0, <1>11, CandidateIsGood DEF SkipOwner
<1>12. ASSUME NEW o \in Owners, CleanOwner(o) PROVE IInv'
  <2>1. /\ draft' = Removed(draft, Removable(draft, o)) /\ due' = due \ {o} /\ call' = "listen"
        /\ UNCHANGED <<battle, who, kind>>
    BY <1>12 DEF CleanOwner
  <2>2. Removable(draft, o) \in SUBSET SummonIds
    BY Identities DEF Removable
  <2>3. Good(draft')
    BY <1>0, <2>1, <2>2, RemovedIsGood
  <2>4. due' \subseteq Owners
    BY <1>0, <2>1
  <2> QED BY <1>0, <2>1, <2>3, <2>4, CandidateIsGood
<1>13. CASE DeferTurnEnd
  <2>1. Return({[draft EXCEPT !.phase = "post"]})
    BY <1>13 DEF DeferTurnEnd
  <2>2. \A b \in {[draft EXCEPT !.phase = "post"]} : Good(b)
    BY <1>0, InPhaseIsGood
  <2> QED BY <2>1, <2>2, ReturnIsGood
<1>14. CASE CloseTurn
  <2>1. Return(Settle(Closed(draft), Ids))
    BY <1>14 DEF CloseTurn
  <2>2. \A b \in Settle(Closed(draft), Ids) : Good(b)
    BY <1>0, ClosedIsGood, SettledIsGood
  <2> QED BY <2>1, <2>2, ReturnIsGood
<1>15. CASE RefuseTurnEnd
  <2>1. Return({battle})
    BY <1>15 DEF RefuseTurnEnd
  <2> QED BY <1>0, <2>1, ReturnIsGood
<1>16. CASE PublishDrained
  <2>1. Return({draft})
    BY <1>16 DEF PublishDrained
  <2> QED BY <1>0, <2>1, ReturnIsGood
<1>17. CASE EndPendingTurn
  <2>1. Idle /\ Publish(Settle(Closed(battle), Ids))
    BY <1>17 DEF EndPendingTurn
  <2>2. \A b \in Settle(Closed(battle), Ids) : Good(b)
    BY <1>0, ClosedIsGood, SettledIsGood
  <2> QED BY <2>1, <2>2, IdlePublishIsGood
<1>18. CASE UNCHANGED vars
  BY <1>0, <1>18, CandidateIsGood DEF vars
<1> QED BY <1>1, <1>2, <1>3, <1>4, <1>5, <1>6, <1>7, <1>8, <1>9, <1>10, <1>11, <1>12, <1>13, <1>14,
           <1>15, <1>16, <1>17, <1>18 DEF Next, Setup, Start, Proceed

THEOREM SummonsInductive == Spec => []IInv
BY InitIInv, NextIInv, PTL DEF Spec

(* Every reachable state is well typed. *)
THEOREM SummonTypes == Spec => []TypeOK
<1>1. IInv => TypeOK
  BY DEF IInv
<1> QED BY <1>1, SummonsInductive, PTL

(* The registry agrees with the units before every spawn and removal. *)
THEOREM RegistryStaysValid == Spec => []RegistryIsValid
<1>1. IInv => RegistryIsValid
  BY DEF IInv, Good, RegistryIsValid
<1> QED BY <1>1, SummonsInductive, PTL

(* Nothing that can still be acted on names a removed summon. *)
THEOREM RemovedStayForgotten == Spec => []RemovedIsForgotten
<1>1. IInv => RemovedIsForgotten
  BY DEF IInv, Good, RemovedIsForgotten
<1> QED BY <1>1, SummonsInductive, PTL

(* No owner has two instances of one servant on the field. *)
THEOREM ServantsStaySingle == Spec => []OneInstancePerServant
<1>1. IInv => OneInstancePerServant
  BY DEF IInv, Good, OneInstancePerServant
<1> QED BY <1>1, SummonsInductive, PTL

-----------------------------------------------------------------------------
(* Who leaves, and with whom                                               *)
(*                                                                         *)
(* The published state is compared with the candidate of the action that   *)
(* runs: until the cleanup looks at an owner, its servants have only been  *)
(* defeated; afterwards they are gone, unless two of them are still there. *)

(* Owners and servants change only by defeat, and monsters only enter or   *)
(* are defeated.                                                           *)
Drifts(b, c) ==
  /\ \A u \in Owners \cup ServantIds :
       c.unit[u] = b.unit[u] \/ (b.unit[u] = "active" /\ c.unit[u] = "defeated")
  /\ \A s \in MonsterIds : c.unit[s] = "removed" => b.unit[s] = "removed"

Since(b, c) ==
  /\ \A o \in Owners : b.unit[o] # "active" => c.unit[o] # "active"
  /\ \A s \in SummonIds :
       b.unit[s] \in Present /\ c.unit[s] = "removed" => c.unit[Master(s)] # "active"
  /\ \A s, t \in ServantIds :
       Master(s) = Master(t) /\ b.unit[s] \in Present /\ c.unit[s] = "removed"
         => c.unit[t] \notin Present

(* The servants an action cannot have left behind once D are the owners due.*)
Looked(b, c, D) ==
  \A s \in ServantIds :
    b.unit[Master(s)] # "active" /\ Master(s) \notin D /\ c.unit[s] \in Present
      => \E t \in ServantIds \ {s} : Master(t) = Master(s) /\ c.unit[t] \in Present

LInv ==
  /\ IInv
  /\ call # "none" => Since(battle, draft)
  /\ call \in {"cleanup", "listen"} =>
       /\ \A o \in due : draft.unit[o] # "active"
       /\ Looked(battle, draft, due)

LEMMA DriftFacts ==
  ASSUME NEW b, NEW c, NEW d, Drifts(c, d)
  PROVE  /\ Since(b, c) => Since(b, d)
         /\ \A D \in SUBSET Owners : Looked(b, c, D) => Looked(b, d, D)
         /\ \A o \in Owners : c.unit[o] # "active" => d.unit[o] # "active"
<1>1. \A u \in Owners \cup ServantIds :
        d.unit[u] = c.unit[u] \/ (c.unit[u] = "active" /\ d.unit[u] = "defeated")
  BY DEF Drifts
<1>2. /\ \A s \in ServantIds : d.unit[s] \in Present <=> c.unit[s] \in Present
      /\ \A o \in Owners : c.unit[o] # "active" => d.unit[o] # "active"
      /\ \A s \in SummonIds : d.unit[s] = "removed" => c.unit[s] = "removed"
  BY <1>1, Identities DEF Drifts, Present, SummonIds
<1>3. \A s \in SummonIds : Master(s) \in Owners
  BY Identities
<1>4. Since(b, c) => Since(b, d)
  BY <1>2, <1>3, Identities DEF Since
<1>5. ASSUME NEW D \in SUBSET Owners, Looked(b, c, D) PROVE Looked(b, d, D)
  BY <1>2, <1>5 DEF Looked
<1> QED BY <1>2, <1>4, <1>5

LEMMA DefeatsDrift ==
  ASSUME NEW b, Good(b), b.budget # 0, NEW S \in SUBSET Ids, NEW c \in Defeats(b, S)
  PROVE  Drifts(b, c)
<1>1. PICK u \in S : b.unit[u] = "active" /\ c = [Spent(b) EXCEPT !.unit[u] = "defeated"]
  BY DEF Defeats
<1>2. Spent(b) \in Battles /\ Spent(b).unit = b.unit
  BY SpentIsGood DEF Good
<1>3. \A v \in Ids : c.unit[v] = IF v = u THEN "defeated" ELSE b.unit[v]
  BY <1>1, <1>2 DEF Battles
<1>4. ASSUME NEW v \in Ids
      PROVE  /\ c.unit[v] = b.unit[v] \/ (b.unit[v] = "active" /\ c.unit[v] = "defeated")
             /\ c.unit[v] = "removed" => b.unit[v] = "removed"
  BY <1>1, <1>3
<1> QED BY <1>4, Identities DEF Drifts

LEMMA MonsterDrifts ==
  ASSUME NEW b, Good(b), NEW o \in Summoners, AdmitsMonster(b, o)
  PROVE  Drifts(b, WithMonster(b, o))
<1>1. MonsterId(b, o) \in MonsterIds
  BY DEF AdmitsMonster, MonsterId, MonsterIds
<1>2. \A u \in Ids : WithMonster(b, o).unit[u] = IF u = MonsterId(b, o) THEN "active" ELSE b.unit[u]
  BY <1>1, Identities, SpawnedFields DEF WithMonster, Good
<1>3. ASSUME NEW v \in Ids
      PROVE  /\ v # MonsterId(b, o) => WithMonster(b, o).unit[v] = b.unit[v]
             /\ WithMonster(b, o).unit[v] = "removed" => b.unit[v] = "removed"
  BY <1>2
<1>4. \A v \in Owners \cup ServantIds : v \in Ids /\ v # MonsterId(b, o)
  BY <1>1, Identities
<1>5. \A v \in MonsterIds : v \in Ids
  BY Identities
<1> HIDE DEF Drifts
<1> QED BY <1>3, <1>4, <1>5 DEF Drifts

LEMMA EffectsDrift ==
  ASSUME NEW b, Good(b), NEW c \in Effects(b)
  PROVE  Drifts(b, c)
<1>1. b.budget # 0 /\ c \in Defeats(b, Ids) \cup Enqueues(b) \cup Summonings(b)
  BY DEF Effects
<1>2. CASE c \in Defeats(b, Ids)
  BY <1>1, <1>2, DefeatsDrift
<1>3. CASE c \in Enqueues(b)
  <2>1. c.unit = b.unit
    <3>1. Spent(b) \in Battles /\ Spent(b).unit = b.unit
      BY <1>1, SpentIsGood DEF Good
    <3>2. PICK q \in Queues, a \in {u \in Ids : b.unit[u] = "active"}, t \in {u \in Ids : b.unit[u] \in Present} :
            c = [Spent(b) EXCEPT !.queues[q] = @ \cup {[actor |-> a, target |-> t, age |-> b.budget]}]
      BY <1>3 DEF Enqueues
    <3> QED BY <3>1, <3>2 DEF Battles
  <2> QED BY <2>1 DEF Drifts
<1>4. CASE c \in Summonings(b)
  <2>1. PICK o \in Summoners : AdmitsMonster(b, o) /\ c = Spent(WithMonster(b, o))
    BY <1>4 DEF Summonings
  <2>2. c.unit = WithMonster(b, o).unit
    BY <2>1, WithMonsterIsGood DEF Spent, Good, Battles
  <2>3. Drifts(b, WithMonster(b, o))
    BY <2>1, MonsterDrifts
  <2> QED BY <2>2, <2>3 DEF Drifts
<1> QED BY <1>1, <1>2, <1>3, <1>4

LEMMA SettleDrifts ==
  ASSUME NEW b, Good(b), NEW S \in SUBSET Ids, NEW c \in Settle(b, S)
  PROVE  Drifts(b, c)
<1>1. CASE c = b
  BY <1>1 DEF Drifts
<1>2. CASE b.budget # 0 /\ c \in Defeats(b, S)
  BY <1>2, DefeatsDrift
<1> QED BY <1>1, <1>2 DEF Settle

(* What the cleanup of an owner takes out is all that owner has.           *)
LEMMA RemovableFacts ==
  ASSUME NEW b, Good(b), NEW o \in Owners
  PROVE  /\ Removable(b, o) \in SUBSET SummonIds
         /\ \A s \in ServantIds : s \in Removable(b, o) <=> Master(s) = o /\ b.unit[s] \in Present
<1>1. Valid(b) /\ b \in Battles
  BY DEF Good
<1>2. \A s \in Removable(b, o) : s \in SummonIds /\ Master(s) = o /\ b.entity[s] = "active"
  BY <1>1, Identities DEF Removable, Valid
<1> QED BY <1>1, <1>2, Identities DEF Removable, Valid

LEMMA CleanedOwner ==
  ASSUME NEW b, NEW c, Good(c), NEW D \in SUBSET Owners, NEW o \in D,
         Since(b, c), \A x \in D : c.unit[x] # "active", Looked(b, c, D)
  PROVE  LET d == Removed(c, Removable(c, o)) IN
         /\ Since(b, d) /\ Looked(b, d, D \ {o})
         /\ \A x \in D : d.unit[x] # "active"
<1> DEFINE R == Removable(c, o)
           d == Removed(c, R)
<1>1. /\ R \in SUBSET SummonIds
      /\ \A s \in ServantIds : s \in R <=> Master(s) = o /\ c.unit[s] \in Present
  BY RemovableFacts
<1>2. \A s \in R : s \in ServantIds
  BY DEF Removable
<1>3. \A u \in Ids : d.unit[u] = IF u \in R THEN "removed" ELSE c.unit[u]
  BY <1>1, RemovedFields DEF Good
<1> HIDE DEF R, d
<1>4. \A x \in Owners : d.unit[x] = c.unit[x]
  BY <1>1, <1>3, Identities
<1>5. \A s \in ServantIds : d.unit[s] \in Present <=> Master(s) # o /\ c.unit[s] \in Present
  BY <1>1, <1>3, Identities DEF Present
<1>6. Since(b, d)
  <2>1. ASSUME NEW s \in SummonIds, b.unit[s] \in Present, d.unit[s] = "removed"
        PROVE  d.unit[Master(s)] # "active"
    <3>1. CASE s \in R
      BY <3>1, <1>1, <1>2, <1>4
    <3>2. CASE s \notin R
      BY <3>2, <2>1, <1>3, <1>4, Identities DEF Since
    <3> QED BY <3>1, <3>2
  <2>2. ASSUME NEW s \in ServantIds, NEW t \in ServantIds, Master(s) = Master(t),
               b.unit[s] \in Present, d.unit[s] = "removed"
        PROVE  d.unit[t] \notin Present
    <3>1. CASE s \in R
      BY <3>1, <2>2, <1>1, <1>5
    <3>2. CASE s \notin R
      <4>1. c.unit[s] = "removed"
        BY <3>2, <2>2, <1>3, Identities
      <4> QED BY <4>1, <2>2, <1>5 DEF Since
    <3> QED BY <3>1, <3>2
  <2>3. \A x \in Owners : b.unit[x] # "active" => d.unit[x] # "active"
    BY <1>4 DEF Since
  <2> QED BY <2>1, <2>2, <2>3 DEF Since
<1>7. Looked(b, d, D \ {o})
  <2> SUFFICES ASSUME NEW s \in ServantIds, b.unit[Master(s)] # "active",
                      Master(s) \notin D \ {o}, d.unit[s] \in Present
               PROVE  \E t \in ServantIds \ {s} : Master(t) = Master(s) /\ d.unit[t] \in Present
    BY DEF Looked
  <2>1. Master(s) # o /\ c.unit[s] \in Present /\ Master(s) \notin D
    BY <1>5
  <2>2. PICK t \in ServantIds \ {s} : Master(t) = Master(s) /\ c.unit[t] \in Present
    BY <2>1 DEF Looked
  <2> QED BY <2>1, <2>2, <1>5
<1>8. \A x \in D : d.unit[x] # "active"
  BY <1>4
<1> QED BY <1>6, <1>7, <1>8 DEF d, R

(* An owner is passed over when it has nobody, or two whose removals meet.  *)
LEMMA SkippedOwner ==
  ASSUME NEW b, NEW c, Good(c), NEW D \in SUBSET Owners, NEW o \in D,
         ~Cleans(c, o), Looked(b, c, D)
  PROVE  Looked(b, c, D \ {o})
<1>1. \A s \in ServantIds : s \in Removable(c, o) <=> Master(s) = o /\ c.unit[s] \in Present
  BY RemovableFacts
<1>2. Removable(c, o) = {} \/ Conflicting(c, Removable(c, o))
  BY DEF Cleans, Good
<1> SUFFICES ASSUME NEW s \in ServantIds, b.unit[Master(s)] # "active",
                    Master(s) \notin D \ {o}, c.unit[s] \in Present
             PROVE  \E t \in ServantIds \ {s} : Master(t) = Master(s) /\ c.unit[t] \in Present
  BY DEF Looked
<1>3. CASE Master(s) = o
  <2>1. s \in Removable(c, o)
    BY <1>1, <1>3
  <2>2. PICK x \in Removable(c, o), y \in Removable(c, o) : x # y
    BY <1>2, <2>1 DEF Conflicting
  <2>3. PICK t \in Removable(c, o) : t # s
    BY <2>2
  <2>4. t \in ServantIds
    BY DEF Removable
  <2> QED BY <2>3, <2>4, <1>1, <1>3
<1>4. CASE Master(s) # o
  BY <1>4 DEF Looked
<1> QED BY <1>3, <1>4

THEOREM NextLInv == LInv /\ [Next]_vars => LInv'
<1> SUFFICES ASSUME LInv, [Next]_vars PROVE LInv'
  OBVIOUS
<1>0. /\ IInv /\ Good(battle) /\ battle \in Battles /\ Good(draft) /\ draft \in Battles
      /\ call \in {"none", "body", "cleanup", "listen"} /\ due \in SUBSET Owners
      /\ call # "none" => Since(battle, draft)
      /\ call \in {"cleanup", "listen"} =>
           (\A o \in due : draft.unit[o] # "active") /\ Looked(battle, draft, due)
  BY DEF LInv, IInv, TypeOK, Good
<1>1. IInv'
  BY <1>0, NextIInv
<1>2. CASE call' = "none"
  BY <1>1, <1>2 DEF LInv
<1>3. ASSUME NEW b, b.unit = battle.unit, draft'.unit = b.unit, UNCHANGED battle, call' = "body"
      PROVE  LInv'
  <2>1. Since(battle, draft)'
    BY <1>0, <1>3 DEF Since, Present
  <2> QED BY <1>1, <1>3, <2>1 DEF LInv
<1>4. CASE TakeTurn
  <2>1. battle.activeTurn \in Ids /\ Execute(battle, battle.activeTurn, "turn")
    BY <1>0, <1>4 DEF TakeTurn, Battles
  <2>2. draft'.unit = battle.unit /\ UNCHANGED battle /\ call' = "body"
    BY <1>0, <2>1, ExecuteIsGood
  <2> QED BY <2>2, <1>3
<1>5. ASSUME NEW q \in Queues, DrainEntry(q) PROVE LInv'
  <2>1. PICK e \in battle.queues[q] : Execute(Dequeued(battle, q, e), e.actor, "drain")
    BY <1>5 DEF DrainEntry, Foremost
  <2>2. e.actor \in Ids
    BY <1>0 DEF Battles, Entries
  <2>3. Good(Dequeued(battle, q, e)) /\ Dequeued(battle, q, e).unit = battle.unit
    BY <1>0, DequeuedIsGood
  <2>4. draft'.unit = battle.unit /\ UNCHANGED battle /\ call' = "body"
    BY <1>0, <2>1, <2>2, <2>3, ExecuteIsGood
  <2> QED BY <2>4, <1>3
<1>6. CASE Effect
  <2>1. /\ call \in {"body", "listen"} /\ draft' \in Effects(draft)
        /\ UNCHANGED <<battle, call, who, kind, due>>
    BY <1>6 DEF Effect
  <2>2. Drifts(draft, draft')
    BY <1>0, <2>1, EffectsDrift
  <2>3. Since(battle, draft')
    BY <1>0, <2>1, <2>2, DriftFacts
  <2>4. call = "listen" => (\A o \in due : draft'.unit[o] # "active") /\ Looked(battle, draft', due)
    BY <1>0, <2>2, DriftFacts
  <2> QED BY <1>1, <2>1, <2>3, <2>4 DEF LInv, Since, Looked
<1>7. CASE StartCleanup
  <2>1. call = "body" /\ call' = "cleanup" /\ due' = Inactive(draft) /\ UNCHANGED <<battle, draft>>
    BY <1>7 DEF StartCleanup
  <2>2. Since(battle, draft)
    BY <1>0, <2>1
  <2>3. Looked(battle, draft, Inactive(draft))
    BY <2>2, Identities DEF Looked, Inactive, Since
  <2> QED BY <1>1, <2>1, <2>2, <2>3 DEF LInv, Since, Looked, Inactive
<1>8. CASE NextOwner
  BY <1>0, <1>1, <1>8 DEF NextOwner, LInv, Since, Looked
<1>9. ASSUME NEW o \in Owners, SkipOwner(o) PROVE LInv'
  <2>1. /\ call = "cleanup" /\ o \in due /\ ~Cleans(draft, o) /\ due' = due \ {o}
        /\ UNCHANGED <<battle, call, draft>>
    BY <1>9 DEF SkipOwner
  <2>2. Looked(battle, draft, due \ {o})
    BY <1>0, <2>1, SkippedOwner
  <2> QED BY <1>0, <1>1, <2>1, <2>2 DEF LInv, Since, Looked
<1>10. ASSUME NEW o \in Owners, CleanOwner(o) PROVE LInv'
  <2>1. /\ call = "cleanup" /\ o \in due /\ due' = due \ {o} /\ call' = "listen" /\ UNCHANGED battle
        /\ draft' = Removed(draft, Removable(draft, o))
    BY <1>10 DEF CleanOwner
  <2>2. /\ Since(battle, draft') /\ Looked(battle, draft', due \ {o})
        /\ \A x \in due : draft'.unit[x] # "active"
    BY <1>0, <2>1, CleanedOwner
  <2> QED BY <1>1, <2>1, <2>2 DEF LInv, Since, Looked
<1>11. CASE UNCHANGED vars
  BY <1>0, <1>1, <1>11 DEF vars, LInv, Since, Looked
<1>12. ASSUME Setup \/ Start \/ (\E q \in Queues : DropEntry(q)) \/ EndPendingTurn PROVE call' = "none"
  BY <1>12 DEF Setup, SetupServant, SetupMonster, Start, StartBattle, BeginTurn, DropEntry,
               EndPendingTurn, Idle
<1>13. ASSUME DeferTurnEnd \/ CloseTurn \/ RefuseTurnEnd \/ PublishDrained PROVE call' = "none"
  BY <1>13 DEF DeferTurnEnd, CloseTurn, RefuseTurnEnd, PublishDrained, Return
<1> QED BY <1>2, <1>4, <1>5, <1>6, <1>7, <1>8, <1>9, <1>10, <1>11, <1>12, <1>13 DEF Next, Proceed

THEOREM LeavingInductive == Spec => []LInv
<1>1. Init => LInv
  BY InitIInv DEF LInv, Init
<1> QED BY <1>1, NextLInv, PTL DEF Spec

(* What an action publishes.                                               *)
LEMMA ActionPublishes ==
  ASSUME LInv, Next, call # "none", battle' # battle
  PROVE  Drifts(draft, battle') /\ call = "cleanup" /\ due = {}
<1>0. Good(draft) /\ draft \in Battles
  BY DEF LInv, IInv, Good
<1>1. ~Idle
  BY DEF Idle
<1>2. DeferTurnEnd \/ CloseTurn \/ PublishDrained
  BY <1>1 DEF Next, Setup, SetupServant, SetupMonster, Start, StartBattle, BeginTurn, Effect,
              Proceed, TakeTurn, Execute, StartCleanup, NextOwner, DrainEntry, DropEntry, SkipOwner,
              CleanOwner, RefuseTurnEnd, Return, Publish, EndPendingTurn
<1>3. call = "cleanup" /\ due = {}
  BY <1>2 DEF DeferTurnEnd, CloseTurn, PublishDrained, Finishing
<1>4. CASE DeferTurnEnd
  <2>1. battle'.unit = draft.unit
    BY <1>0, <1>4 DEF DeferTurnEnd, Return, Publish, Battles
  <2> QED BY <1>3, <2>1 DEF Drifts
<1>5. CASE CloseTurn
  <2>1. battle' \in Settle(Closed(draft), Ids)
    BY <1>5 DEF CloseTurn, Return, Publish
  <2>2. Drifts(Closed(draft), battle')
    BY <1>0, <2>1, ClosedIsGood, SettleDrifts
  <2>3. Closed(draft).unit = draft.unit
    BY <1>0 DEF Closed, Battles
  <2> QED BY <1>3, <2>2, <2>3 DEF Drifts
<1>6. CASE PublishDrained
  <2>1. battle' = draft
    BY <1>6 DEF PublishDrained, Return, Publish
  <2> QED BY <1>3, <2>1 DEF Drifts
<1> QED BY <1>2, <1>4, <1>5, <1>6

(* The servants of an owner leave an action together or not at all.        *)
THEOREM ServantsStayTogether == Spec => ServantsLeaveTogether
<1>1. ASSUME LInv, [Next]_vars
      PROVE  [\A s, t \in ServantIds :
                /\ call # "none" /\ Master(s) = Master(t)
                /\ battle.unit[s] \in Present /\ battle'.unit[s] = "removed"
                => battle'.unit[t] \notin Present]_vars
  <2> SUFFICES ASSUME ~UNCHANGED vars, NEW s \in ServantIds, NEW t \in ServantIds,
                      call # "none", Master(s) = Master(t),
                      battle.unit[s] \in Present, battle'.unit[s] = "removed"
               PROVE  battle'.unit[t] \notin Present
    OBVIOUS
  <2>1. Next /\ battle' # battle
    BY <1>1 DEF vars, Present
  <2>2. Drifts(draft, battle')
    BY <1>1, <2>1, ActionPublishes
  <2>3. Since(battle, draft)
    BY <1>1 DEF LInv
  <2>4. Since(battle, battle')
    BY <2>2, <2>3, DriftFacts
  <2> QED BY <2>4 DEF Since
<1> QED BY <1>1, LeavingInductive, PTL DEF Spec, ServantsLeaveTogether

(* A servant without its owner sees no further action, unless the owner has*)
(* two servants whose removals conflict.                                   *)
THEOREM OrphansAlwaysLeave == Spec => OrphansLeave
<1>1. ASSUME LInv, [Next]_vars
      PROVE  [\A s \in ServantIds :
                /\ call # "none" /\ battle' # battle
                /\ battle.unit[Master(s)] # "active" /\ battle'.unit[s] \in Present
                => \E t \in ServantIds \ {s} : Master(t) = Master(s) /\ battle'.unit[t] \in Present]_vars
  <2> SUFFICES ASSUME ~UNCHANGED vars, NEW s \in ServantIds,
                      call # "none", battle' # battle,
                      battle.unit[Master(s)] # "active", battle'.unit[s] \in Present
               PROVE  \E t \in ServantIds \ {s} : Master(t) = Master(s) /\ battle'.unit[t] \in Present
    OBVIOUS
  <2>1. Next
    BY <1>1
  <2>2. Drifts(draft, battle') /\ call = "cleanup" /\ due = {}
    BY <1>1, <2>1, ActionPublishes
  <2>3. Looked(battle, draft, {})
    BY <1>1, <2>2 DEF LInv
  <2>4. Looked(battle, battle', {})
    BY <2>2, <2>3, DriftFacts
  <2> QED BY <2>4 DEF Looked
<1> QED BY <1>1, LeavingInductive, PTL DEF Spec, OrphansLeave

(* Between actions nobody leaves but a servant that is replaced.           *)
LEMMA NobodyLeaves ==
  ASSUME NEW b, NEW c, Drifts(b, c), NEW s \in SummonIds, b.unit[s] \in Present
  PROVE  c.unit[s] # "removed"
BY DEF Drifts, Present, SummonIds

LEMMA ReplacementEnters ==
  ASSUME NEW b, Good(b), NEW d \in Servants, AdmitsServant(b, d),
         NEW c \in Settle(WithServant(b, d), Ids),
         NEW s \in SummonIds, b.unit[s] \in Present, c.unit[s] = "removed"
  PROVE  /\ b.unit[s] = "defeated"
         /\ \E t \in {s[1]} \X Index : b.unit[t] = "absent" /\ c.unit[t] # "absent"
<1> DEFINE R == Fallen(b, d)
           t == <<d, Ordinal(b, d)>>
           w == WithServant(b, d)
<1>1. t \in ServantIds /\ b.unit[t] = "absent" /\ t \in {d} \X Index
  BY DEF AdmitsServant, ServantIds
<1>2. R \in SUBSET SummonIds
  BY Identities DEF Fallen, Instances, ServantIds
<1>3. Good(Removed(b, R)) /\ t \in SummonIds /\ t \in Ids
  BY <1>1, <1>2, RemovedIsGood, Identities
<1>4. \A u \in Ids : Removed(b, R).unit[u] = IF u \in R THEN "removed" ELSE b.unit[u]
  BY <1>2, RemovedFields DEF Good
<1>5. w = Spawned(Removed(b, R), t)
  BY DEF WithServant
<1> HIDE DEF w, t, R
<1>6. \A u \in Ids : w.unit[u] = IF u = t THEN "active" ELSE Removed(b, R).unit[u]
  <2>1. Removed(b, R) \in Battles /\ t \in SummonIds
    BY <1>3 DEF Good
  <2>2. \A u \in Ids : Spawned(Removed(b, R), t).unit[u]
                        = IF u = t THEN "active" ELSE Removed(b, R).unit[u]
    BY <2>1, SpawnedFields
  <2> QED BY <2>2, <1>5
<1>7. Good(w)
  BY WithServantIsGood DEF w
<1>8. Drifts(w, c)
  BY <1>7, SettleDrifts DEF w
<1>9. w.unit[s] = "removed"
  <2>1. CASE s \in ServantIds
    BY <2>1, <1>8 DEF Drifts
  <2>2. CASE s \in MonsterIds
    BY <2>2, <1>8 DEF Drifts
  <2> QED BY <2>1, <2>2 DEF SummonIds
<1>10. s \in R
  BY <1>4, <1>6, <1>9, Identities DEF Present
<1>11. s \in {d} \X Index /\ b.unit[s] = "defeated"
  BY <1>10 DEF R, Fallen, Instances
<1>12. c.unit[t] # "absent"
  BY <1>1, <1>3, <1>6, <1>8 DEF Drifts
<1> QED BY <1>1, <1>11, <1>12

(* A summon leaves because its owner is no longer active, or as another    *)
(* instance takes its place.                                               *)
THEOREM OwnersAlwaysKeepTheirs == Spec => OwnersKeepTheirs
<1>1. ASSUME LInv, [Next]_vars
      PROVE  [\A s \in SummonIds : battle.unit[s] \in Present /\ battle'.unit[s] = "removed" =>
                \/ battle'.unit[Master(s)] # "active"
                \/ /\ battle.unit[s] = "defeated"
                   /\ \E t \in {s[1]} \X Index :
                        battle.unit[t] = "absent" /\ battle'.unit[t] # "absent"]_vars
  <2> SUFFICES ASSUME ~UNCHANGED vars, NEW s \in SummonIds, battle.unit[s] \in Present,
                      battle'.unit[s] = "removed", battle'.unit[Master(s)] = "active"
               PROVE  /\ battle.unit[s] = "defeated"
                      /\ \E t \in {s[1]} \X Index :
                           battle.unit[t] = "absent" /\ battle'.unit[t] # "absent"
    OBVIOUS
  <2>0. Good(battle) /\ battle \in Battles /\ IInv
    BY <1>1 DEF LInv, IInv, Good
  <2>1. Next /\ battle' # battle
    BY <1>1 DEF Present
  <2>2. call = "none"
    <3>1. SUFFICES ASSUME call # "none" PROVE FALSE
      OBVIOUS
    <3>2. Drifts(draft, battle') /\ Since(battle, draft)
      BY <1>1, <2>1, <3>1, ActionPublishes DEF LInv
    <3>3. Since(battle, battle')
      BY <3>2, DriftFacts
    <3> QED BY <3>3 DEF Since
  <2>3. \/ \E d \in Servants : SetupServant(d)
        \/ \E o \in Summoners : SetupMonster(o)
        \/ StartBattle \/ EndPendingTurn
        \/ \E u \in Ids : BeginTurn(u)
        \/ \E q \in Queues : DropEntry(q)
    BY <2>1, <2>2 DEF Next, Setup, Start, Effect, Proceed, TakeTurn, Execute, StartCleanup, NextOwner,
              DrainEntry, SkipOwner, CleanOwner, DeferTurnEnd, CloseTurn, RefuseTurnEnd,
              PublishDrained, Finishing
  <2>4. ASSUME NEW d \in Servants, SetupServant(d)
        PROVE  /\ battle.unit[s] = "defeated"
               /\ \E t \in {s[1]} \X Index :
                    battle.unit[t] = "absent" /\ battle'.unit[t] # "absent"
    <3>1. AdmitsServant(battle, d) /\ battle' \in Settle(WithServant(battle, d), Ids)
      BY <2>4 DEF SetupServant, Publish
    <3> QED BY <2>0, <3>1, ReplacementEnters
  <2>5. ASSUME NEW c, c.unit = battle.unit, Good(c), NEW S \in SUBSET Ids, battle' \in Settle(c, S)
        PROVE  FALSE
    <3>1. Drifts(c, battle')
      BY <2>5, SettleDrifts
    <3> QED BY <3>1, <2>5, NobodyLeaves
  <2>6. ASSUME NEW o \in Summoners, SetupMonster(o) PROVE FALSE
    <3>1. AdmitsMonster(battle, o) /\ battle' \in Settle(WithMonster(battle, o), Ids)
      BY <2>6 DEF SetupMonster, Publish
    <3>2. Drifts(battle, WithMonster(battle, o)) /\ Good(WithMonster(battle, o))
      BY <2>0, <3>1, MonsterDrifts, WithMonsterIsGood
    <3>3. Drifts(WithMonster(battle, o), battle')
      BY <3>1, <3>2, SettleDrifts
    <3>4. WithMonster(battle, o).unit[s] # "removed"
      BY <3>2, NobodyLeaves
    <3>5. battle'.unit[s] # "removed"
      BY <3>3, <3>4 DEF Drifts, SummonIds
    <3> QED BY <3>5
  <2>7. CASE StartBattle
    <3>1. battle'.unit = battle.unit
      BY <2>0, <2>7 DEF StartBattle, Publish, Battles
    <3> QED BY <3>1 DEF Present
  <2>8. CASE EndPendingTurn
    <3>1. battle' \in Settle(Closed(battle), Ids)
      BY <2>8 DEF EndPendingTurn, Publish
    <3>2. Good(Closed(battle)) /\ Closed(battle).unit = battle.unit
      BY <2>0, ClosedIsGood DEF Closed, Battles
    <3> QED BY <3>1, <3>2, <2>5
  <2>9. ASSUME NEW u \in Ids, BeginTurn(u) PROVE FALSE
    <3> DEFINE c == [battle EXCEPT !.phase = "decision", !.activeTurn = u, !.turnOwner = u, !.turns = @ + 1]
    <3>1. battle' \in Settle(c, Ids \ {u})
      BY <2>9 DEF BeginTurn, Publish
    <3>2. c.unit = battle.unit
      BY <2>0 DEF Battles
    <3> HIDE DEF c
    <3>3. \/ battle' = c
          \/ \E v \in Ids : battle' = [Spent(c) EXCEPT !.unit[v] = "defeated"]
      BY <3>1 DEF Settle, Defeats
    <3>4. battle'.unit[s] # "removed"
      <4>1. CASE battle' = c
        BY <4>1, <3>2 DEF Present
      <4>2. ASSUME NEW v \in Ids, battle' = [Spent(c) EXCEPT !.unit[v] = "defeated"]
            PROVE  battle'.unit[s] # "removed"
        <5>1. Spent(c).unit = battle.unit
          BY <2>0, <3>2 DEF Spent, Battles, c
        <5>2. battle'.unit = [battle.unit EXCEPT ![v] = "defeated"]
          BY <2>0, <4>2, <5>1 DEF Spent, Battles, c
        <5> QED BY <2>0, <5>2, Identities DEF Battles, Present
      <4> QED BY <3>3, <4>1, <4>2
    <3> QED BY <3>4
  <2>10. ASSUME NEW q \in Queues, DropEntry(q) PROVE FALSE
    <3>1. PICK e \in battle.queues[q] : battle' = Dequeued(battle, q, e)
      BY <2>10 DEF DropEntry, Foremost, Publish
    <3>2. battle'.unit = battle.unit
      BY <2>0, <3>1, DequeuedIsGood
    <3> QED BY <3>2 DEF Present
  <2> QED BY <2>3, <2>4, <2>6, <2>7, <2>8, <2>9, <2>10
<1> QED BY <1>1, LeavingInductive, PTL DEF Spec, OwnersKeepTheirs
=============================================================================
