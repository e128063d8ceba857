------------------------ MODULE HitSettlementProofs ------------------------
(***************************************************************************)
(* Theorems about the settlement of damage, for every set of units, shield *)
(* sources, plans and amounts.  The first part is about who fell and who   *)
(* is told; the second about what a route leaves of the shields, whose     *)
(* order and whose sums are built by induction over sets of naturals.      *)
(***************************************************************************)
EXTENDS HitSettlement, SequenceTheorems, FiniteSetTheorems, TLAPS

Lives == {"active", "defeated"}
Causes == {"no", "action", "earlier", "listener", "break"}

(* Where the settlement stands, and what holds of the units it settles. *)
Shape ==
  /\ plan \in Seq(Hits) /\ at \in Nat \ {0}
  /\ stage \in {"before", "hit", "aim", "break", "rupture"}
  /\ stage # "before" => at <= Len(plan)
  /\ life \in [Units -> Lives] /\ fell \in [Units -> Causes]
  /\ ledger \in [Units -> {"none", "action", "other"}]
  /\ toughness \in [Units -> Nat] /\ broken \in [Units -> BOOLEAN]
  /\ refused \subseteq Units
  /\ due \in Seq(Events) /\ told \in [Units -> Nat]

(* Only the defeated have fallen. *)
Fallen == \A u \in Units : Living(u) <=> fell[u] = "no"

IInv == Shape /\ Fallen /\ LedgerNamesTheKiller /\ DepletedIsBroken

----------------------------------------------------------------------------
LEMMA CurrentTyped ==
  ASSUME Shape, at <= Len(plan)
  PROVE  Current \in Hits
BY DEF Shape, Current

LEMMA MovedShape ==
  ASSUME Shape, at <= Len(plan),
         NEW next \in {"before", "hit", "aim", "break", "rupture"},
         Moved(next), plan' = plan
  PROVE  /\ at' \in Nat \ {0} /\ stage' = next
         /\ stage' # "before" => at' = at /\ at' <= Len(plan')
BY DEF Shape, Moved

LEMMA AfterHitIsStage == AfterHit \in {"before", "aim"}
BY DEF AfterHit

LEMMA ConcatEvents ==
  ASSUME NEW s \in Seq(Events), NEW t \in Seq(Events)
  PROVE  s \o t \in Seq(Events)
BY ConcatProperties

LEMMA NewsTyped ==
  ASSUME NEW kind \in Kinds, NEW u \in Units, NEW window \in BOOLEAN
  PROVE  /\ News(kind, u, window) \in Events
         /\ <<News(kind, u, window)>> \in Seq(Events)
BY DEF News, Events

LEMMA HeadTyped ==
  ASSUME Shape, due # <<>>
  PROVE  /\ Tail(due) \in Seq(Events)
         /\ Head(due).of \in Units /\ Head(due).window \in BOOLEAN
<1>1. due \in Seq(Events)
  BY DEF Shape
<1>2. Tail(due) \in Seq(Events) /\ Head(due) \in Events
  BY <1>1, HeadTailProperties
<1> QED
  BY <1>2 DEF Events

LEMMA OptionalEvents ==
  ASSUME NEW s \in Seq(Events), NEW c
  PROVE  (IF c THEN s ELSE <<>>) \in Seq(Events)
<1>1. <<>> \in Seq(Events)
  OBVIOUS
<1> QED
  BY <1>1

LEMMA AimNewsTyped ==
  ASSUME Current \in Hits
  PROVE  AimNews \in Seq(Events)
<1>1. Current.to \in Units /\ "toughness.before_hit" \in Kinds
  BY DEF Hits, Kinds
<1>2. <<News("toughness.before_hit", Current.to, FALSE)>> \in Seq(Events)
  BY <1>1, NewsTyped
<1> QED
  BY <1>2, OptionalEvents DEF AimNews

LEMMA ShieldNewsTyped ==
  ASSUME NEW u \in Units, NEW left, NEW window \in BOOLEAN
  PROVE  ShieldNews(u, left, window) \in Seq(Events)
<1> DEFINE a == <<News("shield.change", u, window)>>
           b == <<News("shield.exhausted", u, window)>>
           c == IF \E k \in Sources : shields[u][k] > 0 /\ left[k] = 0
                THEN b ELSE <<>>
<1>1. a \in Seq(Events)
  BY NewsTyped DEF Kinds
<1>2. b \in Seq(Events)
  BY NewsTyped DEF Kinds
<1>3. c \in Seq(Events)
  BY <1>2
<1>4. a \o c \in Seq(Events)
  <2> HIDE DEF a, c
  <2> QED BY <1>1, <1>3, ConcatEvents
<1> QED
  BY <1>4 DEF ShieldNews

LEMMA HitNewsTyped ==
  ASSUME NEW u \in Units, NEW route, NEW window \in BOOLEAN
  PROVE  HitNews(u, route, window) \in Seq(Events)
<1> DEFINE a == ShieldNews(u, route.left, window)
           b == <<News("damage.hit", u, window)>>
           d == <<News("unit.before_dying", u, window),
                  News("unit.defeated", u, window)>>
           c == IF Fatal(u, route.rest) THEN d ELSE <<>>
<1>1. a \in Seq(Events)
  BY ShieldNewsTyped
<1>2. b \in Seq(Events)
  BY NewsTyped DEF Kinds
<1>3. d \in Seq(Events)
  <2>1. News("unit.before_dying", u, window) \in Events
    BY NewsTyped DEF Kinds
  <2>2. News("unit.defeated", u, window) \in Events
    BY NewsTyped DEF Kinds
  <2> QED BY <2>1, <2>2
<1>4. c \in Seq(Events)
  BY <1>3
<1>5. (a \o b) \o c \in Seq(Events)
  <2> HIDE DEF a, b, c
  <2> QED BY <1>1, <1>2, <1>4, ConcatEvents
<1> QED
  BY <1>5 DEF HitNews

LEMMA ActionNewsTyped ==
  ASSUME NEW u \in Units, NEW route, NEW gains \in BOOLEAN
  PROVE  ActionNews(u, route, gains) \in Seq(Events)
<1> DEFINE fatal == Fatal(u, route.rest)
           a == ShieldNews(u, route.left, TRUE)
           h == IF hp[u] > 0 /\ route.rest > 0
                THEN <<News("hp.change", u, TRUE)>> ELSE <<>>
           b == <<News("damage.hit", u, TRUE)>>
           d == IF fatal THEN <<News("unit.before_dying", u, TRUE)>> ELSE <<>>
           g == IF fatal /\ gains
                THEN <<News("resource.change", u, FALSE)>> ELSE <<>>
           f == IF fatal THEN <<News("unit.defeated", u, TRUE)>> ELSE <<>>
<1>1. a \in Seq(Events)
  BY ShieldNewsTyped
<1>2. h \in Seq(Events)
  <2>1. <<News("hp.change", u, TRUE)>> \in Seq(Events)
    BY NewsTyped DEF Kinds
  <2> QED BY <2>1, OptionalEvents
<1>3. b \in Seq(Events)
  BY NewsTyped DEF Kinds
<1>4. d \in Seq(Events)
  <2>1. <<News("unit.before_dying", u, TRUE)>> \in Seq(Events)
    BY NewsTyped DEF Kinds
  <2> QED BY <2>1, OptionalEvents
<1>5. g \in Seq(Events)
  <2>1. <<News("resource.change", u, FALSE)>> \in Seq(Events)
    BY NewsTyped DEF Kinds
  <2> QED BY <2>1, OptionalEvents
<1>6. f \in Seq(Events)
  <2>1. <<News("unit.defeated", u, TRUE)>> \in Seq(Events)
    BY NewsTyped DEF Kinds
  <2> QED BY <2>1, OptionalEvents
<1>7. a \o h \o a \o b \o d \o g \o f \in Seq(Events)
  <2> HIDE DEF a, h, b, d, g, f
  <2>1. a \o h \in Seq(Events) BY <1>1, <1>2, ConcatEvents
  <2>2. a \o h \o a \in Seq(Events) BY <2>1, <1>1, ConcatEvents
  <2>3. a \o h \o a \o b \in Seq(Events) BY <2>2, <1>3, ConcatEvents
  <2>4. a \o h \o a \o b \o d \in Seq(Events) BY <2>3, <1>4, ConcatEvents
  <2>5. a \o h \o a \o b \o d \o g \in Seq(Events) BY <2>4, <1>5, ConcatEvents
  <2> QED BY <2>5, <1>6, ConcatEvents
<1> QED
  BY <1>7 DEF ActionNews

----------------------------------------------------------------------------
(* What applying a packet does to the lifecycle and the ledger. *)
LEMMA WoundKeeps ==
  ASSUME IInv, NEW u \in Units, NEW route, NEW window \in BOOLEAN,
         NEW by \in {"action", "listener", "break"},
         Living(u), Wound(u, route, window, by),
         by = "action" => window, by = "break" => ~ window
  PROVE  /\ life' \in [Units -> Lives] /\ fell' \in [Units -> Causes]
         /\ ledger' \in [Units -> {"none", "action", "other"}]
         /\ Fallen' /\ LedgerNamesTheKiller'
         /\ UNCHANGED <<toughness, broken, refused>>
<1>1. UNCHANGED <<toughness, broken, refused>>
  BY DEF Wound
<1>2. fell[u] = "no" /\ ledger[u] = "none"
  BY DEF IInv, Shape, Fallen, LedgerNamesTheKiller
<1>3. CASE Fatal(u, route.rest)
  <2>1. life' = [life EXCEPT ![u] = "defeated"] /\ fell' = [fell EXCEPT ![u] = by]
    BY <1>3 DEF Wound
  <2>2. ledger' = IF window THEN [ledger EXCEPT ![u] =
                                    IF by = "action" THEN "action" ELSE "other"]
                  ELSE ledger
    BY <1>3 DEF Wound, Recorded
  <2>3. Fallen'
    BY <2>1 DEF IInv, Shape, Fallen, Living
  <2>4. LedgerNamesTheKiller'
    BY <1>2, <2>1, <2>2 DEF IInv, Shape, LedgerNamesTheKiller
  <2> QED
    BY <1>1, <2>1, <2>2, <2>3, <2>4 DEF IInv, Shape, Lives, Causes
<1>4. CASE ~ Fatal(u, route.rest)
  <2>1. UNCHANGED <<life, fell, ledger>>
    BY <1>4 DEF Wound, Recorded
  <2> QED
    BY <1>1, <2>1 DEF IInv, Shape, Fallen, Living, LedgerNamesTheKiller
<1> QED
  BY <1>3, <1>4

(* A step that touches neither toughness nor breaks, and neither comes from *)
(* nor leads to the moment where a break is decided, keeps the depletion.   *)
LEMMA NothingDepleted ==
  ASSUME DepletedIsBroken, stage # "break", stage' # "break",
         UNCHANGED <<toughness, broken, refused>>
  PROVE  DepletedIsBroken'
BY DEF DepletedIsBroken, BreakIsNext

(* What a step of a listener or of the dispatcher keeps. *)
LEMMA StandingStill ==
  ASSUME DepletedIsBroken,
         UNCHANGED <<plan, at, stage, toughness, broken, refused>>
  PROVE  DepletedIsBroken'
BY DEF DepletedIsBroken, BreakIsNext, Current

LEMMA BodiesKept ==
  ASSUME IInv, UNCHANGED <<life, ledger, fell>>
  PROVE  Fallen' /\ LedgerNamesTheKiller'
BY DEF IInv, Fallen, Living, LedgerNamesTheKiller

LEMMA BeginActionStep == ASSUME IInv, HitAssumption, BeginAction PROVE IInv'
<1>1. plan' \in Seq(Hits) /\ at' = 1 /\ stage' = "before"
  BY DEF HitAssumption, BeginAction
<1>2. /\ ledger' = [u \in Units |-> "none"]
      /\ fell' = [u \in Units |->
                    IF fell[u] = "action" THEN "earlier" ELSE fell[u]]
      /\ UNCHANGED <<life, toughness, broken, due, told>> /\ refused' = refused
  BY DEF BeginAction
<1>3. Shape'
  BY <1>1, <1>2 DEF IInv, Shape, Causes
<1>4. Fallen' /\ LedgerNamesTheKiller'
  BY <1>2 DEF IInv, Shape, Fallen, Living, LedgerNamesTheKiller
<1>5. stage # "break"
  BY DEF BeginAction, IInv, Shape
<1>6. DepletedIsBroken'
  BY <1>1, <1>2, <1>5, NothingDepleted DEF IInv
<1> QED
  BY <1>3, <1>4, <1>6 DEF IInv

LEMMA BeforeHitStep == ASSUME IInv, BeforeHit PROVE IInv'
<1>1. /\ at <= Len(plan) /\ stage = "before" /\ plan' = plan
      /\ UNCHANGED <<life, ledger, fell, toughness, broken, refused, told>>
  BY DEF BeforeHit, Settling, bodies
<1>2. Current \in Hits
  BY <1>1, CurrentTyped DEF IInv
<1>3. due' \in Seq(Events)
  <2>1. Current.to \in Units /\ "damage.before_hit" \in Kinds
    BY <1>2 DEF Hits, Kinds
  <2>2. <<News("damage.before_hit", Current.to, TRUE)>> \in Seq(Events)
    BY <2>1, NewsTyped
  <2> QED
    BY <1>2, <2>2, AimNewsTyped DEF BeforeHit
<1>4. PICK next \in {"hit", "before", "aim"} : Moved(next)
  BY AfterHitIsStage DEF BeforeHit
<1>5. /\ at' \in Nat \ {0} /\ stage' = next
      /\ stage' # "before" => at' <= Len(plan')
  BY <1>1, <1>4, MovedShape DEF IInv
<1>6. Shape'
  BY <1>1, <1>3, <1>5 DEF IInv, Shape
<1>7. DepletedIsBroken'
  BY <1>1, <1>5, NothingDepleted DEF IInv
<1> QED
  BY <1>1, <1>6, <1>7, BodiesKept DEF IInv

LEMMA HitStep == ASSUME IInv, Hit PROVE IInv'
<1>1. /\ at <= Len(plan) /\ stage = "hit" /\ Living(Current.to)
      /\ plan' = plan /\ told' = told /\ Moved(AfterHit)
  BY DEF Hit, Settling
<1>2. Current \in Hits /\ Current.to \in Units
  BY <1>1, CurrentTyped DEF IInv, Hits
<1>3. PICK amount \in Amounts, gains \in BOOLEAN :
        /\ Wound(Current.to, Route(Current.to, "direct", amount), TRUE, "action")
        /\ due' = ActionNews(Current.to, Route(Current.to, "direct", amount), gains)
                    \o AimNews
  BY DEF Hit
<1>4. due' \in Seq(Events)
  BY <1>2, <1>3, ActionNewsTyped, AimNewsTyped, ConcatEvents
<1>5. /\ life' \in [Units -> Lives] /\ fell' \in [Units -> Causes]
      /\ ledger' \in [Units -> {"none", "action", "other"}]
      /\ Fallen' /\ LedgerNamesTheKiller'
      /\ UNCHANGED <<toughness, broken, refused>>
  BY <1>1, <1>2, <1>3, WoundKeeps
<1>6. /\ at' \in Nat \ {0} /\ stage' = AfterHit
      /\ stage' # "before" => at' <= Len(plan')
  BY <1>1, AfterHitIsStage, MovedShape DEF IInv
<1>7. Shape'
  BY <1>1, <1>4, <1>5, <1>6, AfterHitIsStage DEF IInv, Shape
<1>8. DepletedIsBroken'
  BY <1>1, <1>5, <1>6, AfterHitIsStage, NothingDepleted DEF IInv
<1> QED
  BY <1>5, <1>7, <1>8 DEF IInv

LEMMA HitTheDeadStep == ASSUME IInv, HitTheDead PROVE IInv'
<1>1. /\ at <= Len(plan) /\ stage = "hit" /\ plan' = plan /\ Moved(AfterHit)
      /\ UNCHANGED <<life, ledger, fell, toughness, broken, refused, told>>
  BY DEF HitTheDead, Settling, bodies
<1>2. Current \in Hits /\ Current.to \in Units /\ "damage.hit" \in Kinds
  BY <1>1, CurrentTyped DEF IInv, Hits, Kinds
<1>3. due' \in Seq(Events)
  <2>1. <<News("damage.hit", Current.to, TRUE)>> \in Seq(Events)
    BY <1>2, NewsTyped
  <2>2. (IF Continues(Current.to)
         THEN <<News("damage.hit", Current.to, TRUE)>> ELSE <<>>) \in Seq(Events)
    BY <2>1, OptionalEvents
  <2> QED
    BY <1>2, <2>2, AimNewsTyped, ConcatEvents DEF HitTheDead
<1>4. /\ at' \in Nat \ {0} /\ stage' = AfterHit
      /\ stage' # "before" => at' <= Len(plan')
  BY <1>1, AfterHitIsStage, MovedShape DEF IInv
<1>5. Shape'
  BY <1>1, <1>3, <1>4, AfterHitIsStage DEF IInv, Shape
<1>6. DepletedIsBroken'
  BY <1>1, <1>4, AfterHitIsStage, NothingDepleted DEF IInv
<1> QED
  BY <1>1, <1>5, <1>6, BodiesKept DEF IInv

LEMMA AimStep == ASSUME IInv, Aim PROVE IInv'
<1>1. /\ at <= Len(plan) /\ stage = "aim" /\ plan' = plan
      /\ UNCHANGED <<life, ledger, fell, broken, refused, told>>
  BY DEF Aim, Settling
<1>2. Current \in Hits /\ Current.to \in Units /\ Current.stance \in Nat
  BY <1>1, CurrentTyped DEF IInv, Hits
<1>3. Fallen' /\ LedgerNamesTheKiller'
  BY <1>1, BodiesKept
<1>4. CASE Yields(Current.to)
  <2>1. /\ toughness' = [toughness EXCEPT ![Current.to] =
                          toughness[Current.to]
                            - Least(toughness[Current.to], Current.stance)]
        /\ due' = <<News("toughness.hit", Current.to, FALSE)>> /\ Moved("break")
    BY <1>4 DEF Aim
  <2>2. due' \in Seq(Events)
    BY <1>2, <2>1, NewsTyped DEF Kinds
  <2>3. at' = at /\ stage' = "break" /\ at' <= Len(plan')
    BY <1>1, <2>1, MovedShape DEF IInv
  <2>4. toughness' \in [Units -> Nat]
    BY <1>2, <2>1 DEF IInv, Shape, Least
  <2>5. Shape'
    BY <1>1, <2>2, <2>3, <2>4 DEF IInv, Shape
  <2>6. toughness[Current.to] > 0 /\ ~ broken[Current.to]
    BY <1>2, <1>4 DEF Yields, IInv, DepletedIsBroken, Shape
  <2>7. Current' = Current
    BY <1>1, <2>3 DEF Current
  <2>8. DepletedIsBroken'
    <3> SUFFICES ASSUME NEW u \in Units, MaxToughness[u] > 0
                 PROVE  /\ broken'[u] \/ u \in refused' => toughness'[u] = 0
                        /\ broken'[u] => u \notin refused'
                        /\ u = Current.to =>
                             ~ broken'[u] /\ u \notin refused'
                        /\ toughness'[u] = 0 => \/ broken'[u] \/ u \in refused'
                                                \/ u = Current.to
                        /\ u \in Locked => toughness'[u] = MaxToughness[u]
      BY <2>3, <2>7 DEF DepletedIsBroken, BreakIsNext
    <3>1. CASE u = Current.to
      <4>1. u \notin Locked /\ u \notin refused /\ ~ broken[u]
        BY <3>1, <1>4, <2>6 DEF Yields, IInv, DepletedIsBroken
      <4> QED
        BY <3>1, <4>1, <1>1
    <3>2. CASE u # Current.to
      <4>1. toughness'[u] = toughness[u] /\ broken'[u] = broken[u]
        BY <3>2, <1>1, <2>1 DEF IInv, Shape
      <4> QED
        BY <3>2, <4>1, <1>1 DEF IInv, DepletedIsBroken, BreakIsNext
    <3> QED
      BY <3>1, <3>2
  <2> QED
    BY <1>3, <2>5, <2>8 DEF IInv
<1>5. CASE ~ Yields(Current.to)
  <2>1. Moved("before") /\ UNCHANGED <<toughness, due>>
    BY <1>5 DEF Aim
  <2>2. at' \in Nat \ {0} /\ stage' = "before"
    BY <1>1, <2>1, MovedShape DEF IInv
  <2>3. Shape'
    BY <1>1, <2>1, <2>2 DEF IInv, Shape
  <2>4. DepletedIsBroken'
    BY <1>1, <2>1, <2>2, NothingDepleted DEF IInv
  <2> QED
    BY <1>3, <2>3, <2>4 DEF IInv
<1> QED
  BY <1>4, <1>5

LEMMA EnterBreakStep == ASSUME IInv, EnterBreak PROVE IInv'
<1>1. /\ at <= Len(plan) /\ stage = "break" /\ plan' = plan
      /\ UNCHANGED <<life, ledger, fell, toughness, told>>
  BY DEF EnterBreak, Settling
<1>2. Current \in Hits /\ Current.to \in Units
  BY <1>1, CurrentTyped DEF IInv, Hits
<1>3. Fallen' /\ LedgerNamesTheKiller'
  BY <1>1, BodiesKept
<1>4. CASE ~ MayBreak(Current.to)
  <2>1. Moved("before") /\ UNCHANGED <<broken, refused, due>>
    BY <1>4 DEF EnterBreak
  <2>2. at' \in Nat \ {0} /\ stage' = "before"
    BY <1>1, <2>1, MovedShape DEF IInv
  <2>3. Shape'
    BY <1>1, <2>1, <2>2 DEF IInv, Shape
  <2>4. MaxToughness[Current.to] > 0 =>
          toughness[Current.to] # 0 \/ broken[Current.to]
    BY <1>2, <1>4 DEF MayBreak, IInv, DepletedIsBroken
  <2>5. DepletedIsBroken'
    BY <1>1, <2>1, <2>2, <2>4 DEF IInv, DepletedIsBroken, BreakIsNext
  <2> QED
    BY <1>3, <2>3, <2>5 DEF IInv
<1>5. CASE MayBreak(Current.to) /\ ~ Current.breaks
  <2>1. /\ Moved("before") /\ UNCHANGED <<broken, due>>
        /\ refused' = refused \cup {Current.to}
    BY <1>5 DEF EnterBreak
  <2>2. at' \in Nat \ {0} /\ stage' = "before"
    BY <1>1, <2>1, MovedShape DEF IInv
  <2>3. Shape'
    BY <1>1, <1>2, <2>1, <2>2 DEF IInv, Shape
  <2>4. DepletedIsBroken'
    BY <1>1, <1>5, <2>1, <2>2 DEF IInv, MayBreak, DepletedIsBroken, BreakIsNext
  <2> QED
    BY <1>3, <2>3, <2>4 DEF IInv
<1>6. CASE MayBreak(Current.to) /\ Current.breaks
  <2>1. /\ broken' = [broken EXCEPT ![Current.to] = TRUE] /\ Moved("rupture")
        /\ refused' = refused
    BY <1>6 DEF EnterBreak
  <2>2. due' \in Seq(Events)
    <3>1. <<News("status.callback.OnStack", Current.to, FALSE)>> \in Seq(Events)
      BY <1>2, NewsTyped DEF Kinds
    <3>2. PICK stacks \in BOOLEAN :
            due' = IF stacks
                   THEN <<News("status.callback.OnStack", Current.to, FALSE)>>
                   ELSE <<>>
      BY <1>6 DEF EnterBreak
    <3> QED
      BY <3>1, <3>2, OptionalEvents
  <2>3. at' \in Nat \ {0} /\ stage' = "rupture" /\ at' <= Len(plan')
    BY <1>1, <2>1, MovedShape DEF IInv
  <2>4. Shape'
    BY <1>1, <2>1, <2>2, <2>3 DEF IInv, Shape
  <2>5. MaxToughness[Current.to] > 0 => Current.to \notin refused
    BY <1>1, <1>2 DEF IInv, DepletedIsBroken, BreakIsNext
  <2>6. DepletedIsBroken'
    BY <1>1, <1>2, <1>6, <2>1, <2>3, <2>5
       DEF IInv, Shape, MayBreak, DepletedIsBroken, BreakIsNext
  <2> QED
    BY <1>3, <2>4, <2>6 DEF IInv
<1> QED
  BY <1>4, <1>5, <1>6

LEMMA RuptureStep == ASSUME IInv, Rupture PROVE IInv'
<1>1. /\ at <= Len(plan) /\ stage = "rupture" /\ plan' = plan /\ told' = told
      /\ UNCHANGED <<toughness, broken, refused>> /\ Moved("before")
  BY DEF Rupture, Settling
<1>2. Current \in Hits /\ Current.to \in Units
  BY <1>1, CurrentTyped DEF IInv, Hits
<1>3. /\ life' \in [Units -> Lives] /\ fell' \in [Units -> Causes]
      /\ ledger' \in [Units -> {"none", "action", "other"}]
      /\ Fallen' /\ LedgerNamesTheKiller'
  <2>1. PICK amount \in BreakAmounts :
          IF Living(Current.to) /\ amount > 0
          THEN Wound(Current.to, Route(Current.to, "break", amount),
                     FALSE, "break")
          ELSE UNCHANGED bodies
    BY DEF Rupture
  <2>2. CASE Living(Current.to) /\ amount > 0
    BY <1>2, <2>1, <2>2, WoundKeeps
  <2>3. CASE ~ (Living(Current.to) /\ amount > 0)
    <3>1. UNCHANGED <<life, ledger, fell>>
      BY <2>1, <2>3 DEF bodies
    <3> QED
      BY <3>1, BodiesKept DEF IInv, Shape
  <2> QED
    BY <2>2, <2>3
<1>4. due' \in Seq(Events)
  BY <1>2, NewsTyped DEF Rupture, Kinds
<1>5. at' \in Nat \ {0} /\ stage' = "before"
  BY <1>1, MovedShape DEF IInv
<1>6. Shape'
  BY <1>1, <1>3, <1>4, <1>5 DEF IInv, Shape
<1>7. DepletedIsBroken'
  BY <1>1, <1>5, NothingDepleted DEF IInv
<1> QED
  BY <1>3, <1>6, <1>7 DEF IInv

LEMMA TellStep == ASSUME IInv, Tell PROVE IInv'
<1>1. /\ UNCHANGED <<plan, at, stage, life, ledger, fell, toughness, broken,
                  refused>>
      /\ due # <<>> /\ due' = Tail(due)
      /\ told' = IF Head(due).kind = "unit.defeated"
                 THEN [told EXCEPT ![Head(due).of] = told[Head(due).of] + 1]
                 ELSE told
  BY DEF Tell, bodies
<1>2. due' \in Seq(Events) /\ told' \in [Units -> Nat]
  <2>1. due \in Seq(Events) /\ told \in [Units -> Nat]
    BY DEF IInv, Shape
  <2>2. Tail(due) \in Seq(Events) /\ Head(due).of \in Units
    BY <1>1, HeadTyped DEF IInv
  <2> QED
    BY <1>1, <2>1, <2>2
<1>3. Shape'
  BY <1>1, <1>2 DEF IInv, Shape
<1> QED
  BY <1>1, <1>3, BodiesKept, StandingStill DEF IInv

LEMMA HurtStep == ASSUME IInv, Hurt PROVE IInv'
<1>1. UNCHANGED <<plan, at, stage, told>> /\ due # <<>>
  BY DEF Hurt, Answering
<1>2. PICK u \in Units, family \in ListenerFamilies, amount \in Amounts :
        /\ Living(u)
        /\ Wound(u, Route(u, family, amount), Head(due).window, "listener")
        /\ due' = HitNews(u, Route(u, family, amount), Head(due).window) \o due
  BY DEF Hurt
<1>3. Head(due).window \in BOOLEAN
  BY <1>1, HeadTyped DEF IInv
<1>4. /\ life' \in [Units -> Lives] /\ fell' \in [Units -> Causes]
      /\ ledger' \in [Units -> {"none", "action", "other"}]
      /\ Fallen' /\ LedgerNamesTheKiller'
      /\ UNCHANGED <<toughness, broken, refused>>
  BY <1>2, <1>3, WoundKeeps
<1>5. due' \in Seq(Events)
  BY <1>2, <1>3, HitNewsTyped, ConcatEvents DEF IInv, Shape
<1>6. Shape'
  BY <1>1, <1>4, <1>5 DEF IInv, Shape
<1> QED
  BY <1>1, <1>4, <1>6, StandingStill DEF IInv

(* The effects that only bring one more event. *)
LEMMA QuietStep ==
  ASSUME IInv, Answering, NEW kind \in Kinds, NEW u \in Units,
         due' = <<News(kind, u, Head(due).window)>> \o due,
         UNCHANGED <<life, toughness, broken, refused, ledger, fell>>
  PROVE  IInv'
<1>1. UNCHANGED <<plan, at, stage, told>> /\ due # <<>>
  BY DEF Answering
<1>2. Head(due).window \in BOOLEAN
  BY <1>1, HeadTyped DEF IInv
<1>3. due' \in Seq(Events)
  BY <1>2, NewsTyped, ConcatEvents DEF IInv, Shape
<1>4. Shape'
  BY <1>1, <1>3 DEF IInv, Shape
<1> QED
  BY <1>1, <1>4, BodiesKept, StandingStill DEF IInv

LEMMA ListenStep == ASSUME IInv, Listen PROVE IInv'
<1>1. {"heal.after", "shield.change"} \subseteq Kinds
  BY DEF Kinds
<1>2. CASE Heal
  <2>1. /\ Answering /\ UNCHANGED <<life, toughness, broken, refused, ledger, fell>>
        /\ \E u \in Units :
             due' = <<News("heal.after", u, Head(due).window)>> \o due
    BY <1>2 DEF Heal
  <2> QED
    BY <1>1, <2>1, QuietStep
<1>3. CASE Shield \/ Unshield
  <2>1. /\ Answering /\ UNCHANGED <<life, toughness, broken, refused, ledger, fell>>
        /\ \E u \in Units :
             due' = <<News("shield.change", u, Head(due).window)>> \o due
    BY <1>3 DEF Shield, Unshield
  <2> QED
    BY <1>1, <2>1, QuietStep
<1> QED
  BY <1>2, <1>3, HurtStep DEF Listen

(* The strengthened invariant is inductive. *)
LEMMA StepKeeps == ASSUME IInv, HitAssumption, [Next]_vars PROVE IInv'
<1>1. CASE UNCHANGED vars
  <2>1. UNCHANGED <<plan, at, stage, life, fell, ledger, toughness, broken, refused,
                    due, told>>
    BY <1>1 DEF vars
  <2> QED
    BY <2>1, BodiesKept, StandingStill DEF IInv, Shape
<1>2. CASE Settle
  BY <1>2, BeforeHitStep, HitStep, HitTheDeadStep, AimStep, EnterBreakStep,
     RuptureStep DEF Settle
<1> QED
  BY <1>1, <1>2, BeginActionStep, TellStep, ListenStep DEF Next

LEMMA InitHolds == ASSUME HitAssumption, Init PROVE IInv
<1>1. Shape
  <2>1. plan \in Seq(Hits) /\ at = 1 /\ stage = "before"
    BY DEF HitAssumption, Init
  <2>2. due = <<>> /\ due \in Seq(Events)
    BY DEF Init
  <2> QED
    BY <2>1, <2>2 DEF HitAssumption, Init, Shape, Lives, Causes
<1>2. Fallen /\ LedgerNamesTheKiller
  BY DEF Init, Fallen, Living, LedgerNamesTheKiller
<1>3. DepletedIsBroken
  BY DEF HitAssumption, Init, DepletedIsBroken, BreakIsNext
<1> QED
  BY <1>1, <1>2, <1>3 DEF IInv

THEOREM InvariantHolds == Spec => []IInv
<1>1. ASSUME Init PROVE IInv
  BY <1>1, HitAssumption, InitHolds
<1>2. ASSUME IInv, [Next]_vars PROVE IInv'
  BY <1>2, HitAssumption, StepKeeps
<1> QED
  BY <1>1, <1>2, PTL DEF Spec

(* Only a packet of the running action makes the window ledger name it, and *)
(* none fails to, for every plan and however the windows nest.              *)
THEOREM LedgerIsTrue == Spec => []LedgerNamesTheKiller
<1>1. IInv => LedgerNamesTheKiller
  BY DEF IInv
<1> QED
  BY <1>1, InvariantHolds, PTL

(* Spent toughness and the broken flag never come apart for longer than the *)
(* dispatch of the packet's own event, unless the break is blocked.         *)
THEOREM DepletionBreaks == Spec => []DepletedIsBroken
<1>1. IInv => DepletedIsBroken
  BY DEF IInv
<1> QED
  BY <1>1, InvariantHolds, PTL

(* So an action whose graph is complete at its end, which is one that can be *)
(* published, has broken every unit whose toughness it found or left spent.  *)
Complete == at > Len(plan) /\ refused = {}
THEOREM CompleteActionsBreak ==
  Spec => [](Complete => \A u \in Units : MaxToughness[u] > 0 =>
                           (broken[u] <=> toughness[u] = 0))
<1>1. IInv /\ Complete => \A u \in Units : MaxToughness[u] > 0 =>
                             (broken[u] <=> toughness[u] = 0)
  <2> SUFFICES ASSUME IInv, Complete, NEW u \in Units, MaxToughness[u] > 0
               PROVE  broken[u] <=> toughness[u] = 0
    OBVIOUS
  <2>1. ~ BreakIsNext(u)
    BY DEF IInv, Shape, Complete, BreakIsNext
  <2> QED
    BY <2>1 DEF IInv, Shape, Complete, DepletedIsBroken
<1> QED
  BY <1>1, InvariantHolds, PTL

----------------------------------------------------------------------------
(* How often a sequence of events announces the defeat of a unit. *)
None(s, u) == Defeats(s, u) = {}
One(s, u) == \E i \in 1..Len(s) : Defeats(s, u) = {i}
Silent(s) == \A i \in 1..Len(s) : s[i].kind # "unit.defeated"

LEMMA SilentConcat ==
  ASSUME NEW s \in Seq(Events), NEW t \in Seq(Events), Silent(s), Silent(t)
  PROVE  s \o t \in Seq(Events) /\ Silent(s \o t)
<1>1. /\ s \o t \in Seq(Events) /\ Len(s \o t) = Len(s) + Len(t)
      /\ \A i \in 1..(Len(s) + Len(t)) :
           (s \o t)[i] = IF i <= Len(s) THEN s[i] ELSE t[i - Len(s)]
  BY ConcatProperties
<1>2. Len(s) \in Nat /\ Len(t) \in Nat
  OBVIOUS
<1>3. ASSUME NEW i \in 1..Len(s \o t) PROVE (s \o t)[i].kind # "unit.defeated"
  <2>1. CASE i <= Len(s)
    BY <1>1, <1>2, <2>1 DEF Silent
  <2>2. CASE i > Len(s)
    <3>1. i - Len(s) \in 1..Len(t)
      BY <1>1, <1>2, <2>2
    <3> QED
      BY <1>1, <1>2, <2>2, <3>1 DEF Silent
  <2> QED
    BY <1>2, <2>1, <2>2
<1> QED
  BY <1>1, <1>3 DEF Silent

LEMMA SilentNews ==
  ASSUME NEW kind \in Kinds \ {"unit.defeated"}, NEW u \in Units,
         NEW window \in BOOLEAN
  PROVE  /\ <<News(kind, u, window)>> \in Seq(Events)
         /\ Silent(<<News(kind, u, window)>>)
<1>1. <<News(kind, u, window)>> \in Seq(Events)
  BY NewsTyped
<1>2. News(kind, u, window).kind = kind
  BY DEF News
<1> QED
  BY <1>1, <1>2 DEF Silent

LEMMA SilentOptional ==
  ASSUME NEW s \in Seq(Events), Silent(s), NEW c
  PROVE  /\ (IF c THEN s ELSE <<>>) \in Seq(Events)
         /\ Silent(IF c THEN s ELSE <<>>)
<1>1. <<>> \in Seq(Events) /\ Silent(<<>>)
  BY DEF Silent
<1> QED
  BY <1>1

LEMMA AfterSilence ==
  ASSUME NEW s \in Seq(Events), NEW t \in Seq(Events), NEW u, Silent(s)
  PROVE  /\ None(t, u) => None(s \o t, u)
         /\ One(t, u) => One(s \o t, u)
<1> DEFINE n == Len(s)
<1>1. /\ n \in Nat /\ Len(t) \in Nat /\ Len(s \o t) = n + Len(t)
      /\ \A i \in 1..(n + Len(t)) :
           (s \o t)[i] = IF i <= n THEN s[i] ELSE t[i - n]
  BY ConcatProperties
<1>2. \A i \in 1..Len(s \o t) :
        i \in Defeats(s \o t, u) <=> i > n /\ i - n \in Defeats(t, u)
  BY <1>1 DEF Defeats, Silent
<1>3. None(t, u) => None(s \o t, u)
  BY <1>2 DEF None, Defeats
<1>4. ASSUME NEW i \in 1..Len(t), Defeats(t, u) = {i}
      PROVE  One(s \o t, u)
  <2>1. n + i \in 1..Len(s \o t)
    BY <1>1
  <2>2. Defeats(s \o t, u) = {n + i}
    <3>1. n + i \in Defeats(s \o t, u)
      BY <1>1, <1>2, <1>4, <2>1
    <3>2. ASSUME NEW j \in Defeats(s \o t, u) PROVE j = n + i
      <4>1. j \in 1..Len(s \o t)
        BY DEF Defeats
      <4> QED
        BY <4>1, <1>1, <1>2, <1>4
    <3> QED
      BY <3>1, <3>2
  <2> QED
    BY <2>1, <2>2 DEF One
<1> QED
  BY <1>3, <1>4 DEF One

LEMMA AfterDefeat ==
  ASSUME NEW u \in Units, NEW window \in BOOLEAN, NEW t \in Seq(Events), NEW v
  PROVE  /\ None(t, u) => One(<<News("unit.defeated", u, window)>> \o t, u)
         /\ v # u /\ None(t, v) =>
              None(<<News("unit.defeated", u, window)>> \o t, v)
         /\ v # u /\ One(t, v) =>
              One(<<News("unit.defeated", u, window)>> \o t, v)
<1> DEFINE s == <<News("unit.defeated", u, window)>>
<1>1. s \in Seq(Events) /\ Len(s) = 1 /\ s[1].kind = "unit.defeated"
      /\ s[1].of = u
  <2>1. /\ News("unit.defeated", u, window).kind = "unit.defeated"
        /\ News("unit.defeated", u, window).of = u
    BY DEF News
  <2> QED
    BY <2>1, NewsTyped DEF Kinds
<1> HIDE DEF s
<1>2. /\ Len(t) \in Nat /\ Len(s \o t) = 1 + Len(t)
      /\ (s \o t)[1] = s[1]
      /\ \A i \in 2..(1 + Len(t)) : (s \o t)[i] = t[i - 1]
  BY <1>1, ConcatProperties
<1>3. ASSUME None(t, u) PROVE One(s \o t, u)
  <2>1. 1 \in Defeats(s \o t, u)
    BY <1>1, <1>2 DEF Defeats
  <2>2. ASSUME NEW i \in Defeats(s \o t, u), i # 1 PROVE FALSE
    <3>1. i \in 2..(1 + Len(t)) /\ i - 1 \in Defeats(t, u)
      BY <1>2, <2>2 DEF Defeats
    <3> QED
      BY <3>1, <1>3 DEF None
  <2>3. Defeats(s \o t, u) = {1}
    BY <2>1, <2>2
  <2>4. 1 \in 1..Len(s \o t)
    BY <1>2
  <2> QED
    BY <2>3, <2>4 DEF One
<1>4. ASSUME v # u PROVE /\ None(t, v) => None(s \o t, v)
                         /\ One(t, v) => One(s \o t, v)
  <2>1. \A i \in 1..Len(s \o t) :
          i \in Defeats(s \o t, v) <=> i > 1 /\ i - 1 \in Defeats(t, v)
    BY <1>1, <1>2, <1>4 DEF Defeats
  <2>2. None(t, v) => None(s \o t, v)
    BY <2>1 DEF None, Defeats
  <2>3. ASSUME NEW i \in 1..Len(t), Defeats(t, v) = {i}
        PROVE  One(s \o t, v)
    <3>1. 1 + i \in 1..Len(s \o t) /\ 1 + i \in Defeats(s \o t, v)
      BY <1>2, <2>1, <2>3
    <3>2. ASSUME NEW j \in Defeats(s \o t, v) PROVE j = 1 + i
      <4>1. j \in 1..Len(s \o t)
        BY DEF Defeats
      <4> QED
        BY <4>1, <1>2, <2>1, <2>3
    <3>3. Defeats(s \o t, v) = {1 + i}
      BY <3>1, <3>2
    <3> QED
      BY <3>1, <3>3 DEF One
  <2> QED
    BY <2>2, <2>3 DEF One
<1> QED
  BY <1>3, <1>4 DEF s

LEMMA SilentNone ==
  ASSUME NEW s, Silent(s), NEW u
  PROVE  None(s, u)
BY DEF Silent, None, Defeats

LEMMA SilentShieldNews ==
  ASSUME NEW u \in Units, NEW left, NEW window \in BOOLEAN
  PROVE  /\ ShieldNews(u, left, window) \in Seq(Events)
         /\ Silent(ShieldNews(u, left, window))
<1> DEFINE a == <<News("shield.change", u, window)>>
           b == <<News("shield.exhausted", u, window)>>
           c == IF \E k \in Sources : shields[u][k] > 0 /\ left[k] = 0
                THEN b ELSE <<>>
<1>1. /\ a \in Seq(Events) /\ Silent(a) /\ b \in Seq(Events) /\ Silent(b)
  BY SilentNews DEF Kinds
<1>2. c \in Seq(Events) /\ Silent(c)
  BY <1>1, SilentOptional
<1>3. a \o c \in Seq(Events) /\ Silent(a \o c)
  <2> HIDE DEF a, c
  <2> QED BY <1>1, <1>2, SilentConcat
<1>4. <<>> \in Seq(Events) /\ Silent(<<>>)
  BY DEF Silent
<1> QED
  BY <1>3, <1>4 DEF ShieldNews

LEMMA SilentAimNews ==
  ASSUME Current \in Hits
  PROVE  AimNews \in Seq(Events) /\ Silent(AimNews)
<1>1. Current.to \in Units /\ "toughness.before_hit" \in Kinds \ {"unit.defeated"}
  BY DEF Hits, Kinds
<1>2. /\ <<News("toughness.before_hit", Current.to, FALSE)>> \in Seq(Events)
      /\ Silent(<<News("toughness.before_hit", Current.to, FALSE)>>)
  BY <1>1, SilentNews
<1> QED
  BY <1>2, SilentOptional DEF AimNews

(* The events of a packet end with the defeat, if it is fatal, and announce *)
(* nothing before.                                                          *)
Ending(s, u, fatal, window) ==
  \E a \in Seq(Events) :
    /\ Silent(a)
    /\ s = IF fatal THEN a \o <<News("unit.defeated", u, window)>> ELSE a

LEMMA EventsConcat ==
  ASSUME NEW s \in Seq(Events), NEW t \in Seq(Events), NEW v \in Seq(Events)
  PROVE  s \o (t \o v) = (s \o t) \o v
BY ConcatAssociative, SMTT(60)

LEMMA HitNewsEnding ==
  ASSUME NEW u \in Units, NEW route, NEW window \in BOOLEAN
  PROVE  Ending(HitNews(u, route, window), u, Fatal(u, route.rest), window)
<1> DEFINE a == ShieldNews(u, route.left, window)
           b == <<News("damage.hit", u, window)>>
           c == <<News("unit.before_dying", u, window)>>
           d == <<News("unit.defeated", u, window)>>
           e == <<News("unit.before_dying", u, window),
                  News("unit.defeated", u, window)>>
<1>1. a \in Seq(Events) /\ Silent(a)
  BY SilentShieldNews
<1>2. /\ b \in Seq(Events) /\ Silent(b) /\ c \in Seq(Events) /\ Silent(c)
  BY SilentNews DEF Kinds
<1>3. d \in Seq(Events) /\ e = c \o d
  BY NewsTyped DEF Kinds
<1>4. HitNews(u, route, window)
        = (a \o b) \o (IF Fatal(u, route.rest) THEN e ELSE <<>>)
  BY DEF HitNews
<1> HIDE DEF a, b, c, d, e
<1>5. a \o b \in Seq(Events) /\ Silent(a \o b)
  BY <1>1, <1>2, SilentConcat
<1>6. (a \o b) \o c \in Seq(Events) /\ Silent((a \o b) \o c)
  BY <1>2, <1>5, SilentConcat
<1>7. (a \o b) \o (c \o d) = ((a \o b) \o c) \o d
  <2>1. a \o b \in Seq(Events) /\ c \in Seq(Events) /\ d \in Seq(Events)
    BY <1>2, <1>3, <1>5
  <2> QED
    BY <2>1, EventsConcat, Zenon
<1>8. (a \o b) \o <<>> = a \o b
  BY <1>5, ConcatEmptySeq
<1>9. CASE Fatal(u, route.rest)
  <2>1. HitNews(u, route, window) = ((a \o b) \o c) \o d
    BY <1>3, <1>4, <1>7, <1>9
  <2> QED
    BY <2>1, <1>6, <1>9 DEF Ending, d
<1>10. CASE ~ Fatal(u, route.rest)
  <2>1. HitNews(u, route, window) = a \o b
    BY <1>4, <1>8, <1>10
  <2> QED
    BY <2>1, <1>5, <1>10 DEF Ending
<1> QED
  BY <1>9, <1>10

LEMMA ActionNewsEnding ==
  ASSUME NEW u \in Units, NEW route, NEW gains \in BOOLEAN
  PROVE  Ending(ActionNews(u, route, gains), u, Fatal(u, route.rest), TRUE)
<1> DEFINE fatal == Fatal(u, route.rest)
           a == ShieldNews(u, route.left, TRUE)
           h0 == <<News("hp.change", u, TRUE)>>
           h == IF hp[u] > 0 /\ route.rest > 0 THEN h0 ELSE <<>>
           b == <<News("damage.hit", u, TRUE)>>
           d0 == <<News("unit.before_dying", u, TRUE)>>
           d == IF fatal THEN d0 ELSE <<>>
           g0 == <<News("resource.change", u, FALSE)>>
           g == IF fatal /\ gains THEN g0 ELSE <<>>
           f0 == <<News("unit.defeated", u, TRUE)>>
           all == a \o h \o a \o b \o d \o g
<1>1. /\ h0 \in Seq(Events) /\ Silent(h0) /\ b \in Seq(Events) /\ Silent(b)
      /\ d0 \in Seq(Events) /\ Silent(d0) /\ g0 \in Seq(Events) /\ Silent(g0)
  BY SilentNews DEF Kinds
<1>2. a \in Seq(Events) /\ Silent(a)
  BY SilentShieldNews
<1>3. h \in Seq(Events) /\ Silent(h)
  BY <1>1, SilentOptional
<1>4. d \in Seq(Events) /\ Silent(d)
  BY <1>1, SilentOptional
<1>5. g \in Seq(Events) /\ Silent(g)
  BY <1>1, SilentOptional
<1>6. all \in Seq(Events) /\ Silent(all)
  <2> HIDE DEF a, h, b, d, g
  <2>1. a \o h \in Seq(Events) /\ Silent(a \o h)
    BY <1>2, <1>3, SilentConcat
  <2>2. a \o h \o a \in Seq(Events) /\ Silent(a \o h \o a)
    BY <2>1, <1>2, SilentConcat
  <2>3. a \o h \o a \o b \in Seq(Events) /\ Silent(a \o h \o a \o b)
    BY <2>2, <1>1, SilentConcat
  <2>4. a \o h \o a \o b \o d \in Seq(Events) /\ Silent(a \o h \o a \o b \o d)
    BY <2>3, <1>4, SilentConcat
  <2> QED
    BY <2>4, <1>5, SilentConcat
<1>7. ActionNews(u, route, gains) = all \o (IF fatal THEN f0 ELSE <<>>)
  BY DEF ActionNews
<1> HIDE DEF all, fatal, f0
<1>8. all \o <<>> = all
  BY <1>6, ConcatEmptySeq
<1>9. CASE fatal
  BY <1>6, <1>7, <1>9 DEF Ending, f0, fatal
<1>10. CASE ~ fatal
  BY <1>6, <1>7, <1>8, <1>10 DEF Ending, fatal
<1> QED
  BY <1>9, <1>10

(* What such a sequence adds to the announcements of the events behind it. *)
LEMMA EndingThen ==
  ASSUME NEW u \in Units, NEW window \in BOOLEAN, NEW fatal \in BOOLEAN,
         NEW s, Ending(s, u, fatal, window), NEW t \in Seq(Events), NEW v
  PROVE  /\ (fatal /\ v = u) /\ None(t, u) => One(s \o t, u)
         /\ ~ (fatal /\ v = u) =>
              /\ None(t, v) => None(s \o t, v)
              /\ One(t, v) => One(s \o t, v)
<1> DEFINE d == <<News("unit.defeated", u, window)>>
<1>1. PICK a \in Seq(Events) :
        Silent(a) /\ s = IF fatal THEN a \o d ELSE a
  BY DEF Ending
<1>2. d \in Seq(Events)
  BY NewsTyped DEF Kinds
<1>3. /\ None(t, u) => One(d \o t, u)
      /\ v # u /\ None(t, v) => None(d \o t, v)
      /\ v # u /\ One(t, v) => One(d \o t, v)
  BY AfterDefeat
<1> HIDE DEF d
<1>4. d \o t \in Seq(Events)
  BY <1>2, ConcatEvents
<1>5. CASE fatal
  <2>1. s \o t = a \o (d \o t)
    BY <1>1, <1>2, <1>5, EventsConcat
  <2>2. /\ None(d \o t, v) => None(a \o (d \o t), v)
        /\ One(d \o t, v) => One(a \o (d \o t), v)
    BY <1>1, <1>4, AfterSilence
  <2>3. One(d \o t, u) => One(a \o (d \o t), u)
    BY <1>1, <1>4, AfterSilence
  <2> QED
    BY <1>3, <1>5, <2>1, <2>2, <2>3
<1>6. CASE ~ fatal
  BY <1>1, <1>6, AfterSilence
<1> QED
  BY <1>5, <1>6

(* Dispatching the first event. *)
LEMMA TailTold ==
  ASSUME NEW s \in Seq(Events), s # <<>>, NEW u
  PROVE  /\ None(s, u) => None(Tail(s), u)
         /\ Head(s).kind = "unit.defeated" /\ Head(s).of = u
              => ~ None(s, u) /\ (One(s, u) => None(Tail(s), u))
         /\ ~ (Head(s).kind = "unit.defeated" /\ Head(s).of = u)
              => (One(s, u) => One(Tail(s), u))
<1>1. /\ Len(s) \in Nat /\ Len(s) > 0 /\ Len(Tail(s)) = Len(s) - 1
      /\ Head(s) = s[1]
      /\ \A i \in 1..(Len(s) - 1) : Tail(s)[i] = s[i + 1]
  BY HeadTailProperties
<1>2. \A i \in 1..(Len(s) - 1) : i \in Defeats(Tail(s), u) <=> i + 1 \in Defeats(s, u)
  BY <1>1 DEF Defeats
<1>3. 1 \in Defeats(s, u) <=> Head(s).kind = "unit.defeated" /\ Head(s).of = u
  BY <1>1 DEF Defeats
<1>4. Defeats(Tail(s), u) \subseteq 1..(Len(s) - 1)
  BY <1>1 DEF Defeats
<1>5. None(s, u) => None(Tail(s), u)
  BY <1>2, <1>4 DEF None
<1>6. ASSUME 1 \in Defeats(s, u)
      PROVE  ~ None(s, u) /\ (One(s, u) => None(Tail(s), u))
  <2>1. ASSUME NEW i \in 1..Len(s), Defeats(s, u) = {i} PROVE None(Tail(s), u)
    <3>1. i = 1
      BY <1>6, <2>1
    <3>2. \A j \in 1..(Len(s) - 1) : j + 1 # 1
      OBVIOUS
    <3> QED
      BY <1>2, <1>4, <2>1, <3>1, <3>2 DEF None
  <2> QED
    BY <1>6, <2>1 DEF None, One
<1>7. ASSUME 1 \notin Defeats(s, u), NEW i \in 1..Len(s), Defeats(s, u) = {i}
      PROVE  One(Tail(s), u)
  <2>1. i # 1 /\ i - 1 \in 1..(Len(s) - 1) /\ i - 1 \in 1..Len(Tail(s))
    BY <1>1, <1>7
  <2>2. i - 1 \in Defeats(Tail(s), u)
    BY <1>1, <1>2, <1>7, <2>1
  <2>3. ASSUME NEW j \in Defeats(Tail(s), u) PROVE j = i - 1
    BY <1>1, <1>2, <1>4, <1>7, <2>3
  <2>4. Defeats(Tail(s), u) = {i - 1}
    BY <2>2, <2>3
  <2> QED
    BY <2>1, <2>4 DEF One
<1> QED
  BY <1>3, <1>5, <1>6, <1>7 DEF One

----------------------------------------------------------------------------
(* The announcements of defeats. *)
Unannounced(u) == fell[u] \in {"no", "break"}

LEMMA ToldKept ==
  ASSUME DefeatsAreTold, told' = told,
         \A u \in Units : Unannounced(u)' <=> Unannounced(u),
         \A u \in Units : /\ None(due, u) => None(due', u)
                          /\ One(due, u) => One(due', u)
  PROVE  DefeatsAreTold'
BY DEF DefeatsAreTold, NeverTold, ToldOnce, Waiting, None, One, Unannounced

(* A packet with its events, put before those that wait. *)
LEMMA ToldWound ==
  ASSUME IInv, DefeatsAreTold, told' = told,
         NEW u \in Units, NEW route, NEW window \in BOOLEAN,
         NEW by \in {"action", "listener"}, Living(u),
         Wound(u, route, window, by),
         NEW s, Ending(s, u, Fatal(u, route.rest), window),
         NEW t \in Seq(Events), due' = s \o t,
         \A v \in Units : /\ None(due, v) => None(t, v)
                          /\ One(due, v) => One(t, v)
  PROVE  DefeatsAreTold'
<1> DEFINE fatal == Fatal(u, route.rest)
<1>1. fatal \in BOOLEAN
  BY DEF Fatal
<1>2. fell' = IF fatal THEN [fell EXCEPT ![u] = by] ELSE fell
  BY DEF Wound
<1>3. fell[u] = "no"
  BY DEF IInv, Fallen
<1> HIDE DEF fatal
<1>4. ASSUME NEW v \in Units
      PROVE  /\ (fatal /\ v = u) /\ None(t, u) => One(due', u)
             /\ ~ (fatal /\ v = u) => /\ None(t, v) => None(due', v)
                                      /\ One(t, v) => One(due', v)
  BY <1>1, EndingThen DEF fatal
<1>5. CASE ~ fatal
  BY <1>2, <1>4, <1>5, ToldKept DEF Unannounced
<1>6. CASE fatal
  <2> SUFFICES ASSUME NEW v \in Units
               PROVE  IF fell'[v] \in {"no", "break"}
                      THEN told[v] = 0 /\ None(due', v)
                      ELSE \/ told[v] = 1 /\ None(due', v)
                           \/ told[v] = 0 /\ One(due', v)
    BY DEF DefeatsAreTold, NeverTold, ToldOnce, Waiting, None, One
  <2>1. IF fell[v] \in {"no", "break"}
        THEN told[v] = 0 /\ None(due, v)
        ELSE \/ told[v] = 1 /\ None(due, v)
             \/ told[v] = 0 /\ One(due, v)
    BY DEF DefeatsAreTold, NeverTold, ToldOnce, Waiting, None, One
  <2>2. CASE v = u
    <3>1. fell'[v] = by
      BY <1>2, <1>6, <2>2 DEF IInv, Shape
    <3> QED
      BY <1>3, <1>4, <1>6, <2>1, <2>2, <3>1
  <2>3. CASE v # u
    <3>1. fell'[v] = fell[v]
      BY <1>2, <1>6, <2>3 DEF IInv, Shape
    <3> QED
      BY <1>4, <2>1, <2>3, <3>1
  <2> QED
    BY <2>2, <2>3
<1> QED
  BY <1>5, <1>6

(* Steps that neither announce a defeat nor cause one. *)
LEMMA ToldQuiet ==
  ASSUME DefeatsAreTold, UNCHANGED <<told, fell>>, due \in Seq(Events),
         NEW s \in Seq(Events), Silent(s), due' = s \o due
  PROVE  DefeatsAreTold'
<1>1. \A u \in Units : /\ None(due, u) => None(due', u)
                       /\ One(due, u) => One(due', u)
  BY AfterSilence
<1> QED
  BY <1>1, ToldKept DEF Unannounced

LEMMA EmptyTold ==
  ASSUME due = <<>>, NEW s, Silent(s), NEW u
  PROVE  None(due, u) /\ ~ One(due, u) /\ None(s, u)
<1>1. None(due, u) /\ ~ One(due, u)
  BY DEF None, One, Defeats
<1> QED
  BY <1>1, SilentNone

(* The same when nothing waits. *)
LEMMA ToldFirst ==
  ASSUME DefeatsAreTold, told' = told, due = <<>>, Silent(due'),
         \A u \in Units : Unannounced(u)' <=> Unannounced(u)
  PROVE  DefeatsAreTold'
<1>1. \A u \in Units : None(due, u) /\ ~ One(due, u) /\ None(due', u)
  BY EmptyTold
<1> QED
  BY <1>1, ToldKept

LEMMA ToldSettle == ASSUME IInv, DefeatsAreTold, Settle PROVE DefeatsAreTold'
<1>1. due = <<>> /\ at <= Len(plan) /\ told' = told
  BY DEF Settle, BeforeHit, Hit, HitTheDead, Aim, EnterBreak, Rupture, Settling
<1>2. Current \in Hits /\ Current.to \in Units
  BY <1>1, CurrentTyped DEF IInv, Hits
<1>3. AimNews \in Seq(Events) /\ Silent(AimNews)
  BY <1>2, SilentAimNews
<1>4. <<>> \in Seq(Events) /\ Silent(<<>>)
  BY DEF Silent
<1>5. ASSUME NEW kind \in Kinds \ {"unit.defeated"}, NEW window \in BOOLEAN
      PROVE  /\ <<News(kind, Current.to, window)>> \in Seq(Events)
             /\ Silent(<<News(kind, Current.to, window)>>)
  BY <1>2, <1>5, SilentNews
<1>6. CASE BeforeHit
  <2>1. Silent(due')
    BY <1>3, <1>5, <1>6 DEF BeforeHit, Kinds
  <2>2. fell' = fell
    BY <1>6 DEF BeforeHit, bodies
  <2> QED
    BY <1>1, <2>1, <2>2, ToldFirst DEF Unannounced
<1>7. CASE Hit
  <2>1. PICK amount \in Amounts, gains \in BOOLEAN :
          /\ Wound(Current.to, Route(Current.to, "direct", amount), TRUE, "action")
          /\ due' = ActionNews(Current.to, Route(Current.to, "direct", amount), gains)
                      \o AimNews
    BY <1>7 DEF Hit
  <2>2. Ending(ActionNews(Current.to, Route(Current.to, "direct", amount), gains),
               Current.to, Fatal(Current.to, Route(Current.to, "direct", amount).rest),
               TRUE)
    BY <1>2, ActionNewsEnding
  <2>3. Living(Current.to)
    BY <1>7 DEF Hit
  <2>4. \A v \in Units : None(due, v) /\ ~ One(due, v) /\ None(AimNews, v)
    BY <1>1, <1>3, EmptyTold
  <2> QED
    BY <1>1, <1>2, <1>3, <2>1, <2>2, <2>3, <2>4, ToldWound
<1>8. CASE HitTheDead
  <2>1. /\ <<News("damage.hit", Current.to, TRUE)>> \in Seq(Events)
        /\ Silent(<<News("damage.hit", Current.to, TRUE)>>)
    BY <1>5 DEF Kinds
  <2>2. /\ (IF Continues(Current.to)
            THEN <<News("damage.hit", Current.to, TRUE)>> ELSE <<>>) \in Seq(Events)
        /\ Silent(IF Continues(Current.to)
                  THEN <<News("damage.hit", Current.to, TRUE)>> ELSE <<>>)
    BY <2>1, SilentOptional
  <2>3. Silent(due')
    BY <1>3, <1>8, <2>2, SilentConcat DEF HitTheDead
  <2>4. fell' = fell
    BY <1>8 DEF HitTheDead, bodies
  <2> QED
    BY <1>1, <2>3, <2>4, ToldFirst DEF Unannounced
<1>9. CASE Aim
  <2>1. Silent(<<News("toughness.hit", Current.to, FALSE)>>)
    BY <1>5 DEF Kinds
  <2>2. Silent(due') /\ fell' = fell
    BY <1>1, <1>4, <1>9, <2>1 DEF Aim
  <2> QED
    BY <1>1, <2>2, ToldFirst DEF Unannounced
<1>10. CASE EnterBreak
  <2>1. Silent(<<News("status.callback.OnStack", Current.to, FALSE)>>)
    BY <1>5 DEF Kinds
  <2>2. Silent(due') /\ fell' = fell
    BY <1>1, <1>4, <1>10, <2>1 DEF EnterBreak
  <2> QED
    BY <1>1, <2>2, ToldFirst DEF Unannounced
<1>11. CASE Rupture
  <2>1. Silent(due')
    BY <1>5, <1>11 DEF Rupture, Kinds
  <2>2. \A u \in Units : Unannounced(u)' <=> Unannounced(u)
    <3>1. PICK amount \in BreakAmounts :
            IF Living(Current.to) /\ amount > 0
            THEN Wound(Current.to, Route(Current.to, "break", amount),
                       FALSE, "break")
            ELSE UNCHANGED bodies
      BY <1>11 DEF Rupture
    <3>2. CASE Living(Current.to) /\ amount > 0
      <4>1. fell' = fell \/ fell' = [fell EXCEPT ![Current.to] = "break"]
        BY <3>1, <3>2 DEF Wound
      <4>2. fell[Current.to] = "no"
        BY <1>2, <3>2 DEF IInv, Fallen
      <4> QED
        BY <1>2, <4>1, <4>2 DEF Unannounced, IInv, Shape
    <3>3. CASE ~ (Living(Current.to) /\ amount > 0)
      BY <3>1, <3>3 DEF bodies, Unannounced
    <3> QED
      BY <3>2, <3>3
  <2> QED
    BY <1>1, <2>1, <2>2, ToldFirst
<1> QED
  BY <1>6, <1>7, <1>8, <1>9, <1>10, <1>11 DEF Settle

LEMMA ToldTell == ASSUME IInv, DefeatsAreTold, Tell PROVE DefeatsAreTold'
<1>1. /\ due # <<>> /\ due' = Tail(due) /\ fell' = fell
      /\ told' = IF Head(due).kind = "unit.defeated"
                 THEN [told EXCEPT ![Head(due).of] = told[Head(due).of] + 1]
                 ELSE told
  BY DEF Tell, bodies
<1>2. due \in Seq(Events) /\ told \in [Units -> Nat]
  BY DEF IInv, Shape
<1> SUFFICES ASSUME NEW u \in Units
             PROVE  IF fell[u] \in {"no", "break"}
                    THEN told'[u] = 0 /\ None(due', u)
                    ELSE \/ told'[u] = 1 /\ None(due', u)
                         \/ told'[u] = 0 /\ One(due', u)
  BY <1>1 DEF DefeatsAreTold, NeverTold, ToldOnce, Waiting, None, One
<1>3. IF fell[u] \in {"no", "break"}
      THEN told[u] = 0 /\ None(due, u)
      ELSE \/ told[u] = 1 /\ None(due, u)
           \/ told[u] = 0 /\ One(due, u)
  BY DEF DefeatsAreTold, NeverTold, ToldOnce, Waiting, None, One
<1>4. CASE Head(due).kind = "unit.defeated" /\ Head(due).of = u
  <2>1. ~ None(due, u) /\ (One(due, u) => None(due', u))
    BY <1>1, <1>2, <1>4, TailTold
  <2>2. told'[u] = told[u] + 1
    BY <1>1, <1>2, <1>4
  <2> QED
    BY <1>3, <2>1, <2>2
<1>5. CASE ~ (Head(due).kind = "unit.defeated" /\ Head(due).of = u)
  <2>1. /\ None(due, u) => None(due', u)
        /\ One(due, u) => One(due', u)
    BY <1>1, <1>2, <1>5, TailTold
  <2>2. told'[u] = told[u]
    BY <1>1, <1>2, <1>5
  <2> QED
    BY <1>3, <2>1, <2>2
<1> QED
  BY <1>4, <1>5

LEMMA ToldListen == ASSUME IInv, DefeatsAreTold, Listen PROVE DefeatsAreTold'
<1>1. due # <<>> /\ due \in Seq(Events) /\ told' = told
  BY DEF Listen, Hurt, Heal, Shield, Unshield, Answering, IInv, Shape
<1>2. Head(due).window \in BOOLEAN
  BY <1>1, HeadTyped DEF IInv
<1>3. CASE Hurt
  <2>1. PICK u \in Units, family \in ListenerFamilies, amount \in Amounts :
          /\ Living(u)
          /\ Wound(u, Route(u, family, amount), Head(due).window, "listener")
          /\ due' = HitNews(u, Route(u, family, amount), Head(due).window) \o due
    BY <1>3 DEF Hurt
  <2>2. Ending(HitNews(u, Route(u, family, amount), Head(due).window), u,
               Fatal(u, Route(u, family, amount).rest), Head(due).window)
    BY <1>2, HitNewsEnding
  <2> QED
    BY <1>1, <1>2, <2>1, <2>2, ToldWound
<1>4. CASE Heal
  <2>1. PICK u \in Units :
          due' = <<News("heal.after", u, Head(due).window)>> \o due
    BY <1>4 DEF Heal
  <2>2. /\ <<News("heal.after", u, Head(due).window)>> \in Seq(Events)
        /\ Silent(<<News("heal.after", u, Head(due).window)>>)
    BY <1>2, SilentNews DEF Kinds
  <2>3. fell' = fell
    BY <1>4 DEF Heal
  <2> QED
    BY <1>1, <2>1, <2>2, <2>3, ToldQuiet
<1>5. CASE Shield \/ Unshield
  <2>1. PICK u \in Units :
          due' = <<News("shield.change", u, Head(due).window)>> \o due
    BY <1>5 DEF Shield, Unshield
  <2>2. /\ <<News("shield.change", u, Head(due).window)>> \in Seq(Events)
        /\ Silent(<<News("shield.change", u, Head(due).window)>>)
    BY <1>2, SilentNews DEF Kinds
  <2>3. fell' = fell
    BY <1>5 DEF Shield, Unshield
  <2> QED
    BY <1>1, <2>1, <2>2, <2>3, ToldQuiet
<1> QED
  BY <1>3, <1>4, <1>5 DEF Listen

LEMMA ToldStep ==
  ASSUME IInv, DefeatsAreTold, [Next]_vars PROVE DefeatsAreTold'
<1>1. CASE UNCHANGED vars
  <2>1. UNCHANGED <<told, due, fell>>
    BY <1>1 DEF vars
  <2> QED
    BY <2>1, ToldKept DEF Unannounced
<1>2. CASE BeginAction
  <2>1. /\ UNCHANGED <<told, due>>
        /\ fell' = [u \in Units |->
                     IF fell[u] = "action" THEN "earlier" ELSE fell[u]]
    BY <1>2 DEF BeginAction
  <2> QED
    BY <2>1, ToldKept DEF Unannounced
<1> QED
  BY <1>1, <1>2, ToldSettle, ToldTell, ToldListen DEF Next

(* The defeat of a unit by a hit or by a listener's damage is dispatched    *)
(* exactly once, and a defeat by break damage never, however the windows    *)
(* nest and whatever the listeners do.                                      *)
THEOREM DefeatsAreToldOnce == Spec => []DefeatsAreTold
<1>1. ASSUME Init PROVE DefeatsAreTold
  <2>1. due = <<>> /\ told = [u \in Units |-> 0] /\ fell = [u \in Units |-> "no"]
    BY <1>1 DEF Init
  <2>2. \A u \in Units : Waiting(u) = {}
    BY <2>1 DEF Waiting, Defeats
  <2> QED
    BY <2>1, <2>2 DEF DefeatsAreTold, NeverTold
<1>2. ASSUME IInv, DefeatsAreTold, [Next]_vars PROVE DefeatsAreTold'
  BY <1>2, ToldStep
<1> QED
  BY <1>1, <1>2, InvariantHolds, PTL DEF Spec

----------------------------------------------------------------------------
(* The defeated. *)
OnUnits(f) == f = [u \in Units |-> f[u]]
Frames == OnUnits(hp) /\ OnUnits(shields)

LEMMA OneChanged ==
  ASSUME NEW f, OnUnits(f), NEW u, NEW x, NEW g, g = [f EXCEPT ![u] = x]
  PROVE  OnUnits(g) /\ \A v \in Units : v # u => g[v] = f[v]
BY DEF OnUnits

LEMMA WoundFrames ==
  ASSUME Frames, NEW u, NEW route, NEW window, NEW by,
         Wound(u, route, window, by)
  PROVE  /\ Frames'
         /\ \A v \in Units : v # u => hp'[v] = hp[v] /\ shields'[v] = shields[v]
<1>1. /\ hp' = [hp EXCEPT ![u] = IF hp[u] > route.rest
                                 THEN hp[u] - route.rest ELSE 0]
      /\ shields' = [shields EXCEPT ![u] = route.left]
  BY DEF Wound
<1>2. OnUnits(hp') /\ \A v \in Units : v # u => hp'[v] = hp[v]
  <2>1. PICK x : hp' = [hp EXCEPT ![u] = x]
    BY <1>1
  <2> QED
    BY <2>1 DEF Frames, OnUnits
<1>3. OnUnits(shields') /\ \A v \in Units : v # u => shields'[v] = shields[v]
  <2>1. PICK x : shields' = [shields EXCEPT ![u] = x]
    BY <1>1
  <2> QED
    BY <2>1 DEF Frames, OnUnits
<1> QED
  BY <1>2, <1>3 DEF Frames, OnUnits

(* What the three steps that deal damage have in common. *)
LEMMA Damage ==
  ASSUME IInv, Hit \/ Rupture \/ Hurt
  PROVE  \/ UNCHANGED <<hp, shields, life, fell>>
         \/ \E u \in Units : \E route, window, by :
              Living(u) /\ Wound(u, route, window, by)
<1>1. CASE Hit
  <2>1. Current.to \in Units
    BY <1>1, CurrentTyped DEF IInv, Hits, Hit, Settling
  <2> QED
    BY <1>1, <2>1 DEF Hit
<1>2. CASE Rupture
  <2>1. Current.to \in Units
    BY <1>2, CurrentTyped DEF IInv, Hits, Rupture, Settling
  <2> QED
    BY <1>2, <2>1 DEF Rupture, bodies
<1>3. CASE Hurt
  BY <1>3 DEF Hurt
<1> QED
  BY <1>1, <1>2, <1>3

(* Every other step but those on hit points and shields leaves bodies be. *)
LEMMA NoDamage ==
  ASSUME [Next]_vars, ~ (Hit \/ Rupture \/ Hurt), ~ (Heal \/ Shield \/ Unshield)
  PROVE  /\ UNCHANGED <<hp, shields, life>>
         /\ fell' = fell \/ fell' = [u \in Units |->
              IF fell[u] = "action" THEN "earlier" ELSE fell[u]]
BY DEF Next, Settle, Listen, BeginAction, BeforeHit, HitTheDead, Aim,
       EnterBreak, Tell, bodies, vars

LEMMA FramesKept == ASSUME IInv, Frames, [Next]_vars PROVE Frames'
<1>1. CASE Hit \/ Rupture \/ Hurt
  <2>1. CASE UNCHANGED <<hp, shields, life, fell>>
    BY <2>1 DEF Frames, OnUnits
  <2>2. ASSUME NEW u \in Units, NEW route, NEW window, NEW by,
               Wound(u, route, window, by)
        PROVE  Frames'
    BY <2>2, WoundFrames
  <2> QED
    BY <1>1, <2>1, <2>2, Damage
<1>2. CASE Heal
  <2>1. PICK u \in Units, amount \in Amounts :
          hp' = [hp EXCEPT ![u] = Least(MaxHp, hp[u] + amount)]
    BY <1>2 DEF Heal
  <2>2. shields' = shields
    BY <1>2 DEF Heal
  <2> QED
    BY <2>1, <2>2, OneChanged DEF Frames, OnUnits
<1>3. CASE Shield
  <2>1. /\ hp' = hp
        /\ \E u \in Units : \E x : shields' = [shields EXCEPT ![u] = x]
    BY <1>3 DEF Shield
  <2> QED
    BY <2>1, OneChanged DEF Frames, OnUnits
<1>4. CASE Unshield
  <2>1. /\ hp' = hp
        /\ \E u \in Units : \E x : shields' = [shields EXCEPT ![u] = x]
    BY <1>4 DEF Unshield
  <2> QED
    BY <2>1, OneChanged DEF Frames, OnUnits
<1>5. CASE ~ (Hit \/ Rupture \/ Hurt) /\ ~ (Heal \/ Shield \/ Unshield)
  <2>1. UNCHANGED <<hp, shields>>
    BY <1>5, NoDamage
  <2> QED
    BY <2>1 DEF Frames, OnUnits
<1> QED
  BY <1>1, <1>2, <1>3, <1>4, <1>5

(* DeadAreSpared for one unit and one step. *)
Spared(u) ==
  ~ Living(u) =>
    /\ life'[u] = life[u] /\ fell'[u] \in {fell[u], "earlier"}
    /\ hp'[u] # hp[u] => Heal
    /\ shields'[u] # shields[u] => Shield \/ Unshield

LEMMA StepSpares ==
  ASSUME IInv, Frames, [Next]_vars, NEW u \in Units, ~ Living(u)
  PROVE  Spared(u)
<1>1. CASE Hit \/ Rupture \/ Hurt
  <2>1. CASE UNCHANGED <<hp, shields, life, fell>>
    BY <2>1 DEF Spared
  <2>2. ASSUME NEW w \in Units, NEW route, NEW window, NEW by,
               Living(w), Wound(w, route, window, by)
        PROVE  Spared(u)
    <3>1. u # w
      BY <2>2
    <3>2. hp'[u] = hp[u] /\ shields'[u] = shields[u]
      BY <2>2, <3>1, WoundFrames
    <3>3. /\ life' = life \/ life' = [life EXCEPT ![w] = "defeated"]
          /\ fell' = fell \/ fell' = [fell EXCEPT ![w] = by]
      BY <2>2 DEF Wound
    <3>4. life'[u] = life[u] /\ fell'[u] = fell[u]
      BY <3>1, <3>3 DEF IInv, Shape
    <3> QED
      BY <3>2, <3>4 DEF Spared
  <2> QED
    BY <1>1, <2>1, <2>2, Damage
<1>2. CASE Heal
  <2>1. UNCHANGED <<life, shields, fell>>
    BY <1>2 DEF Heal
  <2> QED
    BY <1>2, <2>1 DEF Spared
<1>3. CASE Shield \/ Unshield
  <2>1. UNCHANGED <<life, hp, fell>>
    BY <1>3 DEF Shield, Unshield
  <2> QED
    BY <1>3, <2>1 DEF Spared
<1>4. CASE ~ (Hit \/ Rupture \/ Hurt) /\ ~ (Heal \/ Shield \/ Unshield)
  <2>1. /\ UNCHANGED <<hp, shields, life>>
        /\ fell' = fell \/ fell' = [v \in Units |->
             IF fell[v] = "action" THEN "earlier" ELSE fell[v]]
    BY <1>4, NoDamage
  <2> QED
    BY <2>1 DEF Spared
<1> QED
  BY <1>1, <1>2, <1>3, <1>4

(* No hit, listener's damage or break ever takes from a defeated unit or    *)
(* brings it back.                                                          *)
THEOREM TheDeadAreSpared == Spec => DeadAreSpared
<1>1. ASSUME Init PROVE Frames
  BY <1>1 DEF Init, Frames, OnUnits
<1>2. ASSUME IInv, Frames, [Next]_vars PROVE Frames'
  BY <1>2, FramesKept
<1>3. ASSUME IInv, Frames, [Next]_vars
      PROVE  [\A u \in Units : ~ Living(u) =>
                /\ life'[u] = life[u] /\ fell'[u] \in {fell[u], "earlier"}
                /\ hp'[u] # hp[u] => Heal
                /\ shields'[u] # shields[u] => Shield \/ Unshield]_vars
  BY <1>3, StepSpares DEF Spared
<1> QED
  BY <1>1, <1>2, <1>3, InvariantHolds, PTL DEF Spec, DeadAreSpared
----------------------------------------------------------------------------
(* The arithmetic of the shields: first the order they absorb in, then the  *)
(* loop of Route over it.                                                   *)

(* A set of naturals with 0 and every successor is the set of naturals.     *)
LEMMA NatSetInduction ==
  ASSUME NEW T \in SUBSET Nat, 0 \in T, \A n \in T : n + 1 \in T
  PROVE  T = Nat
<1> SUFFICES ASSUME NEW m \in Nat, m \notin T
             PROVE  FALSE
  OBVIOUS
<1> DEFINE below == {n \in T : n <= m}
           next == [n \in below |-> n + 1]
<1>1. IsFiniteSet(below) /\ Cardinality(below) \in Nat
  BY FS_BoundedSetOfNaturals, FS_CardinalityType
<1>2. IsFiniteSet(below \ {0}) /\ Cardinality(below \ {0}) = Cardinality(below) - 1
  <2>1. 0 \in below
    OBVIOUS
  <2> HIDE DEF below
  <2> QED BY <1>1, <2>1, FS_RemoveElement
<1>3. next \in [below -> below \ {0}]
  <2>1. ASSUME NEW n \in below PROVE n + 1 \in below \ {0}
    <3>1. n \in Nat /\ n + 1 \in T /\ n <= m /\ n # m
      OBVIOUS
    <3> QED BY <3>1
  <2> HIDE DEF below
  <2> QED BY <2>1
<1> HIDE DEF below, next
<1>4. PICK x \in below, y \in below : x # y /\ next[x] = next[y]
  BY <1>1, <1>2, <1>3, FS_PigeonHole
<1> QED BY <1>4 DEF below, next

LEMMA PrecedesOrders ==
  ASSUME HitAssumption, NEW u, NEW j \in Sources, NEW k \in Sources
  PROVE  /\ j # k => Precedes(u, j, k) \/ Precedes(u, k, j)
         /\ ~(Precedes(u, j, k) /\ Precedes(u, k, j))
         /\ \A l \in Sources : Precedes(u, j, k) /\ Precedes(u, k, l) => Precedes(u, j, l)
<1>1. \A l \in Sources : l \in Nat /\ Priority[l] \in Int
  BY DEF HitAssumption
<1> QED BY <1>1 DEF Precedes

(* Of some shields, one absorbs last. *)
LEMMA LastExists ==
  ASSUME HitAssumption, NEW u, NEW S \in SUBSET Sources, S # {}
  PROVE  \E m \in S : \A k \in S \ {m} : Precedes(u, k, m)
<1> DEFINE HasLast(X) == \E m \in X : \A k \in X \ {m} : Precedes(u, k, m)
           T == {n \in Nat : \A X \in SUBSET Sources :
                              Cardinality(X) = n /\ X # {} => HasLast(X)}
<1>1. \A X \in SUBSET Sources : IsFiniteSet(X) /\ Cardinality(X) \in Nat
  BY FS_Subset, FS_CardinalityType DEF HitAssumption
<1>2. 0 \in T
  BY <1>1, FS_EmptySet
<1>3. ASSUME NEW n \in T PROVE n + 1 \in T
  <2> SUFFICES ASSUME NEW X \in SUBSET Sources, Cardinality(X) = n + 1, X # {}
               PROVE  HasLast(X)
    OBVIOUS
  <2>1. PICK x \in X : TRUE
    OBVIOUS
  <2> DEFINE Y == X \ {x}
  <2>2. Y \in SUBSET Sources /\ Cardinality(Y) = n
    <3>1. n \in Nat /\ Cardinality(Y) = Cardinality(X) - 1
      BY <1>1, FS_RemoveElement
    <3> QED BY <3>1
  <2>3. CASE Y = {}
    BY <2>1, <2>3
  <2>4. CASE Y # {}
    <3>1. PICK m \in Y : \A k \in Y \ {m} : Precedes(u, k, m)
      BY <2>2, <2>4
    <3>2. CASE Precedes(u, x, m)
      BY <3>1, <3>2
    <3>3. CASE ~Precedes(u, x, m)
      <4>1. Precedes(u, m, x)
        BY <3>1, <3>3, PrecedesOrders
      <4>2. \A k \in X \ {x} : Precedes(u, k, x)
        BY <3>1, <4>1, PrecedesOrders
      <4> QED BY <4>2
    <3> QED BY <3>2, <3>3
  <2> QED BY <2>3, <2>4
<1>4. T = Nat
  <2>1. T \in SUBSET Nat
    OBVIOUS
  <2> HIDE DEF T
  <2> QED BY <1>2, <1>3, <2>1, NatSetInduction
<1> QED BY <1>1, <1>4

Ranked(u, s, n) == \A i, j \in 1..n : i < j => Precedes(u, s[i], s[j])

(* Shields can be lined up in the order they absorb in. *)
LEMMA RankedExists ==
  ASSUME HitAssumption, NEW u, NEW S \in SUBSET Sources
  PROVE  \E s \in [1..Cardinality(S) -> S] : Ranked(u, s, Cardinality(S))
<1> DEFINE T == {n \in Nat : \A X \in SUBSET Sources :
                   Cardinality(X) = n => \E s \in [1..n -> X] : Ranked(u, s, n)}
<1>1. \A X \in SUBSET Sources : IsFiniteSet(X) /\ Cardinality(X) \in Nat
  BY FS_Subset, FS_CardinalityType DEF HitAssumption
<1>2. 0 \in T
  <2> SUFFICES ASSUME NEW X PROVE \E s \in [1..0 -> X] : Ranked(u, s, 0)
    OBVIOUS
  <2>1. [i \in 1..0 |-> i] \in [1..0 -> X] /\ Ranked(u, [i \in 1..0 |-> i], 0)
    BY DEF Ranked
  <2> QED BY <2>1
<1>3. ASSUME NEW n \in T PROVE n + 1 \in T
  <2> SUFFICES ASSUME NEW X \in SUBSET Sources, Cardinality(X) = n + 1
               PROVE  \E s \in [1..(n + 1) -> X] : Ranked(u, s, n + 1)
    OBVIOUS
  <2>1. n \in Nat /\ X # {}
    <3>1. n \in Nat
      OBVIOUS
    <3>2. Cardinality(X) # 0
      BY <3>1
    <3> QED BY <3>1, <3>2, FS_EmptySet
  <2>2. PICK m \in X : \A k \in X \ {m} : Precedes(u, k, m)
    BY <2>1, LastExists
  <2>3. Cardinality(X \ {m}) = n
    <3>1. Cardinality(X \ {m}) = Cardinality(X) - 1
      BY <1>1, FS_RemoveElement
    <3> QED BY <2>1, <3>1
  <2>4. PICK s \in [1..n -> X \ {m}] : Ranked(u, s, n)
    BY <2>3
  <2> DEFINE t == [i \in 1..(n + 1) |-> IF i <= n THEN s[i] ELSE m]
  <2>5. t \in [1..(n + 1) -> X]
    <3>1. ASSUME NEW i \in 1..(n + 1) PROVE (IF i <= n THEN s[i] ELSE m) \in X
      <4>1. i <= n => i \in 1..n
        BY <2>1
      <4> QED BY <2>4, <4>1
    <3> QED BY <3>1
  <2>6. ASSUME NEW i \in 1..(n + 1), NEW j \in 1..(n + 1), i < j
        PROVE  Precedes(u, t[i], t[j])
    <3>1. i \in 1..n /\ t[i] = s[i]
      BY <2>1, <2>6
    <3>2. CASE j <= n
      BY <2>1, <2>4, <2>6, <3>1, <3>2 DEF Ranked
    <3>3. CASE ~(j <= n)
      BY <2>2, <2>4, <3>1, <3>3
    <3> QED BY <3>2, <3>3
  <2>7. Ranked(u, t, n + 1)
    <3> HIDE DEF t
    <3> QED BY <2>6 DEF Ranked
  <2> HIDE DEF t
  <2> QED BY <2>5, <2>7
<1>4. T = Nat
  <2>1. T \in SUBSET Nat
    OBVIOUS
  <2> HIDE DEF T
  <2> QED BY <1>2, <1>3, <2>1, NatSetInduction
<1> QED BY <1>1, <1>4

(* The order holds every shield that is up, each of them once. *)
LEMMA OrderedFacts ==
  ASSUME HitAssumption, NEW u, shields[u] \in [Sources -> Nat]
  PROVE  /\ Ordered(u) \in Seq(Sources)
         /\ Ranked(u, Ordered(u), Len(Ordered(u)))
         /\ \A k \in Sources : shields[u][k] > 0 => \E i \in 1..Len(Ordered(u)) : Ordered(u)[i] = k
<1> DEFINE up == {k \in Sources : shields[u][k] > 0}
           n == Cardinality(up)
           s == Ordered(u)
<1>1. IsFiniteSet(up) /\ n \in Nat
  BY FS_Subset, FS_CardinalityType DEF HitAssumption
<1>2. s \in [1..n -> up] /\ Ranked(u, s, n)
  <2>1. \E o \in [1..n -> up] : Ranked(u, o, n)
    <3>1. up \in SUBSET Sources
      OBVIOUS
    <3> HIDE DEF up
    <3> QED BY <3>1, RankedExists
  <2>2. s = CHOOSE o \in [1..n -> up] : Ranked(u, o, n)
    BY DEF Ordered, Ranked
  <2> HIDE DEF s, up, n
  <2> QED BY <2>1, <2>2
<1>3. s \in Seq(Sources) /\ Len(s) = n
  <2>1. s \in Seq(up) /\ Len(s) = n
    <3> HIDE DEF s, up, n
    <3> QED BY <1>1, <1>2
  <2>2. s \in [1..n -> Sources]
    <3>1. up \subseteq Sources
      OBVIOUS
    <3> HIDE DEF s, up, n
    <3> QED BY <1>2, <3>1
  <2> HIDE DEF s, up, n
  <2> QED BY <1>1, <2>1, <2>2
<1>4. ASSUME NEW k \in up, \A i \in 1..n : s[i] # k PROVE FALSE
  <2>1. IsFiniteSet(up \ {k}) /\ Cardinality(up \ {k}) = n - 1
    <3> HIDE DEF up
    <3> QED BY <1>1, FS_RemoveElement
  <2>2. s \in [1..n -> up \ {k}]
    <3> HIDE DEF s, up, n
    <3> QED BY <1>2, <1>4
  <2>3. IsFiniteSet(1..n) /\ Cardinality(1..n) = n
    <3>1. n \in Int /\ 1 \in Int
      BY <1>1
    <3> HIDE DEF n
    <3>2. IsFiniteSet(1..n) /\ Cardinality(1..n) = IF 1 > n THEN 0 ELSE n - 1 + 1
      BY <3>1, FS_Interval
    <3> QED BY <1>1, <3>2
  <2>4. PICK i \in 1..n, j \in 1..n : i # j /\ s[i] = s[j]
    <3>1. n - 1 < n
      BY <1>1
    <3> HIDE DEF s, up, n
    <3>2. Cardinality(up \ {k}) < Cardinality(1..n)
      BY <2>1, <2>3, <3>1
    <3> HIDE DEF HitAssumption
    <3> QED BY <2>1, <2>2, <2>3, <3>2, FS_PigeonHole
  <2>5. PICK a \in 1..n, b \in 1..n : a < b /\ s[a] = s[b]
    <3>1. i \in Int /\ j \in Int /\ (i < j \/ j < i)
      <4> HIDE DEF s, up, n
      <4> QED BY <1>1, <2>4
    <3> HIDE DEF s, up, n
    <3> QED BY <2>4, <3>1
  <2>6. Precedes(u, s[a], s[a]) /\ s[a] \in Sources
    <3>1. up \subseteq Sources
      OBVIOUS
    <3> HIDE DEF s, up, n
    <3> QED BY <1>2, <2>5, <3>1 DEF Ranked
  <2> HIDE DEF s, up, n
  <2> QED BY <2>6, PrecedesOrders
<1>5. \A k \in Sources : shields[u][k] > 0 => \E i \in 1..n : s[i] = k
  BY <1>4
<1> HIDE DEF s, n
<1> QED BY <1>2, <1>3, <1>5 DEF s
(* The loop of Route over the shields, and what it hands from one to the    *)
(* next.                                                                    *)
Routes == [rest : Nat, left : [Sources -> Nat]]

Runs(h, family, order, start) ==
  h = [n \in 0..Len(order) |->
         IF n = 0 THEN start ELSE Absorbed(h[n - 1], family, order[n])]

LEMMA RunExists ==
  ASSUME NEW family, NEW start, NEW order, Len(order) \in Nat
  PROVE  \E h : Runs(h, family, order, start)
<1> DEFINE Partly(h, k) ==
             h[0] = start /\ \A n \in 1..k : h[n] = Absorbed(h[n - 1], family, order[n])
           T == {k \in Nat : \E h : Partly(h, k)}
<1>1. 0 \in T
  <2>1. Partly([n \in 0..0 |-> start], 0)
    OBVIOUS
  <2>2. \E h : Partly(h, 0)
    <3> HIDE DEF Partly
    <3> QED BY <2>1
  <2> QED BY <2>2
<1>2. ASSUME NEW k \in T PROVE k + 1 \in T
  <2>1. PICK h : Partly(h, k)
    BY <1>2
  <2> DEFINE g == [n \in 0..(k + 1) |->
                     IF n <= k THEN h[n] ELSE Absorbed(h[k], family, order[k + 1])]
  <2>2. g[0] = start
    BY <2>1
  <2>3. \A n \in 1..(k + 1) : g[n] = Absorbed(g[n - 1], family, order[n])
    <3>1. ASSUME NEW n \in 1..(k + 1), n <= k
          PROVE  g[n] = Absorbed(g[n - 1], family, order[n])
      <4>1. n \in 0..k /\ n # 0 /\ n - 1 \in 0..(k + 1) /\ n - 1 <= k
        BY <3>1
      <4>2. h[n] = Absorbed(h[n - 1], family, order[n])
        BY <2>1, <4>1
      <4>3. g[n] = h[n] /\ g[n - 1] = h[n - 1]
        BY <3>1, <4>1
      <4> QED BY <4>2, <4>3
    <3>2. g[k + 1] = Absorbed(g[(k + 1) - 1], family, order[k + 1])
      <4>1. g[k + 1] = Absorbed(h[k], family, order[k + 1]) /\ (k + 1) - 1 = k
        OBVIOUS
      <4>2. g[k] = h[k]
        OBVIOUS
      <4> QED BY <4>1, <4>2
    <3>3. \A n \in 1..(k + 1) : n <= k \/ n = k + 1
      OBVIOUS
    <3> HIDE DEF g
    <3> QED BY <3>1, <3>2, <3>3
  <2>4. Partly(g, k + 1)
    BY <2>2, <2>3
  <2>5. \E f : Partly(f, k + 1)
    <3> HIDE DEF Partly
    <3> QED BY <2>4
  <2>6. k + 1 \in Nat
    BY <1>2
  <2> HIDE DEF Partly
  <2> QED BY <2>5, <2>6
<1>3. T = Nat
  <2>1. T \in SUBSET Nat
    OBVIOUS
  <2> HIDE DEF T
  <2> QED BY <1>1, <1>2, <2>1, NatSetInduction
<1> DEFINE l == Len(order)
<1>4. PICK h : Partly(h, l)
  BY <1>3
<1> DEFINE g == [n \in 0..l |-> h[n]]
<1>5. ASSUME NEW n \in 0..l
      PROVE  h[n] = IF n = 0 THEN start ELSE Absorbed(g[n - 1], family, order[n])
  <2>1. n = 0 \/ (n \in 1..l /\ n # 0 /\ n - 1 \in 0..l)
    <3> HIDE DEF Partly, T, g
    <3> QED BY ONLY Len(order) \in Nat, n \in 0..l DEF l
  <2>2. n - 1 \in 0..l => g[n - 1] = h[n - 1]
    OBVIOUS
  <2> HIDE DEF g
  <2> QED BY <1>4, <2>1, <2>2
<1>6. Runs(g, family, order, start)
  <2>1. g = [n \in 0..l |-> IF n = 0 THEN start ELSE Absorbed(g[n - 1], family, order[n])]
    <3>1. [n \in 0..l |-> h[n]]
            = [n \in 0..l |-> IF n = 0 THEN start ELSE Absorbed(g[n - 1], family, order[n])]
      <4> HIDE DEF g
      <4> QED BY <1>5, Zenon
    <3>2. g = [n \in 0..l |-> h[n]]
      OBVIOUS
    <3> HIDE DEF g
    <3> QED BY <3>1, <3>2
  <2> HIDE DEF g
  <2> QED BY <2>1 DEF Runs
<1> QED BY <1>6

LEMMA RouteRuns ==
  ASSUME NEW u, NEW family, NEW amount, Len(Ordered(u)) \in Nat, ~Bypasses(family)
  PROVE  \E h : /\ Runs(h, family, Ordered(u), [rest |-> amount, left |-> shields[u]])
                /\ Route(u, family, amount) = h[Len(Ordered(u))]
<1> DEFINE start == [rest |-> amount, left |-> shields[u]]
           order == Ordered(u)
           after == CHOOSE h : Runs(h, family, order, start)
<1>1. Runs(after, family, order, start)
  <2>1. \E h : Runs(h, family, order, start)
    <3> HIDE DEF start
    <3> QED BY RunExists
  <2> HIDE DEF order, start
  <2> QED BY <2>1
<1>2. Route(u, family, amount) = after[Len(order)]
  BY DEF Route, Runs
<1> HIDE DEF after, order, start
<1>3. \E h : Runs(h, family, order, start) /\ Route(u, family, amount) = h[Len(order)]
  BY <1>1, <1>2
<1> QED BY <1>3 DEF order, start

(* A shield gives what it holds or what is needed, and no other changes. *)
LEMMA AbsorbedFacts ==
  ASSUME NEW r \in Routes, NEW family, NEW k \in Sources, family \in Absorbs[k]
  PROVE  LET t == Least(r.left[k], r.rest) IN
         /\ t \in Nat /\ t <= r.left[k] /\ t <= r.rest
         /\ t = r.left[k] \/ t = r.rest
         /\ Absorbed(r, family, k) \in Routes
         /\ Absorbed(r, family, k).rest = r.rest - t
         /\ Absorbed(r, family, k).left[k] = r.left[k] - t
         /\ \A j \in Sources : j # k => Absorbed(r, family, k).left[j] = r.left[j]
<1> DEFINE t == Least(r.left[k], r.rest)
<1>1. r.left \in [Sources -> Nat] /\ r.rest \in Nat /\ r.left[k] \in Nat
  BY DEF Routes
<1>2. t \in Nat /\ t <= r.left[k] /\ t <= r.rest /\ (t = r.left[k] \/ t = r.rest)
  BY <1>1 DEF Least
<1>3. Absorbed(r, family, k)
        = [rest |-> r.rest - t, left |-> [r.left EXCEPT ![k] = r.left[k] - t]]
  BY DEF Absorbed
<1> HIDE DEF t
<1>4. r.rest - t \in Nat /\ r.left[k] - t \in Nat
  BY <1>1, <1>2
<1>5. [r.left EXCEPT ![k] = r.left[k] - t] \in [Sources -> Nat]
  BY <1>1, <1>4
<1>6. /\ [r.left EXCEPT ![k] = r.left[k] - t][k] = r.left[k] - t
      /\ \A j \in Sources : j # k => [r.left EXCEPT ![k] = r.left[k] - t][j] = r.left[j]
  BY <1>1, <1>4
<1> QED BY <1>2, <1>3, <1>4, <1>5, <1>6 DEF Routes, t

(* Sums over the shields. *)
Sums(g, f) ==
  g = [s \in SUBSET Sources |->
         IF s = {} THEN 0
         ELSE f[CHOOSE x \in s : TRUE] + g[s \ {CHOOSE x \in s : TRUE}]]

LEMMA SumExists ==
  ASSUME HitAssumption, NEW f
  PROVE  \E g : Sums(g, f)
<1> DEFINE any(s) == CHOOSE x \in s : TRUE
           Upto(n) == {s \in SUBSET Sources : Cardinality(s) <= n}
           Partly(g, n) == \A s \in Upto(n) :
                             g[s] = IF s = {} THEN 0 ELSE f[any(s)] + g[s \ {any(s)}]
           T == {n \in Nat : \E g : Partly(g, n)}
<1>1. \A s \in SUBSET Sources : IsFiniteSet(s) /\ Cardinality(s) \in Nat
  BY FS_Subset, FS_CardinalityType DEF HitAssumption
<1>2. ASSUME NEW s \in SUBSET Sources, s # {}
      PROVE  /\ any(s) \in s /\ s \ {any(s)} \in SUBSET Sources
             /\ Cardinality(s \ {any(s)}) = Cardinality(s) - 1
  <2>1. any(s) \in s
    BY <1>2
  <2> HIDE DEF any
  <2> QED BY <1>1, <2>1, FS_RemoveElement
<1>3. 0 \in T
  <2>1. Partly([s \in SUBSET Sources |-> 0], 0)
    <3>1. \A s \in Upto(0) : s = {}
      BY <1>1, FS_EmptySet
    <3> QED BY <3>1
  <2>2. \E g : Partly(g, 0)
    <3> HIDE DEF Partly
    <3> QED BY <2>1
  <2> QED BY <2>2
<1>4. ASSUME NEW n \in T PROVE n + 1 \in T
  <2>1. PICK g : Partly(g, n)
    BY <1>4
  <2>2. n \in Nat
    OBVIOUS
  <2> DEFINE h == [s \in SUBSET Sources |->
                     IF Cardinality(s) <= n THEN g[s] ELSE f[any(s)] + g[s \ {any(s)}]]
  <2>3. ASSUME NEW s \in Upto(n + 1), s # {}
        PROVE  h[s] = f[any(s)] + h[s \ {any(s)}]
    <3>1. /\ s \ {any(s)} \in SUBSET Sources
          /\ Cardinality(s \ {any(s)}) = Cardinality(s) - 1
      BY <1>2, <2>3
    <3>2. Cardinality(s \ {any(s)}) <= n
      BY <1>1, <2>2, <3>1
    <3> HIDE DEF any
    <3>3. h[s \ {any(s)}] = g[s \ {any(s)}]
      BY <3>1, <3>2
    <3>4. CASE Cardinality(s) <= n
      <4>1. s \in Upto(n) /\ h[s] = g[s]
        BY <3>4
      <4>2. g[s] = f[any(s)] + g[s \ {any(s)}]
        BY <2>1, <2>3, <4>1
      <4> QED BY <3>3, <4>1, <4>2
    <3>5. CASE ~(Cardinality(s) <= n)
      <4>1. h[s] = f[any(s)] + g[s \ {any(s)}]
        BY <3>5
      <4> QED BY <3>3, <4>1
    <3> QED BY <3>4, <3>5
  <2>4. {} \in Upto(n + 1) => h[{}] = 0
    <3>1. Cardinality({}) = 0 /\ {} \in Upto(n)
      BY <2>2, FS_EmptySet
    <3>2. g[{}] = 0
      BY <2>1, <3>1
    <3> QED BY <2>2, <3>1, <3>2
  <2>5. Partly(h, n + 1)
    <3> HIDE DEF h, any
    <3> QED BY <2>3, <2>4
  <2>6. \E k : Partly(k, n + 1)
    <3> HIDE DEF Partly, h
    <3> QED BY <2>5
  <2> HIDE DEF Partly
  <2> QED BY <2>2, <2>6
<1>5. T = Nat
  <2>1. T \in SUBSET Nat
    OBVIOUS
  <2> HIDE DEF T
  <2> QED BY <1>3, <1>4, <2>1, NatSetInduction
<1>6. PICK g : Partly(g, Cardinality(Sources))
  <2>1. Cardinality(Sources) \in Nat
    BY <1>1
  <2>2. Cardinality(Sources) \in T
    <3> HIDE DEF T
    <3> QED BY <1>5, <2>1
  <2> HIDE DEF Partly
  <2> QED BY <2>2
<1> DEFINE h == [s \in SUBSET Sources |-> g[s]]
<1>7. ASSUME NEW s \in SUBSET Sources
      PROVE  g[s] = IF s = {} THEN 0 ELSE f[any(s)] + h[s \ {any(s)}]
  <2>1. s \in Upto(Cardinality(Sources))
    BY FS_Subset DEF HitAssumption
  <2>2. g[s] = IF s = {} THEN 0 ELSE f[any(s)] + g[s \ {any(s)}]
    <3> HIDE DEF any, h
    <3> QED BY <1>6, <2>1
  <2>3. h[s \ {any(s)}] = g[s \ {any(s)}]
    <3> HIDE DEF any
    <3> QED OBVIOUS
  <2> HIDE DEF any, h
  <2> QED BY <2>2, <2>3
<1>8. h = [s \in SUBSET Sources |-> IF s = {} THEN 0 ELSE f[any(s)] + h[s \ {any(s)}]]
  <2>1. h = [s \in SUBSET Sources |-> g[s]]
    OBVIOUS
  <2> HIDE DEF h, any
  <2>2. [s \in SUBSET Sources |-> g[s]]
          = [s \in SUBSET Sources |-> IF s = {} THEN 0 ELSE f[any(s)] + h[s \ {any(s)}]]
    BY <1>7, Zenon
  <2> QED BY <2>1, <2>2
<1> HIDE DEF h
<1>9. Sums(h, f)
  BY <1>8, Zenon DEF Sums, any
<1> QED BY <1>9, Zenon

LEMMA TotalSums ==
  ASSUME HitAssumption, NEW f
  PROVE  \E g : Sums(g, f) /\ Total(f) = g[Sources]
<1> DEFINE g == CHOOSE h : Sums(h, f)
<1>1. Sums(g, f)
  <2>1. \E h : Sums(h, f)
    BY SumExists
  <2> QED BY <2>1
<1>2. Total(f) = g[Sources]
  BY DEF Total, MapThenSumSet, MapThenFoldSet, Sums
<1> HIDE DEF g
<1> QED BY <1>1, <1>2
(* One more unit of a shield is one more of the sum. *)
Shifted(f, e, k, t) == \A j \in Sources : e[j] = f[j] + (IF j = k THEN t ELSE 0)

LEMMA SumsDiffer ==
  ASSUME HitAssumption, NEW f \in [Sources -> Int], NEW k \in Sources, NEW t \in Int,
         NEW e, Shifted(f, e, k, t),
         NEW g, Sums(g, f), NEW h, Sums(h, e)
  PROVE  g[Sources] \in Int /\ h[Sources] = g[Sources] + t
<1> DEFINE any(s) == CHOOSE x \in s : TRUE
           Differ(s) == g[s] \in Int /\ h[s] = g[s] + (IF k \in s THEN t ELSE 0)
           T == {n \in Nat : \A s \in SUBSET Sources : Cardinality(s) = n => Differ(s)}
<1>1. \A s \in SUBSET Sources : IsFiniteSet(s) /\ Cardinality(s) \in Nat
  BY FS_Subset, FS_CardinalityType DEF HitAssumption
<1>2. /\ \A s \in SUBSET Sources : s # {} => g[s] = f[any(s)] + g[s \ {any(s)}]
      /\ \A s \in SUBSET Sources : s # {} => h[s] = e[any(s)] + h[s \ {any(s)}]
      /\ g[{}] = 0 /\ h[{}] = 0
  <2>1. /\ \A s \in SUBSET Sources : g[s] = IF s = {} THEN 0 ELSE f[any(s)] + g[s \ {any(s)}]
        /\ \A s \in SUBSET Sources : h[s] = IF s = {} THEN 0 ELSE e[any(s)] + h[s \ {any(s)}]
    BY DEF Sums
  <2> HIDE DEF any
  <2> QED BY <2>1
<1>3. 0 \in T
  <2>1. \A s \in SUBSET Sources : Cardinality(s) = 0 => s = {}
    BY <1>1, FS_EmptySet
  <2>2. Differ({})
    BY <1>2
  <2> HIDE DEF Differ
  <2> QED BY <2>1, <2>2
<1>4. ASSUME NEW n \in T PROVE n + 1 \in T
  <2> SUFFICES ASSUME NEW s \in SUBSET Sources, Cardinality(s) = n + 1 PROVE Differ(s)
    OBVIOUS
  <2>1. n \in Nat /\ s # {}
    <3>1. n \in Nat /\ Cardinality(s) # 0
      OBVIOUS
    <3> QED BY <3>1, FS_EmptySet
  <2> DEFINE x == any(s)
  <2>2. x \in s
    BY <2>1
  <2>3. g[s] = f[x] + g[s \ {x}] /\ h[s] = e[x] + h[s \ {x}]
    BY <1>2, <2>1
  <2> HIDE DEF x, any
  <2>4. s \ {x} \in SUBSET Sources /\ Cardinality(s \ {x}) = n
    <3>1. Cardinality(s \ {x}) = Cardinality(s) - 1
      BY <1>1, <2>2, FS_RemoveElement
    <3> HIDE DEF T
    <3>2. Cardinality(s \ {x}) = n
      BY <2>1, <3>1
    <3> QED BY <3>2
  <2>5. Differ(s \ {x})
    BY <2>4
  <2>6. f[x] \in Int /\ e[x] = f[x] + (IF x = k THEN t ELSE 0)
    BY <2>2 DEF Shifted
  <2>7. g[s \ {x}] \in Int
        /\ h[s \ {x}] = g[s \ {x}] + (IF k \in s /\ k # x THEN t ELSE 0)
    BY <2>5
  <2>8. g[s] \in Int
    BY <2>3, <2>6, <2>7
  <2>9. h[s] = g[s] + (IF k \in s THEN t ELSE 0)
    <3>1. CASE k = x
      BY <2>2, <2>3, <2>6, <2>7, <3>1
    <3>2. CASE k # x /\ k \in s
      BY <2>3, <2>6, <2>7, <3>2
    <3>3. CASE k # x /\ k \notin s
      BY <2>3, <2>6, <2>7, <3>3
    <3> QED BY <3>1, <3>2, <3>3
  <2> QED BY <2>8, <2>9
<1>5. T = Nat
  <2>1. T \in SUBSET Nat
    OBVIOUS
  <2> HIDE DEF T
  <2> QED BY <1>3, <1>4, <2>1, NatSetInduction
<1>6. Differ(Sources)
  <2>1. Cardinality(Sources) \in T
    BY <1>1, <1>5
  <2> QED BY <2>1
<1> QED BY <1>6

LEMMA TotalDiffers ==
  ASSUME HitAssumption, NEW f \in [Sources -> Int], NEW k \in Sources, NEW t \in Int,
         NEW e, Shifted(f, e, k, t)
  PROVE  Total(f) \in Int /\ Total(e) = Total(f) + t
<1>1. PICK g : Sums(g, f) /\ Total(f) = g[Sources]
  BY TotalSums
<1>2. PICK h : Sums(h, e) /\ Total(e) = h[Sources]
  BY TotalSums
<1>3. Sums(g, f) /\ Sums(h, e)
  BY <1>1, <1>2
<1>4. g[Sources] \in Int /\ h[Sources] = g[Sources] + t
  BY <1>3, SumsDiffer, SMTT(30)
<1> QED BY <1>1, <1>2, <1>4

LEMMA TotalZero ==
  ASSUME HitAssumption, NEW f, \A j \in Sources : f[j] = 0
  PROVE  Total(f) = 0
<1>1. PICK g : Sums(g, f) /\ Total(f) = g[Sources]
  BY TotalSums
<1> DEFINE any(s) == CHOOSE x \in s : TRUE
           T == {n \in Nat : \A s \in SUBSET Sources : Cardinality(s) = n => g[s] = 0}
<1>2. \A s \in SUBSET Sources : IsFiniteSet(s) /\ Cardinality(s) \in Nat
  BY FS_Subset, FS_CardinalityType DEF HitAssumption
<1>3. \A s \in SUBSET Sources : g[s] = IF s = {} THEN 0 ELSE f[any(s)] + g[s \ {any(s)}]
  BY <1>1 DEF Sums
<1>4. 0 \in T
  BY <1>2, <1>3, FS_EmptySet
<1>5. ASSUME NEW n \in T PROVE n + 1 \in T
  <2> SUFFICES ASSUME NEW s \in SUBSET Sources, Cardinality(s) = n + 1 PROVE g[s] = 0
    OBVIOUS
  <2>1. n \in Nat /\ s # {}
    <3>1. n \in Nat /\ Cardinality(s) # 0
      OBVIOUS
    <3> QED BY <3>1, FS_EmptySet
  <2>2. any(s) \in s
    BY <2>1
  <2> HIDE DEF any
  <2>3. s \ {any(s)} \in SUBSET Sources /\ Cardinality(s \ {any(s)}) = n
    <3>1. Cardinality(s \ {any(s)}) = Cardinality(s) - 1
      BY <1>2, <2>2, FS_RemoveElement
    <3> HIDE DEF T
    <3>2. Cardinality(s \ {any(s)}) = n
      BY <2>1, <3>1
    <3> QED BY <3>2
  <2>4. g[s \ {any(s)}] = 0 /\ f[any(s)] = 0
    BY <2>2, <2>3
  <2>5. g[s] = f[any(s)] + g[s \ {any(s)}]
    BY <1>3, <2>1
  <2> HIDE DEF T
  <2> QED BY <2>4, <2>5
<1>6. T = Nat
  <2>1. T \in SUBSET Nat
    OBVIOUS
  <2> HIDE DEF T
  <2> QED BY <1>4, <1>5, <2>1, NatSetInduction
<1>7. g[Sources] = 0
  <2>1. Cardinality(Sources) \in T
    BY <1>2, <1>6
  <2> QED BY <2>1
<1> QED BY <1>1, <1>7

(* What has happened when the loop is past the n-th shield of the order.    *)
Passed(held, family, order, amount, r, n) ==
  /\ r \in Routes
  /\ \A k \in Sources : r.left[k] <= held[k]
  /\ \A i \in 1..Len(order) : i > n => r.left[order[i]] = held[order[i]]
  /\ \A k \in Sources : r.left[k] < held[k] => \E i \in 1..n : order[i] = k
  /\ \A i \in 1..n : family \in Absorbs[order[i]] /\ r.rest > 0 => r.left[order[i]] = 0
  /\ \A i \in 1..n : r.left[order[i]] < held[order[i]] =>
       /\ family \in Absorbs[order[i]]
       /\ \A j \in 1..n : j < i /\ family \in Absorbs[order[j]] => r.left[order[j]] = 0
  /\ Total([k \in Sources |-> held[k] - r.left[k]]) + r.rest = amount

LEMMA PassedOne ==
  ASSUME HitAssumption, NEW held \in [Sources -> Nat], NEW family, NEW amount \in Nat,
         NEW order \in Seq(Sources),
         \A i, j \in 1..Len(order) : i # j => order[i] # order[j],
         NEW r, NEW n \in Nat, n < Len(order), Passed(held, family, order, amount, r, n)
  PROVE  Passed(held, family, order, amount, Absorbed(r, family, order[n + 1]), n + 1)
<1> DEFINE k == order[n + 1]
           r2 == Absorbed(r, family, k)
           t == Least(r.left[k], r.rest)
<1>1. Len(order) \in Nat /\ n + 1 \in 1..Len(order) /\ \A i \in 1..Len(order) : order[i] \in Sources
  OBVIOUS
<1>2. \A i \in 1..(n + 1) : i \in 1..Len(order) /\ (i = n + 1 \/ i \in 1..n)
  BY <1>1
<1>3. /\ r \in Routes /\ k \in Sources /\ r.left[k] = held[k] /\ r.rest \in Nat
      /\ \A j \in Sources : r.left[j] \in Nat /\ held[j] \in Nat /\ r.left[j] <= held[j]
  BY <1>1 DEF Passed, Routes
<1>4. \A i \in 1..n : i \in 1..Len(order) /\ order[i] # k /\ order[i] \in Sources
  BY <1>1
<1>5. CASE family \notin Absorbs[k]
  <2>1. r2 = r
    BY <1>5 DEF Absorbed
  <2> HIDE DEF r2
  <2>2. \A i \in 1..(n + 1) : family \in Absorbs[order[i]] => i \in 1..n
    BY <1>2, <1>5
  <2>3. ASSUME NEW i \in 1..(n + 1), r.left[order[i]] < held[order[i]] PROVE i \in 1..n
    <3>1. ~(r.left[k] < held[k])
      <4> HIDE DEF k
      <4> QED BY <1>3
    <3>2. i # n + 1
      BY <2>3, <3>1
    <3> QED BY <1>2, <3>2
  <2>4. \A i \in 1..(n + 1) : r.left[order[i]] < held[order[i]] =>
       /\ family \in Absorbs[order[i]]
       /\ \A j \in 1..(n + 1) : j < i /\ family \in Absorbs[order[j]] => r.left[order[j]] = 0
    BY <2>2, <2>3 DEF Passed
  <2>5. \A i \in 1..(n + 1) : family \in Absorbs[order[i]] /\ r.rest > 0 => r.left[order[i]] = 0
    BY <2>2 DEF Passed
  <2>6. \A j \in Sources : r.left[j] < held[j] => \E i \in 1..(n + 1) : order[i] = j
    <3>1. 1..n \subseteq 1..(n + 1)
      OBVIOUS
    <3> QED BY <3>1 DEF Passed
  <2>7. \A i \in 1..Len(order) : i > n + 1 => r.left[order[i]] = held[order[i]]
    <3>1. \A i \in 1..Len(order) : i > n + 1 => i > n
      OBVIOUS
    <3> QED BY <3>1 DEF Passed
  <2> QED BY <2>1, <2>4, <2>5, <2>6, <2>7 DEF Passed, r2
<1>6. CASE family \in Absorbs[k]
  <2>1. /\ t \in Nat /\ t <= r.left[k] /\ t <= r.rest /\ (t = r.left[k] \/ t = r.rest)
        /\ r2 \in Routes /\ r2.rest = r.rest - t
        /\ r2.left[k] = r.left[k] - t
        /\ \A j \in Sources : j # k => r2.left[j] = r.left[j]
    <3>1. r \in Routes /\ k \in Sources
      BY <1>3
    <3> HIDE DEF k
    <3> HIDE DEF Passed
    <3>2. family \in Absorbs[k] /\ HitAssumption
      BY <1>6
    <3> DEFINE w == Least(r.left[k], r.rest)
    <3>3. /\ w \in Nat /\ w <= r.left[k] /\ w <= r.rest
          /\ w = r.left[k] \/ w = r.rest
      BY <3>1, <3>2, AbsorbedFacts, Zenon
    <3>4. /\ Absorbed(r, family, k) \in Routes
          /\ Absorbed(r, family, k).rest = r.rest - w
          /\ Absorbed(r, family, k).left[k] = r.left[k] - w
      BY <3>1, <3>2, AbsorbedFacts, Zenon
    <3>5. ASSUME NEW j \in Sources, j # k
          PROVE  Absorbed(r, family, k).left[j] = r.left[j]
      BY <3>1, <3>2, <3>5, AbsorbedFacts
    <3> QED BY <3>3, <3>4, <3>5
  <2> HIDE DEF r2, t
  <2>2. /\ r2.left[k] = held[k] - t
        /\ \A j \in Sources : j # k => r2.left[j] = r.left[j]
        /\ r2.left[k] \in Nat /\ r2.rest \in Nat
    <3>1. r2.left[k] = held[k] - t /\ r2.left[k] \in Nat /\ r2.rest \in Nat
      BY <1>3, <2>1 DEF Routes
    <3>2. \A j \in Sources : j # k => r2.left[j] = r.left[j]
      BY <1>3, <2>1
    <3> QED BY <3>1, <3>2
  <2>3. ASSUME NEW j \in Sources PROVE r2.left[j] <= held[j]
    <3>1. CASE j = k
      BY <1>3, <2>1, <2>2, <3>1
    <3>2. CASE j # k
      BY <1>3, <2>2, <3>2
    <3> QED BY <3>1, <3>2
  <2>4. ASSUME NEW i \in 1..Len(order), i > n + 1
        PROVE  r2.left[order[i]] = held[order[i]]
    <3>1. order[i] # k /\ order[i] \in Sources /\ i > n
      BY <1>1, <2>4
    <3> QED BY <2>2, <3>1 DEF Passed
  <2>5. ASSUME NEW j \in Sources, r2.left[j] < held[j]
        PROVE  \E i \in 1..(n + 1) : order[i] = j
    <3>1. CASE j = k
      BY <3>1
    <3>2. CASE j # k
      <4>1. PICK i \in 1..n : order[i] = j
        BY <2>2, <2>5, <3>2 DEF Passed
      <4> QED BY <4>1
    <3> QED BY <3>1, <3>2
  <2>6. r2.rest > 0 => r.rest > 0 /\ r2.left[k] = 0
    BY <1>3, <2>1, <2>2
  <2>7. ASSUME NEW i \in 1..(n + 1), family \in Absorbs[order[i]], r2.rest > 0
        PROVE  r2.left[order[i]] = 0
    <3>1. CASE i = n + 1
      BY <2>6, <2>7, <3>1
    <3>2. CASE i \in 1..n
      <4>1. r.left[order[i]] = 0
        BY <2>6, <2>7, <3>2 DEF Passed
      <4> QED BY <1>4, <2>2, <3>2, <4>1
    <3> QED BY <1>2, <3>1, <3>2
  <2>8. r2.left[k] < held[k] => r.rest > 0
    <3>1. held[k] \in Nat
      BY <1>3
    <3> HIDE DEF k
    <3> QED BY <1>3, <2>1, <2>2, <3>1
  <2>9. ASSUME NEW i \in 1..(n + 1), r2.left[order[i]] < held[order[i]]
        PROVE  /\ family \in Absorbs[order[i]]
               /\ \A j \in 1..(n + 1) :
                    j < i /\ family \in Absorbs[order[j]] => r2.left[order[j]] = 0
    <3>1. CASE i = n + 1
      <4>1. ASSUME NEW j \in 1..(n + 1), j < i, family \in Absorbs[order[j]]
            PROVE  r2.left[order[j]] = 0
        <5>1. j \in 1..n
          BY <3>1, <4>1
        <5>2. r.rest > 0
          BY <2>8, <2>9, <3>1
        <5>3. r.left[order[j]] = 0
          BY <4>1, <5>1, <5>2 DEF Passed
        <5> QED BY <1>4, <2>2, <5>1, <5>3
      <4> QED BY <1>6, <3>1, <4>1
    <3>2. CASE i \in 1..n
      <4>1. r2.left[order[i]] = r.left[order[i]]
        BY <1>4, <2>2, <3>2
      <4>2. family \in Absorbs[order[i]]
        BY <2>9, <3>2, <4>1 DEF Passed
      <4>3. ASSUME NEW j \in 1..(n + 1), j < i, family \in Absorbs[order[j]]
            PROVE  r2.left[order[j]] = 0
        <5>1. j \in 1..n
          BY <3>2, <4>3
        <5>2. r.left[order[j]] = 0
          BY <2>9, <3>2, <4>1, <4>3, <5>1 DEF Passed
        <5> QED BY <1>4, <2>2, <5>1, <5>2
      <4> QED BY <4>2, <4>3
    <3> QED BY <1>2, <3>1, <3>2
  <2>10. Total([j \in Sources |-> held[j] - r2.left[j]]) + r2.rest = amount
    <3> DEFINE f == [j \in Sources |-> held[j] - r.left[j]]
               e == [j \in Sources |-> held[j] - r2.left[j]]
    <3>1. f \in [Sources -> Int]
      BY <1>3
    <3>2. Shifted(f, e, k, t)
      <4> SUFFICES ASSUME NEW j \in Sources
                   PROVE  held[j] - r2.left[j] = held[j] - r.left[j] + (IF j = k THEN t ELSE 0)
        BY DEF Shifted
      <4>1. r2.left[j] = IF j = k THEN r.left[j] - t ELSE r.left[j]
        BY <2>1
      <4> QED BY <1>3, <2>1, <4>1
    <3>3. Total(f) + r.rest = amount
      BY DEF Passed
    <3>4. Total(f) \in Int /\ Total(e) = Total(f) + t
      <4>1. t \in Int
        BY <2>1
      <4> HIDE DEF f, e, k
      <4> QED BY <1>3, <3>1, <3>2, <4>1, TotalDiffers
    <3> HIDE DEF f, e
    <3>5. Total(e) + r2.rest = amount
      BY <1>3, <2>1, <3>3, <3>4
    <3> QED BY <3>5 DEF e
  <2>11. Passed(held, family, order, amount, r2, n + 1)
    <3> HIDE DEF k
    <3> QED BY <2>1, <2>3, <2>4, <2>5, <2>7, <2>9, <2>10 DEF Passed
  <2> QED BY <2>11 DEF r2
<1> QED BY <1>5, <1>6

(* What the loop has done at its end. *)
LEMMA RoutePassed ==
  ASSUME HitAssumption, NEW u, shields[u] \in [Sources -> Nat], NEW family,
         NEW amount \in Nat, ~ Bypasses(family)
  PROVE  Passed(shields[u], family, Ordered(u), amount,
                Route(u, family, amount), Len(Ordered(u)))
<1> DEFINE order == Ordered(u)
           held == shields[u]
           start == [rest |-> amount, left |-> held]
<1>1. /\ order \in Seq(Sources) /\ Ranked(u, order, Len(order))
      /\ Len(order) \in Nat /\ \A i \in 1..Len(order) : order[i] \in Sources
  <2>1. order \in Seq(Sources) /\ Ranked(u, order, Len(order))
    BY OrderedFacts
  <2> HIDE DEF order
  <2> QED BY <2>1
<1>2. PICK h : Runs(h, family, order, start) /\ Route(u, family, amount) = h[Len(order)]
  BY <1>1, RouteRuns
<1> HIDE DEF order
<1>3. \A i, j \in 1..Len(order) : i # j => order[i] # order[j]
  <2> SUFFICES ASSUME NEW i \in 1..Len(order), NEW j \in 1..Len(order), i < j
               PROVE  order[i] # order[j]
    BY <1>1
  <2>1. Precedes(u, order[i], order[j]) /\ order[i] \in Sources /\ order[j] \in Sources
    BY <1>1 DEF Ranked
  <2> QED BY <2>1, PrecedesOrders
<1>4. Passed(held, family, order, amount, start, 0)
  <2> DEFINE f == [k \in Sources |-> held[k] - held[k]]
  <2>1. start \in Routes /\ \A k \in Sources : held[k] \in Nat /\ start.left[k] = held[k]
    BY DEF Routes
  <2>2. Total(f) = 0
    <3>1. \A k \in Sources : f[k] = 0
      BY <2>1
    <3> HIDE DEF f
    <3> QED BY <3>1, TotalZero
  <2>3. start.left = held /\ start.rest = amount
    OBVIOUS
  <2> HIDE DEF held, start
  <2> QED BY <1>1, <2>1, <2>2, <2>3 DEF Passed
<1> DEFINE T == {n \in Nat : n <= Len(order) => Passed(held, family, order, amount, h[n], n)}
<1>5. 0 \in T
  BY <1>1, <1>2, <1>4 DEF Runs
<1>6. ASSUME NEW n \in T PROVE n + 1 \in T
  <2> SUFFICES ASSUME n + 1 <= Len(order)
               PROVE  Passed(held, family, order, amount, h[n + 1], n + 1)
    OBVIOUS
  <2>1. n \in Nat /\ n < Len(order) /\ Passed(held, family, order, amount, h[n], n)
    BY <1>1
  <2>2. h[n + 1] = Absorbed(h[n], family, order[n + 1])
    BY <1>1, <1>2, <2>1 DEF Runs
  <2> HIDE DEF T, held
  <2>3. held \in [Sources -> Nat]
    BY DEF held
  <2> QED BY <1>1, <1>3, <2>1, <2>2, <2>3, PassedOne
<1>7. T = Nat
  <2>1. T \in SUBSET Nat
    OBVIOUS
  <2> HIDE DEF T
  <2> QED BY <1>5, <1>6, <2>1, NatSetInduction
<1>8. Passed(held, family, order, amount, h[Len(order)], Len(order))
  BY <1>1, <1>7
<1> QED BY <1>2, <1>8 DEF order

(* A route, told without the loop. *)
Soaks(u, family, amount, r) ==
  LET absorbers == IF Bypasses(family) THEN {}
                   ELSE {k \in Sources : family \in Absorbs[k]}
  IN /\ r \in Routes
     /\ \A k \in Sources : r.left[k] <= shields[u][k]
     /\ \A k \in Sources : r.left[k] < shields[u][k] =>
          /\ k \in absorbers
          /\ \A j \in absorbers : Precedes(u, j, k) => r.left[j] = 0
     /\ r.rest > 0 => \A k \in absorbers : r.left[k] = 0
     /\ Total([k \in Sources |-> shields[u][k] - r.left[k]]) + r.rest = amount

LEMMA RouteFacts ==
  ASSUME HitAssumption, NEW u, shields[u] \in [Sources -> Nat], NEW family,
         NEW amount \in Nat
  PROVE  Soaks(u, family, amount, Route(u, family, amount))
<1> DEFINE r == Route(u, family, amount)
           held == shields[u]
<1>1. CASE Bypasses(family)
  <2> DEFINE f == [k \in Sources |-> held[k] - held[k]]
  <2>1. r = [rest |-> amount, left |-> held]
    BY <1>1 DEF Route
  <2>2. \A k \in Sources : held[k] \in Nat
    OBVIOUS
  <2>3. Total(f) = 0
    <3>1. \A k \in Sources : f[k] = 0
      BY <2>2
    <3> HIDE DEF f
    <3> QED BY <3>1, TotalZero
  <2>4. r \in Routes /\ r.left = held /\ r.rest = amount
    BY <2>1 DEF Routes
  <2> HIDE DEF r
  <2>5. Soaks(u, family, amount, r)
    BY <1>1, <2>2, <2>3, <2>4 DEF Soaks
  <2> QED BY <2>5 DEF r
<1>2. CASE ~ Bypasses(family)
  <2> DEFINE order == Ordered(u)
  <2>1. Passed(held, family, order, amount, r, Len(order))
    BY <1>2, RoutePassed
  <2>2. /\ order \in Seq(Sources) /\ Ranked(u, order, Len(order))
        /\ \A k \in Sources : held[k] > 0 => \E i \in 1..Len(order) : order[i] = k
    BY OrderedFacts
  <2> HIDE DEF order, r, held
  <2>3. Len(order) \in Nat /\ \A i \in 1..Len(order) : order[i] \in Sources
    BY <2>2
  <2>4. \A k \in Sources : held[k] \in Nat /\ r.left[k] \in Nat /\ r.left[k] <= held[k]
    BY <2>1 DEF Passed, Routes, held
  <2>5. ASSUME NEW k \in Sources, family \in Absorbs[k], r.rest > 0
        PROVE  r.left[k] = 0
    <3>0. held[k] \in Nat /\ r.left[k] \in Nat /\ r.left[k] <= held[k]
      BY <2>4
    <3>1. CASE held[k] = 0
      BY <3>0, <3>1
    <3>2. CASE held[k] > 0
      <4>1. PICK i \in 1..Len(order) : order[i] = k
        BY <2>2, <3>2
      <4> QED BY <2>1, <2>5, <4>1 DEF Passed
    <3> QED BY <3>0, <3>1, <3>2
  <2>6. ASSUME NEW k \in Sources, r.left[k] < held[k]
        PROVE  /\ family \in Absorbs[k]
               /\ \A j \in Sources :
                    family \in Absorbs[j] /\ Precedes(u, j, k) => r.left[j] = 0
    <3>1. PICK i \in 1..Len(order) : order[i] = k
      BY <2>1, <2>6 DEF Passed
    <3>2. /\ family \in Absorbs[k]
          /\ \A j \in 1..Len(order) :
               j < i /\ family \in Absorbs[order[j]] => r.left[order[j]] = 0
      BY <2>1, <2>6, <3>1 DEF Passed
    <3>3. ASSUME NEW j \in Sources, family \in Absorbs[j], Precedes(u, j, k)
          PROVE  r.left[j] = 0
      <4>0. held[j] \in Nat /\ r.left[j] \in Nat /\ r.left[j] <= held[j]
        BY <2>4
      <4>1. CASE held[j] = 0
        BY <4>0, <4>1
      <4>2. CASE held[j] > 0
        <5>1. PICK l \in 1..Len(order) : order[l] = j
          BY <2>2, <4>2
        <5>2. j # k /\ ~ Precedes(u, k, j)
          <6>1. ~ Precedes(u, k, j)
            BY <3>3, PrecedesOrders
          <6> QED BY <3>3, <6>1
        <5>3. ~ (i < l)
          BY <2>2, <3>1, <5>1, <5>2 DEF Ranked
        <5>4. l < i
          BY <2>3, <3>1, <5>1, <5>2, <5>3
        <5> QED BY <3>2, <3>3, <5>1, <5>4
      <4> QED BY <4>0, <4>1, <4>2
    <3> QED BY <3>2, <3>3
  <2>7. Soaks(u, family, amount, r)
    BY <1>2, <2>1, <2>5, <2>6 DEF Soaks, Passed, held
  <2> QED BY <2>7 DEF r
<1> QED BY <1>1, <1>2

----------------------------------------------------------------------------
(* What is left of the types: the bodies the damage is taken from.          *)
Bodies ==
  /\ plan \in Plans /\ at <= Len(plan) + 1
  /\ hp \in [Units -> 0..MaxHp]
  /\ shields \in [Units -> [Sources -> Nat]]
  /\ fresh \in [Units -> SUBSET Sources]
  /\ actions \in 0..MaxActions /\ answers \in 0..MaxAnswers

LEMMA RouteTyped ==
  ASSUME HitAssumption, Bodies, NEW u \in Units, NEW family, NEW amount \in Nat
  PROVE  Soaks(u, family, amount, Route(u, family, amount))
BY RouteFacts DEF Bodies

LEMMA WoundBodies ==
  ASSUME HitAssumption, Bodies, NEW u \in Units, NEW route \in Routes,
         NEW window, NEW by, Wound(u, route, window, by)
  PROVE  /\ hp' \in [Units -> 0..MaxHp]
         /\ shields' \in [Units -> [Sources -> Nat]]
         /\ fresh' \in [Units -> SUBSET Sources]
<1>1. /\ hp' = [hp EXCEPT ![u] = IF hp[u] > route.rest
                                 THEN hp[u] - route.rest ELSE 0]
      /\ shields' = [shields EXCEPT ![u] = route.left]
      /\ fresh' = [fresh EXCEPT ![u] = {k \in fresh[u] : route.left[k] > 0}]
  BY DEF Wound
<1>2. route.rest \in Nat /\ route.left \in [Sources -> Nat] /\ MaxHp \in Nat
  BY DEF Routes, HitAssumption
<1>3. /\ hp \in [Units -> 0..MaxHp] /\ shields \in [Units -> [Sources -> Nat]]
      /\ fresh \in [Units -> SUBSET Sources]
  BY DEF Bodies
<1>4. (IF hp[u] > route.rest THEN hp[u] - route.rest ELSE 0) \in 0..MaxHp
  <2>1. hp[u] \in 0..MaxHp
    BY <1>3
  <2> QED BY <1>2, <2>1
<1>5. {k \in fresh[u] : route.left[k] > 0} \in SUBSET Sources
  BY <1>3
<1> QED BY <1>1, <1>2, <1>3, <1>4, <1>5

(* Each step that settles keeps its place within the plan. *)
LEMMA SettlePlace ==
  ASSUME IInv, Bodies, Settle
  PROVE  at' <= Len(plan') + 1 /\ UNCHANGED <<plan, actions, answers>>
<1>1. at <= Len(plan) /\ UNCHANGED <<plan, actions, answers>>
  BY DEF Settle, BeforeHit, Hit, HitTheDead, Aim, EnterBreak, Rupture, Settling
<1>2. at' = at \/ at' = at + 1
  BY DEF Settle, BeforeHit, Hit, HitTheDead, Aim, EnterBreak, Rupture, Moved
<1> QED BY <1>1, <1>2 DEF IInv, Shape

LEMMA BodiesSettle == ASSUME HitAssumption, IInv, Bodies, Settle PROVE Bodies'
<1>1. /\ plan' \in Plans /\ at' <= Len(plan') + 1
      /\ actions' \in 0..MaxActions /\ answers' \in 0..MaxAnswers
  BY SettlePlace DEF Bodies
<1>2. ASSUME UNCHANGED <<hp, shields, fresh>> PROVE Bodies'
  BY <1>1, <1>2 DEF Bodies
<1>3. ASSUME NEW u \in Units, NEW family, NEW amount \in Nat, NEW window, NEW by,
             Wound(u, Route(u, family, amount), window, by)
      PROVE  Bodies'
  <2>1. Route(u, family, amount) \in Routes
    BY RouteTyped DEF Soaks
  <2> QED BY <1>1, <1>3, <2>1, WoundBodies DEF Bodies
<1>4. (Hit \/ Rupture) => Current.to \in Units
  BY CurrentTyped DEF IInv, Hits, Hit, Rupture, Settling
<1>5. CASE Hit
  <2>1. PICK amount \in Amounts :
          Wound(Current.to, Route(Current.to, "direct", amount), TRUE, "action")
    BY <1>5 DEF Hit
  <2> QED BY <1>3, <1>4, <1>5, <2>1 DEF HitAssumption
<1>6. CASE Rupture
  <2>1. PICK amount \in BreakAmounts :
          \/ UNCHANGED bodies
          \/ Wound(Current.to, Route(Current.to, "break", amount), FALSE, "break")
    BY <1>6 DEF Rupture
  <2>2. amount \in Nat
    BY DEF HitAssumption
  <2>3. CASE UNCHANGED bodies
    BY <1>2, <2>3 DEF bodies
  <2> QED BY <1>3, <1>4, <1>6, <2>1, <2>2, <2>3
<1>7. CASE BeforeHit \/ HitTheDead \/ Aim \/ EnterBreak
  BY <1>2, <1>7 DEF BeforeHit, HitTheDead, Aim, EnterBreak, bodies
<1> QED BY <1>5, <1>6, <1>7 DEF Settle

LEMMA BodiesListen == ASSUME HitAssumption, IInv, Bodies, Listen PROVE Bodies'
<1>1. /\ UNCHANGED <<plan, at, actions>> /\ answers' \in 0..MaxAnswers
      /\ plan' \in Plans /\ at' <= Len(plan') + 1 /\ actions' \in 0..MaxActions
  <2>1. Answering
    BY DEF Listen, Hurt, Heal, Shield, Unshield
  <2>2. answers \in Nat /\ MaxAnswers \in Nat
    BY DEF Bodies, HitAssumption
  <2> QED BY <2>1, <2>2 DEF Answering, Bodies
<1>2. MaxHp \in Nat /\ \A amount \in Amounts : amount \in Nat
  BY DEF HitAssumption
<1>3. /\ hp \in [Units -> 0..MaxHp] /\ shields \in [Units -> [Sources -> Nat]]
      /\ fresh \in [Units -> SUBSET Sources]
  BY DEF Bodies
<1>4. CASE Hurt
  <2>1. PICK u \in Units, family \in ListenerFamilies, amount \in Amounts :
          Wound(u, Route(u, family, amount), Head(due).window, "listener")
    BY <1>4 DEF Hurt
  <2>2. Route(u, family, amount) \in Routes
    BY <1>2, RouteTyped DEF Soaks
  <2> QED BY <1>1, <2>1, <2>2, WoundBodies DEF Bodies
<1>5. CASE Heal
  <2>1. PICK u \in Units, amount \in Amounts :
          hp' = [hp EXCEPT ![u] = Least(MaxHp, hp[u] + amount)]
    BY <1>5 DEF Heal
  <2>2. UNCHANGED <<shields, fresh>>
    BY <1>5 DEF Heal
  <2>3. hp[u] \in 0..MaxHp /\ amount \in Nat
    BY <1>2, <1>3
  <2>4. Least(MaxHp, hp[u] + amount) \in 0..MaxHp
    BY <1>2, <2>3 DEF Least
  <2> QED BY <1>1, <1>3, <2>1, <2>2, <2>4 DEF Bodies
<1>6. CASE Shield
  <2>1. PICK u \in Units, k \in Sources, amount \in Amounts :
          \E left \in Reworked(shields[u][k], amount) :
            /\ shields' = [shields EXCEPT ![u][k] = left]
            /\ fresh' = [fresh EXCEPT ![u] =
                 IF left = 0 THEN fresh[u] \ {k}
                 ELSE IF shields[u][k] = 0 THEN fresh[u] \cup {k} ELSE fresh[u]]
    BY <1>6 DEF Shield
  <2>2. PICK left \in Reworked(shields[u][k], amount) :
            /\ shields' = [shields EXCEPT ![u][k] = left]
            /\ fresh' = [fresh EXCEPT ![u] =
                 IF left = 0 THEN fresh[u] \ {k}
                 ELSE IF shields[u][k] = 0 THEN fresh[u] \cup {k} ELSE fresh[u]]
    BY <2>1
  <2>3. left \in Nat
    <3>1. shields[u][k] \in Nat /\ amount \in Nat
      BY <1>2, <1>3
    <3> QED BY <2>2, <3>1 DEF Reworked, Least
  <2>4. shields' \in [Units -> [Sources -> Nat]]
    BY <1>3, <2>2, <2>3
  <2>5. fresh' \in [Units -> SUBSET Sources]
    BY <1>3, <2>2
  <2>6. hp' = hp
    BY <1>6 DEF Shield
  <2> QED BY <1>1, <1>3, <2>4, <2>5, <2>6 DEF Bodies
<1>7. CASE Unshield
  <2>1. PICK u \in Units, made \in SUBSET Sources :
          /\ shields' = [shields EXCEPT ![u] =
               [k \in Sources |-> IF k \in made THEN 0 ELSE shields[u][k]]]
          /\ fresh' = [fresh EXCEPT ![u] = fresh[u] \ made]
    BY <1>7 DEF Unshield
  <2>2. [k \in Sources |-> IF k \in made THEN 0 ELSE shields[u][k]] \in [Sources -> Nat]
    BY <1>3
  <2>3. hp' = hp
    BY <1>7 DEF Unshield
  <2> QED BY <1>1, <1>3, <2>1, <2>2, <2>3 DEF Bodies
<1> QED BY <1>4, <1>5, <1>6, <1>7 DEF Listen

LEMMA BodiesStep == ASSUME HitAssumption, IInv, Bodies, [Next]_vars PROVE Bodies'
<1>1. CASE BeginAction
  <2>1. /\ plan' \in Plans /\ at' = 1 /\ actions < MaxActions /\ actions' = actions + 1
        /\ UNCHANGED <<hp, shields, fresh, answers>>
    BY <1>1 DEF BeginAction
  <2>2. Len(plan') \in Nat /\ actions \in Nat /\ MaxActions \in Nat
    BY <2>1 DEF HitAssumption, Bodies
  <2> QED BY <2>1, <2>2 DEF Bodies
<1>2. CASE Tell \/ UNCHANGED vars
  BY <1>2 DEF Tell, Bodies, bodies, vars
<1> QED BY <1>1, <1>2, BodiesSettle, BodiesListen DEF Next

THEOREM BodiesHold == Spec => []Bodies
<1>1. ASSUME Init PROVE Bodies
  <2>1. /\ plan \in Plans /\ at = 1 /\ hp = [u \in Units |-> MaxHp]
        /\ shields \in [Units -> [Sources -> {0} \cup Amounts]]
        /\ fresh = [u \in Units |-> {}] /\ actions = 1 /\ answers = 0
    BY <1>1 DEF Init
  <2>2. /\ Len(plan) \in Nat /\ MaxHp \in Nat /\ {0} \cup Amounts \subseteq Nat
        /\ MaxActions \in Nat \ {0} /\ MaxAnswers \in Nat
    BY <2>1, HitAssumption DEF HitAssumption
  <2>3. shields \in [Units -> [Sources -> Nat]]
    BY <2>1, <2>2
  <2> QED BY <2>1, <2>2, <2>3 DEF Bodies
<1>2. ASSUME IInv, Bodies, [Next]_vars PROVE Bodies'
  BY <1>2, BodiesStep, HitAssumption
<1> QED BY <1>1, <1>2, InvariantHolds, PTL DEF Spec

(* The settlement stays typed: hit points between zero and the maximum, no  *)
(* shield below zero, every waiting event one of a unit, and the place of   *)
(* the settlement within its plan.                                          *)
THEOREM TypesHold == Spec => []TypeOK
<1>1. ASSUME IInv, Bodies PROVE TypeOK
  <2>1. Len(plan) \in Nat
    BY <1>1 DEF IInv, Shape
  <2>2. at \in 1..(Len(plan) + 1)
    BY <1>1, <2>1 DEF IInv, Shape, Bodies
  <2> QED BY <1>1, <2>2 DEF IInv, Shape, Bodies, TypeOK, Lives, Causes
<1> QED BY <1>1, InvariantHolds, BodiesHold, PTL

----------------------------------------------------------------------------
(* The damage of a step, told without the loop. *)
LEMMA WoundDamages ==
  ASSUME HitAssumption, Bodies, NEW u \in Units, NEW family, NEW amount \in Nat,
         NEW window, NEW by, Wound(u, Route(u, family, amount), window, by)
  PROVE  Damaged(u, family, amount)
<1> DEFINE r == Route(u, family, amount)
           absorbers == IF family = "hp_loss" THEN {}
                        ELSE {k \in Sources : family \in Absorbs[k]}
           taken == Total([k \in Sources |-> shields[u][k] - r.left[k]])
<1>1. Soaks(u, family, amount, r)
  BY RouteTyped
<1>2. /\ hp' = [hp EXCEPT ![u] = IF hp[u] > r.rest THEN hp[u] - r.rest ELSE 0]
      /\ shields' = [shields EXCEPT ![u] = r.left]
  BY DEF Wound
<1> HIDE DEF r
<1>3. /\ hp'[u] = (IF hp[u] > r.rest THEN hp[u] - r.rest ELSE 0)
      /\ shields'[u] = r.left
  BY <1>2 DEF Bodies
<1>4. hp[u] \in 0..MaxHp /\ MaxHp \in Nat /\ r.rest \in Nat /\ r \in Routes
  BY <1>1 DEF Bodies, HitAssumption, Soaks, Routes
<1>5. Drawn(u) = taken
  BY <1>3 DEF Drawn
<1>6. taken + r.rest = amount
  BY <1>1 DEF Soaks
<1>7. taken \in Int
  <2> DEFINE f == [k \in Sources |-> shields[u][k] - r.left[k]]
             e == [j \in Sources |-> f[j] + 0]
  <2>1. CASE Sources = {}
    <3>1. taken = 0
      BY <2>1, TotalZero
    <3> QED BY <3>1
  <2>2. ASSUME NEW k \in Sources PROVE taken \in Int
    <3>1. f \in [Sources -> Int]
      BY <1>4 DEF Bodies, Routes
    <3>2. Shifted(f, e, k, 0)
      BY <3>1 DEF Shifted
    <3> HIDE DEF f, e
    <3>3. Total(f) \in Int
      BY <3>1, <3>2, TotalDiffers
    <3> QED BY <3>3 DEF f
  <2> QED BY <2>1, <2>2
<1> HIDE DEF taken
<1>8. /\ Drawn(u) + (hp[u] - hp'[u]) <= amount
      /\ Drawn(u) + (hp[u] - hp'[u]) < amount => hp'[u] = 0
      /\ hp'[u] < hp[u] => r.rest > 0
  BY <1>3, <1>4, <1>5, <1>6, <1>7
<1>9. /\ \A k \in Sources : shields'[u][k] <= shields[u][k]
      /\ \A k \in Sources : shields'[u][k] < shields[u][k] =>
           /\ k \in absorbers
           /\ \A j \in absorbers : Precedes(u, j, k) => shields'[u][j] = 0
      /\ r.rest > 0 => \A k \in absorbers : shields'[u][k] = 0
  BY <1>1, <1>3 DEF Soaks, Bypasses
<1> QED BY <1>8, <1>9 DEF Damaged

(* Nothing arrives, nothing is taken. *)
LEMMA NothingDamages ==
  ASSUME HitAssumption, Bodies, NEW u \in Units, NEW family, UNCHANGED <<hp, shields>>
  PROVE  Damaged(u, family, 0)
<1> DEFINE f == [k \in Sources |-> shields[u][k] - shields'[u][k]]
<1>1. /\ hp[u] \in 0..MaxHp /\ MaxHp \in Nat /\ hp'[u] = hp[u]
      /\ \A k \in Sources : shields[u][k] \in Nat /\ shields'[u][k] = shields[u][k]
  BY DEF Bodies, HitAssumption
<1>2. Drawn(u) = 0
  <2>1. \A k \in Sources : f[k] = 0
    BY <1>1
  <2> HIDE DEF f
  <2>2. Total(f) = 0
    BY <2>1, TotalZero
  <2> QED BY <2>2 DEF Drawn, f
<1> QED BY <1>1, <1>2 DEF Damaged

(* Every event of a packet is the unit's. *)
Of(s, u) == s \in Seq(Events) /\ \A i \in 1..Len(s) : s[i].of = u

LEMMA OfConcat ==
  ASSUME NEW u, NEW s, Of(s, u), NEW t, Of(t, u)
  PROVE  Of(s \o t, u) /\ Len(s \o t) = Len(s) + Len(t)
BY ConcatProperties DEF Of

LEMMA OfNews ==
  ASSUME NEW kind \in Kinds, NEW u \in Units, NEW window \in BOOLEAN
  PROVE  Of(<<News(kind, u, window)>>, u)
<1>1. <<News(kind, u, window)>> \in Seq(Events) /\ News(kind, u, window).of = u
  BY NewsTyped DEF News
<1> QED BY <1>1 DEF Of

LEMMA OfHitNews ==
  ASSUME NEW u \in Units, NEW route, NEW window \in BOOLEAN
  PROVE  Of(HitNews(u, route, window), u) /\ Len(HitNews(u, route, window)) > 0
<1> DEFINE a1 == <<News("shield.change", u, window)>>
           a2 == <<News("shield.exhausted", u, window)>>
           a3 == IF \E k \in Sources : shields[u][k] > 0 /\ route.left[k] = 0
                 THEN a2 ELSE <<>>
           a == ShieldNews(u, route.left, window)
           b == <<News("damage.hit", u, window)>>
           d1 == <<News("unit.before_dying", u, window)>>
           d2 == <<News("unit.defeated", u, window)>>
           d == <<News("unit.before_dying", u, window), News("unit.defeated", u, window)>>
           c == IF Fatal(u, route.rest) THEN d ELSE <<>>
<1>1. Of(a1, u) /\ Of(a2, u) /\ Of(b, u) /\ Of(d1, u) /\ Of(d2, u)
  BY OfNews DEF Kinds
<1>2. Of(<<>>, u)
  BY DEF Of
<1>3. Of(a3, u)
  BY <1>1, <1>2
<1>4. a = a1 \o a3 \/ a = <<>>
  BY DEF ShieldNews
<1>5. d = d1 \o d2
  OBVIOUS
<1>6. Len(b) = 1
  OBVIOUS
<1>7. HitNews(u, route, window) = (a \o b) \o c
  BY DEF HitNews
<1> HIDE DEF a, a1, a2, a3, b, d1, d2, d
<1>8. Of(a, u) /\ Of(d, u)
  BY <1>1, <1>2, <1>3, <1>4, <1>5, OfConcat
<1>9. Of(c, u)
  BY <1>2, <1>8
<1> HIDE DEF c
<1>10. Of(a \o b, u) /\ Len(a \o b) = Len(a) + 1
  <2>1. Of(a \o b, u) /\ Len(a \o b) = Len(a) + Len(b)
    BY <1>1, <1>8, OfConcat
  <2> QED BY <1>6, <2>1
<1>11. Of((a \o b) \o c, u) /\ Len((a \o b) \o c) = Len(a \o b) + Len(c)
  BY <1>9, <1>10, OfConcat
<1>12. Len(a) \in Nat /\ Len(c) \in Nat
  BY <1>8, <1>9 DEF Of
<1> QED BY <1>7, <1>10, <1>11, <1>12

(* Whatever order the settlement's windows nest in, shields take damage     *)
(* before the hit points do, in their order, and lose none of it.           *)
THEOREM ShieldsComeFirst == Spec => ShieldsAbsorbInOrder
<1> DEFINE Absorbing == \A u \in Units :
       /\ (Hit /\ u = Current.to) =>
            \E amount \in Amounts : Damaged(u, "direct", amount)
       /\ (Rupture /\ u = Current.to /\ Living(u)) =>
            \E amount \in BreakAmounts : Damaged(u, "break", amount)
       /\ (Hurt /\ due'[Len(due') - Len(due)].of = u) =>
            \E family \in ListenerFamilies, amount \in Amounts :
              Damaged(u, family, amount)
<1>1. ASSUME IInv, Bodies PROVE Absorbing
  <2>1. HitAssumption /\ Amounts \subseteq Nat /\ BreakAmounts \subseteq Nat
    BY HitAssumption DEF HitAssumption
  <2>2. ASSUME NEW u \in Units, Hit, u = Current.to
        PROVE  \E amount \in Amounts : Damaged(u, "direct", amount)
    <3>1. PICK amount \in Amounts :
            Wound(u, Route(u, "direct", amount), TRUE, "action")
      BY <2>2 DEF Hit
    <3>2. Damaged(u, "direct", amount)
      BY <1>1, <2>1, <3>1, WoundDamages
    <3> QED BY <3>2
  <2>3. ASSUME NEW u \in Units, Rupture, u = Current.to, Living(u)
        PROVE  \E amount \in BreakAmounts : Damaged(u, "break", amount)
    <3>1. PICK amount \in BreakAmounts :
            IF amount > 0
            THEN Wound(u, Route(u, "break", amount), FALSE, "break")
            ELSE UNCHANGED bodies
      BY <2>3 DEF Rupture
    <3>2. amount \in Nat
      BY <2>1
    <3>3. CASE amount > 0
      <4>1. Damaged(u, "break", amount)
        BY <1>1, <2>1, <3>1, <3>2, <3>3, WoundDamages
      <4> QED BY <4>1
    <3>4. CASE ~ (amount > 0)
      <4>1. amount = 0 /\ UNCHANGED <<hp, shields>>
        BY <3>1, <3>2, <3>4 DEF bodies
      <4>2. Damaged(u, "break", amount)
        BY <1>1, <2>1, <4>1, NothingDamages
      <4> QED BY <4>2
    <3> QED BY <3>3, <3>4
  <2>4. ASSUME NEW u \in Units, Hurt, due'[Len(due') - Len(due)].of = u
        PROVE  \E family \in ListenerFamilies, amount \in Amounts :
                 Damaged(u, family, amount)
    <3>1. PICK v \in Units, family \in ListenerFamilies, amount \in Amounts :
            /\ Wound(v, Route(v, family, amount), Head(due).window, "listener")
            /\ due' = HitNews(v, Route(v, family, amount), Head(due).window) \o due
      BY <2>4 DEF Hurt
    <3> DEFINE s == HitNews(v, Route(v, family, amount), Head(due).window)
    <3>2. Head(due).window \in BOOLEAN /\ due \in Seq(Events)
      BY <1>1, <2>4, HeadTyped DEF Hurt, Answering, IInv, Shape
    <3>3. Of(s, v) /\ Len(s) > 0
      BY <3>2, OfHitNews
    <3> HIDE DEF s
    <3>4. s \in Seq(Events) /\ due' = s \o due
      BY <3>1, <3>3 DEF Of, s
    <3>5. Len(due') - Len(due) = Len(s) /\ due'[Len(s)] = s[Len(s)]
      BY <3>2, <3>3, <3>4, ConcatProperties
    <3>6. s[Len(s)].of = v
      BY <3>3, <3>4 DEF Of
    <3>7. u = v
      BY <2>4, <3>5, <3>6
    <3>8. Damaged(u, family, amount)
      BY <1>1, <2>1, <3>1, <3>7, WoundDamages
    <3> QED BY <3>8
  <2> QED BY <2>2, <2>3, <2>4
<1> QED BY <1>1, InvariantHolds, BodiesHold, PTL DEF Spec, ShieldsAbsorbInOrder
=============================================================================
