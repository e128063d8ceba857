--------------------------- MODULE HitSettlement ---------------------------
(* The settlement of an action's damage plan (core/executor.py): each hit   *)
(* is admitted by the window ledger, routed through the target's shields    *)
(* and taken off its hit points, then off its toughness, which may break    *)
(* it; every event of a step is dispatched before the next step, and the    *)
(* listeners of an event may hurt, heal and shield any unit in between.     *)
EXTENDS Integers, Sequences, FiniteSets, SequencesExt

CONSTANTS
  Units,         \* the units that can be hit
  MaxHp,         \* a unit's maximum of hit points
  MaxToughness,  \* per unit; 0 for one that has no toughness
  Locked,        \* units with weakness_locked or mute_break, which a
                 \* scenario sets and nothing in a battle writes
  Sources,       \* the shield ids, in their order: numbers
  Priority,      \* the priority of each source's shields
  Absorbs,       \* the damage families each source's shields absorb
  Amounts,       \* what a hit or a listener can deal, heal or shield
  BreakAmounts,  \* what breaking can deal; 0 for a template without damage
  ListenerFamilies, \* the families of the damage that listeners deal
  Plans,         \* the damage plans of the actions
  MaxActions,    \* bound on the actions of a behaviour
  MaxAnswers     \* bound on what listeners do, over all the actions

VARIABLES
  plan, at,      \* the running action's hits, and the one being settled
  stage,         \* what comes next once every event is dispatched
  hp, life,      \* hit points and lifecycle_status
  toughness, broken,
  refused,       \* the units whose break was blocked in the running action
  shields,       \* what is left of each source's shield, 0 for none
  fresh,         \* the shields made since the settlement began
  ledger,        \* DamageWindowLedger: whose packet defeated the unit
  due,           \* the events still to dispatch; listeners hear the first
  actions, answers,  \* what has been used of the two bounds
  told, fell     \* observers: defeats dispatched, and by what units fell

vars == <<plan, at, stage, hp, life, toughness, broken, refused, shields,
          fresh, ledger, due, actions, answers, told, fell>>
bodies == <<hp, life, toughness, broken, refused, shields, fresh, ledger,
            fell>>

Families == {"direct", "dot", "break", "super_break", "true_damage",
             "additional", "hp_loss"}
(* A hit of a plan; breaks is whether its element has an executable break   *)
(* template, which a packet without an element never has.                   *)
Hits == [to : Units, hurts : BOOLEAN, aims : BOOLEAN, stance : Nat,
         breaks : BOOLEAN]
Kinds == {"damage.before_hit", "shield.change", "shield.exhausted",
          "hp.change", "heal.after", "damage.hit", "unit.before_dying",
          "resource.change", "unit.defeated", "toughness.before_hit",
          "toughness.hit", "status.callback.OnStack", "break.triggered"}
Events == [kind : Kinds, of : Units, window : BOOLEAN]

ASSUME HitAssumption ==
  /\ MaxHp \in Nat \ {0} /\ MaxToughness \in [Units -> Nat]
  /\ Locked \subseteq Units
  /\ Sources \subseteq Nat /\ IsFiniteSet(Sources) /\ Priority \in [Sources -> Int]
  /\ Absorbs \in [Sources -> SUBSET Families]
  /\ Amounts \subseteq Nat /\ BreakAmounts \subseteq Nat
  /\ ListenerFamilies \subseteq Families
  /\ Plans \subseteq Seq(Hits)
  /\ MaxActions \in Nat \ {0} /\ MaxAnswers \in Nat

TypeOK ==
  /\ plan \in Plans /\ at \in 1..(Len(plan) + 1)
  /\ stage \in {"before", "hit", "aim", "break", "rupture"}
  /\ hp \in [Units -> 0..MaxHp]
  /\ life \in [Units -> {"active", "defeated"}]
  /\ toughness \in [Units -> Nat] /\ broken \in [Units -> BOOLEAN]
  /\ refused \subseteq Units
  /\ shields \in [Units -> [Sources -> Nat]]
  /\ fresh \in [Units -> SUBSET Sources]
  /\ ledger \in [Units -> {"none", "action", "other"}]
  /\ due \in Seq(Events)
  /\ actions \in 0..MaxActions /\ answers \in 0..MaxAnswers
  /\ told \in [Units -> Nat]
  /\ fell \in [Units -> {"no", "action", "earlier", "listener", "break"}]

(***************************************************************************)
(* Shields.                                                                *)
(***************************************************************************)
Least(m, n) == IF m < n THEN m ELSE n

(* The order in which the shields of u absorb: by priority, then by age,    *)
(* then by id.                                                              *)
Precedes(u, j, k) ==
  \/ Priority[j] > Priority[k]
  \/ /\ Priority[j] = Priority[k]
     /\ \/ j \notin fresh[u] /\ k \in fresh[u]
        \/ (j \in fresh[u] <=> k \in fresh[u]) /\ j < k

(* Faulty variant: the shields absorb in the order of their ids. *)
OrderedById(u) ==
  SetToSortSeq({k \in Sources : shields[u][k] > 0}, LAMBDA j, k : j < k)

Ordered(u) ==
  LET up == {k \in Sources : shields[u][k] > 0}
  IN  CHOOSE s \in [1..Cardinality(up) -> up] :
        \A i, j \in 1..Cardinality(up) : i < j => Precedes(u, s[i], s[j])

Bypasses(family) == family = "hp_loss"

(* A shield takes what it holds of what still arrives. *)
Absorbed(r, family, k) ==
  IF family \notin Absorbs[k] THEN r
  ELSE [rest |-> r.rest - Least(r.left[k], r.rest),
        left |-> [r.left EXCEPT ![k] = @ - Least(@, r.rest)]]

(* What amount of damage leaves of the shields of u, and what passes them. *)
Route(u, family, amount) ==
  LET order == Ordered(u)
      start == [rest |-> amount, left |-> shields[u]]
      after[n \in 0..Len(order)] ==
        IF n = 0 THEN start ELSE Absorbed(after[n - 1], family, order[n])
  IN  IF Bypasses(family) THEN start ELSE after[Len(order)]

(***************************************************************************)
(* Damage.                                                                 *)
(***************************************************************************)
(* A news item is an event that waits for its dispatch; window says whether *)
(* its listeners are handed the window ledger.                              *)
News(kind, u, window) == [kind |-> kind, of |-> u, window |-> window]

ShieldNews(u, left, window) ==
  IF left = shields[u] THEN <<>>
  ELSE <<News("shield.change", u, window)>>
       \o (IF \E k \in Sources : shields[u][k] > 0 /\ left[k] = 0
           THEN <<News("shield.exhausted", u, window)>> ELSE <<>>)

(* A packet is fatal when it takes the hit points from positive to zero. *)
Fatal(u, rest) == hp[u] > 0 /\ hp[u] <= rest

(* The events of an applied packet: those of its shield mutation, the hit,  *)
(* and, when it is fatal, the defeat, which dying announces.                *)
HitNews(u, route, window) ==
  ShieldNews(u, route.left, window) \o <<News("damage.hit", u, window)>>
  \o (IF Fatal(u, route.rest)
      THEN <<News("unit.before_dying", u, window),
             News("unit.defeated", u, window)>> ELSE <<>>)

Living(u) == life[u] = "active"

(* Faulty variant: every defeat is recorded under the running action. *)
RecordedForTheAction(u, fatal, window, by) ==
  IF fatal /\ window THEN [ledger EXCEPT ![u] = "action"] ELSE ledger

(* The ledger's record is written from the result's defeat event, so only   *)
(* where a ledger is handed down.                                           *)
Recorded(u, fatal, window, by) ==
  IF fatal /\ window
  THEN [ledger EXCEPT ![u] = IF by = "action" THEN "action" ELSE "other"]
  ELSE ledger

(* Faulty variant: the hit points are not floored at zero. *)
WoundUnfloored(u, route, window, by) ==
  /\ hp' = [hp EXCEPT ![u] = @ - route.rest]
  /\ shields' = [shields EXCEPT ![u] = route.left]
  /\ fresh' = [fresh EXCEPT ![u] = {k \in @ : route.left[k] > 0}]
  /\ life' = IF Fatal(u, route.rest)
             THEN [life EXCEPT ![u] = "defeated"] ELSE life
  /\ fell' = IF Fatal(u, route.rest) THEN [fell EXCEPT ![u] = by] ELSE fell
  /\ ledger' = Recorded(u, Fatal(u, route.rest), window, by)
  /\ UNCHANGED <<toughness, broken, refused>>

(* DamageSystem.apply_packet on a unit that can receive damage. *)
Wound(u, route, window, by) ==
  /\ hp' = [hp EXCEPT ![u] = IF @ > route.rest THEN @ - route.rest ELSE 0]
  /\ shields' = [shields EXCEPT ![u] = route.left]
  /\ fresh' = [fresh EXCEPT ![u] = {k \in @ : route.left[k] > 0}]
  /\ life' = IF Fatal(u, route.rest)
             THEN [life EXCEPT ![u] = "defeated"] ELSE life
  /\ fell' = IF Fatal(u, route.rest) THEN [fell EXCEPT ![u] = by] ELSE fell
  /\ ledger' = Recorded(u, Fatal(u, route.rest), window, by)
  /\ UNCHANGED <<toughness, broken, refused>>

(***************************************************************************)
(* The executor's loop over the damage plan.                               *)
(***************************************************************************)
Settling(s) == due = <<>> /\ at <= Len(plan) /\ stage = s
Current == plan[at]

AfterHit == IF Current.aims THEN "aim" ELSE "before"
AimNews == IF Current.aims
           THEN <<News("toughness.before_hit", Current.to, FALSE)>> ELSE <<>>
Moved(next) ==
  /\ stage' = next
  /\ at' = IF next = "before" THEN at + 1 ELSE at

(* A new action, planned against units that can be targeted; its window     *)
(* gets a new ledger.  An action with a blocked break is an incomplete      *)
(* graph and is never published: the battle goes on from what it began      *)
(* with, so that nothing follows it here.                                   *)
BeginAction ==
  /\ due = <<>> /\ at > Len(plan) /\ actions < MaxActions
  /\ refused = {}
  /\ \E p \in Plans :
       /\ \A i \in 1..Len(p) : Living(p[i].to)
       /\ plan' = p
  /\ at' = 1 /\ stage' = "before" /\ actions' = actions + 1
  /\ ledger' = [u \in Units |-> "none"]
  /\ fell' = [u \in Units |-> IF fell[u] = "action" THEN "earlier" ELSE fell[u]]
  /\ UNCHANGED <<hp, life, toughness, broken, refused, shields, fresh,
                 due, answers, told>>

(* The listeners hear of the hit before it is settled.  A plan left with    *)
(* toughness only goes straight to it.                                      *)
BeforeHit ==
  /\ Settling("before")
  /\ IF Current.hurts
     THEN /\ due' = <<News("damage.before_hit", Current.to, TRUE)>>
          /\ Moved("hit")
     ELSE /\ due' = AimNews
          /\ Moved(AfterHit)
  /\ UNCHANGED <<plan, bodies, actions, answers, told>>

(* The mutations' events come first, the shield's among them; then those    *)
(* of the result, the shield's again.  Kill energy, when the actor has room *)
(* for it, is announced just before the defeat, without the ledger.         *)
ActionNews(u, route, gains) ==
  LET fatal == Fatal(u, route.rest) IN
  ShieldNews(u, route.left, TRUE)
  \o (IF hp[u] > 0 /\ route.rest > 0
      THEN <<News("hp.change", u, TRUE)>> ELSE <<>>)
  \o ShieldNews(u, route.left, TRUE)
  \o <<News("damage.hit", u, TRUE)>>
  \o (IF fatal THEN <<News("unit.before_dying", u, TRUE)>> ELSE <<>>)
  \o (IF fatal /\ gains THEN <<News("resource.change", u, FALSE)>> ELSE <<>>)
  \o (IF fatal THEN <<News("unit.defeated", u, TRUE)>> ELSE <<>>)

Hit ==
  /\ Settling("hit") /\ Living(Current.to)
  /\ \E amount \in Amounts, gains \in BOOLEAN :
       LET route == Route(Current.to, "direct", amount) IN
       /\ Wound(Current.to, route, TRUE, "action")
       /\ due' = ActionNews(Current.to, route, gains) \o AimNews
  /\ Moved(AfterHit)
  /\ UNCHANGED <<plan, actions, answers, told>>

(* dead_target_continuation: the packets of the sequence that defeated the  *)
(* unit still raise their hit event, and change nothing.                    *)
Continues(u) == ledger[u] = "action"

(* Faulty variant: a continuing packet announces the defeat again. *)
HitTheDeadAgain ==
  /\ Settling("hit") /\ ~ Living(Current.to)
  /\ due' = (IF Continues(Current.to)
             THEN <<News("damage.hit", Current.to, TRUE),
                    News("unit.defeated", Current.to, TRUE)>> ELSE <<>>)
            \o AimNews
  /\ Moved(AfterHit)
  /\ UNCHANGED <<plan, bodies, actions, answers, told>>

HitTheDead ==
  /\ Settling("hit") /\ ~ Living(Current.to)
  /\ due' = (IF Continues(Current.to)
             THEN <<News("damage.hit", Current.to, TRUE)>> ELSE <<>>)
            \o AimNews
  /\ Moved(AfterHit)
  /\ UNCHANGED <<plan, bodies, actions, answers, told>>

(* ToughnessSystem.apply_packet: it never looks at the lifecycle.  A stance *)
(* of zero stands for a packet that does not pass: an element the unit is   *)
(* not weak to, or an amount that comes to nothing.                         *)
Yields(u) ==
  /\ MaxToughness[u] > 0 /\ toughness[u] > 0 /\ u \notin Locked
  /\ Current.stance > 0

Aim ==
  /\ Settling("aim")
  /\ LET u == Current.to IN
     IF Yields(u)
     THEN /\ toughness' = [toughness EXCEPT ![u] =
                             @ - Least(@, Current.stance)]
          /\ due' = <<News("toughness.hit", u, FALSE)>>
          /\ Moved("break")
     ELSE Moved("before") /\ UNCHANGED <<toughness, due>>
  /\ UNCHANGED <<plan, hp, life, broken, refused, shields, fresh, ledger,
                 actions, answers, told, fell>>

(* Faulty variant: a defeated unit is not broken. *)
MayBreakAlive(u) ==
  toughness[u] = 0 /\ ~ broken[u] /\ u \notin Locked /\ Living(u)

(* What the unit itself must fulfil; if it does not, the break is skipped.  *)
MayBreak(u) == toughness[u] = 0 /\ ~ broken[u] /\ u \notin Locked

(* BreakSystem.enter_break: the flag first, then the status emissions,      *)
(* whose OnStack callback may answer.  Without an executable template for   *)
(* the packet's element the break is blocked, and with it the action.       *)
EnterBreak ==
  /\ Settling("break")
  /\ LET u == Current.to IN
     \/ /\ ~ MayBreak(u) /\ Moved("before")
        /\ UNCHANGED <<broken, refused, due>>
     \/ /\ MayBreak(u) /\ ~ Current.breaks /\ Moved("before")
        /\ refused' = refused \cup {u}
        /\ UNCHANGED <<broken, due>>
     \/ /\ MayBreak(u) /\ Current.breaks /\ Moved("rupture")
        /\ broken' = [broken EXCEPT ![u] = TRUE]
        /\ \E stacks \in BOOLEAN :
             due' = IF stacks
                    THEN <<News("status.callback.OnStack", u, FALSE)>>
                    ELSE <<>>
        /\ UNCHANGED refused
  /\ UNCHANGED <<plan, hp, life, toughness, shields, fresh, ledger,
                 actions, answers, told, fell>>

(* Faulty variant: the damage is dealt to whoever broke, dead or alive. *)
RuptureOfTheDead ==
  /\ Settling("rupture")
  /\ \E amount \in BreakAmounts :
       IF amount > 0
       THEN Wound(Current.to, Route(Current.to, "break", amount),
                  FALSE, "break")
       ELSE UNCHANGED bodies
  /\ due' = <<News("break.triggered", Current.to, FALSE)>>
  /\ Moved("before")
  /\ UNCHANGED <<plan, actions, answers, told, toughness, broken, refused>>

(* The damage emissions: the packet goes without a ledger, a dead unit is   *)
(* skipped, and the events of the result are dropped.                       *)
Rupture ==
  /\ Settling("rupture")
  /\ \E amount \in BreakAmounts :
       IF Living(Current.to) /\ amount > 0
       THEN Wound(Current.to, Route(Current.to, "break", amount),
                  FALSE, "break")
       ELSE UNCHANGED bodies
  /\ due' = <<News("break.triggered", Current.to, FALSE)>>
  /\ Moved("before")
  /\ UNCHANGED <<plan, actions, answers, told, toughness, broken, refused>>

(***************************************************************************)
(* The dispatcher.  The first of due is being dispatched; the events that a *)
(* listener's effects return are dispatched before its dispatch ends.       *)
(***************************************************************************)
Tell ==
  /\ due # <<>>
  /\ due' = Tail(due)
  /\ told' = IF Head(due).kind = "unit.defeated"
             THEN [told EXCEPT ![Head(due).of] = @ + 1] ELSE told
  /\ UNCHANGED <<plan, at, stage, bodies, actions, answers>>

Answering ==
  /\ due # <<>> /\ answers < MaxAnswers
  /\ answers' = answers + 1
  /\ UNCHANGED <<plan, at, stage, actions, told>>

(* A listener's damage; its sequence is never the action's, so the dead are *)
(* spared.  The ledger is the one its window was handed.                    *)
Hurt ==
  /\ Answering
  /\ \E u \in Units, family \in ListenerFamilies, amount \in Amounts :
       LET route == Route(u, family, amount)
           window == Head(due).window IN
       /\ Living(u)
       /\ Wound(u, route, window, "listener")
       /\ due' = HitNews(u, route, window) \o due

(* A heal reaches the defeated too, and gives them hit points. *)
Heal ==
  /\ Answering
  /\ \E u \in Units, amount \in Amounts :
       /\ hp[u] < MaxHp /\ amount > 0
       /\ hp' = [hp EXCEPT ![u] = Least(MaxHp, @ + amount)]
       /\ due' = <<News("heal.after", u, Head(due).window)>> \o due
  /\ UNCHANGED <<life, toughness, broken, refused, shields, fresh, ledger,
                 fell>>

(* ShieldSystem.apply_effect: replace, stack or, in either direction,       *)
(* modify the shield of one source; a source that had none makes a fresh    *)
(* one, and only replacing and stacking can make one.                       *)
Reworked(left, amount) ==
  (IF amount > 0 THEN {amount, left + amount} ELSE {})
  \cup (IF left > 0 THEN {left + amount, left - Least(left, amount)} ELSE {})

Shield ==
  /\ Answering
  /\ \E u \in Units, k \in Sources, amount \in Amounts :
       \E left \in Reworked(shields[u][k], amount) \ {shields[u][k]} :
         /\ shields' = [shields EXCEPT ![u][k] = left]
         /\ fresh' = [fresh EXCEPT ![u] =
                        IF left = 0 THEN @ \ {k}
                        ELSE IF shields[u][k] = 0 THEN @ \cup {k} ELSE @]
         /\ due' = <<News("shield.change", u, Head(due).window)>> \o due
  /\ UNCHANGED <<hp, life, toughness, broken, refused, ledger, fell>>

(* RemoveShield, for the shields one status made.  It is not a consumption: *)
(* nothing counts as exhausted.                                             *)
Unshield ==
  /\ Answering
  /\ \E u \in Units, made \in SUBSET Sources \ {{}} :
       /\ \A k \in made : shields[u][k] > 0
       /\ shields' = [shields EXCEPT ![u] =
                        [k \in Sources |-> IF k \in made THEN 0
                                         ELSE shields[u][k]]]
       /\ fresh' = [fresh EXCEPT ![u] = @ \ made]
       /\ due' = <<News("shield.change", u, Head(due).window)>> \o due
  /\ UNCHANGED <<hp, life, toughness, broken, refused, ledger, fell>>

(* The battle before the first action: units may carry shields, and the     *)
(* toughness of none is spent.                                              *)
Init ==
  /\ plan \in Plans /\ at = 1 /\ stage = "before"
  /\ hp = [u \in Units |-> MaxHp] /\ life = [u \in Units |-> "active"]
  /\ toughness = MaxToughness /\ broken = [u \in Units |-> FALSE]
  /\ refused = {}
  /\ shields \in [Units -> [Sources -> {0} \cup Amounts]]
  /\ fresh = [u \in Units |-> {}]
  /\ ledger = [u \in Units |-> "none"]
  /\ due = <<>> /\ actions = 1 /\ answers = 0
  /\ told = [u \in Units |-> 0] /\ fell = [u \in Units |-> "no"]

Settle == BeforeHit \/ Hit \/ HitTheDead \/ Aim \/ EnterBreak \/ Rupture
Listen == Hurt \/ Heal \/ Shield \/ Unshield
Next == BeginAction \/ Settle \/ Tell \/ Listen

Spec == Init /\ [][Next]_vars

(***************************************************************************)
(* Properties.                                                             *)
(***************************************************************************)
(* The window ledger names the action for exactly the units that a packet   *)
(* of the running action defeated, so that no other hit of the plan goes on *)
(* beating a unit that a listener or the break of its stance has felled.    *)
LedgerNamesTheKiller ==
  \A u \in Units :
    /\ ledger[u] = "action" <=> fell[u] = "action"
    /\ ledger[u] = "other" => fell[u] = "listener"

(* However the windows of a settlement nest, the defeat of a unit by a hit  *)
(* or by a listener's damage is dispatched exactly once; the defeats by     *)
(* break damage, whose events are dropped, are dispatched to nobody.        *)
Defeats(s, u) ==
  {i \in 1..Len(s) : s[i].kind = "unit.defeated" /\ s[i].of = u}
Waiting(u) == Defeats(due, u)
NeverTold(u) == told[u] = 0 /\ Waiting(u) = {}
ToldOnce(u) ==
  \/ told[u] = 1 /\ Waiting(u) = {}
  \/ told[u] = 0 /\ \E i \in 1..Len(due) : Waiting(u) = {i}
DefeatsAreTold ==
  \A u \in Units :
    IF fell[u] \in {"no", "break"} THEN NeverTold(u) ELSE ToldOnce(u)

(* A unit whose toughness is spent is broken, or its break is the next thing *)
(* the settlement decides, or that break was blocked for good, which takes   *)
(* the action with it: an action that can be published leaves nobody         *)
(* depleted and unbroken, whatever listeners did between the hit and its     *)
(* break.  Nothing but spent toughness breaks, a later hit never breaks whom *)
(* an earlier one could not, and a locked unit keeps all of its toughness.   *)
BreakIsNext(u) == stage = "break" /\ at <= Len(plan) /\ Current.to = u
DepletedIsBroken ==
  \A u \in Units : MaxToughness[u] > 0 =>
    /\ broken[u] \/ u \in refused => toughness[u] = 0
    /\ broken[u] => u \notin refused
    /\ BreakIsNext(u) => ~ broken[u] /\ u \notin refused
    /\ toughness[u] = 0 => broken[u] \/ u \in refused \/ BreakIsNext(u)
    /\ u \in Locked => toughness[u] = MaxToughness[u]

(* A defeat is final, and a defeated unit is worn down by nothing: damage   *)
(* that reaches it, by a continuing sequence, a listener or a break, takes  *)
(* neither hit points nor shields; only a heal changes the former and only  *)
(* the effects that work on shields the latter.                             *)
DeadAreSpared ==
  [][\A u \in Units : ~ Living(u) =>
       /\ life'[u] = life[u] /\ fell'[u] \in {fell[u], "earlier"}
       /\ hp'[u] # hp[u] => Heal
       /\ shields'[u] # shields[u] => Shield \/ Unshield]_vars

(* What the damage of a step does to shields and hit points, told without   *)
(* the loop: some amount of some family arrived, the shields that absorb    *)
(* the family took what they held in their order, each one only when those  *)
(* before it were used up, the hit points only when all were, and nothing   *)
(* was lost or taken twice.                                                 *)
Total(taken) == MapThenSumSet(LAMBDA k : taken[k], Sources)
Drawn(u) == Total([k \in Sources |-> shields[u][k] - shields'[u][k]])
Damaged(u, family, amount) ==
  LET absorbers == IF family = "hp_loss" THEN {}
                   ELSE {k \in Sources : family \in Absorbs[k]}
      spent(k) == shields'[u][k] = 0
  IN /\ \A k \in Sources : shields'[u][k] <= shields[u][k]
     /\ \A k \in Sources : shields'[u][k] < shields[u][k] =>
          /\ k \in absorbers
          /\ \A j \in absorbers : Precedes(u, j, k) => spent(j)
     /\ hp'[u] < hp[u] => \A k \in absorbers : spent(k)
     /\ Drawn(u) + (hp[u] - hp'[u]) <= amount
     /\ Drawn(u) + (hp[u] - hp'[u]) < amount => hp'[u] = 0
ShieldsAbsorbInOrder ==
  [][\A u \in Units :
       /\ (Hit /\ u = Current.to) =>
            \E amount \in Amounts : Damaged(u, "direct", amount)
       /\ (Rupture /\ u = Current.to /\ Living(u)) =>
            \E amount \in BreakAmounts : Damaged(u, "break", amount)
       /\ (Hurt /\ due'[Len(due') - Len(due)].of = u) =>
            \E family \in ListenerFamilies, amount \in Amounts :
              Damaged(u, family, amount)]_vars

=============================================================================
