--------------------------- MODULE EventDispatch ---------------------------
(***************************************************************************)
(* The dispatch of one event to the callbacks of the attached statuses     *)
(* (systems/event_dispatch.py), the callback groups it runs                *)
(* (systems/status_callbacks.py, execute) and the ability property         *)
(* watchers it reconciles before it returns                                *)
(* (systems/ability_property_watchers.py).                                 *)
(*                                                                         *)
(* The code recurses: an event a callback emits is dispatched, depth       *)
(* first, before the next listener is run.  Every call in progress is a    *)
(* frame of `stack', the innermost last, and one step of the specification *)
(* is one turn of a loop of the innermost call.  What a callback does is   *)
(* data of the rules: the constant Effects gives the changes it may make,  *)
(* one of which is chosen, and any callback may fail instead.              *)
(***************************************************************************)
EXTENDS Integers, Sequences, FiniteSets, SequencesExt

CONSTANTS
    UnitOrder,  \* the unit ids of the battle, sorted, without repetition
    Instances,  \* the status instances that may be attached
    NoInstance, \* where a change concerns no status
    Owner,      \* the unit that carries a status instance
    Modifier,   \* the modifier a status instance is an instance of
    Boosting,   \* the status instances that raise the property of their owner
    Watched,    \* the status instances with a watcher on that property
    Callbacks,  \* the callbacks of the modifiers and of the watchers' ranges
    Of,         \* the modifier a callback belongs to
    On,         \* the event type it listens to
    Scope,      \* "owner_local" or "global_listener"
    Rank,       \* its execution_order among the callbacks of its modifier
    Executable, \* the callbacks the rules admit
    Enter, Exit,\* the callbacks of a watched instance's range
    Effects,    \* the changes a callback may make
    MaxDepth    \* MAX_CALLBACK_EMITTED_EVENT_DEPTH: 16 in the code

Units == Range(UnitOrder)
Modifiers == Range(Modifier)

\* status.lifecycle and battle.start come from a caller only: what callbacks
\* emit is dispatched when it is in CALLBACK_EMITTED_EVENT_TYPES, of which
\* hp.change stands for the events that report a mutation.
Emittable == {"hp.change", "custom.event"}
EventTypes == Emittable \cup {"status.lifecycle", "battle.start"}

\* A change of a unit, or of a status; only a watcher records what it has seen.
UnitKinds == {"none", "custom", "raise", "lower"}
StatusKinds == {"attach", "detach"}
RecordKinds == {"seen_in", "seen_out"}

Effecting == [kind : UnitKinds, unit : Units, inst : {NoInstance}]
             \cup [kind : StatusKinds, unit : Units, inst : Instances]
Changes == Effecting \cup [kind : RecordKinds, unit : Units, inst : Instances]

AnyModifier == "*"

\* An event, with the modifier dispatch_status_callback restricts it to.
Events == [type : EventTypes, unit : Units,
           only : Modifiers \cup {AnyModifier}]

ASSUME UnitsAssumption == UnitOrder \in Seq(Units)
ASSUME StatusAssumption ==
    /\ Owner \in [Instances -> Units]
    /\ DOMAIN Modifier = Instances
    /\ Boosting \subseteq Instances /\ Watched \subseteq Instances
    /\ NoInstance \notin Instances /\ AnyModifier \notin Modifiers
ASSUME CallbackAssumption ==
    /\ On \in [Callbacks -> EventTypes]
    /\ Scope \in [Callbacks -> {"owner_local", "global_listener"}]
    /\ Rank \in [Callbacks -> Nat]
    /\ Executable \subseteq Callbacks
    /\ Enter \in [Watched -> Callbacks] /\ Exit \in [Watched -> Callbacks]
    /\ Effects \in [Callbacks -> SUBSET Effecting]
ASSUME DepthAssumption == MaxDepth \in Nat

VARIABLES
    field,  \* the battle state, as far as listeners and watchers read it
    stack   \* the dispatch calls in progress

vars == <<field, stack>>

-----------------------------------------------------------------------------
(* The battle state: the statuses of each unit in the order of their list, *)
(* the value of the watched property (low or high), and what each watcher  *)
(* last recorded.                                                          *)

Recorded == {"none", "in", "out"}

Fields == [statuses : [Units -> Seq(Instances)],
           high : SUBSET Units,
           seen : [Instances -> Recorded]]

Attached(f, i) == i \in Range(f.statuses[Owner[i]])

\* Whether the property of the unit lies in the range its watchers watch.
InRange(f, u) == u \in f.high \/ \E i \in Boosting : Owner[i] = u /\ Attached(f, i)

Actual(f, i) == IF InRange(f, Owner[i]) THEN "in" ELSE "out"

Settled(f, i) == Attached(f, i) => f.seen[i] = Actual(f, i)

\* Whether a change alters the state: only then is it a mutation.
Alters(f, ch) ==
    CASE ch.kind = "raise"  -> ch.unit \notin f.high
      [] ch.kind = "lower"  -> ch.unit \in f.high
      [] ch.kind = "attach" -> ~Attached(f, ch.inst)
      [] ch.kind = "detach" -> Attached(f, ch.inst)
      [] ch.kind = "seen_in"  -> f.seen[ch.inst] # "in"
      [] ch.kind = "seen_out" -> f.seen[ch.inst] # "out"
      [] OTHER -> FALSE

Position(s, x) == CHOOSE k \in DOMAIN s : s[k] = x

\* The lists and the records of the watchers when the list of a status's owner
\* becomes another; a status that comes or goes has no record.
Relisted(f, i, list) ==
    [statuses |-> [f.statuses EXCEPT ![Owner[i]] = list],
     high |-> f.high,
     seen |-> [f.seen EXCEPT ![i] = "none"]]

Listed(f, i) == Relisted(f, i, Append(f.statuses[Owner[i]], i))

Delisted(f, i) ==
    LET list == f.statuses[Owner[i]]
    IN  Relisted(f, i, RemoveAt(list, Position(list, i)))

\* The state after a mutation.
Reduced(f, ch) ==
    CASE ch.kind = "raise"  -> [f EXCEPT !.high = @ \cup {ch.unit}]
      [] ch.kind = "lower"  -> [f EXCEPT !.high = @ \ {ch.unit}]
      [] ch.kind = "attach" -> Listed(f, ch.inst)
      [] ch.kind = "detach" -> Delisted(f, ch.inst)
      [] ch.kind = "seen_in"  -> [f EXCEPT !.seen[ch.inst] = "in"]
      [] ch.kind = "seen_out" -> [f EXCEPT !.seen[ch.inst] = "out"]

\* The dispatchable events of a callback that makes the change: the event that
\* reports a mutation of the property, or the custom event it sends.  The
\* status.lifecycle event of an attached status is emitted and not dispatched.
Emitted(f, ch) ==
    CASE ch.kind \in {"raise", "lower"} /\ Alters(f, ch) ->
            <<[type |-> "hp.change", unit |-> ch.unit, only |-> AnyModifier]>>
      [] ch.kind = "custom" ->
            <<[type |-> "custom.event", unit |-> ch.unit, only |-> AnyModifier]>>
      [] OTHER -> <<>>

Mutations(f, ch, by) ==
    IF Alters(f, ch) THEN <<[change |-> ch, by |-> by]>> ELSE <<>>

After(f, ch) == IF Alters(f, ch) THEN Reduced(f, ch) ELSE f

-----------------------------------------------------------------------------
(* The listeners of an event: pairs of a callback and the status instance  *)
(* that carries it, resolved in the state the dispatch begins in.          *)

Matches == [cb : Callbacks, inst : Instances]

InScope(m, e) ==
    Scope[m.cb] = "owner_local" => Owner[m.inst] = e.unit

\* dispatch_status_callback takes the first status of the unit with the
\* modifier, whatever the scope.
FirstOf(f, u, mod) ==
    {i \in Instances : \E k \in DOMAIN f.statuses[u] :
        /\ f.statuses[u][k] = i /\ Modifier[i] = mod
        /\ \A j \in 1..(k - 1) : Modifier[f.statuses[u][j]] # mod}

Listening(f, e) ==
    {m \in Matches :
        /\ Of[m.cb] = Modifier[m.inst] /\ On[m.cb] = e.type
        /\ IF e.only = AnyModifier THEN Attached(f, m.inst) /\ InScope(m, e)
                                   ELSE m.inst \in FirstOf(f, e.unit, e.only)}

Matched(f, e) == {m \in Listening(f, e) : m.cb \in Executable}

\* A listener the rules do not admit, or an explicit status that is not
\* there, is an error of the dispatch.
BlockedMatch(f, e) ==
    \/ \E m \in Listening(f, e) : m.cb \notin Executable
    \/ e.only # AnyModifier /\ FirstOf(f, e.unit, e.only) = {}

\* `unit_order or 999999': the index of the first unit is 0, which is false,
\* so that its listeners sort behind those of every other unit.
UnitKey(i) ==
    LET k == Position(UnitOrder, Owner[i])
    IN  IF k = 1 THEN Len(UnitOrder) + 1 ELSE k

ScopePriority(c) == IF Scope[c] = "owner_local" THEN 60 ELSE 90

SortKey(f, m) == <<ScopePriority(m.cb), UnitKey(m.inst),
                   Position(f.statuses[Owner[m.inst]], m.inst), Rank[m.cb]>>

Less(a, b) == \E k \in 1..4 : a[k] < b[k] /\ \A j \in 1..(k - 1) : a[j] = b[j]

\* The listener the sorted list puts next, among those still to run.
Foremost(f, ms) ==
    CHOOSE m \in ms : \A o \in ms : ~Less(SortKey(f, o), SortKey(f, m))

-----------------------------------------------------------------------------
(* The calls in progress.                                                  *)

Stages == {"listen", "group", "watch", "after"}
Altering == {ch \in Changes : ch.kind \notin {"none", "custom"}}
Logs == Seq([change : Altering, by : {"listener", "watcher"}])

Frames == [event : Events,          \* the event being dispatched
           depth : Nat,             \* its mutation_event_depth
           before : Fields,         \* the state the dispatch began in
           stage : Stages,          \* the loop the call is in
           pending : SUBSET Matches,\* the listeners still to run
           group : SUBSET Callbacks,\* callbacks the running listener still runs
           mark : [field : Fields, log : Logs],  \* what the group began with
           fault : BOOLEAN,         \* whether a callback of the group failed
           sent : Seq(Events),      \* what its callbacks emitted
           children : Seq(Events),  \* what is still to be dispatched
           units : SUBSET Units,    \* the units whose watchers are due
           todo : SUBSET Watched,   \* the statuses of the present one
           failed : BOOLEAN,        \* whether the dispatch has errors
           log : Logs]              \* the mutations it made

Frame(f, e, d) ==
    [event |-> e, depth |-> d, before |-> f, stage |-> "listen",
     pending |-> Matched(f, e), group |-> {},
     mark |-> [field |-> f, log |-> <<>>], fault |-> FALSE,
     sent |-> <<>>, children |-> <<>>, units |-> {}, todo |-> {},
     failed |-> BlockedMatch(f, e), log |-> <<>>]

Depth == Len(stack)
Top == stack[Depth]
WithTop(fr) == [stack EXCEPT ![Depth] = fr]

\* callback_emitted_event_depth_exceeded: nothing of what was sent is dispatched.
TooDeep(fr) == fr.sent # <<>> /\ fr.depth >= MaxDepth

\* What the listeners or the watchers of a call have sent is dispatched next.
Dispatching(fr) ==
    [fr EXCEPT !.children = IF TooDeep(fr) THEN <<>> ELSE fr.sent,
               !.failed = @ \/ TooDeep(fr),
               !.sent = <<>>]

\* execute(): all callbacks the modifier has for the event, in their order, on
\* the instance the match names.
Group(m) == {c \in Callbacks : Of[c] = Of[m.cb] /\ On[c] = On[m.cb]}

FirstRanked(cs) == CHOOSE c \in cs : \A o \in cs : Rank[c] <= Rank[o]

\* Faulty variant: only the unit of the event is rechecked.
TouchedByEvent(fr) ==
    CASE fr.event.type = "battle.start" -> UnitOrder
      [] fr.event.type \in {"status.lifecycle", "hp.change"} -> <<fr.event.unit>>
      [] OTHER -> <<>>

\* The units whose watchers a dispatch rechecks, in the order they are met.
UnitOf(ch) == IF ch.inst = NoInstance THEN ch.unit ELSE Owner[ch.inst]
Touched(fr) ==
    (CASE fr.event.type = "battle.start" -> UnitOrder
       [] fr.event.type \in {"status.lifecycle", "hp.change"} -> <<fr.event.unit>>
       [] OTHER -> <<>>)
    \o [k \in DOMAIN fr.log |-> UnitOf(fr.log[k].change)]

\* Faulty variant: the unit is not taken off.
Kept(us, u) == us
Dropped(us, u) == us \ {u}

\* The unit that was met first, of those still due.
Earliest(fr) ==
    CHOOSE u \in fr.units :
        \E k \in DOMAIN Touched(fr) :
            /\ Touched(fr)[k] = u
            /\ \A j \in 1..(k - 1) : Touched(fr)[j] \notin fr.units

\* The watched statuses still to be looked at; one that a watcher's callback has
\* removed is not.  The first in the unit's list is looked at first.
Due(fr) == {i \in fr.todo : Attached(field, i)}

FirstDue(i) ==
    /\ i \in Due(Top)
    /\ \A j \in Due(Top) : Position(field.statuses[Owner[i]], i)
                               <= Position(field.statuses[Owner[j]], j)

-----------------------------------------------------------------------------
\* Types; and the list of a unit holds statuses of that unit only, each once.
TypeOK ==
    /\ field \in Fields /\ stack \in Seq(Frames)
    /\ \A u \in Units : /\ IsInjective(field.statuses[u])
                        /\ \A i \in Range(field.statuses[u]) : Owner[i] = u

Init == /\ field = [statuses |-> [u \in Units |-> <<>>], high |-> {},
                    seen |-> [i \in Instances |-> "none"]]
        /\ stack = <<>>

\* A caller changes the state, or does not, and has an event dispatched; the
\* dispatch may be refused for its payload or the combat phase, in which case
\* nothing follows.
Call(e, ch) ==
    /\ stack = <<>>
    /\ e.type = "hp.change" => ch.kind \in {"raise", "lower"} /\ ch.unit = e.unit
    /\ e.type = "status.lifecycle" =>
            ch.kind \in {"attach", "detach"} /\ UnitOf(ch) = e.unit
    /\ e.type \in {"custom.event", "battle.start"} => ch.kind = "none"
    /\ field' = After(field, ch)
    /\ stack' = <<Frame(field', e, 0)>>

\* The next listener of the sorted list is run: its group begins.
RunListener ==
    /\ stack # <<>> /\ Top.stage = "listen" /\ Top.children = <<>>
    /\ Top.pending # {}
    /\ LET m == Foremost(Top.before, Top.pending)
       IN  stack' = WithTop([Top EXCEPT !.stage = "group",
                                        !.pending = @ \ {m},
                                        !.group = Group(m),
                                        !.mark = [field |-> field, log |-> Top.log]])
    /\ UNCHANGED field

\* The next callback of the group makes its change, or fails; the group goes on
\* either way.
RunCallback ==
    /\ stack # <<>> /\ Top.stage = "group" /\ Top.group # {}
    /\ LET c == FirstRanked(Top.group)
           rest == [Top EXCEPT !.group = @ \ {c}]
       IN  \/ /\ stack' = WithTop([rest EXCEPT !.fault = TRUE])
              /\ UNCHANGED field
           \/ \E ch \in Effects[c] :
                /\ c \in Executable
                /\ field' = After(field, ch)
                /\ stack' = WithTop([rest EXCEPT
                                !.sent = @ \o Emitted(field, ch),
                                !.log = @ \o Mutations(field, ch, "listener")])

\* The group is over: a failure puts back the state it began with.
CloseGroup ==
    /\ stack # <<>> /\ Top.stage = "group" /\ Top.group = {}
    /\ LET closed == [Top EXCEPT !.stage = "listen", !.fault = FALSE,
                                 !.mark = [field |-> Top.before, log |-> <<>>]]
       IN  IF Top.fault
           THEN /\ field' = Top.mark.field
                /\ stack' = WithTop([closed EXCEPT !.failed = TRUE, !.sent = <<>>,
                                                   !.log = Top.mark.log])
           ELSE stack' = WithTop(Dispatching(closed)) /\ UNCHANGED field

\* The next event that was emitted is dispatched, one level deeper, or refused.
DispatchChild ==
    /\ stack # <<>> /\ Top.stage \in {"listen", "after"} /\ Top.children # <<>>
    /\ LET rest == [Top EXCEPT !.children = Tail(@)]
       IN  \/ stack' = Append(WithTop(rest),
                              Frame(field, Head(Top.children), Top.depth + 1))
           \/ stack' = WithTop([rest EXCEPT !.failed = TRUE])
    /\ UNCHANGED field

\* The listeners are done.  Without an error the watchers of every unit that was
\* touched are due.
BeginWatch ==
    /\ stack # <<>> /\ Top.stage = "listen" /\ Top.children = <<>>
    /\ Top.pending = {} /\ ~Top.failed
    /\ stack' = WithTop([Top EXCEPT !.stage = "watch",
                                    !.units = Range(Touched(Top))])
    /\ UNCHANGED field

WatchUnit ==
    /\ stack # <<>> /\ Top.stage = "watch" /\ Due(Top) = {} /\ Top.units # {}
    /\ LET u == Earliest(Top)
       IN  stack' = WithTop([Top EXCEPT
                !.units = Dropped(@, u),
                !.todo = {i \in Watched : Owner[i] = u /\ Attached(field, i)}])
    /\ UNCHANGED field

\* A watched status: what its watcher recorded is compared with the property.
\* The first time it is only recorded; when it differs the callback of the
\* branch runs first, and the value read before it ran is recorded, unless the
\* callback removed the status.
SeenAs(i, r) == [kind |-> IF r = "in" THEN "seen_in" ELSE "seen_out",
                 unit |-> Owner[i], inst |-> i]

Branch(i, r) == IF r = "in" THEN Enter[i] ELSE Exit[i]

Recording(f, i, r) == IF Attached(f, i) THEN After(f, SeenAs(i, r)) ELSE f
RecordingLog(f, i, r) ==
    IF Attached(f, i) THEN Mutations(f, SeenAs(i, r), "watcher") ELSE <<>>

Compare(i) ==
    /\ stack # <<>> /\ Top.stage = "watch" /\ FirstDue(i)
    /\ LET r == Actual(field, i)
           rest == [Top EXCEPT !.todo = @ \ {i}]
       IN  IF field.seen[i] \in {"none", r}
           THEN /\ field' = Recording(field, i, r)
                /\ stack' = WithTop([rest EXCEPT
                                !.log = @ \o RecordingLog(field, i, r)])
           ELSE \/ /\ stack' = WithTop([rest EXCEPT !.failed = TRUE,
                                            !.stage = "after", !.todo = {},
                                            !.units = {}, !.sent = <<>>])
                   /\ UNCHANGED field
                \/ \E ch \in Effects[Branch(i, r)] :
                     LET f == After(field, ch)
                     IN  /\ Branch(i, r) \in Executable
                         /\ field' = Recording(f, i, r)
                         /\ stack' = WithTop([rest EXCEPT
                                !.sent = @ \o Emitted(field, ch),
                                !.log = @ \o Mutations(field, ch, "watcher")
                                          \o RecordingLog(f, i, r)])

WatchStatus == \E i \in Watched : Compare(i)

EndWatch ==
    /\ stack # <<>> /\ Top.stage = "watch" /\ Due(Top) = {} /\ Top.units = {}
    /\ stack' = WithTop(Dispatching([Top EXCEPT !.stage = "after", !.todo = {}]))
    /\ UNCHANGED field

\* The call is over.  With errors it hands back the state it began in and no
\* mutation, and its caller fails too; without, its mutations are the caller's.
Over(fr) ==
    /\ fr.children = <<>>
    /\ \/ fr.stage = "after"
       \/ fr.stage = "listen" /\ fr.pending = {} /\ fr.failed

\* Faulty variant: the mutations of a failed call are kept.
AnsweredWithLog(caller, fr) ==
    [caller EXCEPT !.failed = @ \/ fr.failed, !.log = @ \o fr.log]

Answered(caller, fr) ==
    IF fr.failed THEN [caller EXCEPT !.failed = TRUE]
                 ELSE [caller EXCEPT !.log = @ \o fr.log]

Return ==
    /\ stack # <<>> /\ Over(Top)
    /\ field' = IF Top.failed THEN Top.before ELSE field
    /\ stack' = IF Depth = 1 THEN <<>>
                ELSE [k \in 1..(Depth - 1) |->
                        IF k = Depth - 1 THEN Answered(stack[k], Top) ELSE stack[k]]

Step == \/ RunListener \/ RunCallback \/ CloseGroup \/ DispatchChild
        \/ BeginWatch \/ WatchUnit \/ WatchStatus \/ EndWatch \/ Return

Next == Step \/ \E e \in Events, ch \in Effecting : Call(e, ch)

\* A dispatch is a call of the program: it runs to its end once begun.
Spec == Init /\ [][Next]_vars /\ WF_vars(Step)

-----------------------------------------------------------------------------
(* Properties.                                                             *)

\* The mutations a call has made so far explain the state: replayed on the
\* state the call began in they give the present one, or the one the call it is
\* waiting for began in.  A callback group or a nested dispatch that was rolled
\* back has left neither a change nor a mutation behind.
Replay(f, log) ==
    LET redone[n \in 0..Len(log)] ==
            IF n = 0 THEN f ELSE Reduced(redone[n - 1], log[n].change)
    IN  redone[Len(log)]

LogExplainsField ==
    \A k \in 1..Depth :
        Replay(stack[k].before, stack[k].log) =
            IF k = Depth THEN field ELSE stack[k + 1].before

\* The recursion is bounded: a call is as deep as its event says, and none is
\* deeper than MAX_CALLBACK_EMITTED_EVENT_DEPTH.
DepthIsBounded ==
    /\ Depth <= MaxDepth + 1
    /\ \A k \in 1..Depth : stack[k].depth = k - 1

\* A dispatch that succeeds leaves every watcher of every unit it touched in
\* agreement with the property it watches, whatever the callbacks, the watchers
\* and the nested dispatches changed after it was compared; except where a
\* watcher's own callback attached or removed a status of that unit.
Succeeds == Depth > 0 /\ Return /\ ~Top.failed

Disturbed(u) ==
    \E k \in DOMAIN Top.log : /\ Top.log[k].by = "watcher"
                              /\ Top.log[k].change.kind \in {"attach", "detach"}
                              /\ Owner[Top.log[k].change.inst] = u

Affected == {UnitOf(Top.log[k].change) : k \in DOMAIN Top.log}
            \cup IF Top.event.type = "custom.event" THEN {} ELSE {Top.event.unit}

TouchedWatchersSettle ==
    [][Succeeds => \A i \in Watched : Owner[i] \in Affected =>
            Disturbed(Owner[i]) \/ Settled(field, i)]_vars

\* Every dispatch comes to an end, however its callbacks trigger each other.
EveryDispatchReturns == stack # <<>> ~> stack = <<>>
=============================================================================
