------------------------- MODULE MCDispatchClaims -------------------------
(* What the documents say of the dispatch of events and the code does not   *)
(* do.                                                                      *)
EXTENDS MCEventDispatch

\* v8_event_dispatch_foundation_closure_checkpoint_v0_238.md:9 gives the order of
\* the listeners: scope priority, unit order, status order, callback order.  The
\* callbacks the next listener runs come, in that order, before those of every
\* listener still to run.
DocumentedKey(f, m, c) ==
    <<ScopePriority(c), Position(UnitOrder, Owner[m.inst]),
      Position(f.statuses[Owner[m.inst]], m.inst), Rank[c]>>

ListenersInDocumentedOrder ==
    \A k \in 1..Depth : stack[k].stage = "listen" /\ stack[k].pending # {} =>
        LET f == stack[k].before
            m == Foremost(f, stack[k].pending)
        IN  \A o \in stack[k].pending \ {m}, c \in Group(m) : \A d \in Group(o) :
                Less(DocumentedKey(f, m, c), DocumentedKey(f, o, d))
=============================================================================
