------------------------------- MODULE Windows --------------------------------
(***************************************************************************)
(* What all windows have in common (Window): the store of the partition    *)
(* and the results that go downstream.  An aggregate is the set of the     *)
(* messages it was computed from.                                          *)
(***************************************************************************)
EXTENDS WindowedStore, WindowDefinitions

VARIABLES
    store,            \* key -> state of the key in the windowed store
    partitionExpired, \* end of the last window that expired in the partition
    counting,         \* key -> the open count windows, oldest first
    \* history
    emitted,          \* the results emitted downstream
    late              \* calls of on_late, as <<message, start>>

windowVars == <<store, partitionExpired, counting, emitted, late>>

\* _results(): a result of a window.  by tells whether time, a trigger or the count
\* closed it, or a message updated it, and at during which message.
Result(key, start, end, aggregated, collected, by) ==
    [key |-> key, start |-> start, end |-> end, aggregated |-> aggregated,
     collected |-> collected, by |-> by, at |-> Incoming]

\* final() emits the windows that a message closes, and current() those it updates.
Emitted(updated, closed) ==
    emitted' = emitted \cup (IF definition.emit = "current" THEN updated ELSE closed)

\* get_window_ranges(): the starts of the windows a timestamp belongs to
Ranges(stamp) ==
    {start \in Max({0, stamp - definition.duration + 1})..stamp :
        start % definition.step = 0}

=============================================================================
