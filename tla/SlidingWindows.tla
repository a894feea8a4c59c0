---------------------------- MODULE SlidingWindows ----------------------------
(***************************************************************************)
(* SlidingWindow.process_window(): a window for every message, which ends  *)
(* with it, kept as the left and right windows of the messages.  A window  *)
(* has the value [max, messages]: the latest timestamp in it, and its      *)
(* aggregate.  Both of its ends are inclusive.                             *)
(*                                                                         *)
(* The loop over the windows around the message, latest first, is read in  *)
(* two parts: the windows that start after the left window of the message, *)
(* and the first one that does not, which ends the loop.                   *)
(***************************************************************************)
EXTENDS Windows

Window(max, messages) == [max |-> max, messages |-> messages]

\* _aggregate_value(): nothing is aggregated where values are only collected.
Aggregate(messages, m) == IF definition.aggregate THEN messages \cup {m} ELSE {}

\* The windows that the loop visits.
Visited(state, stamp) ==
    WindowsBetween(state, Max({0, stamp - 2 * definition.duration}) - 1, stamp + 1)

\* The windows that the message falls into and that do not end with it.
Upper(state, stamp) ==
    {start \in Visited(state, stamp) :
        stamp - definition.duration < start /\ start <= stamp}

\* The window that ends the loop, as a set of at most one.
Lower(state, stamp) ==
    LET below == {start \in Visited(state, stamp) :
                     start <= stamp - definition.duration}
    IN  IF below = {} THEN {} ELSE {Max(below)}

\* Mutant: the right window is a copy of the first window visited.
RightWindowOfFirst(state, stamp) ==
    LET upper == Upper(state, stamp)
    IN  IF stamp + 1 \in Visited(state, stamp) \/ upper = {} THEN <<>>
        ELSE (stamp + 1) :> state.windows[Max(upper)]

\* The right window of the message, where the messages after it are counted, if
\* there are any: a copy of the latest window that knows of one.
RightWindow(state, stamp) ==
    LET sources == {start \in Upper(state, stamp) :
                       state.windows[start].max > stamp}
    IN  IF stamp + 1 \in Visited(state, stamp) \/ sources = {} THEN <<>>
        ELSE (stamp + 1) :> state.windows[Max(sources)]

\* The windows of Upper that are not closed, with the message.
UpperWindows(state, stamp, maxStart, m) ==
    [start \in {s \in Upper(state, stamp) : s > maxStart} |->
        Window(Max({state.windows[start].max, stamp}),
               Aggregate(state.windows[start].messages, m))]

\* Mutant: the right window of the previous message is forgotten.
PreviousRightNever(state, stamp, m) == <<>>

\* The right window of the message before, which has this message in it.
PreviousRight(state, stamp, m) ==
    LET starts == {state.windows[low].max + 1 : low \in Lower(state, stamp)}
        missing == {start \in starts \ Visited(state, stamp) :
                       /\ start # stamp - definition.duration
                       /\ start <= stamp
                       /\ start + definition.duration >= stamp}
    IN  [start \in missing |-> Window(stamp, Aggregate({}, m))]

\* Mutant: the last timestamp within the grace period gets no left window.
LeftWindowLate(state, stamp, maxStart, m) ==
    LET left  == stamp - definition.duration
        lower == Lower(state, stamp)
        old   == UNION {state.windows[low].messages :
                           low \in {l \in lower : state.windows[l].max >= left}}
    IN  IF left <= maxStart + 1 /\ (lower = {} \/ left \in lower) THEN <<>>
        ELSE left :> Window(stamp, Aggregate(old, m))

\* The left window of the message: it is there already, or goes on from the window
\* before it if that reaches into it, or starts anew.  Once it is closed it is not
\* updated, nor created unless there is a window before it.
LeftWindow(state, stamp, maxStart, m) ==
    LET left  == stamp - definition.duration
        lower == Lower(state, stamp)
        old   == UNION {state.windows[low].messages :
                           low \in {l \in lower : state.windows[l].max >= left}}
    IN  IF left <= maxStart /\ (lower = {} \/ left \in lower) THEN <<>>
        ELSE left :> Window(stamp, Aggregate(old, m))

\* Calls of on_late for windows of the message that are closed.
LateWindows(state, stamp, maxStart) ==
    {start \in Upper(state, stamp) \cup
               (Lower(state, stamp) \cap {stamp - definition.duration}) :
        start <= maxStart}

\* Up to where windows are deleted: one duration behind the closed ones, unless the
\* loop found that older windows are not needed for their aggregations.
DeletedUpTo(state, stamp, maxStart) ==
    LET older == {low \in Lower(state, stamp) : low < stamp - definition.duration}
    IN  IF older = {} THEN maxStart - definition.duration
        ELSE Min({Max(older) - 1, maxStart})

\* The store of the key with the message, before the expiration.
Slid(state, stamp, maxStart, m) ==
    LET new     == LeftWindow(state, stamp, maxStart, m)
                   @@ PreviousRight(state, stamp, m)
                   @@ UpperWindows(state, stamp, maxStart, m)
                   @@ RightWindow(state, stamp)
        updated == UpdateWindows(state, new, stamp)
    IN  IF definition.collect THEN AddToCollection(updated, stamp, m) ELSE updated

\* The results of the closed windows that end with a message.
Finals(key, state, maxStart) ==
    {Result(key, start, start + definition.duration,
            state.windows[start].messages,
            IF definition.collect
            THEN Collection(state, start, start + definition.duration + 1) ELSE {},
            "time") :
        start \in {s \in Expired(state, maxStart) :
                      s + definition.duration = state.windows[s].max}}

\* The results of the windows that the message updates and that end with a message.
Updates(key, state, slid, stamp, maxStart) ==
    LET m == Incoming
        starts == DOMAIN LeftWindow(state, stamp, maxStart, m)
                  \cup {start \in DOMAIN UpperWindows(state, stamp, maxStart, m) :
                           start + definition.duration = slid.windows[start].max}
    IN  {Result(key, start, start + definition.duration, slid.windows[start].messages, {},
                "update") : start \in starts}

\* process_window()
ProcessSlidingWindow(key, stamp) ==
    LET maxStart == Max({stamp, store[key].latest}) - definition.grace - 1
                    - definition.duration
        m        == Incoming
        state    == store[key]
        slid     == Slid(state, stamp, maxStart, m)
        closed   == ExpireWindows(slid, maxStart, FALSE, definition.collect)
    IN  /\ definition.kind = "sliding"
        /\ IF stamp <= maxStart
           THEN /\ late' = late \cup {<<m, stamp - definition.duration>>}
                /\ UNCHANGED <<store, emitted>>
           ELSE /\ late' = late \cup
                       {<<m, start>> : start \in LateWindows(state, stamp, maxStart)}
                /\ Emitted(Updates(key, state, slid, stamp, maxStart),
                           Finals(key, slid, maxStart))
                /\ store' = [store EXCEPT ![key] =
                       DeleteWindows(closed, DeletedUpTo(state, stamp, maxStart),
                                     definition.collect)]
        /\ Arrives([key |-> key, stamp |-> stamp])
        /\ UNCHANGED <<definition, partitionExpired, counting>>

=============================================================================
