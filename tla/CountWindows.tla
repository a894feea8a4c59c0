----------------------------- MODULE CountWindows -----------------------------
(***************************************************************************)
(* CountWindow.process_window(): tumbling, hopping and sliding windows of  *)
(* a number of messages of one key.  The collected values have ids of      *)
(* their own: the oldest window of the key tells the next one.  A step of  *)
(* 0 is a tumbling window (no step).                                       *)
(***************************************************************************)
EXTENDS Windows

NewCountWindow(stamp, id) ==
    [count |-> 0, start |-> stamp, end |-> stamp, messages |-> {}, firstId |-> id]

OpensWindow(windows) ==
    \/ windows = <<>>
    \/ definition.step # 0 /\ windows[1].count % definition.step = 0

\* The id of the next value
NextId(windows) ==
    IF windows = <<>> THEN 0 ELSE windows[1].firstId + windows[1].count

\* A window with one more message
Counted(window, stamp, m) ==
    [window EXCEPT !.count = @ + 1, !.start = Min({@, stamp}),
                   !.end = Max({@, stamp}),
                   !.messages = IF definition.aggregate THEN @ \cup {m} ELSE @]

Complete(window) == window.count >= definition.count

\* The end of the values that no later window needs
LastNeededId(window) ==
    window.firstId
    + (IF definition.step = 0 THEN definition.count ELSE definition.step)

\* delete_from_collection() for a window that is complete: from the first id for
\* tumbling windows, whose ids start over, and from the last deleted one for others.
Discard(state, window) ==
    DeleteCollection(state,
                     IF definition.step = 0 THEN 0 ELSE state.deletedValue,
                     LastNeededId(window))

\* process_window(): at most one window, the oldest, is completed by a message.
ProcessCountWindow(key, stamp) ==
    LET m       == Incoming
        id      == NextId(counting[key])
        opened  == IF OpensWindow(counting[key])
                   THEN Append(counting[key], NewCountWindow(stamp, id))
                   ELSE counting[key]
        counted == [i \in DOMAIN opened |-> Counted(opened[i], stamp, m)]
        state   == IF definition.collect THEN AddToCollection(store[key], id, m)
                                         ELSE store[key]
        done    == counted[1]
        updated == {Result(key, w.start, w.end, w.messages, {}, "update") : w \in Range(counted)}
        values  == IF definition.collect
                   THEN Collection(state, done.firstId,
                                   done.firstId + definition.count)
                   ELSE {}
    IN  /\ definition.kind = "count"
        /\ IF Complete(done)
           THEN /\ Emitted(updated, {Result(key, done.start, done.end, done.messages, values,
                                            "count")})
                /\ counting' = [counting EXCEPT ![key] = Tail(counted)]
                /\ store' = [store EXCEPT ![key] =
                       IF definition.collect THEN Discard(state, done) ELSE state]
           ELSE /\ counting' = [counting EXCEPT ![key] = counted]
                /\ store' = [store EXCEPT ![key] = state]
                /\ Emitted(updated, {})
        /\ Arrives([key |-> key, stamp |-> stamp])
        /\ UNCHANGED <<definition, partitionExpired, late>>

=============================================================================
