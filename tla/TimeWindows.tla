----------------------------- MODULE TimeWindows ------------------------------
(***************************************************************************)
(* TimeWindow.process_window(): tumbling and hopping windows, closed by    *)
(* the time of their key or of their partition, with aggregations,         *)
(* collections and triggers.                                               *)
(***************************************************************************)
EXTENDS Windows

\* The time that closes windows when the message is processed.
LatestTime(key, stamp) ==
    IF definition.closing = "partition" THEN Max({stamp, partitionExpired})
                                        ELSE Max({stamp, store[key].latest})

\* Mutant: a window is late one unit before it expires.
OpenRangesEarly(stamp, maxStart) == {start \in Ranges(stamp) : start > maxStart + 1}

\* The windows of the message that are not closed.
OpenRanges(stamp, maxStart) == {start \in Ranges(stamp) : start > maxStart}

\* The value of a window after the message, and before it.
Aggregated(state, start) ==
    IF definition.aggregate /\ start \in DOMAIN state.windows
    THEN state.windows[start] ELSE {}
Updated(state, start, m) ==
    IF definition.aggregate THEN Aggregated(state, start) \cup {m} ELSE {}

\* Mutant: a trigger before the update leaves the window in the store.
TriggerWindowsKept(state, fired) == state

\* The windows that a trigger closes are deleted, their collected values are not.
TriggerWindows(state, fired) == DropWindows(state, fired)

\* The result of a window that a trigger closes: with the message if the trigger
\* is an after_update, without it if it is a before_update.
Triggered(key, start, m) ==
    LET after == definition.trigger = "after"
        old   == IF definition.collect
                 THEN Collection(store[key], start, start + definition.duration)
                 ELSE {}
    IN  Result(key, start, start + definition.duration,
               IF after THEN Updated(store[key], start, m)
                        ELSE Aggregated(store[key], start),
               IF after /\ definition.collect THEN old \cup {m} ELSE old,
               "trigger")

\* The result of a window of a key that expires.
Finished(key, state, start) ==
    Result(key, start, start + definition.duration, Aggregated(state, start),
           IF definition.collect
           THEN Collection(state, start, start + definition.duration) ELSE {},
           "time")

\* The message with its windows and the triggers in fired, before the expiration.
Applied(key, stamp, maxStart, fired) ==
    LET m       == Incoming
        new     == [start \in OpenRanges(stamp, maxStart) \ fired |->
                       Updated(store[key], start, m)]
        updated == UpdateWindows(TriggerWindows(store[key], fired), new, stamp)
    IN  IF definition.collect THEN AddToCollection(updated, stamp, m) ELSE updated

\* process_window()
ProcessTimeWindow(key, stamp, fired) ==
    LET maxEnd   == LatestTime(key, stamp) - definition.grace
        maxStart == maxEnd - definition.duration
        m        == Incoming
        before   == [store EXCEPT ![key] = Applied(key, stamp, maxStart, fired)]
        starts   == [k \in Key |->
                        IF definition.closing = "partition"
                        THEN ExpiredInPartition(before[k], partitionExpired, maxEnd,
                                                definition.step, definition.duration)
                        ELSE IF k = key THEN Expired(before[k], maxStart) ELSE {}]
        ends     == EndsToExpire(partitionExpired, maxEnd, definition.step)
    IN  /\ definition.kind = "time"
        /\ fired \subseteq OpenRanges(stamp, maxStart)
        /\ fired # {} => definition.trigger # "none"
        /\ Emitted({Result(key, start, start + definition.duration,
                            before[key].windows[start], {}, "update") :
                        start \in OpenRanges(stamp, maxStart) \ fired},
                   {Triggered(key, start, m) : start \in fired}
                   \cup UNION {{Finished(k, before[k], start) : start \in starts[k]} :
                               k \in Key})
        /\ late' = late \cup
               {<<m, start>> : start \in Ranges(stamp) \ OpenRanges(stamp, maxStart)}
        /\ IF definition.closing = "partition"
           THEN /\ store' = [k \in Key |->
                       ExpireInPartition(before[k], starts[k], definition.collect)]
                /\ partitionExpired' = IF ends = {} THEN partitionExpired
                                                    ELSE Max(ends)
           ELSE /\ store' = [before EXCEPT ![key] =
                       ExpireWindows(@, maxStart, TRUE, definition.collect)]
                /\ UNCHANGED partitionExpired
        /\ Arrives([key |-> key, stamp |-> stamp])
        /\ UNCHANGED <<definition, counting>>

=============================================================================
