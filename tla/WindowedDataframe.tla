-------------------------- MODULE WindowedDataframe ---------------------------
(***************************************************************************)
(* A dataframe with one window definition over the messages of a           *)
(* partition, in any order of keys and timestamps.                         *)
(***************************************************************************)
EXTENDS TimeWindows, SlidingWindows, CountWindows

\* Timestamps are milliseconds since 1970, far above durations and graces.
WindowDefinition(d, stamps) ==
    /\ TimeDefinition(d) \/ SlidingDefinition(d) \/ CountDefinition(d)
    /\ WindowComputes(d)
    /\ d.kind # "count" => \A t \in stamps : t >= d.duration + d.grace

WindowInit ==
    /\ store = [k \in Key |-> EmptyState]
    /\ partitionExpired = 0
    /\ counting = [k \in Key |-> <<>>]
    /\ emitted = {}
    /\ late = {}

\* A message of the partition
ProcessWindow(key, stamp) ==
    \/ /\ definition.kind = "time"
       /\ \E fired \in SUBSET Ranges(stamp) : ProcessTimeWindow(key, stamp, fired)
    \/ ProcessSlidingWindow(key, stamp)
    \/ ProcessCountWindow(key, stamp)

WindowTypeOK ==
    /\ partitionExpired \in Nat
    /\ \A k \in Key :
          /\ \A start \in DOMAIN store[k].windows :
                IF definition.kind = "sliding"
                THEN /\ store[k].windows[start].max \in
                           start..start + definition.duration
                     /\ store[k].windows[start].messages \subseteq MessagesOf(k)
                ELSE store[k].windows[start] \subseteq MessagesOf(k)
          /\ \A value \in store[k].values : value.counter \in MessagesOf(k)
          /\ store[k].latest \in Nat
          /\ \A i \in 1..Len(counting[k]) - 1 :
                counting[k][i].count > counting[k][i + 1].count
    /\ \A r \in emitted :
          /\ r.aggregated \cup r.collected \subseteq MessagesOf(r.key)
          /\ r.start < r.end \/ definition.kind = "count"
    /\ \A l \in late : l[1] \in Message

-----------------------------------------------------------------------------
(* Time windows *)

Timed == definition.kind = "time"
Finally == definition.emit = "final"
Untriggered == Timed /\ Finally /\ definition.trigger = "none"

End(start) == start + definition.duration

\* The messages of a key in a window, up to message number last.
InWindow(key, start, last) ==
    {n \in MessagesOf(key) : n <= last /\ start \in Ranges(Stamp(n))}

OnTime(key, start, last) == {n \in InWindow(key, start, last) : <<n, start>> \notin late}

\* The time of a key, or of the partition, after message number last.
TimeAfter(key, last) ==
    Max({0} \cup {Stamp(n) : n \in {m \in Message :
        m <= last /\ (definition.closing = "key" => arrived[m].key = key)}})

\* A window is emitted once, with all its messages that are not reported late: in
\* the aggregate and in the collection alike (docs: "unique and complete values").
TimeResultsComplete ==
    Untriggered =>
        /\ \A r \in emitted :
              /\ definition.aggregate =>
                    r.aggregated = OnTime(r.key, r.start, r.at)
              /\ definition.collect => r.collected = OnTime(r.key, r.start, r.at)
        /\ \A r, q \in emitted : r.key = q.key /\ r.start = q.start => r = q

\* A message is reported late for a window, or counted in its result, or the window
\* is still in the store and ahead of the expiration, which will emit it.
TimeNothingLost ==
    Untriggered =>
        \A n \in Message : \A start \in Ranges(Stamp(n)) :
            LET key == arrived[n].key
            IN  \/ <<n, start>> \in late
                \/ \E r \in emitted : r.key = key /\ r.start = start /\ r.at >= n
                \/ /\ start \in DOMAIN store[key].windows
                   /\ definition.closing = "key" => start > store[key].expired
                   /\ definition.closing = "partition" => End(start) > partitionExpired

\* A window is closed by the message that takes the time past its end and its grace
\* period, neither earlier nor later, and nothing is late before that.
TimeClosesOnTime ==
    Untriggered =>
        /\ \A r \in emitted :
              /\ TimeAfter(r.key, r.at) >= r.end + definition.grace
              /\ TimeAfter(r.key, r.at - 1) < r.end + definition.grace
        /\ \A l \in late :
              TimeAfter(arrived[l[1]].key, l[1]) >= End(l[2]) + definition.grace
        /\ \A k \in Key : \A start \in DOMAIN store[k].windows :
              TimeAfter(k, Len(arrived)) < End(start) + definition.grace

\* "The closed windows cannot receive updates anymore and are considered final."
WindowsStayClosed ==
    Timed => \A r \in emitted :
        r.by = "time" => r.start \notin DOMAIN store[r.key].windows

\* Triggers may close a window many times, but a message is in one of its
\* aggregates at most.
CountedOnce ==
    Timed /\ Finally => \A r, q \in emitted :
        r # q /\ r.key = q.key /\ r.start = q.start =>
            r.aggregated \cap q.aggregated = {}

\* Values stay in the collection of a key behind the windows that are deleted only
\* if they came late.
ValuesReclaimed ==
    Untriggered => \A k \in Key : \A value \in store[k].values :
        value.id < store[k].expired =>
            \E start \in Ranges(value.id) : <<value.counter, start>> \in late

-----------------------------------------------------------------------------
(* Sliding windows *)

Sliding == definition.kind = "sliding"

Between(key, start, end, last) ==
    {n \in MessagesOf(key) : n <= last /\ Stamp(n) \in start..end}

\* How far a message is behind the latest one of its key when it arrives.
Delay(n) ==
    Max({Stamp(m) : m \in {m \in MessagesOf(arrived[n].key) : m <= n}}) - Stamp(n)

\* The message came after the window that ends with it was closed.
TooLate(n) == Delay(n) > definition.grace

\* A result has all messages of its key between its ends that came within the grace
\* period, and no message of another time or key; it is emitted once.
SlidingResultsComplete ==
    Sliding /\ Finally =>
        /\ \A r \in emitted :
            LET all    == Between(r.key, r.start, r.end, r.at)
                prompt == {n \in all : ~TooLate(n)}
            IN  /\ definition.aggregate =>
                      prompt \subseteq r.aggregated /\ r.aggregated \subseteq all
                /\ definition.collect =>
                      prompt \subseteq r.collected /\ r.collected \subseteq all
        /\ \A r, q \in emitted : r.key = q.key /\ r.start = q.start => r = q

\* The window that ends with a message is emitted, or waits for its expiration, or
\* was closed before the message came.
SlidingNothingLost ==
    Sliding /\ Finally =>
        \A n \in Message : ~TooLate(n) =>
            LET key   == arrived[n].key
                start == Stamp(n) - definition.duration
            IN  \/ \E r \in emitted : r.key = key /\ r.start = start
                \/ /\ start \in DOMAIN store[key].windows
                   /\ start > store[key].expired
                   /\ store[key].windows[start].max = Stamp(n)

-----------------------------------------------------------------------------
(* Count windows *)

\* The messages of a key number first to last, in the order of arrival.
Numbered(key, first, last) ==
    {n \in MessagesOf(key) :
        Cardinality({m \in MessagesOf(key) : m <= n}) \in first..last}

Stride == IF definition.step = 0 THEN definition.count
          ELSE Min({definition.step, definition.count})

\* The results of a key are the consecutive runs of count messages, one step apart,
\* each with the timestamps it spans; a result comes with its last message.
CountResultsExact ==
    definition.kind = "count" /\ Finally =>
        \A k \in Key :
            LET stride == Stride
                total  == Cardinality(MessagesOf(k))
                runs   == {i \in 0..total : i * stride + definition.count <= total}
                run(i) == Numbered(k, i * stride + 1, i * stride + definition.count)
            IN  {r \in emitted : r.key = k} =
                {[key |-> k,
                  start |-> Min({Stamp(n) : n \in run(i)}),
                  end   |-> Max({Stamp(n) : n \in run(i)}),
                  aggregated |-> IF definition.aggregate THEN run(i) ELSE {},
                  collected  |-> IF definition.collect THEN run(i) ELSE {},
                  by |-> "count", at |-> Max(run(i))] : i \in runs}

-----------------------------------------------------------------------------
(* current() *)

Updating == definition.emit = "current"

\* What message number n has updated, as windows with what they have counted.
UpdatedBy(n) == {[start |-> r.start, end |-> r.end, messages |-> r.aggregated] : r \in {q \in emitted : q.at = n}}

\* A message updates all of its windows that it is not late for.
TimeUpdatesExact ==
    Timed /\ Updating /\ definition.trigger = "none" =>
        \A n \in Message :
            UpdatedBy(n) = {[start |-> start, end |-> End(start),
                             messages |-> OnTime(arrived[n].key, start, n)] :
                            start \in {s \in Ranges(Stamp(n)) : <<n, s>> \notin late}}

\* A message updates the windows that end with it or with a later one, not yet closed,
\* that it is in; they have the prompt messages between their ends.
SlidingUpdatesComplete ==
    Sliding /\ Updating =>
        \A n \in Message :
            LET key == arrived[n].key
                time == TimeAfter(key, n)
                ends == {Stamp(m) : m \in {m \in Between(key, Stamp(n), Stamp(n) + definition.duration, n) :
                                               Stamp(m) >= time - definition.grace}}
            IN  /\ ends \subseteq {w.end : w \in UpdatedBy(n)}
                /\ \A w \in UpdatedBy(n) :
                       LET all == Between(key, w.start, w.end, n)
                       IN  {m \in all : ~TooLate(m)} \subseteq w.messages /\ w.messages \subseteq all

\* A message updates the consecutive runs that it is in.
CountUpdatesExact ==
    definition.kind = "count" /\ Updating =>
        \A n \in Message :
            LET number == Cardinality({m \in MessagesOf(arrived[n].key) : m <= n})
                runs == {i \in 0..number : number \in i * Stride + 1..i * Stride + definition.count}
                run(i) == Numbered(arrived[n].key, i * Stride + 1, number)
            IN  UpdatedBy(n) = {[start |-> Min({Stamp(m) : m \in run(i)}),
                                 end |-> Max({Stamp(m) : m \in run(i)}), messages |-> run(i)] : i \in runs}

-----------------------------------------------------------------------------
\* Every result of final() is unique and complete, whatever kind of window it is of: no
\* message is in two of them.  Those of current() have what has come so far.
WindowResultsComplete ==
    /\ TimeResultsComplete /\ SlidingResultsComplete /\ CountResultsExact /\ CountedOnce
    /\ TimeUpdatesExact /\ SlidingUpdatesComplete /\ CountUpdatesExact

\* No message that is not reported late, or too late, is missing from the results to come.
NoMessageLost == TimeNothingLost /\ SlidingNothingLost

=============================================================================
