-------------------------------- MODULE Joins ---------------------------------
(***************************************************************************)
(* AsOfJoin and IntervalJoin: two dataframes with the same keys, each with *)
(* its records in a timestamped store, joined into one.                    *)
(*                                                                         *)
(* A message is [side, key, stamp, truthy]; its value is its number.  The  *)
(* counter of a store with duplicates grows with the messages, so that the *)
(* number of the message stands for it.                                    *)
(***************************************************************************)
EXTENDS TimestampedStore

VARIABLES
    joinStore,   \* side -> its timestamped store
    joined       \* the results, as [left, right, at]; None for no record

joinVars == <<joinStore, joined>>

Side == {"left", "right"}
Other(side) == IF side = "left" THEN "right" ELSE "left"

\* The record that a result does not have.
NoRecord == 0

Merged(left, right) == [left |-> left, right |-> right, at |-> Incoming]

AsOf == definition.kind = "asof"
Interval == definition.kind = "interval"

\* sdf.join_asof(), with the values that the right records may have
JoinAsOf(how, grace, truthy) ==
    [kind |-> "asof", how |-> how, grace |-> Milliseconds(grace), truthy |-> truthy]

\* sdf.join_interval()
JoinInterval(how, grace, backward, forward) ==
    [kind |-> "interval", how |-> how, grace |-> Milliseconds(grace),
     backward |-> Milliseconds(backward), forward |-> Milliseconds(forward), truthy |-> {TRUE}]

\* The definitions that are not refused: IntervalJoin.__init__() raises for a backward_ms
\* above the grace period, and for no forward_ms.
JoinDefinition(d) ==
    /\ d.grace \in Nat /\ d.truthy \subseteq BOOLEAN
    /\ \/ /\ d.kind = "asof"
          /\ d.how \in {"inner", "left"}
       \/ /\ d.kind = "interval"
          /\ d.how \in {"inner", "left", "right", "outer"}
          /\ d.backward \in 0..d.grace /\ d.forward \in Nat

\* right_func(): a right record is stored without duplicates, and block_all() lets
\* nothing through.
AsOfRight(key, stamp) ==
    /\ joinStore' = [joinStore EXCEPT !["right"] =
           SetForTimestamp(@, key, stamp, 0, Incoming, definition.grace)]
    /\ UNCHANGED joined

\* left_func(): a match with a falsy value counts as none.
AsOfLeft(key, stamp) ==
    LET found == {r.value : r \in {q \in GetLatest(joinStore["right"], key, stamp) :
                                       arrived[q.value].truthy}}
    IN  /\ joined' = joined \cup
               IF found # {} THEN {Merged(Incoming, r) : r \in found}
               ELSE IF definition.how = "left" THEN {Merged(Incoming, NoRecord)}
               ELSE {}
        /\ UNCHANGED joinStore

\* How far back a side looks for records of the other one.
Reach(side) == IF side = "left" THEN definition.backward ELSE definition.forward

EmitsUnmatched(side) == definition.how \in {side, "outer"}

\* left_func() and right_func(): stored first, then matched with the other side
IntervalRecord(side, key, stamp) ==
    LET matches == {r.value : r \in GetInterval(joinStore[Other(side)], key,
                                               stamp - Reach(side), stamp + 1)}
        result(match) == IF side = "left" THEN Merged(Incoming, match)
                                          ELSE Merged(match, Incoming)
    IN  /\ joinStore' = [joinStore EXCEPT ![side] =
               SetForTimestamp(@, key, stamp, Incoming, Incoming, definition.grace)]
        /\ joined' = joined \cup
               IF matches # {} THEN {result(m) : m \in matches}
               ELSE IF EmitsUnmatched(side) THEN {result(NoRecord)}
               ELSE {}

\* A message of a side, processed by the concatenated dataframe
ProcessJoin(side, key, stamp, truthy) ==
    /\ \/ AsOf /\ side = "right" /\ AsOfRight(key, stamp)
       \/ AsOf /\ side = "left" /\ AsOfLeft(key, stamp)
       \/ Interval /\ IntervalRecord(side, key, stamp)
    /\ Arrives([side |-> side, key |-> key, stamp |-> stamp, truthy |-> truthy])
    /\ UNCHANGED definition

\* The checkpoint prepares and flushes the stores, and the next one has new
\* transactions.
CommitJoin ==
    /\ \E side \in Side : joinStore[side].updated # {}
    /\ joinStore' = [side \in Side |-> CommitStore(joinStore[side])]
    /\ UNCHANGED <<definition, arrived, joined>>

JoinInit ==
    /\ joinStore = [side \in Side |-> EmptyStore]
    /\ joined = {}

JoinTypeOK ==
    /\ \A side \in Side : \A r \in joinStore[side].stored \cup joinStore[side].updated :
          /\ r.value \in MessagesOf(r.key) /\ arrived[r.value].side = side
          /\ r.stamp = Stamp(r.value)
    /\ \A r \in joined : /\ {r.left, r.right} \subseteq Message \cup {NoRecord}
                          /\ r.at \in {r.left, r.right}

-----------------------------------------------------------------------------
\* The records of a side and a key that came before message number last.
Before(side, key, last) ==
    {n \in MessagesOf(key) : n < last /\ arrived[n].side = side}

\* The record is not more than the grace period behind the latest one of its side and
\* key, which is what "expired" is about.
Eligible(n, last) ==
    \A m \in Before(arrived[n].side, arrived[n].key, last) :
        Stamp(n) >= Stamp(m) - definition.grace

\* A left record meets the latest right record of its key that is not later than
\* itself, of all that have not expired, and of two with one timestamp the second.  It
\* is matched once, or not at all if there is none.
AsOfMatchesLatest ==
    AsOf => \A n \in {m \in Message : arrived[m].side = "left"} :
        LET key     == arrived[n].key
            results == {r \in joined : r.left = n}
            rights  == {m \in Before("right", key, n) : Stamp(m) <= Stamp(n)}
            latest(m) == \A q \in rights : Eligible(q, n) =>
                            Stamp(q) < Stamp(m) \/ (Stamp(q) = Stamp(m) /\ q <= m)
        IN  /\ Cardinality(results) <= 1
            /\ \A r \in results : r.right # NoRecord => r.right \in rights /\ latest(r.right)
            /\ \A m \in rights :
                  latest(m) /\ Eligible(m, n) /\ arrived[m].truthy =>
                      \E r \in results : r.right = m
            /\ definition.how = "left" => results # {}

\* Left and right records of a key are joined once, when the second comes, exactly if
\* the second is the later one, by no more than it looks back, and the first has not
\* expired; a record that has no match comes out alone if the join is an outer one.
IntervalPairsExact ==
    Interval => \A n \in Message :
        LET side    == arrived[n].side
            pair(m) == IF side = "left" THEN <<n, m>> ELSE <<m, n>>
            pairs   == {<<r.left, r.right>> : r \in {q \in joined : q.at = n}}
            near    == {m \in Before(Other(side), arrived[n].key, n) :
                            Stamp(m) \in Stamp(n) - Reach(side)..Stamp(n)}
            sure    == {m \in near : Eligible(m, n)}
        IN  /\ {pair(m) : m \in sure} \subseteq pairs
            /\ pairs \subseteq {pair(m) : m \in near} \cup {pair(NoRecord)}
            /\ pair(NoRecord) \in pairs <=>
                   pairs = {pair(NoRecord)} /\ EmitsUnmatched(side)
            /\ sure = {} /\ EmitsUnmatched(side) => pairs # {}

\* A join emits the pairs that its definition names, each once.
JoinResultsExact == AsOfMatchesLatest /\ IntervalPairsExact

\* Messages in the order of their timestamps, as the consumer aligns them, lose no
\* match if the join does not look back further than the grace period on either side.
InOrderJoinComplete ==
    /\ Interval /\ definition.forward <= definition.grace
    /\ \A n \in 1..Len(arrived) - 1 : Stamp(n) <= Stamp(n + 1)
    => \A n \in Message : \A m \in Before(Other(arrived[n].side), arrived[n].key, n) :
           Stamp(n) - Stamp(m) <= Reach(arrived[n].side) =>
               \E r \in joined : r.at = n /\ {r.left, r.right} = {n, m}

\* A join emits what its definition names, neither more nor less, while its records come
\* in the order of their timestamps, and what it may have expired otherwise.
JoinResults == JoinResultsExact /\ InOrderJoinComplete

\* What is left in the store behind the grace period came too late to be expired by the
\* record it is behind of.
JoinStoreReclaimed ==
    AsOf \/ Interval =>
        \A side \in {s \in Side : joinStore[s].updated = {}} :
            \A r \in joinStore[side].stored : \A n \in MessagesOf(r.key) :
                arrived[n].side = side /\ r.stamp < Stamp(n) - definition.grace =>
                    r.value > n

\* "Any older right records for the same key whose timestamps are more than grace_ms
\* behind the new record's timestamp are expired and removed", and no other.
OnlyOldRecordsExpire ==
    AsOf => \A n \in {m \in Message : arrived[m].side = "right"} :
        LET key == arrived[n].key
        IN  Eligible(n, Incoming) =>
                \E r \in joinStore["right"].stored \cup joinStore["right"].updated :
                    r.key = key /\ r.stamp = Stamp(n) /\ r.value >= n

=============================================================================
