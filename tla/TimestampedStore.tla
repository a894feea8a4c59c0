--------------------------- MODULE TimestampedStore ---------------------------
(***************************************************************************)
(* TimestampedPartitionTransaction: the records of one side of a join in a *)
(* partition's store, seen through the transaction of a checkpoint.        *)
(*                                                                         *)
(* A record is [key, stamp, counter, value].  Its key in the store is the  *)
(* message key followed by a separator, the timestamp and the counter, in  *)
(* the order of bytes; stored are the records in RocksDB and updated those *)
(* in the update cache of the open transaction.                            *)
(***************************************************************************)
EXTENDS Operation

CONSTANTS
    Extends  \* <<k, l>>: message key l is k followed by a byte below the separator

ASSUME ExtendsAssumption == Extends \subseteq Key \X Key

\* A minimal eligible timestamp that the transaction does not know.
Unknown == -1

EmptyStore ==
    [stored   |-> {},
     updated  |-> {},
     eligible |-> [k \in Key |-> Unknown]]  \* _min_eligible_timestamps

\* __init__() of the transaction of a new checkpoint
Begin(state) == [state EXCEPT !.updated = {}, !.eligible = [k \in Key |-> Unknown]]

SameSlot(r, q) == r.key = q.key /\ r.stamp = q.stamp /\ r.counter = q.counter

\* Records over those that they replace.
Over(new, old) == new \cup {q \in old : \A r \in new : ~SameSlot(r, q)}

\* _get_min_eligible_timestamp(): the timestamp of an earlier transaction is in a
\* column family of its own, but get_bytes() looks for it in the default one, and
\* finds nothing: the default is zero.
MinEligible(state, key) == Max({0, state.eligible[key]})

\* set_for_timestamp()
SetForTimestamp(state, key, stamp, counter, value, grace) ==
    LET record == [key |-> key, stamp |-> stamp, counter |-> counter, value |-> value]
    IN  [state EXCEPT !.updated = Over({record}, @),
                      !.eligible[key] = Max({MinEligible(state, key), stamp - grace})]

\* What reads find: the cache over the store.
Visible(state, key) == {r \in Over(state.updated, state.stored) : r.key = key}

\* Mutant: a record in the cache hides those in the store.
GetLatestCached(state, key, stamp) ==
    LET bounded(r) == r.key = key /\ MinEligible(state, key) <= r.stamp /\ r.stamp <= stamp
        cached     == {r \in state.updated : bounded(r)}
        found      == IF cached # {} THEN cached ELSE {r \in state.stored : bounded(r)}
    IN  {r \in found : \A q \in found : q.stamp <= r.stamp}

\* get_latest(): the record, if there is one, with the largest timestamp
GetLatest(state, key, stamp) ==
    LET found == {r \in Visible(state, key) :
                     MinEligible(state, key) <= r.stamp /\ r.stamp <= stamp}
    IN  {r \in found : \A q \in found :
            q.stamp < r.stamp \/ (q.stamp = r.stamp /\ q.counter <= r.counter)}

\* get_interval(): the end is exclusive
GetInterval(state, key, from, to) ==
    {r \in Visible(state, key) : Max({0, from}) <= r.stamp /\ r.stamp < to}

\* Mutant: a record that is exactly the grace period old expires.
ExpiredInclusive(state) ==
    LET keys == {r.key : r \in state.updated}
    IN  {r \in state.updated \cup state.stored :
            r.key \in keys /\ r.stamp <= MinEligible(state, r.key)}

\* _expire(): for each key updated in the transaction, its older records in the
\* cache, and in the store everything from the key on: the iteration starts at the
\* bare key, so that records of keys that extend it are in its range, too.
ExpiredRecords(state) ==
    LET keys == {r.key : r \in state.updated}
    IN  {r \in state.updated \cup state.stored :
            r.key \in keys /\ r.stamp < MinEligible(state, r.key)} \cup
        {r \in state.stored : \E k \in keys : <<k, r.key>> \in Extends}

\* prepare() and flush(): updates are written before deletes
CommitStore(state) ==
    LET gone == ExpiredRecords(state)
    IN  Begin([state EXCEPT !.stored =
            {r \in Over(state.updated, @) : \A q \in gone : ~SameSlot(r, q)}])

=============================================================================
