--------------------------- MODULE StateTransaction ---------------------------
(***************************************************************************)
(* The state of a partition for the functions of a dataframe: the          *)
(* transactions of its checkpoints, the store on disk or in memory, and    *)
(* the changelog that it is recovered from.                                *)
(*                                                                         *)
(* A key in a store is a record [cf, key, id, count] of its column family, *)
(* its prefix (the message key), and what follows it: the name of a value, *)
(* or the id of a collected value and its counter.  The bytes of keys keep *)
(* the order of these within a prefix.                                     *)
(*                                                                         *)
(* What a checkpoint has prepared and never committed is never applied, as *)
(* with the aborted transactions of exactly-once; Checkpointing has the    *)
(* changelog in which a later checkpoint of the same messages commits it.  *)
(***************************************************************************)
EXTENDS Operation, SequencesExt

VARIABLES
    transaction,  \* the open transaction, see NewTransaction
    partition,    \* [items, offset]: the store partition
    changelog,    \* its records [item, value, committed]
    lastOffset    \* InternalProducer.offsets of the changelog in this process

stateVars == <<transaction, partition, changelog, lastOffset>>

Stating == definition.kind = "state"

\* The backend; the values; ids and ends of ranges, if values are collected.
StateDefinition(d) ==
    /\ d.kind = "state" /\ d.backend \in {"rocksdb", "memory"}
    /\ d.values \subseteq Nat /\ d.ids \subseteq Nat /\ (d.backend = "memory" => d.ids = {})

\* b"", which set_bytes() takes like any other value; values are numbers.
EmptyBytes == 0

\* The value of a record may be None: a deletion.
Deletion == <<>>

\* An offset that there is none of, or a counter that has not been read.
Unset == -1

NewTransaction == [status |-> "started", updated |-> <<>>, deleted |-> {}, empty |-> TRUE, counter |-> Unset]

NoTransaction == [NewTransaction EXCEPT !.status = "none"]

EmptyPartition == [items |-> <<>>, offset |-> Unset]

StateInit ==
    /\ transaction = NoTransaction /\ partition = EmptyPartition
    /\ changelog = <<>> /\ lastOffset = Unset

StateTypeOK ==
    /\ transaction.status \in {"none", "started", "prepared", "committed", "failed"}
    /\ DOMAIN transaction.updated \cap transaction.deleted = {}
    /\ partition.offset \in Unset..Len(changelog) - 1
    /\ lastOffset \in Unset..Len(changelog) - 1

-----------------------------------------------------------------------------
(* The update cache *)

Named(key, id) == [cf |-> "default", key |-> key, id |-> id, count |-> 0]

Collected(key, id, count) == [cf |-> "values", key |-> key, id |-> id, count |-> count]

GlobalCounter == [cf |-> "counter", key |-> "", id |-> 0, count |-> 0]

With(map, item, value) ==
    [i \in DOMAIN map \cup {item} |-> IF i = item THEN value ELSE map[i]]

Without(map, items) == [i \in DOMAIN map \ items |-> map[i]]

\* PartitionTransactionCache.set()
CacheSet(t, item, value) ==
    [t EXCEPT !.updated = With(@, item, value), !.deleted = @ \ {item}, !.empty = FALSE]

\* PartitionTransactionCache.delete()
CacheDelete(t, items) ==
    [t EXCEPT !.updated = Without(@, items), !.deleted = @ \cup items, !.empty = @ /\ items = {}]

Exists(t, item) ==
    item \notin t.deleted /\ item \in DOMAIN t.updated \cup DOMAIN partition.items

Get(t, item) == IF item \in DOMAIN t.updated THEN t.updated[item] ELSE partition.items[item]

\* _get_items(): from the store and the cache, without what has been deleted.
GetItems(t, key, from, to) ==
    LET inRange(items) == {i \in items : i.cf = "values" /\ i.key = key /\ i.id >= from /\ i.id < to}
    IN  IF from > to THEN {}
        ELSE (inRange(DOMAIN partition.items) \cup inRange(DOMAIN t.updated)) \ t.deleted

\* The order of their bytes
Precedes(i, j) == i.id < j.id \/ (i.id = j.id /\ i.count < j.count)

Sorted(members) ==
    CHOOSE s \in SetToSeqs(members) : \A m, n \in DOMAIN s : m < n => Precedes(s[m].item, s[n].item)

\* _increment_counter(), which the first call of a transaction reads from the state
NextCounter(t) ==
    1 + IF t.counter # Unset THEN t.counter
        ELSE IF Exists(t, GlobalCounter) THEN Get(t, GlobalCounter) ELSE -1

-----------------------------------------------------------------------------
(* The requests of functions *)

Started == transaction.status = "started"

Becomes(t) == transaction' = t /\ UNCHANGED <<partition, changelog, lastOffset>>

\* A partition is used once it has been recovered.
BeginState ==
    /\ transaction.status = "none" /\ partition.offset = Len(changelog) - 1
    /\ Becomes(NewTransaction)
    /\ UNCHANGED arrived

GetState(key, id) ==
    /\ Started
    /\ LET item == Named(key, id)
           result == IF Exists(transaction, item) THEN <<Get(transaction, item)>> ELSE <<>>
       IN  Arrives([op |-> "get", key |-> key, id |-> id, result |-> result])
    /\ UNCHANGED stateVars

SetState(key, id, value) ==
    /\ Started
    /\ Becomes(CacheSet(transaction, Named(key, id), value))
    /\ Arrives([op |-> "set", key |-> key, id |-> id, value |-> value])

\* A value that cannot be serialized.
SetStateFails ==
    Started /\ Becomes([transaction EXCEPT !.status = "failed"]) /\ UNCHANGED arrived

DeleteState(key, id) ==
    /\ Started
    /\ Becomes(CacheDelete(transaction, {Named(key, id)}))
    /\ Arrives([op |-> "delete", key |-> key, id |-> id])

AddCollected(key, id, value) ==
    /\ Started
    /\ LET counter == NextCounter(transaction)
       IN  /\ Becomes(CacheSet([transaction EXCEPT !.counter = counter], Collected(key, id, counter), value))
           /\ Arrives([op |-> "add", key |-> key, id |-> id, value |-> value, result |-> counter])

ReadCollected(key, from, to) ==
    /\ Started
    /\ LET members == Sorted({[item |-> i, value |-> Get(transaction, i)] :
                                 i \in GetItems(transaction, key, from, to)})
       IN  Arrives([op |-> "read", key |-> key, from |-> from, to |-> to,
                    result |-> [n \in DOMAIN members |-> members[n].value]])
    /\ UNCHANGED stateVars

RemoveCollected(key, from, to) ==
    /\ Started
    /\ Becomes(CacheDelete(transaction, GetItems(transaction, key, from, to)))
    /\ Arrives([op |-> "remove", key |-> key, from |-> from, to |-> to])

-----------------------------------------------------------------------------
(* Checkpoint and recovery *)

\* _persist_counter()
WithCounter(t) == IF t.counter = Unset THEN t ELSE CacheSet(t, GlobalCounter, t.counter)

\* The records of _prepare(), in some order of their keys.
Records(t) ==
    SetToSeq({[item |-> i, value |-> <<t.updated[i]>>, committed |-> FALSE] : i \in DOMAIN t.updated}
             \cup {[item |-> i, value |-> Deletion, committed |-> FALSE] : i \in t.deleted})

\* prepare(), and the delivery of the records
PrepareState ==
    /\ Started
    /\ LET t == WithCounter(transaction)
       IN  /\ transaction' = [t EXCEPT !.status = "prepared"]
           /\ changelog' = changelog \o Records(t)
           /\ lastOffset' = IF Records(t) = <<>> THEN lastOffset ELSE Len(changelog') - 1
    /\ UNCHANGED <<partition, arrived>>

Pending == {n \in DOMAIN changelog : ~changelog[n].committed /\ n - 1 > partition.offset}

\* The offsets of the checkpoint are committed, and with them its records.
CommitState ==
    /\ transaction.status = "prepared"
    /\ changelog' = [n \in DOMAIN changelog |->
                        IF n \in Pending THEN [changelog[n] EXCEPT !.committed = TRUE]
                        ELSE changelog[n]]
    /\ transaction' = [transaction EXCEPT !.status = "committed"]
    /\ UNCHANGED <<partition, lastOffset, arrived>>

\* StorePartition.write()
Written(items, t) ==
    [i \in (DOMAIN items \cup DOMAIN t.updated) \ t.deleted |->
        IF i \in DOMAIN t.updated THEN t.updated[i] ELSE items[i]]

\* flush(): a transaction without a change writes nothing, and the offset of the
\* changelog may not go back.
FlushState ==
    /\ transaction.status = "committed"
    /\ IF ~transaction.empty /\ lastOffset < partition.offset
       THEN transaction' = [transaction EXCEPT !.status = "failed"] /\ UNCHANGED partition
       ELSE /\ transaction' = NoTransaction
            /\ partition' = IF transaction.empty THEN partition
                            ELSE [items |-> Written(partition.items, transaction), offset |-> lastOffset]
    /\ UNCHANGED <<changelog, lastOffset, arrived>>

\* The checkpoint is given up, before it has prepared anything.
GiveUpState ==
    Started /\ Becomes(NoTransaction) /\ UNCHANGED arrived

\* The process dies and starts again: what is in memory is gone, and a store on disk may
\* be corrupted, which makes it start anew.
RestartState ==
    /\ transaction' = NoTransaction /\ lastOffset' = Unset
    /\ partition' \in IF definition.backend = "memory" THEN {EmptyPartition}
                      ELSE {partition, EmptyPartition}
    /\ UNCHANGED <<changelog, arrived>>

\* Mutant: an empty value counts as a deletion.
DeletesTruthy(value) == value \in {Deletion, <<EmptyBytes>>}

\* It does for MemoryStorePartition.
Deletes(value) == value = Deletion \/ (definition.backend = "memory" /\ DeletesTruthy(value))

\* recover_from_changelog_message() of a record
Recovered(items, record) ==
    IF Deletes(record.value) THEN Without(items, {record.item})
    ELSE With(items, record.item, record.value[1])

\* Records that are not committed are skipped.
RecoverRecord ==
    /\ transaction.status = "none" /\ partition.offset < Len(changelog) - 1
    /\ LET record == changelog[partition.offset + 2]
       IN  partition' = [items |-> IF record.committed THEN Recovered(partition.items, record)
                                   ELSE partition.items,
                         offset |-> partition.offset + 1]
    /\ UNCHANGED <<transaction, changelog, lastOffset, arrived>>

-----------------------------------------------------------------------------
(* What it implements *)

\* The items of the partition once it is recovered.
Restored ==
    LET records == {n \in partition.offset + 2..Len(changelog) : changelog[n].committed}
        items   == {changelog[n].item : n \in records}
        value   == [i \in items |-> changelog[Max({n \in records : changelog[n].item = i})].value]
        present == (DOMAIN partition.items \ items) \cup {i \in items : value[i] # Deletion}
    IN  [i \in present |-> IF i \in items THEN value[i][1] ELSE partition.items[i]]

\* The items that the functions see.
Seen ==
    LET items == {i \in DOMAIN partition.items \cup DOMAIN transaction.updated : Exists(transaction, i)}
    IN  IF transaction.status \in {"started", "prepared"} THEN [i \in items |-> Get(transaction, i)]
        ELSE Restored

Ours(map) == IF Stating THEN Without(map, {GlobalCounter}) ELSE <<>>

Map == INSTANCE StateMap WITH
         requests <- IF Stating THEN arrived ELSE <<>>,
         current <- Ours(Seen), stable <- Ours(Restored)

\* The state is a map whose functions see their own changes, and which is what the last
\* committed checkpoint has made it, whenever the process dies and whatever of its disk
\* is left (PartitionTransaction, StorePartition, RecoveryPartition).
StateIsMap == Map!Spec

=============================================================================
