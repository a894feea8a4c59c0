----------------------- MODULE CheckpointingInvariants -----------------------
(***************************************************************************)
(* The inductive invariants behind the properties of Checkpointing that    *)
(* depend on one instance at a time working on the partition.  They are    *)
(* layered by the hazards they exclude:                                    *)
(*                                                                         *)
(*   OwnerInv     no eviction: who works on the partition, and how its     *)
(*                position, its checkpoint and the committed offsets       *)
(*                relate                                                   *)
(*   BoundedInv   no eviction: no state anywhere is ahead of the offsets   *)
(*                it is kept under                                         *)
(*   OffsetInv    no eviction, no recreation: the changelog offsets of the *)
(*                producer and of the stores                               *)
(*   StateInv     no hazard: the changelog determines the state of every   *)
(*                key, and every store can be completed from it            *)
(*                                                                         *)
(* A hazard excluded here is one under which the code does not keep the    *)
(* property: an evicted instance goes on writing to the changelog, the     *)
(* offsets of a store are meaningless in a recreated topic, compaction     *)
(* removes records that recovery needs, and a commit of some topics splits *)
(* the state of the keys they share.                                       *)
(***************************************************************************)
EXTENDS Checkpointing

-----------------------------------------------------------------------------
(* One instance at a time. *)

\* A live instance is a member, and only the owner works on the partition.
SoleOwner(a) ==
    /\ mode[a] # "down" => a \in members
    /\ Assigned(a) => owner = a

\* An instance that does not process has an empty checkpoint, and an empty
\* checkpoint has neither starting offsets nor updates.
NothingOpen(a) ==
    /\ mode[a] \notin {"processing", "revoking"} => stage[a] = "idle" /\ Empty(a)
    /\ Empty(a) => starting[a] = Absent /\ updates[a] = NoUpdates

\* The checkpoint of the owner spans the offsets from the committed ones to the
\* position, topic by topic.
SpansCommitted(a) ==
    Assigned(a) =>
        \A t \in Topic :
            /\ tpOffsets[a][t] >= 0 <=> starting[a][t] >= 0
            /\ tpOffsets[a][t] >= 0 => position[a][t] = tpOffsets[a][t] + 1
            /\ tpOffsets[a][t] < 0 => position[a][t] = committed[t]
            /\ IF stage[a] = "storing"
                 THEN position[a][t] = committed[t]
                 ELSE /\ starting[a][t] >= 0 => starting[a][t] = committed[t]
                      /\ committed[t] <= position[a][t]

\* A recovery compares with the offsets that are committed all along.
RecoversCommitted(a) ==
    mode[a] = "recovering" => recovery[a].committed = committed

Owned(a) ==
    /\ SoleOwner(a)
    /\ NothingOpen(a)
    /\ SpansCommitted(a)
    /\ RecoversCommitted(a)

OwnerInv == \A a \in App : Owned(a)

-----------------------------------------------------------------------------
(* Nothing is ahead of its offsets. *)

\* A changelog record holds the effect of processed or committed messages only.
RecordBounded(record) ==
    \A m \in Message :
        record.val[m] > 0 =>
            m[2] <= record.processed[m[1]] \/ m[2] < committed[m[1]]

\* What the owner reads is the effect of messages before its position.
StateBehind(a) ==
    Assigned(a) =>
        \A k \in Key, m \in Message : Get(a, k)[m] > 0 => m[2] < position[a][m[1]]

BoundedInv ==
    /\ \A i \in DOMAIN changelog : changelog[i] # Compacted => RecordBounded(changelog[i])
    /\ StoreHoldsCommittedOnly
    /\ \A a \in App : StateBehind(a)

-----------------------------------------------------------------------------
(* Changelog offsets. *)

\* Once a record of this flush has been delivered without an error, the producer
\* knows the offset of the last record.
ProducedLast(a) ==
    /\ stage[a] = "flushing" /\ pendingLog[a] # DOMAIN updates[a] /\ ~deliveryError[a]
         => producedOff[a] = Len(changelog) - 1
    /\ stage[a] \in {"committing", "storing"} /\ updates[a] # NoUpdates
         => producedOff[a] = Len(changelog) - 1

OffsetInv ==
    \A a \in App : storeOff[a] \in -1..Len(changelog) - 1 /\ ProducedLast(a)

-----------------------------------------------------------------------------
(* The state of the keys. *)

\* Value val holds the effect of every message of key k before the offsets.
Covers(k, val, offsets) ==
    \A m \in Message : KeyOf[m] = k /\ m[2] < offsets[m[1]] => val[m] = 1

\* Value val counts messages of key k, and none of them twice.
CountsOnce(k, val) ==
    \A m \in Message : val[m] > 0 => val[m] = 1 /\ KeyOf[m] = k

\* Record i is of key k, a recovery applies it, and the key is up to date then.
Completes(i, k) ==
    /\ changelog[i].key = k
    /\ \A t \in Topic : changelog[i].processed[t] < committed[t]
    /\ Covers(k, changelog[i].val, committed)

\* After record i the changelog has a record that completes key k.
CompletedAfter(i, k) == \E j \in DOMAIN changelog : j > i /\ Completes(j, k)

\* Whatever a recovery applies is up to date or gets so by a later record.
ChangelogComplete ==
    /\ \A i \in DOMAIN changelog :
          /\ changelog[i] # Compacted
          /\ CountsOnce(changelog[i].key, changelog[i].val)
          /\ \/ Covers(changelog[i].key, changelog[i].val, committed)
             \/ CompletedAfter(i, changelog[i].key)

\* So is what the store partition on a disk holds, from its changelog offset on.
StoreCompletes(a) ==
    \A k \in Key :
        /\ CountsOnce(k, store[a][k])
        /\ Covers(k, store[a][k], committed) \/ CompletedAfter(storeOff[a] + 1, k)

\* A recovery reads the changelog from the store's offset to its end.
RecoversAll(a) ==
    mode[a] = "recovering" =>
        /\ recovery[a].highwater = Len(changelog)
        /\ recovery[a].pos <= storeOff[a] + 1

\* The owner's store is the state at the committed offsets, and what it reads
\* through its checkpoint is the state at its position.
OwnerState(a) ==
    mode[a] \in {"processing", "revoking"} =>
        \A k \in Key :
            /\ stage[a] # "storing" => store[a][k] = Applied(k, committed)
            /\ Get(a, k) = Applied(k, position[a])

\* The flush leaves the record of every updated key behind every store's offset
\* and before no other record of the key.
FlushedRecords(a) ==
    stage[a] \in {"flushing", "committing"} /\ ~deliveryError[a] =>
        \A k \in DOMAIN updates[a] \ pendingLog[a] :
            \E i \in DOMAIN changelog :
                /\ changelog[i] = ChangelogRecord(a, k)
                /\ \A j \in DOMAIN changelog : j > i => changelog[j].key # k
                /\ \A b \in App : storeOff[b] + 1 < i

StateInv ==
    /\ ChangelogComplete
    /\ \A a \in App :
          StoreCompletes(a) /\ RecoversAll(a) /\ OwnerState(a) /\ FlushedRecords(a)

\* The inductive invariant behind ConsistentState, when no hazard is on: the parts
\* above, with Inv of Checkpointing (checkpoint.py commit(), recovery.py, _on_assign).
ExactInv == OwnerInv /\ BoundedInv /\ OffsetInv /\ StateInv

-----------------------------------------------------------------------------
(* Outputs. *)

\* The messages of a key are all in one topic.
OneTopicPerKey == \A m, n \in Message : KeyOf[m] = KeyOf[n] => m[1] = n[1]

\* An output record carries the state right after its message.
OutputExact(out) ==
    out.val = Applied(KeyOf[out.msg], [t \in Topic |-> out.msg[2] + 1])

OutputInv ==
    \A out \in outputs \cup UNION {pendingOut[a] : a \in App} : OutputExact(out)
=============================================================================
