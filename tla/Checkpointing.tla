---------------------------- MODULE Checkpointing ----------------------------
(***************************************************************************)
(* The processing loop of quixstreams.Application under the at-least-once  *)
(* guarantee: consuming, executing the dataframe, the checkpoint and its   *)
(* five commit steps, the state store and its changelog topic, recovery,   *)
(* and the rebalance callbacks, for several instances of one application   *)
(* in one consumer group.                                                  *)
(*                                                                         *)
(* One partition number is modelled: the co-partitioned topics of a stream *)
(* (Topic), their store partition and its changelog partition are always   *)
(* assigned together.  Processing a message updates the state of the       *)
(* message's key, produces one output record that carries the new state,   *)
(* and adds one record to a batching sink.  A state value counts how often *)
(* each message has been applied to it, so a lost or a double update can   *)
(* be told from a correct one.                                             *)
(***************************************************************************)
EXTENDS Integers, Sequences

CONSTANTS
    App,        \* instances of the application
    Topic,      \* input topics of the stream
    Key,        \* message keys
    MaxOffset,  \* messages per topic: their offsets are 0..MaxOffset-1
    KeyOf,      \* message -> key
    MaxFaults,  \* bound on crashes, rebalances, broker errors, backpressure
    Hazards,    \* what else may go wrong, a subset of HazardKinds
    NoApp,      \* no instance owns the partition
    Compacted   \* a changelog record removed by log compaction

\* "eviction"       - a live instance may be thrown out of the group unnoticed
\* "compaction"     - the broker compacts the changelog topic
\* "partial_commit" - a commit request may succeed for some topics only
\* "recreation"     - the changelog topic may be deleted and created anew
HazardKinds == {"eviction", "compaction", "partial_commit", "recreation"}

Message == Topic \X (0..MaxOffset - 1)

ASSUME ConstantsAssumption ==
    /\ MaxOffset \in Nat
    /\ MaxFaults \in Nat
    /\ KeyOf \in [Message -> Key]
    /\ Hazards \subseteq HazardKinds
    /\ NoApp \notin App

VARIABLES
    \* Kafka and the sink's destination
    committed,      \* topic -> committed offset of the group (0: none yet)
    changelog,      \* records of the changelog partition; offset o is at o+1
    outputs,        \* records delivered to the output topic
    sunk,           \* messages written to the sink's destination
    owner,          \* the instance the coordinator assigned the partition to
    members,        \* the instances the coordinator counts as members
    \* the Application loop of an instance
    mode,           \* what the instance does with the partition
    stage,          \* how far Checkpoint.commit() has got
    position,       \* topic -> next offset the consumer returns
    \* the current Checkpoint of an instance
    tpOffsets,      \* Checkpoint._tp_offsets (-1: topic absent)
    starting,       \* Checkpoint._starting_tp_offsets (-1: topic absent)
    updates,        \* update cache of the checkpoint's store transaction
    stale,          \* the transaction's store partition has been closed
    \* sink and producer of an instance
    batch,          \* messages in the BatchingSink's batches
    pendingOut,     \* output records produced but not yet delivered
    pendingLog,     \* keys whose changelog record is not yet delivered
    deliveryError,  \* InternalProducer._error is set
    producedOff,    \* InternalProducer._tp_offsets of the changelog (-1: None)
    \* the store partition on the instance's disk, and its recovery
    store,          \* key -> value
    storeOff,       \* changelog offset saved with the data (-1: None)
    recovery,       \* the RecoveryPartition: position, highwater, committed
    faults          \* faults so far

brokerVars   == <<committed, changelog, outputs, sunk>>
groupVars    == <<owner, members>>
loopVars     == <<mode, stage, position>>
ckptVars     == <<tpOffsets, starting, updates, stale>>
producerVars == <<pendingOut, pendingLog, deliveryError, producedOff>>
storeVars    == <<store, storeOff>>
vars == <<brokerVars, groupVars, loopVars, ckptVars, batch, producerVars,
          storeVars, recovery, faults>>

Offsets  == [Topic -> 0..MaxOffset]
\* Offsets that a dict of the code may lack: -1 stands for an absent topic.
Partial  == [Topic -> -1..MaxOffset - 1]
Value    == [Message -> Nat]
Output   == [msg : Message, val : Value]
\* A changelog record and the processed offsets in its header.
Record   == [key : Key, val : Value, processed : Partial]

\* The mark that compaction leaves is no record.
ASSUME CompactedAssumption == Compacted \notin Record

Mode  == {"down", "joining", "recovering", "processing", "revoking"}
Stage == {"idle", "flushing", "committing", "storing"}

BrokerTypeOK ==
    /\ committed \in Offsets
    /\ changelog \in Seq(Record \cup {Compacted})
    /\ outputs \subseteq Output
    /\ sunk \subseteq Message
    /\ owner \in App \cup {NoApp}
    /\ members \subseteq App
    /\ faults \in 0..MaxFaults

LoopTypeOK ==
    /\ mode \in [App -> Mode]
    /\ stage \in [App -> Stage]
    /\ position \in [App -> Offsets]
    /\ batch \in [App -> SUBSET Message]

CheckpointTypeOK ==
    /\ tpOffsets \in [App -> Partial]
    /\ starting \in [App -> Partial]
    /\ DOMAIN updates = App
    /\ \A a \in App : \E ks \in SUBSET Key : updates[a] \in [ks -> Value]
    /\ stale \in [App -> BOOLEAN]

ProducerTypeOK ==
    /\ pendingOut \in [App -> SUBSET Output]
    /\ pendingLog \in [App -> SUBSET Key]
    /\ deliveryError \in [App -> BOOLEAN]
    /\ producedOff \in [App -> Int]

StoreTypeOK ==
    /\ store \in [App -> [Key -> Value]]
    /\ storeOff \in [App -> Int]
    /\ recovery \in [App -> [pos : Nat, highwater : Nat, committed : Offsets]]

TypeOK ==
    /\ BrokerTypeOK
    /\ LoopTypeOK
    /\ CheckpointTypeOK
    /\ ProducerTypeOK
    /\ StoreTypeOK

-----------------------------------------------------------------------------
(* Values, dictionaries and checkpoints. *)

Blank  == [m \in Message |-> 0]
Absent == [t \in Topic |-> -1]
Begin  == [t \in Topic |-> 0]

NoUpdates == [k \in {} |-> Blank]
NoRecovery == [pos |-> 0, highwater |-> 0, committed |-> Begin]

\* dict[key] = value
Put(dict, key, value) ==
    [k \in DOMAIN dict \cup {key} |-> IF k = key THEN value ELSE dict[k]]

\* What a store transaction reads: its own updates over the store partition.
Get(a, k) ==
    IF k \in DOMAIN updates[a] THEN updates[a][k] ELSE store[a][k]

\* Checkpoint.empty()
Empty(a) == tpOffsets[a] = Absent

\* Mutants: the starting offsets, or the processed offsets, outlive a checkpoint.
InitCheckpointKeepsStarting(a) ==
    /\ tpOffsets' = [tpOffsets EXCEPT ![a] = Absent]
    /\ updates'   = [updates EXCEPT ![a] = NoUpdates]
    /\ stale'     = [stale EXCEPT ![a] = FALSE]
    /\ UNCHANGED starting
InitCheckpointKeepsOffsets(a) ==
    /\ starting' = [starting EXCEPT ![a] = Absent]
    /\ updates'  = [updates EXCEPT ![a] = NoUpdates]
    /\ stale'    = [stale EXCEPT ![a] = FALSE]
    /\ UNCHANGED tpOffsets

\* ProcessingContext.init_checkpoint()
InitCheckpoint(a) ==
    /\ tpOffsets' = [tpOffsets EXCEPT ![a] = Absent]
    /\ starting'  = [starting EXCEPT ![a] = Absent]
    /\ updates'   = [updates EXCEPT ![a] = NoUpdates]
    /\ stale'     = [stale EXCEPT ![a] = FALSE]

\* The process is gone: only the store partition on its disk is left.
ProcessEnds(a) ==
    /\ mode' = [mode EXCEPT ![a] = "down"]
    /\ stage' = [stage EXCEPT ![a] = "idle"]
    /\ position' = [position EXCEPT ![a] = Begin]
    /\ InitCheckpoint(a)
    /\ batch' = [batch EXCEPT ![a] = {}]
    /\ pendingOut' = [pendingOut EXCEPT ![a] = {}]
    /\ pendingLog' = [pendingLog EXCEPT ![a] = {}]
    /\ deliveryError' = [deliveryError EXCEPT ![a] = FALSE]
    /\ producedOff' = [producedOff EXCEPT ![a] = -1]
    /\ recovery' = [recovery EXCEPT ![a] = NoRecovery]
    /\ UNCHANGED storeVars

ReleasePartition(a) == owner' = IF owner = a THEN NoApp ELSE owner

\* An exception leaves run(): stop(fail=True), and closing the consumer
\* leaves the group; on_revoke does not commit because of _failed.
Fail(a) ==
    /\ ProcessEnds(a)
    /\ ReleasePartition(a)
    /\ members' = members \ {a}

\* One more fault of the bounded number MaxFaults.
Fault ==
    /\ faults < MaxFaults
    /\ faults' = faults + 1

-----------------------------------------------------------------------------
(* Group membership and rebalancing. *)

\* Application.run(): the process starts and subscribes.  The session of its
\* previous run has timed out.
Start(a) ==
    /\ mode[a] = "down"
    /\ a \notin members
    /\ mode' = [mode EXCEPT ![a] = "joining"]
    /\ members' = members \cup {a}
    /\ UNCHANGED <<brokerVars, owner, stage, position, ckptVars, batch,
                   producerVars, storeVars, recovery, faults>>

\* The consumer rejoins the group after it has lost its assignment.
Rejoin(a) ==
    /\ mode[a] = "joining"
    /\ a \notin members
    /\ members' = members \cup {a}
    /\ UNCHANGED <<brokerVars, owner, loopVars, ckptVars, batch,
                   producerVars, storeVars, recovery, faults>>

\* Mutants: off by one in either comparison with the high watermark.
NeedsRecoveryLate(a) == Len(changelog) - 1 > storeOff[a] + 1
HasInvalidOffsetEarly(a) == Len(changelog) # 0 /\ Len(changelog) - 1 <= storeOff[a]

\* RecoveryPartition.needs_recovery_check and has_invalid_offset; compaction
\* leaves the low watermark at zero.
NeedsRecovery(a) == Len(changelog) # 0 /\ Len(changelog) - 1 > storeOff[a]
HasInvalidOffset(a) == Len(changelog) # 0 /\ Len(changelog) <= storeOff[a]

\* Mutant: a missing changelog offset is passed on as it is.
SeekOffsetUnchecked(a) == storeOff[a]

\* Where do_recovery() seeks to: RecoveryPartition.offset, whose record is
\* read again, or the beginning of the changelog.
SeekOffset(a) == IF storeOff[a] < 0 THEN 0 ELSE storeOff[a]

\* _on_assign: open the store partition, compare its changelog offset with
\* the watermarks, and recover if it may be behind.  The committed offsets
\* are read once, here.  The checkpoint is left as it is.
OnAssign(a) ==
    /\ mode[a] = "joining"
    /\ stage[a] = "idle"
    /\ a \in members
    /\ owner = NoApp
    /\ ~HasInvalidOffset(a)
    /\ owner' = a
    /\ position' = [position EXCEPT ![a] = committed]
    /\ \/ /\ NeedsRecovery(a)
          /\ mode' = [mode EXCEPT ![a] = "recovering"]
          /\ recovery' = [recovery EXCEPT ![a] =
                [pos |-> SeekOffset(a),
                 highwater |-> Len(changelog),
                 committed |-> committed]]
       \/ /\ ~NeedsRecovery(a)
          /\ mode' = [mode EXCEPT ![a] = "processing"]
          /\ UNCHANGED recovery
    /\ UNCHANGED <<brokerVars, members, stage, ckptVars, batch, producerVars,
                   storeVars, faults>>

\* ... InvalidStoreChangelogOffset is raised from the callback.
OnAssignFails(a) ==
    /\ mode[a] = "joining"
    /\ stage[a] = "idle"
    /\ a \in members
    /\ owner = NoApp
    /\ HasInvalidOffset(a)
    /\ Fail(a)
    /\ UNCHANGED <<brokerVars, faults>>

\* _on_revoke: commit what has been processed, then close the store
\* partition.  Rebalances are counted as faults to bound their number.
OnRevoke(a) ==
    /\ mode[a] \in {"processing", "recovering"}
    /\ stage[a] = "idle"
    /\ a \in members
    /\ Fault
    /\ recovery' = [recovery EXCEPT ![a] = NoRecovery]
    /\ \/ /\ Empty(a)
          /\ mode' = [mode EXCEPT ![a] = "joining"]
          /\ ReleasePartition(a)
       \/ /\ ~Empty(a)
          /\ mode' = [mode EXCEPT ![a] = "revoking"]
          /\ UNCHANGED owner
    /\ UNCHANGED <<brokerVars, members, stage, position, ckptVars, batch,
                   producerVars, storeVars>>

\* _on_lost: the store partition is closed, the checkpoint is kept, and the
\* transaction in it goes on referring to the closed partition.
OnLost(a) ==
    /\ mode[a] \in {"processing", "recovering"}
    /\ stage[a] = "idle"
    /\ a \notin members
    /\ mode' = [mode EXCEPT ![a] = "joining"]
    /\ stale' = [stale EXCEPT ![a] = ~Empty(a)]
    /\ recovery' = [recovery EXCEPT ![a] = NoRecovery]
    /\ UNCHANGED <<brokerVars, groupVars, stage, position, tpOffsets, starting,
                   updates, batch, producerVars, storeVars, faults>>

\* The coordinator gives up on an instance that has missed its heartbeats or
\* its poll interval; the instance finds out later.
Evict(a) ==
    /\ "eviction" \in Hazards
    /\ mode[a] # "down"
    /\ owner = a
    /\ Fault
    /\ members' = members \ {a}
    /\ owner' = NoApp
    /\ UNCHANGED <<brokerVars, loopVars, ckptVars, batch, producerVars,
                   storeVars, recovery>>

\* The process dies without leaving the group ...
Crash(a) ==
    /\ mode[a] # "down"
    /\ Fault
    /\ ProcessEnds(a)
    /\ UNCHANGED <<brokerVars, groupVars>>

\* ... and the coordinator notices when the session times out.
SessionTimeout(a) ==
    /\ mode[a] = "down"
    /\ a \in members
    /\ members' = members \ {a}
    /\ ReleasePartition(a)
    /\ UNCHANGED <<brokerVars, loopVars, ckptVars, batch, producerVars,
                   storeVars, recovery, faults>>

-----------------------------------------------------------------------------
(* Recovery of the store partition from the changelog. *)

\* Mutants: off by one; no comparison at all; one committed topic is enough.
ShouldApplyOffByOne(a, record) ==
    \A t \in Topic : record.processed[t] <= recovery[a].committed[t]
ShouldApplyAlways(a, record) == TRUE
ShouldApplyAny(a, record) ==
    \E t \in Topic : record.processed[t] < recovery[a].committed[t]

\* RecoveryPartition._should_apply_changelog
ShouldApply(a, record) ==
    \A t \in Topic : record.processed[t] < recovery[a].committed[t]

\* One changelog message of the recovery loop.  The consumer does not stop
\* at the highwater mark taken when the partition was assigned.
RecoverMessage(a) ==
    /\ mode[a] = "recovering"
    /\ \E i \in recovery[a].pos + 1..Len(changelog) :
          /\ changelog[i] # Compacted
          /\ \A j \in recovery[a].pos + 1..i - 1 : changelog[j] = Compacted
          /\ \/ /\ ShouldApply(a, changelog[i])
                /\ store' = [store EXCEPT
                                ![a][changelog[i].key] = changelog[i].val]
             \/ /\ ~ShouldApply(a, changelog[i])
                /\ UNCHANGED store
          /\ storeOff' = [storeOff EXCEPT ![a] = i - 1]
          /\ recovery' = [recovery EXCEPT ![a].pos = i]
    /\ UNCHANGED <<brokerVars, groupVars, loopVars, ckptVars, batch,
                   producerVars, faults>>

\* Mutant: the recovery waits to be past the highwater mark.
RecoveryFinishedPast(a) == recovery[a].pos > recovery[a].highwater

\* RecoveryPartition.finished_recovery_check
RecoveryFinished(a) == recovery[a].pos = recovery[a].highwater

\* An empty poll finds the consumer exactly at the highwater mark.
RecoveryDone(a) ==
    /\ mode[a] = "recovering"
    /\ RecoveryFinished(a)
    /\ mode' = [mode EXCEPT ![a] = "processing"]
    /\ recovery' = [recovery EXCEPT ![a] = NoRecovery]
    /\ UNCHANGED <<brokerVars, groupVars, stage, position, ckptVars, batch,
                   producerVars, storeVars, faults>>

-----------------------------------------------------------------------------
(* Processing a message. *)

\* A message of topic t is there to be consumed between two checkpoints.
Consumable(a, t) ==
    /\ mode[a] = "processing"
    /\ stage[a] = "idle"
    /\ position[a][t] < MaxOffset

NextMessage(a, t) == <<t, position[a][t]>>

\* InternalProducer.produce() raises the error of an earlier delivery.
ProduceRaises(a) == deliveryError[a]

\* A stale transaction answers from its update cache only.
ReadRaises(a, t) ==
    stale[a] /\ KeyOf[NextMessage(a, t)] \notin DOMAIN updates[a]

\* Checkpoint.store_offset() raises InvalidStoredOffset.
StoreOffsetRaises(a, t) == position[a][t] <= tpOffsets[a][t]

\* _process_message: execute the dataframe, then store the offset.
Process(a, t) ==
    LET m   == NextMessage(a, t)
        k   == KeyOf[m]
        val == [Get(a, k) EXCEPT ![m] = @ + 1]
    IN  /\ Consumable(a, t)
        /\ ~ProduceRaises(a)
        /\ ~ReadRaises(a, t)
        /\ ~StoreOffsetRaises(a, t)
        /\ position' = [position EXCEPT ![a][t] = @ + 1]
        /\ updates' = [updates EXCEPT ![a] = Put(@, k, val)]
        /\ pendingOut' = [pendingOut EXCEPT ![a] = @ \cup {[msg |-> m, val |-> val]}]
        /\ batch' = [batch EXCEPT ![a] = @ \cup {m}]
        /\ tpOffsets' = [tpOffsets EXCEPT ![a][t] = m[2]]
        /\ starting' = [starting EXCEPT ![a][t] = IF @ < 0 THEN m[2] ELSE @]
        /\ UNCHANGED <<brokerVars, groupVars, mode, stage, stale, pendingLog,
                       deliveryError, producedOff, storeVars, recovery, faults>>

\* ... an exception on the way is not suppressed and stops the application.
ProcessFails(a, t) ==
    /\ Consumable(a, t)
    /\ ProduceRaises(a) \/ ReadRaises(a, t) \/ StoreOffsetRaises(a, t)
    /\ Fail(a)
    /\ UNCHANGED <<brokerVars, faults>>

-----------------------------------------------------------------------------
(* Checkpoint.commit(). *)

\* ProcessingContext.commit_checkpoint() finds the checkpoint expired, or is
\* forced to commit by on_revoke, and there is something to commit.  An
\* instance without an assignment still commits what it has.
CommitDue(a) ==
    /\ mode[a] \in {"processing", "joining", "revoking"}
    /\ stage[a] = "idle"
    /\ ~Empty(a)

\* Steps 1 and 2: flush the sink, produce the changelog records.
CommitBegins(a) ==
    /\ CommitDue(a)
    /\ ~ProduceRaises(a)
    /\ sunk' = sunk \cup batch[a]
    /\ batch' = [batch EXCEPT ![a] = {}]
    /\ pendingLog' = [pendingLog EXCEPT ![a] = DOMAIN updates[a]]
    /\ stage' = [stage EXCEPT ![a] = "flushing"]
    /\ UNCHANGED <<committed, changelog, outputs, groupVars, mode, position,
                   ckptVars, pendingOut, deliveryError, producedOff, storeVars,
                   recovery, faults>>

\* Step 2 raises the error of an earlier delivery, after the sink's flush.
CommitBeginFails(a) ==
    /\ CommitDue(a)
    /\ ProduceRaises(a)
    /\ sunk' = sunk \cup batch[a]
    /\ Fail(a)
    /\ UNCHANGED <<committed, changelog, outputs, faults>>

\* A checkpoint is finished: on_revoke gives the partition up, the
\* processing loop goes on.
AfterCommit(a) ==
    \/ /\ mode[a] = "revoking"
       /\ mode' = [mode EXCEPT ![a] = "joining"]
       /\ ReleasePartition(a)
    \/ /\ mode[a] # "revoking"
       /\ UNCHANGED <<mode, owner>>

\* Mutant: the consumer is paused but not rewound.
NotRewound(a) == position[a]

\* trigger_backpressure(): the assigned topics that the checkpoint has offsets
\* of are rewound to the first of them.
Rewound(a) ==
    [t \in Topic |-> IF mode[a] # "joining" /\ starting[a][t] >= 0
                       THEN starting[a][t] ELSE position[a][t]]

\* Step 1 with backpressure: the batches of some topics may have been written,
\* the consumer seeks back to the first offsets of the checkpoint, and the
\* checkpoint is replaced by a new one without being committed.
Backpressure(a) ==
    /\ CommitDue(a)
    /\ batch[a] # {}
    /\ Fault
    /\ \E ts \in SUBSET Topic :
          /\ \E m \in batch[a] : m[1] \notin ts
          /\ sunk' = sunk \cup {m \in batch[a] : m[1] \in ts}
    /\ batch' = [batch EXCEPT ![a] = {}]
    /\ position' = [position EXCEPT ![a] = Rewound(a)]
    /\ InitCheckpoint(a)
    /\ AfterCommit(a)
    /\ UNCHANGED <<committed, changelog, outputs, members, stage, producerVars,
                   storeVars, recovery>>

\* Mutants: the flush ignores a delivery error, or does not wait for outputs.
FlushedUnchecked(a) == pendingOut[a] = {} /\ pendingLog[a] = {}
FlushedChangelogOnly(a) == pendingLog[a] = {} /\ ~deliveryError[a]

\* InternalProducer.flush() leaves nothing in the producer's queue and raises
\* no error.
Flushed(a) == pendingOut[a] = {} /\ pendingLog[a] = {} /\ ~deliveryError[a]

\* Step 3: Producer.flush() returns once every record has been delivered.
FlushProducer(a) ==
    /\ stage[a] = "flushing"
    /\ Flushed(a)
    /\ stage' = [stage EXCEPT ![a] = "committing"]
    /\ UNCHANGED <<brokerVars, groupVars, mode, position, ckptVars, batch,
                   producerVars, storeVars, recovery, faults>>

\* Step 3 raises KafkaProducerDeliveryError.
FlushProducerFails(a) ==
    /\ stage[a] = "flushing"
    /\ pendingOut[a] = {}
    /\ pendingLog[a] = {}
    /\ deliveryError[a]
    /\ Fail(a)
    /\ UNCHANGED <<brokerVars, faults>>

\* Step 3 raises CheckpointProducerTimeout.
FlushProducerTimesOut(a) ==
    /\ stage[a] = "flushing"
    /\ pendingOut[a] # {} \/ pendingLog[a] # {}
    /\ Fault
    /\ Fail(a)
    /\ UNCHANGED brokerVars

\* The committed offsets after a commit that the broker applies to topics ts.
Commit(a, ts) ==
    [t \in Topic |-> IF t \in ts /\ tpOffsets[a][t] >= 0
                       THEN tpOffsets[a][t] + 1 ELSE committed[t]]

\* Step 4: the coordinator accepts the offsets of a member.
CommitOffsets(a) ==
    /\ stage[a] = "committing"
    /\ a \in members
    /\ committed' = Commit(a, Topic)
    /\ stage' = [stage EXCEPT ![a] = "storing"]
    /\ UNCHANGED <<changelog, outputs, sunk, groupVars, mode, position,
                   ckptVars, batch, producerVars, storeVars, recovery, faults>>

\* Step 4 raises CheckpointConsumerCommitError: an instance that is no longer
\* a member is refused.
CommitRefused(a) ==
    /\ stage[a] = "committing"
    /\ a \notin members
    /\ Fail(a)
    /\ UNCHANGED <<brokerVars, faults>>

\* Step 4 raises CheckpointConsumerCommitError: the request or its answer got
\* lost, or the broker reports an error for some of the topics.
CommitErrs(a) ==
    /\ stage[a] = "committing"
    /\ a \in members
    /\ Fault
    /\ \E ts \in SUBSET Topic :
          /\ "partial_commit" \in Hazards \/ ts \in {{}, Topic}
          /\ committed' = Commit(a, ts)
    /\ Fail(a)
    /\ UNCHANGED <<changelog, outputs, sunk>>

\* PartitionTransaction.flush() raises InvalidChangelogOffset.
ChangelogOffsetRaises(a) == updates[a] # NoUpdates /\ producedOff[a] < storeOff[a]

\* Mutant: the offset of the next record is saved.
SavedOffsetNext(a) == producedOff[a] + 1

\* The changelog offset that flush() saves; nothing is saved without updates.
SavedOffset(a) == IF updates[a] = NoUpdates THEN storeOff[a] ELSE producedOff[a]

\* Step 5: write the updates and the changelog offset to the store partition.
FlushStores(a) ==
    /\ stage[a] = "storing"
    /\ ~stale[a]
    /\ ~ChangelogOffsetRaises(a)
    /\ store' = [store EXCEPT ![a] = [k \in Key |-> Get(a, k)]]
    /\ storeOff' = [storeOff EXCEPT ![a] = SavedOffset(a)]
    /\ stage' = [stage EXCEPT ![a] = "idle"]
    /\ InitCheckpoint(a)
    /\ AfterCommit(a)
    /\ UNCHANGED <<brokerVars, members, position, batch, producerVars, recovery,
                   faults>>

\* Step 5 fails: the partition is closed or its offset is ahead.
FlushStoresFails(a) ==
    /\ stage[a] = "storing"
    /\ stale[a] \/ ChangelogOffsetRaises(a)
    /\ Fail(a)
    /\ UNCHANGED <<brokerVars, faults>>

-----------------------------------------------------------------------------
(* The producer's background thread, and the broker. *)

\* An output record reaches its topic and _on_delivery reports success.
DeliverOutput(a) ==
    /\ \E out \in pendingOut[a] :
          /\ outputs' = outputs \cup {out}
          /\ pendingOut' = [pendingOut EXCEPT ![a] = @ \ {out}]
    /\ UNCHANGED <<committed, changelog, sunk, groupVars, loopVars, ckptVars,
                   batch, pendingLog, deliveryError, producedOff, storeVars,
                   recovery, faults>>

\* The changelog record that PartitionTransaction.prepare() makes of key k.
ChangelogRecord(a, k) ==
    [key |-> k, val |-> updates[a][k], processed |-> tpOffsets[a]]

\* A changelog record reaches the changelog; _on_delivery keeps its offset,
\* unless an error is waiting to be raised.
DeliverChangelog(a) ==
    /\ \E k \in pendingLog[a] :
          /\ changelog' = Append(changelog, ChangelogRecord(a, k))
          /\ pendingLog' = [pendingLog EXCEPT ![a] = @ \ {k}]
    /\ producedOff' = [producedOff EXCEPT
                          ![a] = IF deliveryError[a] THEN @ ELSE Len(changelog)]
    /\ UNCHANGED <<committed, outputs, sunk, groupVars, loopVars, ckptVars,
                   batch, pendingOut, deliveryError, storeVars, recovery, faults>>

\* _on_delivery reports an error; the record may have been written all the same.
OutputDeliveryFails(a) ==
    /\ Fault
    /\ \E out \in pendingOut[a] :
          /\ outputs' \in {outputs, outputs \cup {out}}
          /\ pendingOut' = [pendingOut EXCEPT ![a] = @ \ {out}]
    /\ deliveryError' = [deliveryError EXCEPT ![a] = TRUE]
    /\ UNCHANGED <<committed, changelog, sunk, groupVars, loopVars, ckptVars,
                   batch, pendingLog, producedOff, storeVars, recovery>>

ChangelogDeliveryFails(a) ==
    /\ Fault
    /\ \E k \in pendingLog[a] :
          /\ changelog' \in {changelog, Append(changelog, ChangelogRecord(a, k))}
          /\ pendingLog' = [pendingLog EXCEPT ![a] = @ \ {k}]
    /\ deliveryError' = [deliveryError EXCEPT ![a] = TRUE]
    /\ UNCHANGED <<committed, outputs, sunk, groupVars, loopVars, ckptVars,
                   batch, pendingOut, producedOff, storeVars, recovery>>

\* The broker removes a record that a later one of the same key supersedes.
Compact ==
    /\ "compaction" \in Hazards
    /\ \E i, j \in DOMAIN changelog :
          /\ i < j
          /\ changelog[i] # Compacted
          /\ changelog[j] # Compacted
          /\ changelog[i].key = changelog[j].key
          /\ changelog' = [changelog EXCEPT ![i] = Compacted]
    /\ UNCHANGED <<committed, outputs, sunk, groupVars, loopVars, ckptVars,
                   batch, producerVars, storeVars, recovery, faults>>

\* Somebody deletes the changelog topic while the application is stopped and
\* leaves the stores; the application creates the topic again.
Recreate ==
    /\ "recreation" \in Hazards
    /\ changelog # <<>>
    /\ \A a \in App : mode[a] = "down"
    /\ changelog' = <<>>
    /\ UNCHANGED <<committed, outputs, sunk, groupVars, loopVars, ckptVars,
                   batch, producerVars, storeVars, recovery, faults>>

-----------------------------------------------------------------------------

Init ==
    /\ committed = Begin
    /\ changelog = <<>>
    /\ outputs = {}
    /\ sunk = {}
    /\ owner = NoApp
    /\ members = {}
    /\ mode = [a \in App |-> "down"]
    /\ stage = [a \in App |-> "idle"]
    /\ position = [a \in App |-> Begin]
    /\ tpOffsets = [a \in App |-> Absent]
    /\ starting = [a \in App |-> Absent]
    /\ updates = [a \in App |-> NoUpdates]
    /\ stale = [a \in App |-> FALSE]
    /\ batch = [a \in App |-> {}]
    /\ pendingOut = [a \in App |-> {}]
    /\ pendingLog = [a \in App |-> {}]
    /\ deliveryError = [a \in App |-> FALSE]
    /\ producedOff = [a \in App |-> -1]
    /\ store = [a \in App |-> [k \in Key |-> Blank]]
    /\ storeOff = [a \in App |-> -1]
    /\ recovery = [a \in App |-> NoRecovery]
    /\ faults = 0

\* What the processing loop of a running instance does by itself.
Loop(a) ==
    \/ Rejoin(a) \/ OnAssign(a) \/ OnAssignFails(a) \/ OnLost(a)
    \/ RecoverMessage(a) \/ RecoveryDone(a)
    \/ \E t \in Topic : Process(a, t) \/ ProcessFails(a, t)
    \/ CommitBegins(a) \/ CommitBeginFails(a)
    \/ FlushProducer(a) \/ FlushProducerFails(a)
    \/ CommitOffsets(a) \/ CommitRefused(a)
    \/ FlushStores(a) \/ FlushStoresFails(a)

\* What the producer's background thread does.
Deliver(a) == DeliverOutput(a) \/ DeliverChangelog(a)

\* What may happen, but need not.
Disturb(a) ==
    \/ OnRevoke(a) \/ Evict(a) \/ Crash(a)
    \/ Backpressure(a) \/ FlushProducerTimesOut(a) \/ CommitErrs(a)
    \/ OutputDeliveryFails(a) \/ ChangelogDeliveryFails(a)

Next ==
    \/ \E a \in App : Start(a) \/ SessionTimeout(a) \/ Loop(a) \/ Deliver(a) \/ Disturb(a)
    \/ Compact
    \/ Recreate

Spec == Init /\ [][Next]_vars

\* A stopped instance is restarted by its supervisor, the coordinator expires
\* dead sessions, and running instances and their producers keep going.
Fairness ==
    \A a \in App :
        /\ WF_vars(Start(a))
        /\ WF_vars(SessionTimeout(a))
        /\ WF_vars(Loop(a))
        /\ WF_vars(Deliver(a))

FairSpec == Spec /\ Fairness

-----------------------------------------------------------------------------
(* Properties. *)

\* The state of key k once exactly the messages below the offsets have been
\* applied, each of them once.
Applied(k, offsets) ==
    [m \in Message |-> IF KeyOf[m] = k /\ m[2] < offsets[m[1]] THEN 1 ELSE 0]

Produced == {out.msg : out \in outputs}

\* At-least-once (docs/configuration.md, checkpoint.py commit()): an offset is
\* committed only when the output and the sink's row of every message before
\* it exist, whatever crashed, timed out, was evicted or pushed back.
AtLeastOnce ==
    \A m \in Message : m[2] < committed[m[1]] => m \in Produced \cap sunk

\* Consistent state (recovery.py _should_apply_changelog): an instance that
\* processes the partition sees, for every key, the effect of exactly the
\* messages before its position - restarts, replays and handovers lose none
\* and apply none twice.
ConsistentState ==
    \A a \in App : mode[a] \in {"processing", "revoking"} =>
        \A k \in Key : Get(a, k) = Applied(k, position[a])

\* The store partition on a disk never holds the effect of a message whose
\* offset is not committed (checkpoint.py: stores are flushed last).
StoreHoldsCommittedOnly ==
    \A a \in App, k \in Key, m \in Message :
        store[a][k][m] > 0 => m[2] < committed[m[1]]

\* Reprocessing produces the same outputs (docs/advanced/checkpointing.md,
\* "Recovering the State Stores"): two output records of one message agree.
SameOutputs ==
    \A out1, out2 \in outputs : out1.msg = out2.msg => out1 = out2

\* The comment on trigger_backpressure in checkpoint.py: the first processed
\* offset of a checkpoint is the last committed offset, which is what makes
\* the seek a complete rewind.
StartsAtCommitted ==
    \A a \in App, t \in Topic :
        starting[a][t] >= 0 /\ stage[a] # "storing" => starting[a][t] = committed[t]

\* The "paranoid check" of store_offset "shouldn't normally happen": the next
\* message to process is ahead of those the checkpoint holds.
OffsetsIncrease ==
    \A a \in App, t \in Topic :
        mode[a] = "processing" => position[a][t] > tpOffsets[a][t]

\* A store partition's changelog offset stays inside the changelog and behind
\* what its producer has delivered, so that neither InvalidChangelogOffset nor
\* InvalidStoreChangelogOffset is ever raised.
ChangelogOffsetsValid ==
    \A a \in App :
        /\ storeOff[a] < Len(changelog)
        /\ stage[a] = "storing" => ~ChangelogOffsetRaises(a)

\* The refinement of the abstract promise: a message is done when its effects
\* are visible outside.
Promise == INSTANCE ProcessingGuarantee WITH done <- Produced \cap sunk
KeepsPromise == Promise!Spec

\* Every message is eventually processed and committed, once faults stop: no
\* combination of failures leaves the group stuck.
EventuallyCommitted == <>[](committed = [t \in Topic |-> MaxOffset])

\* A recovery that begins comes to its end.
RecoveryEnds ==
    \A a \in App : mode[a] = "recovering" ~> mode[a] # "recovering"

-----------------------------------------------------------------------------
(* Why at-least-once holds: the inductive invariant that the proofs use. *)

\* Message m has been handed to the producer of instance a: it is delivered, or
\* pending, or the producer holds an error that no commit gets past.
Sent(a, m) ==
    \/ deliveryError[a]
    \/ m \in Produced
    \/ \E out \in pendingOut[a] : out.msg = m

\* The instance takes part in the current or a former assignment.
Assigned(a) == mode[a] \in {"recovering", "processing", "revoking"}

\* Everything before the position is sent and in the sink or its batch.
PositionCovered(a) ==
    Assigned(a) =>
        \A m \in Message : m[2] < position[a][m[1]] =>
            Sent(a, m) /\ m \in sunk \cup batch[a]

\* So is everything up to the offsets the checkpoint will commit, which a
\* checkpoint kept by on_lost may hold without a position.
OffsetsCovered(a) ==
    \A m \in Message : m[2] <= tpOffsets[a][m[1]] =>
        Sent(a, m) /\ m \in sunk \cup batch[a]

\* Before the offsets that backpressure rewinds to, nothing is in a batch.
StartCovered(a) ==
    \A m \in Message : m[2] < starting[a][m[1]] => Sent(a, m) /\ m \in sunk

\* Nor is it for a topic that backpressure does not rewind.
AbsentSunk(a) ==
    Assigned(a) =>
        \A m \in Message :
            starting[a][m[1]] < 0 /\ m[2] < position[a][m[1]] => m \in sunk

\* The commit steps find what the earlier steps established.
CommitCovered(a) ==
    /\ stage[a] # "idle" => batch[a] = {}
    /\ stage[a] \in {"committing", "storing"} => pendingOut[a] = {} /\ ~deliveryError[a]

\* Changelog records are pending during the flush only, for updated keys.
PendingLogOK ==
    \A a \in App :
        /\ pendingLog[a] \subseteq DOMAIN updates[a]
        /\ stage[a] # "flushing" => pendingLog[a] = {}

Covered(a) ==
    /\ PositionCovered(a)
    /\ OffsetsCovered(a)
    /\ StartCovered(a)
    /\ AbsentSunk(a)
    /\ CommitCovered(a)

\* The inductive invariant (checkpoint.py commit(), trigger_backpressure(),
\* _on_assign): AtLeastOnce and what each step needs to keep it.
Inv ==
    /\ TypeOK
    /\ PendingLogOK
    /\ AtLeastOnce
    /\ \A a \in App : Covered(a)
=============================================================================
