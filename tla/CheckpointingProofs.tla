------------------------ MODULE CheckpointingProofs ------------------------
(***************************************************************************)
(* Proofs about Checkpointing, for every number of instances, topics, keys *)
(* and messages, any bound on the faults, and under every hazard: its type *)
(* invariant, and that no offset is committed before the effects of the    *)
(* messages before it are visible outside (AtLeastOnce).                   *)
(*                                                                         *)
(* AtLeastOnce is not inductive: that a commit keeps it depends on what    *)
(* the earlier steps of the checkpoint have established.  Inv adds, for    *)
(* every instance, that the messages before its position, before the       *)
(* offsets in its checkpoint and before those it would be rewound to are   *)
(* covered by its producer and its sink.  The lemmas prove first the       *)
(* types, then these parts, with one lemma per group of actions.           *)
(*                                                                         *)
(* Then follows who processes the partition from where, while no instance  *)
(* is thrown out of the group unnoticed, and what it sees there, while no  *)
(* hazard is on.                                                           *)
(***************************************************************************)
EXTENDS CheckpointingInvariants, TLAPS

\* The initial state, in which no instance has been started, is well typed.
LEMMA InitTypeOK == Init => TypeOK
<1> SUFFICES ASSUME Init PROVE TypeOK
  OBVIOUS
<1> USE ConstantsAssumption DEF Init
<1>1. BrokerTypeOK
  BY DEF BrokerTypeOK, Begin, Offsets, Partial
<1>2. LoopTypeOK
  BY DEF LoopTypeOK, Begin, Offsets, Mode, Stage
<1>3. CheckpointTypeOK
  <2>1. \A a \in App : updates[a] \in [{} -> Value]
    BY DEF NoUpdates
  <2>2. \A a \in App : \E ks \in SUBSET Key : updates[a] \in [ks -> Value]
    <3> TAKE a \in App
    <3> WITNESS {} \in SUBSET Key
    <3> QED BY <2>1
  <2>3. tpOffsets \in [App -> Partial] /\ starting \in [App -> Partial]
    BY DEF Absent, Partial
  <2> QED BY <2>2, <2>3 DEF CheckpointTypeOK
<1>4. ProducerTypeOK
  BY DEF ProducerTypeOK
<1>5. StoreTypeOK
  BY DEF StoreTypeOK, Begin, Offsets, Value, Blank, NoRecovery
<1> QED BY <1>1, <1>2, <1>3, <1>4, <1>5 DEF TypeOK

\* A process that ends, by a crash or an exception that leaves Application.run(),
\* leaves well-typed variables behind.
LEMMA ProcessEndsTypeOK ==
  ASSUME NEW a \in App, TypeOK, ProcessEnds(a)
  PROVE  LoopTypeOK' /\ CheckpointTypeOK' /\ ProducerTypeOK' /\ StoreTypeOK'
<1> USE ConstantsAssumption DEF TypeOK, ProcessEnds, InitCheckpoint
<1>1. LoopTypeOK'
  BY DEF LoopTypeOK, Begin, Offsets, Mode, Stage
<1>2. CheckpointTypeOK'
  <2>1. NoUpdates \in [{} -> Value] /\ {} \in SUBSET Key
    BY DEF NoUpdates
  <2>2. \A b \in App : \E ks \in SUBSET Key : updates'[b] \in [ks -> Value]
    BY <2>1 DEF CheckpointTypeOK
  <2>3. Absent \in Partial
    BY DEF Absent, Partial
  <2> QED BY <2>2, <2>3 DEF CheckpointTypeOK
<1>3. ProducerTypeOK'
  BY DEF ProducerTypeOK
<1>4. StoreTypeOK'
  BY DEF StoreTypeOK, storeVars, NoRecovery, Begin, Offsets
<1> QED BY <1>1, <1>2, <1>3, <1>4

\* The same when the instance leaves the group, too: Application.stop(fail=True).
LEMMA FailTypeOK ==
  ASSUME NEW a \in App, TypeOK, Fail(a)
  PROVE  /\ LoopTypeOK' /\ CheckpointTypeOK' /\ ProducerTypeOK' /\ StoreTypeOK'
         /\ owner' \in App \cup {NoApp}
         /\ members' \subseteq App
<1>1. LoopTypeOK' /\ CheckpointTypeOK' /\ ProducerTypeOK' /\ StoreTypeOK'
  BY ProcessEndsTypeOK DEF Fail
<1>2. owner' \in App \cup {NoApp} /\ members' \subseteq App
  BY DEF TypeOK, BrokerTypeOK, Fail, ReleasePartition
<1> QED BY <1>1, <1>2

\* Processing a message keeps the types: its offset, its updated value and its
\* output record are what the checkpoint, the cache and the producer may hold.
LEMMA ProcessTypeOK ==
  ASSUME NEW a \in App, NEW t \in Topic, TypeOK, Process(a, t)
  PROVE  TypeOK'
<1> USE ConstantsAssumption DEF TypeOK
<1> DEFINE m == NextMessage(a, t)
           k == KeyOf[m]
           val == [Get(a, k) EXCEPT ![m] = @ + 1]
<1>1. m \in Message /\ k \in Key /\ m = <<t, position[a][t]>>
  BY DEF Process, Consumable, NextMessage, Message, LoopTypeOK, Offsets
<1>2. Get(a, k) \in Value
  BY <1>1 DEF Get, CheckpointTypeOK, StoreTypeOK, Value
<1>3. val \in Value
  BY <1>1, <1>2 DEF Value
<1> HIDE DEF m, k, val
<1>4. BrokerTypeOK'
  BY DEF Process, BrokerTypeOK, brokerVars, groupVars
<1>5. LoopTypeOK'
  <2>1. position' \in [App -> Offsets]
    BY DEF Process, Consumable, LoopTypeOK, Offsets
  <2>2. batch' = [batch EXCEPT ![a] = @ \cup {m}]
    BY DEF Process, m
  <2> QED BY <1>1, <2>1, <2>2 DEF Process, LoopTypeOK
<1>6. CheckpointTypeOK'
  <2>1. PICK ks \in SUBSET Key : updates[a] \in [ks -> Value]
    BY DEF CheckpointTypeOK
  <2>2. Put(updates[a], k, val) \in [ks \cup {k} -> Value]
    BY <1>3, <2>1 DEF Put
  <2>3. updates' = [updates EXCEPT ![a] = Put(updates[a], k, val)]
    BY DEF Process, m, k, val
  <2>4. /\ DOMAIN updates' = App
        /\ \A b \in App : \E s \in SUBSET Key : updates'[b] \in [s -> Value]
    BY <2>2, <2>3, <1>1 DEF CheckpointTypeOK
  <2>5. tpOffsets' \in [App -> Partial]
    BY <1>1 DEF Process, CheckpointTypeOK, Partial, Message, m
  <2>6. starting' \in [App -> Partial]
    BY <1>1 DEF Process, CheckpointTypeOK, Partial, Message, m
  <2> QED BY <2>4, <2>5, <2>6 DEF Process, CheckpointTypeOK
<1>7. ProducerTypeOK'
  <2>1. [msg |-> m, val |-> val] \in Output
    BY <1>1, <1>3 DEF Output
  <2>2. pendingOut' = [pendingOut EXCEPT ![a] = @ \cup {[msg |-> m, val |-> val]}]
    BY DEF Process, m, k, val
  <2> QED BY <2>1, <2>2 DEF Process, ProducerTypeOK
<1>8. StoreTypeOK'
  BY DEF Process, StoreTypeOK, storeVars
<1> QED BY <1>4, <1>5, <1>6, <1>7, <1>8

\* What a commit sends to the coordinator are offsets of the topics, whichever of
\* them the broker applies.
LEMMA CommitInOffsets ==
  ASSUME NEW a \in App, NEW ts \in SUBSET Topic, TypeOK
  PROVE  Commit(a, ts) \in Offsets
BY ConstantsAssumption DEF TypeOK, BrokerTypeOK, CheckpointTypeOK, Commit, Offsets, Partial

\* Reading through the update cache yields a value.
LEMMA GetInValue ==
  ASSUME NEW a \in App, NEW k \in Key, TypeOK
  PROVE  Get(a, k) \in Value
BY DEF TypeOK, CheckpointTypeOK, StoreTypeOK, Get

\* PartitionTransaction.prepare() makes well-formed changelog records: the keys that
\* are pending are keys of the cache.
LEMMA RecordInRecord ==
  ASSUME NEW a \in App, NEW k \in pendingLog[a], TypeOK, PendingLogOK
  PROVE  ChangelogRecord(a, k) \in Record
<1>1. k \in Key /\ k \in DOMAIN updates[a]
  BY DEF TypeOK, ProducerTypeOK, PendingLogOK
<1>2. updates[a][k] \in Value
  BY <1>1 DEF TypeOK, CheckpointTypeOK
<1>3. tpOffsets[a] \in Partial
  BY DEF TypeOK, CheckpointTypeOK
<1> QED BY <1>1, <1>2, <1>3 DEF ChangelogRecord, Record

\* Every step that ends in an exception keeps the types.
LEMMA FailuresTypeOK ==
  ASSUME NEW a \in App, TypeOK,
         \/ OnAssignFails(a)
         \/ \E t \in Topic : ProcessFails(a, t)
         \/ CommitBeginFails(a)
         \/ FlushProducerFails(a)
         \/ FlushProducerTimesOut(a)
         \/ CommitRefused(a)
         \/ CommitErrs(a)
         \/ FlushStoresFails(a)
  PROVE  TypeOK'
<1>1. Fail(a)
  BY DEF OnAssignFails, ProcessFails, CommitBeginFails, FlushProducerFails,
         FlushProducerTimesOut, CommitRefused, CommitErrs, FlushStoresFails
<1>2. UNCHANGED changelog /\ UNCHANGED outputs
  BY DEF OnAssignFails, ProcessFails, CommitBeginFails, FlushProducerFails,
         FlushProducerTimesOut, CommitRefused, CommitErrs, FlushStoresFails, brokerVars
<1>3. UNCHANGED committed \/ \E ts \in SUBSET Topic : committed' = Commit(a, ts)
  BY DEF OnAssignFails, ProcessFails, CommitBeginFails, FlushProducerFails,
         FlushProducerTimesOut, CommitRefused, CommitErrs, FlushStoresFails, brokerVars
<1>4. UNCHANGED sunk \/ sunk' = sunk \cup batch[a]
  BY DEF OnAssignFails, ProcessFails, CommitBeginFails, FlushProducerFails,
         FlushProducerTimesOut, CommitRefused, CommitErrs, FlushStoresFails, brokerVars
<1>5. UNCHANGED faults \/ Fault
  BY DEF OnAssignFails, ProcessFails, CommitBeginFails, FlushProducerFails,
         FlushProducerTimesOut, CommitRefused, CommitErrs, FlushStoresFails
<1>6. BrokerTypeOK'
  <2>1. committed' \in Offsets
    BY <1>3, CommitInOffsets DEF TypeOK, BrokerTypeOK
  <2>2. sunk' \subseteq Message
    BY <1>4 DEF TypeOK, BrokerTypeOK, LoopTypeOK
  <2>3. faults' \in 0..MaxFaults
    BY <1>5, ConstantsAssumption DEF TypeOK, BrokerTypeOK, Fault
  <2>4. owner' \in App \cup {NoApp} /\ members' \subseteq App
    BY <1>1, FailTypeOK
  <2> QED BY <1>2, <2>1, <2>2, <2>3, <2>4 DEF TypeOK, BrokerTypeOK
<1> QED BY <1>1, <1>6, FailTypeOK DEF TypeOK

\* A new checkpoint is well typed.
LEMMA InitCheckpointTypeOK ==
  ASSUME NEW a \in App, CheckpointTypeOK, InitCheckpoint(a)
  PROVE  CheckpointTypeOK'
<1>1. NoUpdates \in [{} -> Value] /\ {} \in SUBSET Key
  BY DEF NoUpdates
<1>2. \A b \in App : \E ks \in SUBSET Key : updates'[b] \in [ks -> Value]
  BY <1>1 DEF CheckpointTypeOK, InitCheckpoint
<1>3. Absent \in Partial
  BY ConstantsAssumption DEF Absent, Partial
<1> QED BY <1>2, <1>3 DEF CheckpointTypeOK, InitCheckpoint

\* Giving up a checkpoint on backpressure keeps the types; the offsets to seek to
\* are offsets of the topics.
LEMMA BackpressureTypeOK ==
  ASSUME NEW a \in App, TypeOK, Backpressure(a)
  PROVE  TypeOK'
<1> USE ConstantsAssumption DEF TypeOK, Backpressure
<1>1. BrokerTypeOK'
  BY DEF BrokerTypeOK, LoopTypeOK, AfterCommit, ReleasePartition, Fault
<1>2. Rewound(a) \in Offsets
  BY DEF LoopTypeOK, CheckpointTypeOK, Rewound, Offsets, Partial
<1>3. LoopTypeOK'
  BY <1>2 DEF LoopTypeOK, AfterCommit, Mode
<1>4. CheckpointTypeOK'
  BY InitCheckpointTypeOK
<1>5. ProducerTypeOK' /\ StoreTypeOK'
  BY DEF ProducerTypeOK, StoreTypeOK, producerVars, storeVars
<1> QED BY <1>1, <1>3, <1>4, <1>5

\* Writing the cache to the store partition keeps the types.
LEMMA FlushStoresTypeOK ==
  ASSUME NEW a \in App, TypeOK, FlushStores(a)
  PROVE  TypeOK'
<1> USE ConstantsAssumption DEF TypeOK, FlushStores
<1>1. BrokerTypeOK'
  BY DEF BrokerTypeOK, brokerVars, AfterCommit, ReleasePartition
<1>2. LoopTypeOK'
  BY DEF LoopTypeOK, AfterCommit, Mode, Stage
<1>3. CheckpointTypeOK'
  BY InitCheckpointTypeOK
<1>4. ProducerTypeOK'
  BY DEF ProducerTypeOK, producerVars
<1>5. StoreTypeOK'
  <2>1. [k \in Key |-> Get(a, k)] \in [Key -> Value]
    BY GetInValue
  <2>2. SavedOffset(a) \in Int
    BY DEF SavedOffset, StoreTypeOK, ProducerTypeOK
  <2> QED BY <2>1, <2>2 DEF StoreTypeOK
<1> QED BY <1>1, <1>2, <1>3, <1>4, <1>5

\* Recovering a changelog record keeps the types: the record was well formed.
LEMMA RecoverMessageTypeOK ==
  ASSUME NEW a \in App, TypeOK, RecoverMessage(a)
  PROVE  TypeOK'
<1> USE DEF TypeOK, RecoverMessage
<1>1. BrokerTypeOK' /\ LoopTypeOK' /\ CheckpointTypeOK' /\ ProducerTypeOK'
  BY DEF BrokerTypeOK, LoopTypeOK, CheckpointTypeOK, ProducerTypeOK,
         brokerVars, groupVars, loopVars, ckptVars, producerVars
<1>2. StoreTypeOK'
  <2>1. PICK i \in recovery[a].pos + 1..Len(changelog) :
            /\ changelog[i] # Compacted
            /\ \/ store' = [store EXCEPT ![a][changelog[i].key] = changelog[i].val]
               \/ UNCHANGED store
            /\ storeOff' = [storeOff EXCEPT ![a] = i - 1]
            /\ recovery' = [recovery EXCEPT ![a].pos = i]
    OBVIOUS
  <2>2. recovery[a].pos \in Nat
    BY DEF StoreTypeOK
  <2>3. i \in Nat /\ i \in 1..Len(changelog)
    BY <2>2 DEF BrokerTypeOK
  <2>4. changelog[i] \in Record
    BY <2>1, <2>3 DEF BrokerTypeOK
  <2>5. store' \in [App -> [Key -> Value]]
    <3>1. changelog[i].key \in Key /\ changelog[i].val \in Value
      BY <2>4 DEF Record
    <3>2. store \in [App -> [Key -> Value]]
      BY DEF StoreTypeOK
    <3>3. PICK key : key = changelog[i].key
      OBVIOUS
    <3>4. PICK val : val = changelog[i].val
      OBVIOUS
    <3>5. key \in Key /\ val \in Value
      BY <3>1, <3>3, <3>4
    <3>6. [store[a] EXCEPT ![key] = val] \in [Key -> Value]
      BY <3>2, <3>5
    <3>7. store' = [store EXCEPT ![a][key] = val] \/ store' = store
      BY <2>1, <3>3, <3>4
    <3>8. [store EXCEPT ![a][key] = val] \in [App -> [Key -> Value]]
      BY <3>2, <3>6
    <3> QED BY <3>2, <3>7, <3>8
  <2>6. storeOff' \in [App -> Int]
    BY <2>1, <2>3 DEF StoreTypeOK
  <2>7. recovery' \in [App -> [pos : Nat, highwater : Nat, committed : Offsets]]
    BY <2>1, <2>3 DEF StoreTypeOK
  <2> QED BY <2>5, <2>6, <2>7 DEF StoreTypeOK
<1> QED BY <1>1, <1>2

\* _on_assign keeps the types; a recovery never starts before the changelog does.
LEMMA OnAssignTypeOK ==
  ASSUME NEW a \in App, TypeOK, OnAssign(a)
  PROVE  TypeOK'
<1> USE DEF TypeOK, OnAssign
<1>1. BrokerTypeOK' /\ CheckpointTypeOK' /\ ProducerTypeOK'
  BY DEF BrokerTypeOK, CheckpointTypeOK, ProducerTypeOK,
         brokerVars, ckptVars, producerVars
<1>2. LoopTypeOK'
  BY DEF LoopTypeOK, BrokerTypeOK, Mode
<1>3. StoreTypeOK'
  <2>1. SeekOffset(a) \in Nat /\ Len(changelog) \in Nat /\ committed \in Offsets
    BY DEF SeekOffset, StoreTypeOK, BrokerTypeOK
  <2>2. [pos |-> SeekOffset(a), highwater |-> Len(changelog), committed |-> committed]
          \in [pos : Nat, highwater : Nat, committed : Offsets]
    BY <2>1
  <2>3. recovery' \in [App -> [pos : Nat, highwater : Nat, committed : Offsets]]
    BY <2>2 DEF StoreTypeOK
  <2> QED BY <2>3 DEF StoreTypeOK, storeVars
<1> QED BY <1>1, <1>2, <1>3

\* Delivery reports keep the types, and the changelog stays a sequence of records.
LEMMA DeliverTypeOK ==
  ASSUME NEW a \in App, TypeOK, PendingLogOK,
         Deliver(a) \/ OutputDeliveryFails(a) \/ ChangelogDeliveryFails(a)
  PROVE  TypeOK'
<1> USE DEF TypeOK, Deliver, DeliverOutput, DeliverChangelog, OutputDeliveryFails,
            ChangelogDeliveryFails
<1>1. outputs' \subseteq Output
  BY DEF BrokerTypeOK, ProducerTypeOK
<1>2. changelog' \in Seq(Record \cup {Compacted})
  <2>1. \A k \in pendingLog[a] :
          Append(changelog, ChangelogRecord(a, k)) \in Seq(Record \cup {Compacted})
    BY RecordInRecord DEF BrokerTypeOK
  <2> QED BY <2>1 DEF BrokerTypeOK
<1>3. BrokerTypeOK'
  BY <1>1, <1>2, ConstantsAssumption DEF BrokerTypeOK, groupVars, Fault
<1>4. ProducerTypeOK'
  <2>1. pendingOut' \in [App -> SUBSET Output] /\ pendingLog' \in [App -> SUBSET Key]
    BY DEF ProducerTypeOK
  <2>2. deliveryError' \in [App -> BOOLEAN]
    BY DEF ProducerTypeOK
  <2>3. Len(changelog) \in Int
    BY DEF BrokerTypeOK
  <2>4. producedOff' \in [App -> Int]
    BY <2>3 DEF ProducerTypeOK
  <2> QED BY <2>1, <2>2, <2>4 DEF ProducerTypeOK
<1>5. LoopTypeOK' /\ CheckpointTypeOK' /\ StoreTypeOK'
  BY DEF LoopTypeOK, CheckpointTypeOK, StoreTypeOK, loopVars, ckptVars, storeVars
<1> QED BY <1>3, <1>4, <1>5

\* A crash keeps the types.
LEMMA CrashTypeOK ==
  ASSUME NEW a \in App, TypeOK, Crash(a)
  PROVE  TypeOK'
<1>1. BrokerTypeOK'
  BY ConstantsAssumption DEF TypeOK, Crash, BrokerTypeOK, brokerVars, groupVars, Fault
<1> QED BY <1>1, ProcessEndsTypeOK DEF TypeOK, Crash

\* An accepted commit keeps the types.
LEMMA CommitOffsetsTypeOK ==
  ASSUME NEW a \in App, TypeOK, CommitOffsets(a)
  PROVE  TypeOK'
<1>1. BrokerTypeOK'
  BY CommitInOffsets DEF TypeOK, CommitOffsets, BrokerTypeOK, groupVars
<1>2. LoopTypeOK' /\ CheckpointTypeOK' /\ ProducerTypeOK' /\ StoreTypeOK'
  BY DEF TypeOK, CommitOffsets, LoopTypeOK, Stage, CheckpointTypeOK, ProducerTypeOK,
         StoreTypeOK, ckptVars, producerVars, storeVars
<1> QED BY <1>1, <1>2 DEF TypeOK

\* Log compaction and a new changelog keep the types.
LEMMA CompactTypeOK ==
  ASSUME TypeOK, Compact \/ Recreate
  PROVE  TypeOK'
<1>1. changelog' \in Seq(Record \cup {Compacted})
  <2>1. CASE Compact
    BY <2>1 DEF TypeOK, Compact, BrokerTypeOK
  <2>2. CASE Recreate
    BY <2>2 DEF Recreate
  <2> QED BY <2>1, <2>2
<1> QED
  BY <1>1 DEF TypeOK, Compact, Recreate, BrokerTypeOK, LoopTypeOK, CheckpointTypeOK,
     ProducerTypeOK, StoreTypeOK, groupVars, loopVars, ckptVars, producerVars, storeVars

\* A step that changes nothing keeps the types.
LEMMA StutterTypeOK ==
  ASSUME TypeOK, UNCHANGED vars
  PROVE  TypeOK'
BY DEF TypeOK, BrokerTypeOK, LoopTypeOK, CheckpointTypeOK, ProducerTypeOK, StoreTypeOK,
   vars, brokerVars, groupVars, loopVars, ckptVars, producerVars, storeVars

\* The steps that only move an instance between its modes and stages keep the types.
LEMMA SimpleTypeOK ==
  ASSUME NEW a \in App, TypeOK,
         \/ Start(a) \/ Rejoin(a) \/ SessionTimeout(a) \/ Evict(a) \/ OnLost(a)
         \/ OnRevoke(a) \/ RecoveryDone(a) \/ FlushProducer(a) \/ CommitBegins(a)
  PROVE  TypeOK'
<1> USE ConstantsAssumption
    DEF TypeOK, BrokerTypeOK, LoopTypeOK, CheckpointTypeOK, ProducerTypeOK, StoreTypeOK,
        Mode, Stage, brokerVars, groupVars, loopVars, ckptVars, producerVars, storeVars
<1>1. CASE Start(a)
  BY <1>1 DEF Start
<1>2. CASE Rejoin(a)
  BY <1>2 DEF Rejoin
<1>3. CASE SessionTimeout(a)
  BY <1>3 DEF SessionTimeout, ReleasePartition
<1>4. CASE Evict(a)
  BY <1>4 DEF Evict, Fault
<1>5. CASE OnLost(a)
  <2>1. NoRecovery \in [pos : Nat, highwater : Nat, committed : Offsets]
    BY DEF NoRecovery, Begin, Offsets
  <2>2. recovery' \in [App -> [pos : Nat, highwater : Nat, committed : Offsets]]
    BY <1>5, <2>1 DEF OnLost
  <2>3. Empty(a) \in BOOLEAN
    BY DEF Empty
  <2>4. stale' \in [App -> BOOLEAN]
    BY <1>5, <2>3 DEF OnLost
  <2>5. mode' \in [App -> Mode]
    BY <1>5 DEF OnLost
  <2>6. /\ UNCHANGED <<brokerVars, groupVars, stage, position, tpOffsets, starting,
                        updates, batch, producerVars, storeVars, faults>>
    BY <1>5 DEF OnLost
  <2> QED BY <2>2, <2>4, <2>5, <2>6
<1>6. CASE OnRevoke(a)
  <2>1. NoRecovery \in [pos : Nat, highwater : Nat, committed : Offsets]
    BY DEF NoRecovery, Begin, Offsets
  <2>2. recovery' \in [App -> [pos : Nat, highwater : Nat, committed : Offsets]]
    BY <1>6, <2>1 DEF OnRevoke
  <2>3. faults' \in 0..MaxFaults
    BY <1>6 DEF OnRevoke, Fault
  <2>4. mode' \in [App -> Mode]
    <3>1. mode' = [mode EXCEPT ![a] = "joining"] \/ mode' = [mode EXCEPT ![a] = "revoking"]
      BY <1>6 DEF OnRevoke
    <3> QED BY <3>1
  <2>6. owner' \in App \cup {NoApp}
    <3>1. owner' \in {owner, NoApp}
      BY <1>6 DEF OnRevoke, ReleasePartition
    <3> QED BY <3>1
  <2>5. UNCHANGED <<brokerVars, members, stage, position, ckptVars, batch,
                    producerVars, storeVars>>
    BY <1>6 DEF OnRevoke
  <2> QED BY <2>2, <2>3, <2>4, <2>5, <2>6
<1>7. CASE RecoveryDone(a)
  BY <1>7 DEF RecoveryDone, NoRecovery, Begin, Offsets
<1>8. CASE FlushProducer(a)
  BY <1>8 DEF FlushProducer
<1>9. CASE CommitBegins(a)
  <2>1. DOMAIN updates[a] \subseteq Key
    OBVIOUS
  <2> QED BY <1>9, <2>1 DEF CommitBegins
<1> QED BY <1>1, <1>2, <1>3, <1>4, <1>5, <1>6, <1>7, <1>8, <1>9

\* Every step keeps the types, given that pending changelog records have a value.
LEMMA NextTypeOK ==
  ASSUME TypeOK, PendingLogOK, [Next]_vars
  PROVE  TypeOK'
<1>1. CASE UNCHANGED vars
  BY <1>1, StutterTypeOK
<1>2. CASE Compact \/ Recreate
  BY <1>2, CompactTypeOK
<1>3. ASSUME NEW a \in App,
             Start(a) \/ SessionTimeout(a) \/ Loop(a) \/ Deliver(a) \/ Disturb(a)
      PROVE  TypeOK'
  <2>1. CASE Start(a) \/ SessionTimeout(a)
    BY <2>1, SimpleTypeOK
  <2>2. CASE Loop(a)
    BY <2>2, SimpleTypeOK, OnAssignTypeOK, FailuresTypeOK, RecoverMessageTypeOK,
       ProcessTypeOK, CommitOffsetsTypeOK, FlushStoresTypeOK DEF Loop
  <2>3. CASE Deliver(a)
    BY <2>3, DeliverTypeOK
  <2>4. CASE Disturb(a)
    BY <2>4, SimpleTypeOK, CrashTypeOK, BackpressureTypeOK, FailuresTypeOK,
       DeliverTypeOK DEF Disturb
  <2> QED BY <1>3, <2>1, <2>2, <2>3, <2>4
<1> QED BY <1>1, <1>2, <1>3 DEF Next

\* Every step keeps the changelog records that are pending within the cache of the
\* checkpoint, and none is pending outside of the flush.
LEMMA NextPendingLogOK ==
  ASSUME TypeOK, PendingLogOK, [Next]_vars
  PROVE  PendingLogOK'
<1> USE DEF PendingLogOK, TypeOK, LoopTypeOK, CheckpointTypeOK, ProducerTypeOK
<1>1. CASE UNCHANGED vars \/ Compact \/ Recreate
  BY <1>1 DEF vars, Compact, Recreate, loopVars, ckptVars, producerVars
<1>2. ASSUME NEW a \in App, ProcessEnds(a)
      PROVE  PendingLogOK'
  BY <1>2 DEF ProcessEnds, InitCheckpoint
<1>3. ASSUME NEW a \in App,
             Start(a) \/ SessionTimeout(a) \/ Loop(a) \/ Deliver(a) \/ Disturb(a)
      PROVE  PendingLogOK'
  <2>1. CASE Start(a) \/ SessionTimeout(a) \/ Rejoin(a) \/ OnAssign(a) \/ OnLost(a)
             \/ RecoverMessage(a) \/ RecoveryDone(a) \/ OnRevoke(a) \/ Evict(a)
             \/ CommitOffsets(a) \/ DeliverOutput(a) \/ OutputDeliveryFails(a)
    BY <2>1 DEF Start, SessionTimeout, Rejoin, OnAssign, OnLost, RecoverMessage, RecoveryDone,
       OnRevoke, Evict, CommitOffsets, DeliverOutput, OutputDeliveryFails,
       loopVars, ckptVars, producerVars
  <2>2. CASE \/ OnAssignFails(a) \/ CommitBeginFails(a) \/ FlushProducerFails(a)
             \/ CommitRefused(a) \/ FlushStoresFails(a) \/ Crash(a)
             \/ FlushProducerTimesOut(a) \/ CommitErrs(a)
             \/ \E t \in Topic : ProcessFails(a, t)
    BY <2>2, <1>2 DEF OnAssignFails, CommitBeginFails, FlushProducerFails, CommitRefused,
       FlushStoresFails, Crash, FlushProducerTimesOut, CommitErrs, ProcessFails, Fail
  <2>3. ASSUME NEW t \in Topic, Process(a, t)
        PROVE  PendingLogOK'
    BY <2>3 DEF Process, Consumable, Put
  <2>4. CASE CommitBegins(a)
    BY <2>4 DEF CommitBegins, CommitDue, ckptVars
  <2>5. CASE FlushProducer(a)
    BY <2>5 DEF FlushProducer, Flushed, ckptVars, producerVars
  <2>6. CASE FlushStores(a) \/ Backpressure(a)
    <3>1. pendingLog[a] = {}
      BY <2>6 DEF FlushStores, Backpressure, CommitDue
    <3>2. pendingLog' = pendingLog /\ \A b \in App : b # a => updates'[b] = updates[b]
      BY <2>6 DEF FlushStores, Backpressure, InitCheckpoint, producerVars
    <3>3. \A b \in App : b # a => stage'[b] = stage[b]
      BY <2>6 DEF FlushStores, Backpressure
    <3> QED BY <3>1, <3>2, <3>3
  <2>7. CASE DeliverChangelog(a) \/ ChangelogDeliveryFails(a)
    <3>1. \A b \in App : pendingLog'[b] \subseteq pendingLog[b]
      <4>1. PICK k : pendingLog' = [pendingLog EXCEPT ![a] = @ \ {k}]
        BY <2>7 DEF DeliverChangelog, ChangelogDeliveryFails
      <4>2. pendingLog \in [App -> SUBSET Key]
        OBVIOUS
      <4> HIDE DEF PendingLogOK, TypeOK
      <4> QED BY <4>1, <4>2
    <3>2. stage' = stage /\ updates' = updates
      BY <2>7 DEF DeliverChangelog, ChangelogDeliveryFails, loopVars, ckptVars
    <3> QED BY <3>1, <3>2
  <2> QED BY <1>3, <2>1, <2>2, <2>3, <2>4, <2>5, <2>6, <2>7 DEF Loop, Deliver, Disturb
<1> QED BY <1>1, <1>3 DEF Next

\* A message is a topic and an offset.
LEMMA MessageOffsets ==
  \A m \in Message : m[1] \in Topic /\ m[2] \in 0..MaxOffset - 1 /\ m = <<m[1], m[2]>>
BY DEF Message

\* Once the process has ended, nothing is left to cover.
LEMMA EndCovered ==
  ASSUME NEW a \in App, TypeOK, ProcessEnds(a)
  PROVE  Covered(a)'
<1>1. mode'[a] = "down" /\ stage'[a] = "idle" /\ tpOffsets'[a] = Absent /\ starting'[a] = Absent
  BY DEF ProcessEnds, InitCheckpoint, TypeOK, LoopTypeOK, CheckpointTypeOK
<1>2. PositionCovered(a)' /\ AbsentSunk(a)'
  BY <1>1 DEF PositionCovered, AbsentSunk, Assigned
<1>3. OffsetsCovered(a)'
  BY <1>1, MessageOffsets, ConstantsAssumption DEF OffsetsCovered, Absent
<1>4. StartCovered(a)'
  BY <1>1, MessageOffsets, ConstantsAssumption DEF StartCovered, Absent
<1>5. CommitCovered(a)'
  BY <1>1 DEF CommitCovered
<1> QED BY <1>2, <1>3, <1>4, <1>5 DEF Covered

\* What an instance has covered stays so while its offsets do and none of its
\* messages gets lost.
LEMMA KeepCovered ==
  ASSUME NEW a \in App, Covered(a),
         position'[a] = position[a], tpOffsets'[a] = tpOffsets[a], starting'[a] = starting[a],
         \A m \in Message : Sent(a, m) => Sent(a, m)',
         sunk \subseteq sunk',
         batch[a] \subseteq sunk' \cup batch'[a],
         Assigned(a)' => Assigned(a),
         CommitCovered(a)'
  PROVE  Covered(a)'
<1>1. PositionCovered(a)'
  BY DEF Covered, PositionCovered
<1>2. OffsetsCovered(a)'
  BY DEF Covered, OffsetsCovered
<1>3. StartCovered(a)'
  BY DEF Covered, StartCovered
<1>4. AbsentSunk(a)'
  BY DEF Covered, AbsentSunk
<1> QED BY <1>1, <1>2, <1>3, <1>4 DEF Covered

\* The parts of an instance's state that Covered is about.
Unmoved(a) ==
  /\ mode'[a] = mode[a]
  /\ stage'[a] = stage[a]
  /\ position'[a] = position[a]
  /\ tpOffsets'[a] = tpOffsets[a]
  /\ starting'[a] = starting[a]
  /\ batch'[a] = batch[a]
  /\ pendingOut'[a] = pendingOut[a]
  /\ deliveryError'[a] = deliveryError[a]

\* The same when nothing of the instance changes but what it reads from others.
LEMMA UnmovedCovered ==
  ASSUME NEW a \in App, Covered(a), Unmoved(a), outputs \subseteq outputs', sunk \subseteq sunk'
  PROVE  Covered(a)'
<1>1. Produced \subseteq Produced'
  BY DEF Produced
<1>2. \A m \in Message : Sent(a, m) => Sent(a, m)'
  BY <1>1 DEF Sent, Unmoved
<1>3. CommitCovered(a)'
  BY DEF Covered, CommitCovered, Unmoved
<1> QED BY <1>2, <1>3, KeepCovered DEF Unmoved, Assigned

\* Nothing leaves the output topic or the sink.
LEMMA EffectsStay ==
  ASSUME [Next]_vars
  PROVE  outputs \subseteq outputs' /\ sunk \subseteq sunk'
<1>1. CASE UNCHANGED vars \/ Compact \/ Recreate
  BY <1>1 DEF vars, brokerVars, Compact, Recreate
<1>2. ASSUME NEW a \in App,
             Start(a) \/ SessionTimeout(a) \/ Loop(a) \/ Deliver(a) \/ Disturb(a)
      PROVE  outputs \subseteq outputs' /\ sunk \subseteq sunk'
  <2>1. CASE Start(a) \/ SessionTimeout(a) \/ Deliver(a)
    BY <2>1 DEF Start, SessionTimeout, Deliver, DeliverOutput, DeliverChangelog, brokerVars
  <2>2. CASE Disturb(a)
    BY <2>2 DEF Disturb, OnRevoke, Evict, Crash, Backpressure, FlushProducerTimesOut,
       CommitErrs, OutputDeliveryFails, ChangelogDeliveryFails, brokerVars
  <2>3. CASE Loop(a)
    BY <2>3 DEF Loop, Rejoin, OnAssign, OnAssignFails, OnLost, RecoverMessage, RecoveryDone,
       Process, ProcessFails, CommitBegins, CommitBeginFails, FlushProducer,
       FlushProducerFails, CommitOffsets, CommitRefused, FlushStores, FlushStoresFails,
       brokerVars
  <2> QED BY <1>2, <2>1, <2>2, <2>3
<1> QED BY <1>1, <1>2 DEF Next

\* A step of one instance leaves the others as they are.
LEMMA OthersUnmoved ==
  ASSUME NEW a \in App, NEW b \in App, a # b, TypeOK,
         Start(a) \/ SessionTimeout(a) \/ Loop(a) \/ Deliver(a) \/ Disturb(a)
  PROVE  Unmoved(b)
<1> USE DEF TypeOK, LoopTypeOK, CheckpointTypeOK, ProducerTypeOK, Unmoved
<1>1. CASE ProcessEnds(a)
  BY <1>1 DEF ProcessEnds, InitCheckpoint
<1>2. CASE Start(a) \/ SessionTimeout(a)
  BY <1>2 DEF Start, SessionTimeout, ckptVars, producerVars, loopVars
<1>3. CASE Deliver(a)
  BY <1>3 DEF Deliver, DeliverOutput, DeliverChangelog, ckptVars, loopVars
<1>4. CASE Disturb(a)
  BY <1>1, <1>4 DEF Disturb, OnRevoke, Evict, Crash, Backpressure, FlushProducerTimesOut,
     CommitErrs, OutputDeliveryFails, ChangelogDeliveryFails, Fail, InitCheckpoint,
     AfterCommit, ckptVars, producerVars, loopVars
<1>5. CASE Loop(a)
  BY <1>1, <1>5 DEF Loop, Rejoin, OnAssign, OnAssignFails, OnLost, RecoverMessage, RecoveryDone,
     Process, ProcessFails, CommitBegins, CommitBeginFails, FlushProducer,
     FlushProducerFails, CommitOffsets, CommitRefused, FlushStores, FlushStoresFails,
     Fail, InitCheckpoint, AfterCommit, ckptVars, producerVars, loopVars
<1> QED BY <1>2, <1>3, <1>4, <1>5

\* With an empty producer queue and no error, what was sent has been delivered.
LEMMA SentWhenDelivered ==
  ASSUME NEW a \in App, NEW m \in Message, Sent(a, m), pendingOut[a] = {}, ~deliveryError[a]
  PROVE  m \in Produced
BY DEF Sent

\* The one step that needs care: a commit of the offsets of a checkpoint.
LEMMA CommitKeepsAtLeastOnce ==
  ASSUME NEW a \in App, NEW ts \in SUBSET Topic, Inv, stage[a] = "committing",
         committed' = Commit(a, ts), outputs \subseteq outputs', sunk \subseteq sunk'
  PROVE  AtLeastOnce'
<1> SUFFICES ASSUME NEW m \in Message, m[2] < committed'[m[1]]
             PROVE  m \in Produced \cap sunk
  BY DEF AtLeastOnce, Produced
<1>1. batch[a] = {} /\ pendingOut[a] = {} /\ ~deliveryError[a]
  BY DEF Inv, Covered, CommitCovered
<1>2. CASE m[2] < committed[m[1]]
  BY <1>2 DEF Inv, AtLeastOnce
<1>3. CASE ~(m[2] < committed[m[1]])
  <2>1. m[2] <= tpOffsets[a][m[1]]
    BY <1>3, MessageOffsets, ConstantsAssumption
       DEF Commit, Inv, TypeOK, CheckpointTypeOK, BrokerTypeOK, Partial, Offsets
  <2>2. Sent(a, m) /\ m \in sunk \cup batch[a]
    BY <2>1 DEF Inv, Covered, OffsetsCovered
  <2> QED BY <1>1, <2>2, SentWhenDelivered
<1> QED BY <1>2, <1>3

\* Every step keeps AtLeastOnce: only a commit moves the committed offsets, and
\* outputs and rows never disappear.
LEMMA NextAtLeastOnce ==
  ASSUME Inv, [Next]_vars
  PROVE  AtLeastOnce'
<1>1. outputs \subseteq outputs' /\ sunk \subseteq sunk'
  BY EffectsStay
<1>2. CASE UNCHANGED committed
  BY <1>1, <1>2 DEF Inv, AtLeastOnce, Produced
<1>3. ASSUME NEW a \in App, CommitOffsets(a) \/ CommitErrs(a)
      PROVE  AtLeastOnce'
  BY <1>1, <1>3, CommitKeepsAtLeastOnce DEF CommitOffsets, CommitErrs
<1>4. CASE UNCHANGED vars \/ Compact \/ Recreate
  BY <1>2, <1>4 DEF vars, brokerVars, Compact, Recreate
<1>5. ASSUME NEW a \in App,
             Start(a) \/ SessionTimeout(a) \/ Loop(a) \/ Deliver(a) \/ Disturb(a)
      PROVE  AtLeastOnce'
  <2>1. CASE Start(a) \/ SessionTimeout(a) \/ Deliver(a)
    BY <1>2, <2>1 DEF Start, SessionTimeout, Deliver, DeliverOutput, DeliverChangelog, brokerVars
  <2>2. CASE Disturb(a)
    BY <1>2, <1>3, <2>2 DEF Disturb, OnRevoke, Evict, Crash, Backpressure,
       FlushProducerTimesOut, OutputDeliveryFails, ChangelogDeliveryFails, brokerVars
  <2>3. CASE Loop(a)
    BY <1>2, <1>3, <2>3 DEF Loop, Rejoin, OnAssign, OnAssignFails, OnLost, RecoverMessage,
       RecoveryDone, Process, ProcessFails, CommitBegins, CommitBeginFails, FlushProducer,
       FlushProducerFails, CommitRefused, FlushStores, FlushStoresFails, brokerVars
  <2> QED BY <1>5, <2>1, <2>2, <2>3
<1> QED BY <1>4, <1>5 DEF Next

\* Steps that only change the mode.
LEMMA ModeCovered ==
  ASSUME NEW a \in App, Inv,
         \/ Start(a) \/ SessionTimeout(a) \/ Rejoin(a) \/ OnLost(a) \/ OnRevoke(a)
         \/ Evict(a) \/ RecoverMessage(a) \/ RecoveryDone(a)
  PROVE  Covered(a)'
<1> USE DEF Inv, TypeOK, LoopTypeOK
<1>1. /\ position' = position /\ tpOffsets' = tpOffsets /\ starting' = starting
      /\ batch' = batch /\ pendingOut' = pendingOut /\ deliveryError' = deliveryError
      /\ stage' = stage /\ outputs' = outputs /\ sunk' = sunk
  BY DEF Start, SessionTimeout, Rejoin, OnLost, OnRevoke, Evict, RecoverMessage, RecoveryDone,
     brokerVars, loopVars, ckptVars, producerVars
<1>2. Assigned(a)' => Assigned(a)
  BY DEF Start, SessionTimeout, Rejoin, OnLost, OnRevoke, Evict, RecoverMessage, RecoveryDone,
     Assigned, loopVars
<1>3. \A m \in Message : Sent(a, m) => Sent(a, m)'
  BY <1>1 DEF Sent, Produced
<1>4. CommitCovered(a)'
  BY <1>1 DEF Covered, CommitCovered
<1> QED BY <1>1, <1>2, <1>3, <1>4, KeepCovered

\* _on_assign starts from the committed offsets, which AtLeastOnce covers.
LEMMA OnAssignCovered ==
  ASSUME NEW a \in App, Inv, OnAssign(a)
  PROVE  Covered(a)'
<1>1. /\ tpOffsets' = tpOffsets /\ starting' = starting /\ batch' = batch
      /\ pendingOut' = pendingOut /\ deliveryError' = deliveryError
      /\ stage' = stage /\ outputs' = outputs /\ sunk' = sunk
  BY DEF OnAssign, brokerVars, ckptVars, producerVars
<1>2. position'[a] = committed
  BY DEF OnAssign, Inv, TypeOK, LoopTypeOK
<1>3. \A m \in Message : Sent(a, m) => Sent(a, m)'
  BY <1>1 DEF Sent, Produced
<1>4. \A m \in Message : m[2] < position'[a][m[1]] => Sent(a, m)' /\ m \in sunk
  BY <1>1, <1>2 DEF Inv, AtLeastOnce, Sent, Produced
<1>5. PositionCovered(a)'
  BY <1>1, <1>4 DEF PositionCovered
<1>6. OffsetsCovered(a)'
  BY <1>1, <1>3 DEF Inv, Covered, OffsetsCovered
<1>7. StartCovered(a)'
  BY <1>1, <1>3 DEF Inv, Covered, StartCovered
<1>8. AbsentSunk(a)'
  BY <1>1, <1>4 DEF AbsentSunk
<1>9. CommitCovered(a)'
  BY <1>1 DEF Inv, Covered, CommitCovered
<1> QED BY <1>5, <1>6, <1>7, <1>8, <1>9 DEF Covered

\* Processing covers its own message, so the position and the checkpoint's offset
\* may move past it.
LEMMA ProcessCovered ==
  ASSUME NEW a \in App, NEW t \in Topic, Inv, Process(a, t)
  PROVE  Covered(a)'
<1>1. position[a] \in Offsets /\ position[a][t] < MaxOffset /\ stage[a] = "idle"
      /\ mode[a] = "processing"
  BY DEF Process, Consumable, Inv, TypeOK, LoopTypeOK
<1>2. PICK msg \in Message : msg = <<t, position[a][t]>>
  <2>1. position[a][t] \in 0..MaxOffset - 1
    BY <1>1, ConstantsAssumption DEF Offsets
  <2>2. <<t, position[a][t]>> \in Message
    BY <2>1 DEF Message
  <2> QED BY <2>2
<1>3. /\ position'[a] = [position[a] EXCEPT ![t] = @ + 1]
      /\ tpOffsets'[a] = [tpOffsets[a] EXCEPT ![t] = position[a][t]]
      /\ starting'[a] = [starting[a] EXCEPT ![t] = IF @ < 0 THEN position[a][t] ELSE @]
      /\ batch'[a] = batch[a] \cup {msg}
      /\ mode' = mode /\ stage' = stage
  <2>1. /\ position' = [position EXCEPT ![a][t] = @ + 1]
        /\ tpOffsets' = [tpOffsets EXCEPT ![a][t] = position[a][t]]
        /\ starting' = [starting EXCEPT ![a][t] = IF @ < 0 THEN position[a][t] ELSE @]
        /\ batch' = [batch EXCEPT ![a] = @ \cup {msg}]
        /\ mode' = mode /\ stage' = stage
    BY <1>2 DEF Process, NextMessage
  <2>2. /\ position \in [App -> Offsets] /\ tpOffsets \in [App -> Partial]
        /\ starting \in [App -> Partial] /\ batch \in [App -> SUBSET Message]
    BY DEF Inv, TypeOK, LoopTypeOK, CheckpointTypeOK
  <2> QED BY <2>1, <2>2 DEF Offsets, Partial
<1>4. PICK val : pendingOut'[a] = pendingOut[a] \cup {[msg |-> msg, val |-> val]}
  BY <1>2 DEF Process, NextMessage, Inv, TypeOK, ProducerTypeOK
<1>5. outputs' = outputs /\ sunk' = sunk /\ deliveryError' = deliveryError
  BY DEF Process, brokerVars
<1>6. \A m \in Message : Sent(a, m) => Sent(a, m)'
  BY <1>4, <1>5 DEF Sent, Produced
<1>7. Sent(a, msg)'
  <2>1. [msg |-> msg, val |-> val] \in pendingOut'[a] /\ [msg |-> msg, val |-> val].msg = msg
    BY <1>4
  <2> QED BY <2>1 DEF Sent
<1>8. \A m \in Message : m[2] <= position[a][t] /\ m[1] = t =>
          m = msg \/ m[2] < position[a][t]
  <2> SUFFICES ASSUME NEW m \in Message, m[2] <= position[a][t], m[1] = t, m[2] # position[a][t]
               PROVE  m[2] < position[a][t]
    BY <1>2, MessageOffsets
  <2>1. m[2] \in Int /\ position[a][t] \in Int
    BY <1>1, MessageOffsets, ConstantsAssumption DEF Offsets
  <2> QED BY <2>1
<1>9. \A m \in Message : m[2] < position[a][m[1]] => Sent(a, m) /\ m \in sunk \cup batch[a]
  BY <1>1 DEF Inv, Covered, PositionCovered, Assigned
<1>10. PositionCovered(a)'
  <2> SUFFICES ASSUME NEW m \in Message, m[2] < position'[a][m[1]]
               PROVE  Sent(a, m)' /\ m \in (sunk \cup batch[a])'
    BY DEF PositionCovered
  <2>1. m = msg \/ m[2] < position[a][m[1]]
    <3>1. CASE m[1] = t
      <4>1. position'[a][t] = position[a][t] + 1 /\ position[a][t] \in Nat /\ m[2] \in Nat
        BY <1>1, <1>3, MessageOffsets, ConstantsAssumption DEF Offsets
      <4> QED BY <3>1, <4>1, <1>8
    <3>2. CASE m[1] # t
      BY <3>2, <1>1, <1>3, MessageOffsets DEF Offsets
    <3> QED BY <3>1, <3>2
  <2> QED BY <2>1, <1>3, <1>5, <1>6, <1>7, <1>9
<1>11. OffsetsCovered(a)'
  <2> SUFFICES ASSUME NEW m \in Message, m[2] <= tpOffsets'[a][m[1]]
               PROVE  Sent(a, m)' /\ m \in (sunk \cup batch[a])'
    BY DEF OffsetsCovered
  <2>1. m = msg \/ m[2] < position[a][m[1]] \/ m[2] <= tpOffsets[a][m[1]]
    <3>1. CASE m[1] = t
      <4>1. tpOffsets'[a][t] = position[a][t]
        BY <1>3 DEF Inv, TypeOK, CheckpointTypeOK, Partial
      <4> QED BY <3>1, <4>1, <1>8
    <3>2. CASE m[1] # t
      BY <3>2, <1>3, MessageOffsets DEF Inv, TypeOK, CheckpointTypeOK, Partial
    <3> QED BY <3>1, <3>2
  <2>2. m[2] <= tpOffsets[a][m[1]] => Sent(a, m) /\ m \in sunk \cup batch[a]
    BY DEF Inv, Covered, OffsetsCovered
  <2> QED BY <2>1, <2>2, <1>3, <1>5, <1>6, <1>7, <1>9
<1>12. StartCovered(a)'
  <2> SUFFICES ASSUME NEW m \in Message, m[2] < starting'[a][m[1]]
               PROVE  Sent(a, m)' /\ m \in sunk
    BY <1>5 DEF StartCovered
  <2>1. CASE m[2] < starting[a][m[1]]
    BY <2>1, <1>6 DEF Inv, Covered, StartCovered
  <2>2. CASE starting[a][m[1]] < 0 /\ m[2] < position[a][m[1]]
    BY <2>2, <1>1, <1>6, <1>9 DEF Inv, Covered, AbsentSunk, Assigned
  <2>3. \/ starting[a][m[1]] < 0 /\ m[2] < position[a][m[1]]
        \/ m[2] < starting[a][m[1]]
    BY <1>1, <1>3, MessageOffsets, ConstantsAssumption
       DEF Offsets, Inv, TypeOK, CheckpointTypeOK, Partial
  <2> QED BY <2>1, <2>2, <2>3
<1>13. AbsentSunk(a)'
  <2> SUFFICES ASSUME NEW m \in Message, starting'[a][m[1]] < 0, m[2] < position'[a][m[1]]
               PROVE  m \in sunk
    BY <1>5 DEF AbsentSunk
  <2>1. starting[a][m[1]] < 0 /\ m[2] < position[a][m[1]]
    BY <1>1, <1>3, MessageOffsets, ConstantsAssumption
       DEF Offsets, Inv, TypeOK, CheckpointTypeOK, Partial
  <2> QED BY <2>1, <1>1 DEF Inv, Covered, AbsentSunk, Assigned
<1>14. CommitCovered(a)'
  BY <1>1, <1>3 DEF CommitCovered
<1> QED BY <1>10, <1>11, <1>12, <1>13, <1>14 DEF Covered

\* Flushing the sink moves its batch to the destination.
LEMMA CommitBeginsCovered ==
  ASSUME NEW a \in App, Inv, CommitBegins(a)
  PROVE  Covered(a)'
<1>1. /\ position' = position /\ tpOffsets' = tpOffsets /\ starting' = starting
      /\ mode' = mode /\ pendingOut' = pendingOut /\ deliveryError' = deliveryError
      /\ outputs' = outputs /\ sunk' = sunk \cup batch[a] /\ batch'[a] = {}
      /\ stage'[a] = "flushing"
  BY DEF CommitBegins, ckptVars, Inv, TypeOK, LoopTypeOK
<1>2. \A m \in Message : Sent(a, m) => Sent(a, m)'
  BY <1>1 DEF Sent, Produced
<1>3. CommitCovered(a)'
  BY <1>1 DEF CommitCovered
<1> QED BY <1>1, <1>2, <1>3, KeepCovered DEF Inv, Assigned

\* Backpressure empties the batches: the seek has to make up for it.
LEMMA BackpressureCovered ==
  ASSUME NEW a \in App, Inv, Backpressure(a)
  PROVE  Covered(a)'
<1>1. /\ tpOffsets'[a] = Absent /\ starting'[a] = Absent /\ position'[a] = Rewound(a)
      /\ pendingOut' = pendingOut /\ deliveryError' = deliveryError
      /\ outputs' = outputs /\ sunk \subseteq sunk' /\ stage'[a] = "idle"
  BY DEF Backpressure, CommitDue, InitCheckpoint, producerVars, Inv, TypeOK, LoopTypeOK,
     CheckpointTypeOK
<1>2. mode'[a] # "joining" => mode'[a] = mode[a] /\ mode[a] # "joining"
  BY DEF Backpressure, AfterCommit, Inv, TypeOK, LoopTypeOK
<1>3. \A m \in Message : Sent(a, m) => Sent(a, m)'
  BY <1>1 DEF Sent, Produced
<1>4. ASSUME NEW m \in Message, Assigned(a)', m[2] < position'[a][m[1]]
      PROVE  Sent(a, m)' /\ m \in sunk'
  <2>1. Assigned(a) /\ mode[a] # "joining"
    BY <1>2, <1>4 DEF Assigned
  <2>2. CASE starting[a][m[1]] >= 0
    <3>1. m[2] < starting[a][m[1]]
      BY <1>1, <1>4, <2>1, <2>2, MessageOffsets DEF Rewound
    <3> QED BY <3>1, <1>1, <1>3 DEF Inv, Covered, StartCovered
  <2>3. CASE ~(starting[a][m[1]] >= 0)
    <3>1. starting[a][m[1]] < 0 /\ m[2] < position[a][m[1]]
      BY <1>1, <1>4, <2>3, MessageOffsets, ConstantsAssumption
         DEF Rewound, Inv, TypeOK, CheckpointTypeOK, Partial
    <3> QED BY <3>1, <2>1, <1>1, <1>3 DEF Inv, Covered, PositionCovered, AbsentSunk
  <2> QED BY <2>2, <2>3
<1>5. PositionCovered(a)' /\ AbsentSunk(a)'
  BY <1>4 DEF PositionCovered, AbsentSunk
<1>6. OffsetsCovered(a)' /\ StartCovered(a)'
  BY <1>1, MessageOffsets, ConstantsAssumption DEF OffsetsCovered, StartCovered, Absent
<1>7. CommitCovered(a)'
  BY <1>1 DEF CommitCovered
<1> QED BY <1>5, <1>6, <1>7 DEF Covered

\* The flush of the producer establishes what the commit of the offsets relies on.
LEMMA CommitStepsCovered ==
  ASSUME NEW a \in App, Inv, FlushProducer(a) \/ CommitOffsets(a)
  PROVE  Covered(a)'
<1>1. /\ position' = position /\ tpOffsets' = tpOffsets /\ starting' = starting
      /\ mode' = mode /\ pendingOut' = pendingOut /\ deliveryError' = deliveryError
      /\ outputs' = outputs /\ sunk' = sunk /\ batch' = batch
  BY DEF FlushProducer, CommitOffsets, brokerVars, ckptVars, producerVars
<1>2. \A m \in Message : Sent(a, m) => Sent(a, m)'
  BY <1>1 DEF Sent, Produced
<1>3. batch[a] = {} /\ pendingOut[a] = {} /\ ~deliveryError[a]
  BY DEF FlushProducer, CommitOffsets, Flushed, Inv, Covered, CommitCovered
<1>4. CommitCovered(a)'
  BY <1>1, <1>3 DEF CommitCovered
<1> QED BY <1>1, <1>2, <1>4, KeepCovered DEF Inv, Assigned

\* The new checkpoint after a commit has nothing to cover but the position.
LEMMA FlushStoresCovered ==
  ASSUME NEW a \in App, Inv, FlushStores(a)
  PROVE  Covered(a)'
<1>1. /\ tpOffsets'[a] = Absent /\ starting'[a] = Absent /\ position' = position
      /\ pendingOut' = pendingOut /\ deliveryError' = deliveryError /\ batch' = batch
      /\ outputs' = outputs /\ sunk' = sunk /\ stage'[a] = "idle"
  BY DEF FlushStores, InitCheckpoint, brokerVars, producerVars, Inv, TypeOK, LoopTypeOK,
     CheckpointTypeOK
<1>2. Assigned(a)' => Assigned(a)
  BY DEF FlushStores, AfterCommit, Assigned, Inv, TypeOK, LoopTypeOK
<1>3. batch[a] = {}
  BY DEF FlushStores, Inv, Covered, CommitCovered
<1>4. \A m \in Message : Sent(a, m) => Sent(a, m)'
  BY <1>1 DEF Sent, Produced
<1>5. PositionCovered(a)' /\ AbsentSunk(a)'
  BY <1>1, <1>2, <1>3, <1>4 DEF Inv, Covered, PositionCovered, AbsentSunk
<1>6. OffsetsCovered(a)' /\ StartCovered(a)'
  BY <1>1, MessageOffsets, ConstantsAssumption DEF OffsetsCovered, StartCovered, Absent
<1>7. CommitCovered(a)'
  BY <1>1 DEF CommitCovered
<1> QED BY <1>5, <1>6, <1>7 DEF Covered

\* A delivery report moves a record from the queue to its topic or sets the error.
LEMMA DeliveryCovered ==
  ASSUME NEW a \in App, Inv, Deliver(a) \/ OutputDeliveryFails(a) \/ ChangelogDeliveryFails(a)
  PROVE  Covered(a)'
<1>1. /\ position' = position /\ tpOffsets' = tpOffsets /\ starting' = starting
      /\ mode' = mode /\ sunk' = sunk /\ batch' = batch /\ stage' = stage
  BY DEF Deliver, DeliverOutput, DeliverChangelog, OutputDeliveryFails, ChangelogDeliveryFails,
     loopVars, ckptVars
<1>2. \A m \in Message : Sent(a, m) => Sent(a, m)'
  <2>1. CASE DeliverOutput(a)
    <3>1. PICK out \in pendingOut[a] :
            /\ outputs' = outputs \cup {out}
            /\ pendingOut'[a] = pendingOut[a] \ {out}
            /\ deliveryError' = deliveryError
      BY <2>1 DEF DeliverOutput, Inv, TypeOK, ProducerTypeOK
    <3> QED BY <3>1 DEF Sent, Produced
  <2>2. CASE DeliverChangelog(a)
    BY <2>2 DEF DeliverChangelog, Sent, Produced
  <2>3. CASE OutputDeliveryFails(a) \/ ChangelogDeliveryFails(a)
    <3>1. deliveryError'[a]
      BY <2>3 DEF OutputDeliveryFails, ChangelogDeliveryFails, Inv, TypeOK, ProducerTypeOK
    <3> QED BY <3>1 DEF Sent
  <2> QED BY <2>1, <2>2, <2>3 DEF Deliver
<1>3. CommitCovered(a)'
  <2>1. CASE stage[a] \in {"committing", "storing"}
    <3>1. pendingOut[a] = {} /\ pendingLog[a] = {} /\ ~deliveryError[a]
      BY <2>1 DEF Inv, Covered, CommitCovered, PendingLogOK
    <3> QED BY <3>1 DEF Deliver, DeliverOutput, DeliverChangelog, OutputDeliveryFails,
       ChangelogDeliveryFails
  <2>2. CASE stage[a] \notin {"committing", "storing"}
    BY <1>1, <2>2 DEF Inv, Covered, CommitCovered
  <2> QED BY <2>1, <2>2
<1> QED BY <1>1, <1>2, <1>3, KeepCovered DEF Inv, Assigned

\* The inductive invariant holds initially.
LEMMA InitInv == Init => Inv
<1> SUFFICES ASSUME Init PROVE Inv
  OBVIOUS
<1>1. TypeOK
  BY InitTypeOK
<1>2. PendingLogOK
  BY DEF Init, PendingLogOK
<1>3. AtLeastOnce
  BY MessageOffsets, ConstantsAssumption DEF Init, AtLeastOnce, Begin
<1>4. ASSUME NEW a \in App
      PROVE  Covered(a)
  <2>1. mode[a] = "down" /\ stage[a] = "idle" /\ tpOffsets[a] = Absent /\ starting[a] = Absent
    BY DEF Init
  <2>2. PositionCovered(a) /\ AbsentSunk(a) /\ CommitCovered(a)
    BY <2>1 DEF PositionCovered, AbsentSunk, CommitCovered, Assigned
  <2>3. OffsetsCovered(a) /\ StartCovered(a)
    BY <2>1, MessageOffsets, ConstantsAssumption DEF OffsetsCovered, StartCovered, Absent
  <2> QED BY <2>2, <2>3 DEF Covered
<1> QED BY <1>1, <1>2, <1>3, <1>4 DEF Inv

\* Every step keeps the inductive invariant.
LEMMA NextInv ==
  ASSUME Inv, [Next]_vars
  PROVE  Inv'
<1>1. outputs \subseteq outputs' /\ sunk \subseteq sunk'
  BY EffectsStay
<1>2. TypeOK' /\ PendingLogOK' /\ AtLeastOnce'
  BY NextTypeOK, NextPendingLogOK, NextAtLeastOnce DEF Inv
<1>3. ASSUME NEW b \in App
      PROVE  Covered(b)'
  <2>1. CASE UNCHANGED vars \/ Compact \/ Recreate
    <3>1. Unmoved(b)
      BY <2>1 DEF vars, loopVars, ckptVars, producerVars, Compact, Recreate, Unmoved
    <3> QED BY <3>1, <1>1, UnmovedCovered DEF Inv
  <2>2. ASSUME NEW a \in App, a # b,
               Start(a) \/ SessionTimeout(a) \/ Loop(a) \/ Deliver(a) \/ Disturb(a)
        PROVE  Covered(b)'
    <3>1. Unmoved(b)
      BY <2>2, OthersUnmoved DEF Inv
    <3> QED BY <3>1, <1>1, UnmovedCovered DEF Inv
  <2>3. CASE Start(b) \/ SessionTimeout(b) \/ Deliver(b)
    BY <2>3, ModeCovered, DeliveryCovered
  <2>4. CASE ProcessEnds(b)
    BY <2>4, EndCovered DEF Inv
  <2>5. CASE Disturb(b)
    BY <2>4, <2>5, ModeCovered, BackpressureCovered, DeliveryCovered
       DEF Disturb, Crash, FlushProducerTimesOut, CommitErrs, Fail
  <2>6. CASE Loop(b)
    BY <2>4, <2>6, ModeCovered, OnAssignCovered, ProcessCovered, CommitBeginsCovered,
       CommitStepsCovered, FlushStoresCovered
       DEF Loop, OnAssignFails, ProcessFails, CommitBeginFails, FlushProducerFails,
           CommitRefused, FlushStoresFails, Fail
  <2> QED BY <2>1, <2>2, <2>3, <2>5, <2>6 DEF Next
<1> QED BY <1>2, <1>3 DEF Inv

\* The inductive invariant holds of every instance count, topic, key, fault
\* bound and hazard.
THEOREM InvHolds == Spec => []Inv
<1>1. Init => Inv
  BY InitInv
<1>2. Inv /\ [Next]_vars => Inv'
  BY NextInv
<1> QED BY <1>1, <1>2, PTL DEF Spec

\* Type correctness of the processing loop (app.py, checkpoint.py).
THEOREM TypeCorrect == Spec => []TypeOK
BY InvHolds, PTL DEF Inv

\* At-least-once: no committed offset is past a message whose output record or
\* sink row is missing.
THEOREM AtLeastOnceHolds == Spec => []AtLeastOnce
BY InvHolds, PTL DEF Inv

-----------------------------------------------------------------------------
(***************************************************************************)
(* Proofs about Checkpointing while no instance is thrown out of the group *)
(* unnoticed: one instance owns the partition, and its checkpoint spans    *)
(* the offsets from the committed ones to its position (OwnerInv).  From   *)
(* that follow                                                             *)
(*                                                                         *)
(*   - that backpressure rewinds to the committed offsets, and that the    *)
(*     paranoid check of store_offset() never fires;                       *)
(*   - that the processing loop implements the abstract promise, since the *)
(*     committed offsets move forward only;                                *)
(*   - that no store is ever ahead of the committed offsets (BoundedInv);  *)
(*   - that changelog offsets stay in order, as long as nobody deletes the *)
(*     changelog topic (OffsetInv).                                        *)
(***************************************************************************)

\* The steps of one instance, as Next has them.
StepOf(a) == Start(a) \/ SessionTimeout(a) \/ Loop(a) \/ Deliver(a) \/ Disturb(a)

\* What a step of one instance does to the group: another member stays one, the
\* partition is taken when it is free and given up by its owner only, and the
\* committed offsets move by a commit of that instance.
LEMMA GroupStep ==
  ASSUME NEW a \in App, StepOf(a)
  PROVE  /\ members \ {a} \subseteq members'
         /\ \/ owner' = owner
            \/ owner = a
            \/ owner = NoApp
         /\ \/ committed' = committed
            \/ stage[a] = "committing" /\ \E ts \in SUBSET Topic : committed' = Commit(a, ts)
<1>1. CASE Start(a) \/ SessionTimeout(a) \/ Deliver(a)
  BY <1>1 DEF Start, SessionTimeout, ReleasePartition, Deliver, DeliverOutput, DeliverChangelog,
     brokerVars, groupVars
<1>2. CASE Disturb(a)
  BY <1>2 DEF Disturb, OnRevoke, Evict, Crash, Backpressure, FlushProducerTimesOut, CommitErrs,
     OutputDeliveryFails, ChangelogDeliveryFails, Fail, AfterCommit, ReleasePartition,
     brokerVars, groupVars
<1>3. CASE Loop(a)
  BY <1>3 DEF Loop, Rejoin, OnAssign, OnAssignFails, OnLost, RecoverMessage, RecoveryDone,
     Process, ProcessFails, CommitBegins, CommitBeginFails, FlushProducer, FlushProducerFails,
     CommitOffsets, CommitRefused, FlushStores, FlushStoresFails, Fail, AfterCommit,
     ReleasePartition, brokerVars, groupVars
<1> QED BY <1>1, <1>2, <1>3 DEF StepOf

\* All the variables of an instance.
Untouched(a) ==
  /\ Unmoved(a)
  /\ updates'[a] = updates[a]
  /\ pendingLog'[a] = pendingLog[a]
  /\ producedOff'[a] = producedOff[a]
  /\ store'[a] = store[a]
  /\ storeOff'[a] = storeOff[a]
  /\ recovery'[a] = recovery[a]

\* A step of one instance leaves all variables of the others as they are.
LEMMA OthersUntouched ==
  ASSUME NEW a \in App, NEW b \in App, a # b, TypeOK, StepOf(a)
  PROVE  Untouched(b)
<1> USE DEF TypeOK, CheckpointTypeOK, ProducerTypeOK, StoreTypeOK
<1>1. Unmoved(b)
  BY OthersUnmoved DEF StepOf
<1> SUFFICES /\ updates'[b] = updates[b]
             /\ pendingLog'[b] = pendingLog[b]
             /\ producedOff'[b] = producedOff[b]
             /\ store'[b] = store[b]
             /\ storeOff'[b] = storeOff[b]
             /\ recovery'[b] = recovery[b]
  BY <1>1 DEF Untouched
<1>2. CASE ProcessEnds(a)
  BY <1>2 DEF ProcessEnds, InitCheckpoint, storeVars
<1>3. CASE Start(a) \/ SessionTimeout(a)
  BY <1>3 DEF Start, SessionTimeout, ckptVars, producerVars, storeVars
<1>4. CASE Deliver(a)
  BY <1>4 DEF Deliver, DeliverOutput, DeliverChangelog, ckptVars, storeVars
<1>5. CASE Disturb(a)
  BY <1>2, <1>5 DEF Disturb, OnRevoke, Evict, Crash, Backpressure, FlushProducerTimesOut,
     CommitErrs, OutputDeliveryFails, ChangelogDeliveryFails, Fail, InitCheckpoint,
     ckptVars, producerVars, storeVars
<1>6. CASE Loop(a)
  BY <1>2, <1>6 DEF Loop, Rejoin, OnAssign, OnAssignFails, OnLost, RecoverMessage, RecoveryDone,
     Process, ProcessFails, CommitBegins, CommitBeginFails, FlushProducer, FlushProducerFails,
     CommitOffsets, CommitRefused, FlushStores, FlushStoresFails, Fail, InitCheckpoint,
     ckptVars, producerVars, storeVars
<1> QED BY <1>3, <1>4, <1>5, <1>6 DEF StepOf

\* The owner's step leaves the others owning nothing; a step of an instance that
\* owns nothing cannot take the partition from its owner or move the offsets.
LEMMA OwnedOthers ==
  ASSUME NEW a \in App, NEW b \in App, a # b, TypeOK, OwnerInv, StepOf(a)
  PROVE  Owned(b)'
<1>1. Untouched(b)
  BY OthersUntouched
<1>2. Owned(b)
  BY DEF OwnerInv
<1>3. SoleOwner(b)'
  <2>1. Assigned(b) => owner = b /\ owner # NoApp
    BY <1>2, ConstantsAssumption DEF Owned, SoleOwner
  <2>2. Assigned(b) => owner' = b
    BY <2>1, GroupStep
  <2> QED BY <1>1, <1>2, <2>2, GroupStep DEF Owned, SoleOwner, Assigned, Untouched, Unmoved
<1>4. NothingOpen(b)'
  BY <1>1, <1>2 DEF Owned, NothingOpen, Empty, Absent, NoUpdates, Blank, Untouched, Unmoved
<1>5. Assigned(b) => committed' = committed
  <2> SUFFICES ASSUME Assigned(b), stage[a] = "committing" PROVE FALSE
    BY GroupStep
  <2>1. owner = b
    BY <1>2 DEF Owned, SoleOwner
  <2>2. Assigned(a)
    BY DEF OwnerInv, Owned, NothingOpen, Assigned
  <2> QED BY <2>1, <2>2 DEF OwnerInv, Owned, SoleOwner
<1>6. SpansCommitted(b)' /\ RecoversCommitted(b)'
  BY <1>1, <1>2, <1>5 DEF Owned, SpansCommitted, RecoversCommitted, Assigned, Untouched, Unmoved
<1> QED BY <1>3, <1>4, <1>6 DEF Owned

\* A process that has ended owns nothing.
LEMMA OwnedEnds ==
  ASSUME NEW a \in App, TypeOK, ProcessEnds(a)
  PROVE  Owned(a)'
<1>1. /\ mode'[a] = "down" /\ stage'[a] = "idle" /\ tpOffsets'[a] = Absent
      /\ starting'[a] = Absent /\ updates'[a] = NoUpdates
  BY DEF ProcessEnds, InitCheckpoint, TypeOK, LoopTypeOK, CheckpointTypeOK
<1> QED
  BY <1>1 DEF Owned, SoleOwner, NothingOpen, SpansCommitted, RecoversCommitted, Assigned, Empty,
     Absent, NoUpdates, Blank

\* Taking the partition starts from the committed offsets.
LEMMA OwnedAssigned ==
  ASSUME NEW a \in App, TypeOK, OwnerInv, OnAssign(a)
  PROVE  Owned(a)'
<1>1. /\ stage' = stage /\ tpOffsets' = tpOffsets /\ starting' = starting /\ updates' = updates
      /\ committed' = committed /\ members' = members /\ position'[a] = committed
      /\ mode[a] = "joining" /\ mode'[a] \in {"recovering", "processing"} /\ stage[a] = "idle"
      /\ owner' = a /\ a \in members
  BY DEF OnAssign, brokerVars, ckptVars, TypeOK, LoopTypeOK
<1>2. mode'[a] = "recovering" => recovery'[a].committed = committed
  BY DEF OnAssign, TypeOK, LoopTypeOK, StoreTypeOK
<1>3. Empty(a) /\ starting[a] = Absent /\ updates[a] = NoUpdates
  BY <1>1 DEF OwnerInv, Owned, NothingOpen
<1>4. SoleOwner(a)' /\ RecoversCommitted(a)'
  BY <1>1, <1>2 DEF SoleOwner, RecoversCommitted
<1>5. NothingOpen(a)'
  BY <1>1, <1>3 DEF NothingOpen, Empty, Absent, NoUpdates, Blank
<1>6. SpansCommitted(a)'
  BY <1>1, <1>3 DEF SpansCommitted, Empty, Absent, TypeOK, BrokerTypeOK, Offsets
<1> QED BY <1>4, <1>5, <1>6 DEF Owned

\* Processing extends the span of the checkpoint by its message.
LEMMA OwnedProcesses ==
  ASSUME NEW a \in App, NEW t \in Topic, TypeOK, OwnerInv, Process(a, t)
  PROVE  Owned(a)'
<1>1. /\ mode' = mode /\ stage' = stage /\ owner' = owner /\ members' = members
      /\ committed' = committed /\ recovery' = recovery
      /\ mode[a] = "processing" /\ stage[a] = "idle"
  BY DEF Process, Consumable, brokerVars, groupVars
<1>2. /\ position[a] \in Offsets /\ tpOffsets[a] \in Partial /\ starting[a] \in Partial
      /\ committed \in Offsets
  BY DEF TypeOK, BrokerTypeOK, LoopTypeOK, CheckpointTypeOK
<1>3. /\ position'[a] = [position[a] EXCEPT ![t] = @ + 1]
      /\ tpOffsets'[a] = [tpOffsets[a] EXCEPT ![t] = position[a][t]]
      /\ starting'[a] = [starting[a] EXCEPT ![t] = IF @ < 0 THEN position[a][t] ELSE @]
  BY DEF Process, NextMessage, TypeOK, LoopTypeOK, CheckpointTypeOK
<1>4. Owned(a)
  BY DEF OwnerInv
<1>5. SoleOwner(a)' /\ RecoversCommitted(a)'
  BY <1>1, <1>4 DEF Owned, SoleOwner, RecoversCommitted, Assigned
<1>6. NothingOpen(a)'
  <2>1. tpOffsets'[a][t] = position[a][t] /\ position[a][t] >= 0
    BY <1>2, <1>3 DEF Offsets, Partial
  <2>2. tpOffsets'[a] # Absent
    BY <2>1 DEF Absent
  <2> QED BY <1>1, <2>2 DEF NothingOpen, Empty, Absent
<1>7. SpansCommitted(a)'
  <2> SUFFICES ASSUME NEW s \in Topic
               PROVE  /\ tpOffsets'[a][s] >= 0 <=> starting'[a][s] >= 0
                      /\ tpOffsets'[a][s] >= 0 => position'[a][s] = tpOffsets'[a][s] + 1
                      /\ tpOffsets'[a][s] < 0 => position'[a][s] = committed[s]
                      /\ starting'[a][s] >= 0 => starting'[a][s] = committed[s]
                      /\ committed[s] <= position'[a][s]
    BY <1>1 DEF SpansCommitted
  <2>1. /\ tpOffsets[a][s] >= 0 <=> starting[a][s] >= 0
        /\ tpOffsets[a][s] >= 0 => position[a][s] = tpOffsets[a][s] + 1
        /\ tpOffsets[a][s] < 0 => position[a][s] = committed[s]
        /\ starting[a][s] >= 0 => starting[a][s] = committed[s]
        /\ committed[s] <= position[a][s]
    BY <1>1, <1>4 DEF Owned, SpansCommitted, Assigned
  <2>2. /\ position[a][s] \in Nat /\ committed[s] \in Nat
        /\ tpOffsets[a][s] \in Int /\ starting[a][s] \in Int
    BY <1>2, ConstantsAssumption DEF Offsets, Partial
  <2>3. CASE s = t
    <3>1. /\ position'[a][s] = position[a][s] + 1
          /\ tpOffsets'[a][s] = position[a][s]
          /\ starting'[a][s] = IF starting[a][s] < 0 THEN position[a][s] ELSE starting[a][s]
      BY <1>2, <1>3, <2>3 DEF Offsets, Partial
    <3> QED BY <2>1, <2>2, <3>1
  <2>4. CASE s # t
    <3>1. /\ position'[a][s] = position[a][s]
          /\ tpOffsets'[a][s] = tpOffsets[a][s]
          /\ starting'[a][s] = starting[a][s]
      BY <1>2, <1>3, <2>4 DEF Offsets, Partial
    <3> QED BY <2>1, <3>1
  <2> QED BY <2>3, <2>4
<1> QED BY <1>5, <1>6, <1>7 DEF Owned

\* The checkpoint ends where the position is, in all topics: what a commit of all
\* its offsets commits.
LEMMA CommitReachesPosition ==
  ASSUME NEW a \in App, TypeOK, OwnerInv, stage[a] = "committing"
  PROVE  Commit(a, Topic) = position[a]
<1>1. Assigned(a)
  BY DEF OwnerInv, Owned, NothingOpen, Assigned
<1>2. \A t \in Topic : Commit(a, Topic)[t] = position[a][t]
  BY <1>1 DEF OwnerInv, Owned, SpansCommitted, Commit, TypeOK, BrokerTypeOK, LoopTypeOK,
     CheckpointTypeOK, Offsets, Partial
<1> QED BY <1>2, CommitInOffsets DEF TypeOK, LoopTypeOK, Offsets

\* The commit of the offsets closes the span.
LEMMA OwnedCommits ==
  ASSUME NEW a \in App, TypeOK, OwnerInv, CommitOffsets(a)
  PROVE  Owned(a)'
<1>1. /\ mode' = mode /\ owner' = owner /\ members' = members /\ recovery' = recovery
      /\ position' = position /\ tpOffsets' = tpOffsets /\ starting' = starting
      /\ updates' = updates /\ stage[a] = "committing" /\ stage'[a] = "storing"
      /\ committed' = Commit(a, Topic)
  BY DEF CommitOffsets, groupVars, ckptVars, TypeOK, LoopTypeOK
<1>2. committed' = position[a]
  BY <1>1, CommitReachesPosition
<1>3. Owned(a) /\ mode[a] \in {"processing", "revoking"}
  BY <1>1 DEF OwnerInv, Owned, NothingOpen
<1>4. SoleOwner(a)' /\ NothingOpen(a)' /\ RecoversCommitted(a)'
  BY <1>1, <1>3 DEF Owned, SoleOwner, NothingOpen, RecoversCommitted, Assigned, Empty, Absent,
     NoUpdates, Blank
<1>5. SpansCommitted(a)'
  BY <1>1, <1>2, <1>3 DEF Owned, SpansCommitted, Assigned
<1> QED BY <1>4, <1>5 DEF Owned

\* A checkpoint that is replaced by a new one, after its commit or by backpressure,
\* leaves the position at the committed offsets.
LEMMA OwnedRenews ==
  ASSUME NEW a \in App, TypeOK, OwnerInv, FlushStores(a) \/ Backpressure(a)
  PROVE  Owned(a)'
<1>1. /\ tpOffsets'[a] = Absent /\ starting'[a] = Absent /\ updates'[a] = NoUpdates
      /\ stage'[a] = "idle" /\ committed' = committed /\ members' = members
      /\ recovery' = recovery
      /\ mode'[a] # "joining" => mode' = mode /\ owner' = owner
  BY DEF FlushStores, Backpressure, CommitDue, InitCheckpoint, AfterCommit, brokerVars, TypeOK,
     LoopTypeOK, CheckpointTypeOK
<1>2. Owned(a) /\ mode[a] # "down" /\ mode[a] # "recovering"
  BY DEF FlushStores, Backpressure, CommitDue, OwnerInv, Owned, NothingOpen
<1>3. SoleOwner(a)' /\ NothingOpen(a)' /\ RecoversCommitted(a)'
  BY <1>1, <1>2 DEF Owned, SoleOwner, NothingOpen, RecoversCommitted, Assigned, Empty, Absent,
     NoUpdates, Blank
<1>4. ASSUME NEW t \in Topic, Assigned(a)'
      PROVE  position'[a][t] = committed[t]
  <2>1. Assigned(a) /\ mode[a] # "joining"
    BY <1>1, <1>4 DEF Assigned
  <2>2. CASE FlushStores(a)
    BY <2>1, <2>2, <1>2 DEF FlushStores, Owned, SpansCommitted
  <2>3. CASE Backpressure(a)
    <3>1. position'[a][t] = IF starting[a][t] >= 0 THEN starting[a][t] ELSE position[a][t]
      BY <2>1, <2>3 DEF Backpressure, Rewound, TypeOK, LoopTypeOK
    <3>2. stage[a] = "idle"
      BY <2>3 DEF Backpressure, CommitDue
    <3>3. tpOffsets[a][t] \in Int /\ starting[a][t] \in Int
      BY ConstantsAssumption DEF TypeOK, CheckpointTypeOK, Partial
    <3> QED BY <3>1, <3>2, <3>3, <2>1, <1>2 DEF Owned, SpansCommitted
  <2> QED BY <2>2, <2>3
<1>5. SpansCommitted(a)'
  BY <1>1, <1>4, ConstantsAssumption
     DEF SpansCommitted, Absent, TypeOK, BrokerTypeOK, Offsets
<1> QED BY <1>3, <1>5 DEF Owned

\* The steps that change none of the offsets.
LEMMA OwnedKeeps ==
  ASSUME NEW a \in App, TypeOK, OwnerInv,
         \/ Start(a) \/ SessionTimeout(a) \/ Rejoin(a) \/ OnLost(a) \/ OnRevoke(a)
         \/ RecoverMessage(a) \/ RecoveryDone(a) \/ CommitBegins(a) \/ FlushProducer(a)
         \/ Deliver(a) \/ OutputDeliveryFails(a) \/ ChangelogDeliveryFails(a)
  PROVE  Owned(a)'
<1> USE DEF TypeOK, LoopTypeOK
<1>1. /\ position' = position /\ tpOffsets' = tpOffsets /\ starting' = starting
      /\ updates' = updates /\ committed' = committed
  BY DEF Start, SessionTimeout, Rejoin, OnLost, OnRevoke, RecoverMessage, RecoveryDone,
     CommitBegins, FlushProducer, Deliver, DeliverOutput, DeliverChangelog,
     OutputDeliveryFails, ChangelogDeliveryFails, brokerVars, loopVars, ckptVars
<1>2. Owned(a)
  BY DEF OwnerInv
<1>3. stage'[a] # stage[a] =>
         /\ mode[a] \in {"processing", "revoking"} /\ mode' = mode
         /\ stage[a] # "storing" /\ stage'[a] # "storing"
  BY <1>2 DEF Start, SessionTimeout, Rejoin, OnLost, OnRevoke, RecoverMessage, RecoveryDone,
     CommitBegins, CommitDue, FlushProducer, Deliver, DeliverOutput, DeliverChangelog,
     OutputDeliveryFails, ChangelogDeliveryFails, loopVars, Owned, NothingOpen
<1>4. /\ Assigned(a)' => Assigned(a) /\ owner' = owner
      /\ mode'[a] # "down" => a \in members'
  BY <1>2, ConstantsAssumption DEF Start, SessionTimeout, ReleasePartition, Rejoin, OnLost,
     OnRevoke, RecoverMessage, RecoveryDone, CommitBegins, FlushProducer, Deliver,
     DeliverOutput, DeliverChangelog, OutputDeliveryFails, ChangelogDeliveryFails, loopVars,
     groupVars, Owned, SoleOwner, Assigned
<1>5. mode'[a] = "recovering" =>
         mode[a] = "recovering" /\ recovery'[a].committed = recovery[a].committed
  BY DEF Start, SessionTimeout, Rejoin, OnLost, OnRevoke, RecoverMessage, RecoveryDone,
     CommitBegins, FlushProducer, Deliver, DeliverOutput, DeliverChangelog,
     OutputDeliveryFails, ChangelogDeliveryFails, loopVars, StoreTypeOK
<1>6. mode'[a] \notin {"processing", "revoking"} => stage'[a] = "idle" /\ Empty(a)
  BY <1>2 DEF Start, SessionTimeout, Rejoin, OnLost, OnRevoke, RecoverMessage, RecoveryDone,
     CommitBegins, CommitDue, FlushProducer, Deliver, DeliverOutput, DeliverChangelog,
     OutputDeliveryFails, ChangelogDeliveryFails, loopVars, Owned, NothingOpen, SoleOwner
<1>7. SoleOwner(a)' /\ RecoversCommitted(a)'
  BY <1>1, <1>2, <1>4, <1>5 DEF Owned, SoleOwner, RecoversCommitted
<1>8. NothingOpen(a)'
  BY <1>1, <1>2, <1>6 DEF Owned, NothingOpen, Empty, Absent, NoUpdates, Blank
<1>9. SpansCommitted(a)'
  BY <1>1, <1>2, <1>3, <1>4 DEF Owned, SpansCommitted
<1> QED BY <1>7, <1>8, <1>9 DEF Owned

\* Initially nobody owns anything.
LEMMA InitOwnerInv == Init => OwnerInv
<1> SUFFICES ASSUME Init, NEW a \in App PROVE Owned(a)
  BY DEF OwnerInv
<1>1. /\ mode[a] = "down" /\ stage[a] = "idle" /\ tpOffsets[a] = Absent
      /\ starting[a] = Absent /\ updates[a] = NoUpdates
  BY DEF Init
<1> QED
  BY <1>1 DEF Owned, SoleOwner, NothingOpen, SpansCommitted, RecoversCommitted, Assigned, Empty

\* Every step keeps the ownership of the partition exclusive, while no instance is
\* thrown out of the group.
LEMMA NextOwnerInv ==
  ASSUME "eviction" \notin Hazards, TypeOK, OwnerInv, [Next]_vars
  PROVE  OwnerInv'
<1>1. CASE UNCHANGED vars \/ Compact \/ Recreate
  BY <1>1 DEF vars, brokerVars, groupVars, loopVars, ckptVars, storeVars, Compact, Recreate,
     OwnerInv, Owned, SoleOwner, NothingOpen, SpansCommitted, RecoversCommitted, Assigned,
     Empty, Absent, NoUpdates, Blank
<1>2. ASSUME NEW a \in App, StepOf(a), NEW b \in App
      PROVE  Owned(b)'
  <2>1. CASE b # a
    BY <1>2, <2>1, OwnedOthers
  <2>2. Owned(a)'
    <3>1. CASE ProcessEnds(a)
      BY <3>1, OwnedEnds
    <3>2. CASE Loop(a)
      BY <3>1, <3>2, OwnedAssigned, OwnedProcesses, OwnedCommits, OwnedRenews, OwnedKeeps
         DEF Loop, OnAssignFails, ProcessFails, CommitBeginFails, FlushProducerFails,
             CommitRefused, FlushStoresFails, Fail
    <3>3. CASE Disturb(a)
      BY <3>1, <3>3, OwnedRenews, OwnedKeeps
         DEF Disturb, Evict, Crash, FlushProducerTimesOut, CommitErrs, Fail
    <3>4. CASE Start(a) \/ SessionTimeout(a) \/ Deliver(a)
      BY <3>4, OwnedKeeps
    <3> QED BY <1>2, <3>2, <3>3, <3>4 DEF StepOf
  <2> QED BY <2>1, <2>2
<1> QED BY <1>1, <1>2 DEF Next, StepOf, OwnerInv
-----------------------------------------------------------------------------

\* As long as no instance is thrown out of the group, the partition has one owner,
\* whose checkpoint spans the offsets from the committed ones to its position.
THEOREM OwnerInvHolds == ASSUME "eviction" \notin Hazards PROVE Spec => []OwnerInv
<1>1. Init => OwnerInv
  BY InitOwnerInv
<1>2. TypeOK /\ OwnerInv /\ [Next]_vars => OwnerInv'
  BY NextOwnerInv
<1> QED BY <1>1, <1>2, TypeCorrect, PTL DEF Spec

\* Backpressure rewinds completely: the first processed offset of a checkpoint is
\* the committed one (checkpoint.py, trigger_backpressure()).
THEOREM StartsAtCommittedHolds ==
  ASSUME "eviction" \notin Hazards PROVE Spec => []StartsAtCommitted
<1>1. TypeOK /\ OwnerInv => StartsAtCommitted
  <2> SUFFICES ASSUME TypeOK, OwnerInv, NEW a \in App, NEW t \in Topic,
                      starting[a][t] >= 0, stage[a] # "storing"
               PROVE  starting[a][t] = committed[t]
    BY DEF StartsAtCommitted
  <2>1. ~Empty(a)
    BY DEF OwnerInv, Owned, NothingOpen, Absent
  <2> QED BY <2>1 DEF OwnerInv, Owned, NothingOpen, SpansCommitted, Assigned
<1> QED BY <1>1, OwnerInvHolds, TypeCorrect, PTL

\* The paranoid check of Checkpoint.store_offset() never fires.
THEOREM OffsetsIncreaseHolds ==
  ASSUME "eviction" \notin Hazards PROVE Spec => []OffsetsIncrease
<1>1. TypeOK /\ OwnerInv => OffsetsIncrease
  <2> SUFFICES ASSUME TypeOK, OwnerInv, NEW a \in App, NEW t \in Topic, mode[a] = "processing"
               PROVE  position[a][t] > tpOffsets[a][t]
    BY DEF OffsetsIncrease
  <2>1. position[a][t] \in Nat /\ tpOffsets[a][t] \in Int
    BY ConstantsAssumption DEF TypeOK, LoopTypeOK, CheckpointTypeOK, Offsets, Partial
  <2>2. tpOffsets[a][t] >= 0 => position[a][t] = tpOffsets[a][t] + 1
    BY DEF OwnerInv, Owned, SpansCommitted, Assigned
  <2> QED BY <2>1, <2>2
<1> QED BY <1>1, OwnerInvHolds, TypeCorrect, PTL

\* The initial state is one of the promise: nothing is committed and nothing done.
LEMMA InitPromise == Init => Promise!Init
BY DEF Init, Promise!Init, Begin, Produced

\* A commit, whole or in part, moves no offset back.
LEMMA CommitForward ==
  ASSUME NEW a \in App, NEW ts \in SUBSET Topic, NEW t \in Topic, TypeOK, OwnerInv,
         stage[a] = "committing"
  PROVE  committed[t] <= Commit(a, ts)[t]
<1>1. Assigned(a)
  BY DEF OwnerInv, Owned, NothingOpen, Assigned
<1>2. committed[t] \in Nat /\ tpOffsets[a][t] \in Int /\ position[a][t] \in Nat
  BY ConstantsAssumption
     DEF TypeOK, BrokerTypeOK, LoopTypeOK, CheckpointTypeOK, Offsets, Partial
<1>3. /\ tpOffsets[a][t] >= 0 => position[a][t] = tpOffsets[a][t] + 1
      /\ committed[t] <= position[a][t]
  BY <1>1 DEF OwnerInv, Owned, SpansCommitted
<1> QED BY <1>2, <1>3 DEF Commit

\* Every step of the application is a step of the promise, or changes nothing the
\* promise is about: effects become visible, or the offsets advance past messages
\* whose effects are visible.
LEMMA NextPromise ==
  ASSUME Inv, OwnerInv, Inv', [Next]_vars
  PROVE  [Promise!Next]_(Promise!vars)
<1>1. CASE committed' = committed
  <2>1. (Produced \cap sunk)' \in SUBSET Message
    BY DEF Inv, TypeOK, BrokerTypeOK
  <2>2. Produced \cap sunk \subseteq (Produced \cap sunk)'
    BY EffectsStay DEF Produced
  <2>3. Promise!Effect
    BY <1>1, <2>1, <2>2 DEF Promise!Effect, Promise!Message, Message
  <2> QED BY <2>3 DEF Promise!Next
<1>2. ASSUME NEW a \in App, StepOf(a), committed' # committed
      PROVE  Promise!Commit
  <2>1. PICK ts \in SUBSET Topic : stage[a] = "committing" /\ committed' = Commit(a, ts)
    BY <1>2, GroupStep
  <2>2. committed' \in [Topic -> 0..MaxOffset]
    BY DEF Inv, TypeOK, BrokerTypeOK, Offsets
  <2>3. \A t \in Topic : committed[t] <= committed'[t]
    BY <2>1, CommitForward DEF Inv
  <2>4. outputs' = outputs /\ sunk' = sunk
    BY <1>2, <2>1 DEF StepOf, Start, SessionTimeout, Deliver, DeliverOutput, DeliverChangelog,
       Loop, Rejoin, OnAssign, OnAssignFails, OnLost, RecoverMessage, RecoveryDone, Process,
       ProcessFails, CommitBegins, CommitBeginFails, FlushProducer, FlushProducerFails,
       CommitOffsets, CommitRefused, FlushStores, FlushStoresFails, Disturb, OnRevoke, Evict,
       Crash, Backpressure, FlushProducerTimesOut, CommitErrs, OutputDeliveryFails,
       ChangelogDeliveryFails, brokerVars
  <2>5. \A m \in Message : m[2] < committed'[m[1]] => m \in Produced \cap sunk
    BY <2>4 DEF Inv, AtLeastOnce, Produced
  <2>6. Promise!Below(committed') \subseteq Produced \cap sunk
    BY <2>5 DEF Promise!Below, Promise!Message, Message
  <2>7. (Produced \cap sunk)' = Produced \cap sunk
    BY <2>4 DEF Produced
  <2> QED BY <2>2, <2>3, <2>6, <2>7 DEF Promise!Commit
<1>3. CASE UNCHANGED vars \/ Compact \/ Recreate
  BY <1>1, <1>3 DEF vars, brokerVars, Compact, Recreate
<1> QED BY <1>1, <1>2, <1>3 DEF Next, StepOf, Promise!Next

\* The processing loop implements the promise of at-least-once processing
\* (ProcessingGuarantee): effects are never withdrawn, and the committed offsets
\* only advance, past messages whose effects are visible.
THEOREM KeepsPromiseHolds == ASSUME "eviction" \notin Hazards PROVE Spec => KeepsPromise
<1>1. Init => Promise!Init
  BY InitPromise
<1>2. Inv /\ OwnerInv /\ Inv' /\ [Next]_vars => [Promise!Next]_(Promise!vars)
  BY NextPromise
<1> QED BY <1>1, <1>2, InvHolds, OwnerInvHolds, PTL DEF Spec, KeepsPromise, Promise!Spec
-----------------------------------------------------------------------------

\* The committed offsets never move back.
LEMMA CommittedForward ==
  ASSUME TypeOK, OwnerInv, [Next]_vars, NEW t \in Topic
  PROVE  /\ committed[t] <= committed'[t]
         /\ committed[t] \in Nat
<1>1. committed[t] \in Nat
  BY DEF TypeOK, BrokerTypeOK, Offsets
<1>2. CASE UNCHANGED vars \/ Compact \/ Recreate
  BY <1>1, <1>2 DEF vars, brokerVars, Compact, Recreate
<1>3. ASSUME NEW a \in App, StepOf(a)
      PROVE  committed[t] <= committed'[t]
  BY <1>1, <1>3, GroupStep, CommitForward
<1> QED BY <1>1, <1>2, <1>3 DEF Next, StepOf

\* What is committed stays committed.
LEMMA CommittedStay ==
  ASSUME TypeOK, PendingLogOK, OwnerInv, [Next]_vars
  PROVE  \A m \in Message : m[2] < committed[m[1]] => m[2] < committed'[m[1]]
<1> TAKE m \in Message
<1>1. m[1] \in Topic /\ m[2] \in Int
  BY MessageOffsets, ConstantsAssumption
<1>2. committed'[m[1]] \in Int
  BY <1>1, NextTypeOK DEF TypeOK, BrokerTypeOK, Offsets
<1> QED BY <1>1, <1>2, CommittedForward

\* The changelog grows by records that are pending, one at a time.
LEMMA ChangelogStep ==
  ASSUME NEW a \in App, StepOf(a)
  PROVE  \/ changelog' = changelog
         \/ \E k \in pendingLog[a] : changelog' = Append(changelog, ChangelogRecord(a, k))
<1>1. CASE Start(a) \/ SessionTimeout(a) \/ Deliver(a)
  BY <1>1 DEF Start, SessionTimeout, Deliver, DeliverOutput, DeliverChangelog, brokerVars
<1>2. CASE Disturb(a)
  BY <1>2 DEF Disturb, OnRevoke, Evict, Crash, Backpressure, FlushProducerTimesOut, CommitErrs,
     OutputDeliveryFails, ChangelogDeliveryFails, brokerVars
<1>3. CASE Loop(a)
  BY <1>3 DEF Loop, Rejoin, OnAssign, OnAssignFails, OnLost, RecoverMessage, RecoveryDone,
     Process, ProcessFails, CommitBegins, CommitBeginFails, FlushProducer, FlushProducerFails,
     CommitOffsets, CommitRefused, FlushStores, FlushStoresFails, brokerVars
<1> QED BY <1>1, <1>2, <1>3 DEF StepOf

\* An instance with a changelog record pending is the owner, and commits.
LEMMA PendingOwner ==
  ASSUME NEW a \in App, OwnerInv, PendingLogOK, pendingLog[a] # {}
  PROVE  /\ Assigned(a) /\ stage[a] = "flushing"
         /\ mode[a] \in {"processing", "revoking"}
BY DEF OwnerInv, Owned, NothingOpen, PendingLogOK, Assigned

\* A new record holds the state at the position, and its header the offsets before it.
LEMMA NewRecordBounded ==
  ASSUME NEW a \in App, NEW k \in pendingLog[a], TypeOK, PendingLogOK, OwnerInv, BoundedInv
  PROVE  RecordBounded(ChangelogRecord(a, k))
<1> SUFFICES ASSUME NEW m \in Message, ChangelogRecord(a, k).val[m] > 0
             PROVE  \/ m[2] <= ChangelogRecord(a, k).processed[m[1]]
                    \/ m[2] < committed[m[1]]
  BY DEF RecordBounded
<1>1. Assigned(a)
  BY PendingOwner
<1>2. k \in Key /\ k \in DOMAIN updates[a]
  BY DEF PendingLogOK, TypeOK, ProducerTypeOK
<1>3. m[2] < position[a][m[1]]
  BY <1>1, <1>2 DEF BoundedInv, StateBehind, Get, ChangelogRecord
<1>4. m[1] \in Topic /\ m[2] \in Int
  BY MessageOffsets, ConstantsAssumption
<1>5. /\ tpOffsets[a][m[1]] >= 0 => position[a][m[1]] = tpOffsets[a][m[1]] + 1
      /\ tpOffsets[a][m[1]] < 0 => position[a][m[1]] = committed[m[1]]
  BY <1>1, <1>4 DEF OwnerInv, Owned, SpansCommitted
<1>6. tpOffsets[a][m[1]] \in Int
  BY <1>4, ConstantsAssumption DEF TypeOK, CheckpointTypeOK, Partial
<1> QED BY <1>3, <1>4, <1>5, <1>6 DEF ChangelogRecord

\* The records of the changelog stay bounded as the committed offsets advance.
LEMMA RecordsStayBounded ==
  ASSUME TypeOK, PendingLogOK, OwnerInv, BoundedInv, [Next]_vars,
         NEW i \in DOMAIN changelog', changelog'[i] # Compacted
  PROVE  RecordBounded(changelog[i])'
<1>1. \A m \in Message : m[2] < committed[m[1]] => m[2] < committed'[m[1]]
  BY CommittedStay
<1>2. i \in DOMAIN changelog /\ changelog'[i] = changelog[i] => RecordBounded(changelog[i])'
  BY <1>1 DEF BoundedInv, RecordBounded
<1>3. CASE UNCHANGED vars \/ Recreate
  BY <1>2, <1>3 DEF vars, brokerVars, Recreate
<1>4. CASE Compact
  BY <1>2, <1>4 DEF Compact, TypeOK, BrokerTypeOK
<1>5. ASSUME NEW a \in App, StepOf(a)
      PROVE  RecordBounded(changelog[i])'
  <2>1. CASE changelog' = changelog
    BY <1>2, <2>1
  <2>2. ASSUME NEW k \in pendingLog[a], changelog' = Append(changelog, ChangelogRecord(a, k))
        PROVE  RecordBounded(changelog[i])'
    <3>1. \/ i \in DOMAIN changelog /\ changelog'[i] = changelog[i]
          \/ changelog'[i] = ChangelogRecord(a, k)
      BY <2>2 DEF TypeOK, BrokerTypeOK
    <3>2. RecordBounded(ChangelogRecord(a, k))
      BY NewRecordBounded
    <3>3. changelog'[i] = ChangelogRecord(a, k) => RecordBounded(changelog[i])'
      BY <1>1, <3>2 DEF RecordBounded
    <3> QED BY <1>2, <3>1, <3>3
  <2> QED BY <1>5, <2>1, <2>2, ChangelogStep
<1> QED BY <1>3, <1>4, <1>5 DEF Next, StepOf

\* Only a recovery and the last step of a commit write to a store.
LEMMA StoreStep ==
  ASSUME NEW a \in App, StepOf(a)
  PROVE  UNCHANGED storeVars \/ RecoverMessage(a) \/ FlushStores(a)
<1>1. CASE Start(a) \/ SessionTimeout(a) \/ Deliver(a)
  BY <1>1 DEF Start, SessionTimeout, Deliver, DeliverOutput, DeliverChangelog
<1>2. CASE Disturb(a)
  BY <1>2 DEF Disturb, OnRevoke, Evict, Crash, Backpressure, FlushProducerTimesOut, CommitErrs,
     OutputDeliveryFails, ChangelogDeliveryFails, Fail, ProcessEnds
<1>3. CASE Loop(a)
  BY <1>3 DEF Loop, Rejoin, OnAssign, OnAssignFails, OnLost, RecoveryDone,
     Process, ProcessFails, CommitBegins, CommitBeginFails, FlushProducer, FlushProducerFails,
     CommitOffsets, CommitRefused, FlushStoresFails, Fail, ProcessEnds
<1> QED BY <1>1, <1>2, <1>3 DEF StepOf

\* What a recovery does: it skips a record, or applies it because all offsets in
\* its header are committed.
LEMMA RecoverStep ==
  ASSUME NEW a \in App, TypeOK, OwnerInv, RecoverMessage(a)
  PROVE  \E i \in DOMAIN changelog :
            /\ i > recovery[a].pos
            /\ changelog[i] \in Record /\ changelog[i] # Compacted
            /\ \A j \in DOMAIN changelog :
                  recovery[a].pos < j /\ j < i => changelog[j] = Compacted
            /\ storeOff' = [storeOff EXCEPT ![a] = i - 1]
            /\ recovery' = [recovery EXCEPT ![a].pos = i]
            /\ \/ /\ \A t \in Topic : changelog[i].processed[t] < committed[t]
                  /\ store' = [store EXCEPT ![a][changelog[i].key] = changelog[i].val]
               \/ /\ ~\A t \in Topic : changelog[i].processed[t] < committed[t]
                  /\ store' = store
<1>1. recovery[a].committed = committed /\ recovery[a].pos \in Nat
  BY DEF RecoverMessage, OwnerInv, Owned, RecoversCommitted, TypeOK, StoreTypeOK
<1>2. PICK i \in recovery[a].pos + 1..Len(changelog) :
          /\ changelog[i] # Compacted
          /\ \A j \in recovery[a].pos + 1..i - 1 : changelog[j] = Compacted
          /\ \/ /\ ShouldApply(a, changelog[i])
                /\ store' = [store EXCEPT ![a][changelog[i].key] = changelog[i].val]
             \/ /\ ~ShouldApply(a, changelog[i])
                /\ store' = store
          /\ storeOff' = [storeOff EXCEPT ![a] = i - 1]
          /\ recovery' = [recovery EXCEPT ![a].pos = i]
  BY DEF RecoverMessage
<1>3. i \in DOMAIN changelog /\ i > recovery[a].pos /\ changelog[i] \in Record
  BY <1>1, <1>2 DEF TypeOK, BrokerTypeOK
<1>4. \A j \in DOMAIN changelog : recovery[a].pos < j /\ j < i => changelog[j] = Compacted
  BY <1>1, <1>2 DEF TypeOK, BrokerTypeOK
<1> QED BY <1>1, <1>2, <1>3, <1>4 DEF ShouldApply

\* No store on a disk gets ahead of the committed offsets: the stores are written
\* after the commit, and a recovery applies records below the offsets only.
LEMMA StoresStayBounded ==
  ASSUME TypeOK, PendingLogOK, OwnerInv, BoundedInv, [Next]_vars
  PROVE  StoreHoldsCommittedOnly'
<1>1. \A m \in Message : m[2] < committed[m[1]] => m[2] < committed'[m[1]]
  BY CommittedStay
<1>2. CASE store' = store
  BY <1>1, <1>2 DEF BoundedInv, StoreHoldsCommittedOnly
<1>3. ASSUME NEW a \in App, RecoverMessage(a)
      PROVE  StoreHoldsCommittedOnly'
  <2>1. PICK i \in DOMAIN changelog :
          /\ changelog[i] \in Record /\ changelog[i] # Compacted
          /\ \/ /\ \A t \in Topic : changelog[i].processed[t] < committed[t]
                /\ store' = [store EXCEPT ![a][changelog[i].key] = changelog[i].val]
             \/ store' = store
    BY <1>3, RecoverStep
  <2>2. CASE store' = store
    BY <1>2, <2>2
  <2>3. CASE /\ \A t \in Topic : changelog[i].processed[t] < committed[t]
             /\ store' = [store EXCEPT ![a][changelog[i].key] = changelog[i].val]
    <3>1. \A m \in Message : changelog[i].val[m] > 0 => m[2] < committed[m[1]]
      <4> TAKE m \in Message
      <4>1. m[1] \in Topic /\ m[2] \in Int
        BY MessageOffsets, ConstantsAssumption
      <4>2. changelog[i].processed[m[1]] < committed[m[1]]
        BY <2>3, <4>1
      <4>3. changelog[i].processed[m[1]] \in Int /\ committed[m[1]] \in Int
        BY <2>1, <4>1, ConstantsAssumption DEF Record, Partial, TypeOK, BrokerTypeOK, Offsets
      <4>4. RecordBounded(changelog[i])
        BY <2>1 DEF BoundedInv
      <4> QED BY <4>1, <4>2, <4>3, <4>4 DEF RecordBounded
    <3> QED BY <1>1, <2>3, <3>1 DEF BoundedInv, StoreHoldsCommittedOnly, TypeOK, StoreTypeOK
  <2> QED BY <2>1, <2>2, <2>3
<1>4. ASSUME NEW a \in App, FlushStores(a)
      PROVE  StoreHoldsCommittedOnly'
  <2>1. /\ store' = [store EXCEPT ![a] = [k \in Key |-> Get(a, k)]]
        /\ stage[a] = "storing" /\ Assigned(a)
    BY <1>4 DEF FlushStores, OwnerInv, Owned, NothingOpen, Assigned
  <2>2. \A t \in Topic : position[a][t] = committed[t]
    BY <2>1 DEF OwnerInv, Owned, SpansCommitted
  <2>3. \A k \in Key, m \in Message : Get(a, k)[m] > 0 => m[2] < committed[m[1]]
    BY <2>1, <2>2, MessageOffsets DEF BoundedInv, StateBehind
  <2> QED BY <1>1, <2>1, <2>3 DEF BoundedInv, StoreHoldsCommittedOnly, TypeOK, StoreTypeOK
<1>5. CASE UNCHANGED vars \/ Compact \/ Recreate
  BY <1>2, <1>5 DEF vars, storeVars, Compact, Recreate
<1> QED BY <1>2, <1>3, <1>4, <1>5, StoreStep DEF Next, StepOf, storeVars

\* What an instance reads through its checkpoint stays behind its position.
LEMMA StatesStayBehind ==
  ASSUME TypeOK, OwnerInv, BoundedInv, NEW a \in App, StepOf(a), OwnerInv', StoreHoldsCommittedOnly'
  PROVE  StateBehind(a)'
<1> SUFFICES ASSUME Assigned(a)', NEW k \in Key, NEW m \in Message, Get(a, k)'[m] > 0
             PROVE  m[2] < position'[a][m[1]]
  BY DEF StateBehind
<1>0. m[1] \in Topic /\ m[2] \in Int
  BY MessageOffsets, ConstantsAssumption
<1>1. CASE updates'[a] = NoUpdates /\ position'[a][m[1]] = committed'[m[1]]
  <2>1. Get(a, k)' = store'[a][k]
    BY <1>1 DEF Get, NoUpdates
  <2> QED BY <1>1, <2>1 DEF StoreHoldsCommittedOnly
<1>2. ASSUME NEW t \in Topic, Process(a, t)
      PROVE  m[2] < position'[a][m[1]]
  <2> DEFINE msg == <<t, position[a][t]>>
             key == KeyOf[msg]
             val == [Get(a, key) EXCEPT ![msg] = @ + 1]
  <2>1. /\ mode' = mode /\ store' = store
        /\ position'[a] = [position[a] EXCEPT ![t] = @ + 1]
        /\ updates'[a] = Put(updates[a], key, val)
        /\ mode[a] = "processing" /\ position[a][t] < MaxOffset
    BY <1>2 DEF Process, NextMessage, Consumable, storeVars, TypeOK, LoopTypeOK,
       CheckpointTypeOK
  <2>2. position[a] \in [Topic -> Nat]
    BY ConstantsAssumption DEF TypeOK, LoopTypeOK, Offsets
  <2>3. msg \in Message /\ key \in Key
    BY <2>1, <2>2, ConstantsAssumption DEF Message
  <2>4. \A n \in Message, j \in Key : Get(a, j)[n] > 0 => n[2] < position[a][n[1]]
    BY <2>1 DEF BoundedInv, StateBehind, Assigned
  <2>5. Get(a, k)' = IF k = key THEN val ELSE Get(a, k)
    BY <2>1 DEF Get, Put
  <2>6. Get(a, key) \in Value
    BY <2>3, GetInValue
  <2>7. CASE m = msg
    BY <2>1, <2>2, <2>7
  <2>8. CASE m # msg
    <3>1. Get(a, k)[m] > 0
      BY <2>5, <2>6, <2>8 DEF Value
    <3>2. m[2] < position[a][m[1]]
      BY <2>4, <3>1
    <3>3. position'[a][m[1]] \in {position[a][m[1]], position[a][m[1]] + 1}
      BY <1>0, <2>1, <2>2
    <3> QED BY <1>0, <2>2, <3>2, <3>3
  <2> QED BY <2>7, <2>8
<1>3. CASE /\ updates' = updates /\ position' = position /\ store' = store
           /\ Assigned(a)
  BY <1>3 DEF BoundedInv, StateBehind, Get
<1>4. CASE ProcessEnds(a)
  BY <1>4 DEF ProcessEnds, Assigned, TypeOK, LoopTypeOK
<1>5. CASE OnAssign(a) \/ FlushStores(a) \/ Backpressure(a)
  <2>1. Empty(a)'
    <3>1. CASE OnAssign(a)
      BY <3>1 DEF OnAssign, OwnerInv, Owned, NothingOpen, Empty, ckptVars, Absent
    <3>2. CASE FlushStores(a) \/ Backpressure(a)
      BY <3>2 DEF FlushStores, Backpressure, InitCheckpoint, TypeOK, CheckpointTypeOK, Empty, Absent
    <3> QED BY <1>5, <3>1, <3>2
  <2> QED BY <1>0, <1>1, <2>1 DEF OwnerInv, Owned, NothingOpen, SpansCommitted, Empty, Absent
<1>6. CASE RecoverMessage(a)
  <2>1. mode'[a] = "recovering" /\ Empty(a)'
    BY <1>6 DEF RecoverMessage, loopVars, ckptVars, Empty, Absent, OwnerInv, Owned, NothingOpen
  <2> QED BY <1>0, <1>1, <2>1 DEF OwnerInv, Owned, NothingOpen, SpansCommitted, Empty, Absent
<1>7. CASE \/ Start(a) \/ SessionTimeout(a) \/ Rejoin(a) \/ OnLost(a) \/ OnRevoke(a) \/ Evict(a)
           \/ RecoveryDone(a) \/ CommitBegins(a) \/ FlushProducer(a) \/ CommitOffsets(a)
           \/ Deliver(a) \/ OutputDeliveryFails(a) \/ ChangelogDeliveryFails(a)
  <2>1. updates' = updates /\ position' = position /\ store' = store
    BY <1>7 DEF Start, SessionTimeout, Rejoin, OnLost, OnRevoke, Evict, RecoveryDone,
       CommitBegins, FlushProducer, CommitOffsets, Deliver, DeliverOutput, DeliverChangelog,
       OutputDeliveryFails, ChangelogDeliveryFails, loopVars, ckptVars, storeVars
  <2>2. Assigned(a)
    BY <1>7 DEF Start, SessionTimeout, Rejoin, OnLost, OnRevoke, Evict, RecoveryDone,
       CommitBegins, FlushProducer, CommitOffsets, Deliver, DeliverOutput, DeliverChangelog,
       OutputDeliveryFails, ChangelogDeliveryFails, loopVars, Assigned, TypeOK, LoopTypeOK
  <2> QED BY <1>3, <2>1, <2>2
<1>8. CASE Loop(a)
  BY <1>2, <1>4, <1>5, <1>6, <1>7, <1>8
     DEF Loop, OnAssignFails, ProcessFails, CommitBeginFails, FlushProducerFails,
         CommitRefused, FlushStoresFails, Fail
<1>9. CASE Disturb(a)
  BY <1>4, <1>5, <1>7, <1>9 DEF Disturb, Crash, FlushProducerTimesOut, CommitErrs, Fail
<1> QED BY <1>7, <1>8, <1>9 DEF StepOf

\* Initially there is no state anywhere.
LEMMA InitBoundedInv == Init => BoundedInv
BY DEF Init, BoundedInv, StoreHoldsCommittedOnly, StateBehind, Assigned, Blank

\* Every step keeps all state behind the offsets it is kept under.
LEMMA NextBoundedInv ==
  ASSUME TypeOK, PendingLogOK, OwnerInv, BoundedInv, [Next]_vars, OwnerInv'
  PROVE  BoundedInv'
<1>1. StoreHoldsCommittedOnly'
  BY StoresStayBounded
<1>2. \A i \in DOMAIN changelog' : changelog'[i] # Compacted => RecordBounded(changelog[i])'
  BY RecordsStayBounded
<1>3. ASSUME NEW b \in App
      PROVE  StateBehind(b)'
  <2>1. CASE UNCHANGED vars \/ Compact \/ Recreate
    BY <2>1 DEF vars, loopVars, ckptVars, storeVars, Compact, Recreate, BoundedInv,
       StateBehind, Assigned, Get
  <2>2. ASSUME NEW a \in App, StepOf(a), a # b
        PROVE  StateBehind(b)'
    <3>1. Untouched(b)
      BY <2>2, OthersUntouched
    <3> QED BY <3>1 DEF Untouched, Unmoved, BoundedInv, StateBehind, Assigned, Get
  <2> QED BY <1>1, <2>1, <2>2, StatesStayBehind DEF Next, StepOf
<1> QED BY <1>1, <1>2, <1>3 DEF BoundedInv

\* No state is ever ahead of the offsets it is kept under.
THEOREM BoundedInvHolds == ASSUME "eviction" \notin Hazards PROVE Spec => []BoundedInv
<1>1. Init => BoundedInv
  BY InitBoundedInv
<1>2. Inv /\ OwnerInv /\ BoundedInv /\ [Next]_vars /\ OwnerInv' => BoundedInv'
  BY NextBoundedInv DEF Inv
<1> QED BY <1>1, <1>2, InvHolds, OwnerInvHolds, PTL DEF Spec

\* No store partition is ever ahead of the committed offsets: whatever crashes
\* between the steps of a commit, and whichever topics of a commit the broker
\* accepts, a restart never finds the effect of a message it will process again.
THEOREM StoreHoldsCommittedOnlyHolds ==
  ASSUME "eviction" \notin Hazards PROVE Spec => []StoreHoldsCommittedOnly
<1>1. BoundedInv => StoreHoldsCommittedOnly
  BY DEF BoundedInv
<1> QED BY <1>1, BoundedInvHolds, PTL
-----------------------------------------------------------------------------

\* A cache without keys is the empty one.
LEMMA NoKeysNoUpdates ==
  ASSUME NEW a \in App, TypeOK, DOMAIN updates[a] = {}
  PROVE  updates[a] = NoUpdates
<1>1. PICK ks \in SUBSET Key : updates[a] \in [ks -> Value]
  BY DEF TypeOK, CheckpointTypeOK
<1>2. updates[a] \in [{} -> Value]
  BY <1>1
<1>3. NoUpdates \in [{} -> Value]
  BY DEF NoUpdates
<1> QED BY <1>2, <1>3

\* The changelog of an existing topic only grows; compaction keeps its offsets.
LEMMA ChangelogGrows ==
  ASSUME TypeOK, "recreation" \notin Hazards, [Next]_vars
  PROVE  Len(changelog) <= Len(changelog')
<1>1. CASE UNCHANGED vars
  BY <1>1 DEF vars, brokerVars, TypeOK, BrokerTypeOK
<1>2. CASE Compact
  BY <1>2 DEF Compact, TypeOK, BrokerTypeOK
<1>3. ASSUME NEW a \in App, StepOf(a)
      PROVE  Len(changelog) <= Len(changelog')
  BY <1>3, ChangelogStep DEF TypeOK, BrokerTypeOK
<1> QED BY <1>1, <1>2, <1>3 DEF Next, StepOf, Recreate

\* While one instance flushes, nobody else appends to the changelog.
LEMMA OthersAppendNothing ==
  ASSUME NEW a \in App, NEW b \in App, a # b, OwnerInv, PendingLogOK, StepOf(a),
         stage[b] # "idle"
  PROVE  changelog' = changelog
<1>1. owner = b
  BY DEF OwnerInv, Owned, NothingOpen, SoleOwner, Assigned
<1>2. pendingLog[a] = {}
  BY <1>1, PendingOwner DEF OwnerInv, Owned, SoleOwner
<1> QED BY <1>2, ChangelogStep

\* A delivery report leaves the offset of the last record in the producer, or an error.
LEMMA DeliveryProducedLast ==
  ASSUME NEW a \in App, Inv, OwnerInv, ProducedLast(a),
         Deliver(a) \/ OutputDeliveryFails(a) \/ ChangelogDeliveryFails(a)
  PROVE  ProducedLast(a)'
<1> USE DEF Inv, TypeOK, ProducerTypeOK
<1>1. stage' = stage /\ updates' = updates
  BY DEF Deliver, DeliverOutput, DeliverChangelog, OutputDeliveryFails, ChangelogDeliveryFails,
     loopVars, ckptVars
<1>2. CASE DeliverOutput(a)
  BY <1>1, <1>2 DEF DeliverOutput, ProducedLast
<1>3. CASE DeliverChangelog(a)
  <2>1. stage[a] = "flushing"
    BY <1>3 DEF DeliverChangelog, PendingLogOK
  <2>2. Len(changelog') = Len(changelog) + 1
    BY <1>3 DEF DeliverChangelog, BrokerTypeOK
  <2>3. deliveryError' = deliveryError /\ (~deliveryError[a] => producedOff'[a] = Len(changelog))
    BY <1>3 DEF DeliverChangelog
  <2>4. Len(changelog) \in Nat
    BY DEF BrokerTypeOK
  <2> QED BY <1>1, <2>1, <2>2, <2>3, <2>4 DEF ProducedLast
<1>4. CASE OutputDeliveryFails(a) \/ ChangelogDeliveryFails(a)
  <2>1. deliveryError'[a]
    BY <1>4 DEF OutputDeliveryFails, ChangelogDeliveryFails
  <2>2. stage[a] \notin {"committing", "storing"}
    BY <1>4 DEF OutputDeliveryFails, ChangelogDeliveryFails, Covered, CommitCovered, PendingLogOK
  <2> QED BY <1>1, <2>1, <2>2 DEF ProducedLast
<1> QED BY <1>2, <1>3, <1>4 DEF Deliver

\* The steps of a commit hand the offset on until it is saved.
LEMMA StepsProducedLast ==
  ASSUME NEW a \in App, Inv, OwnerInv, ProducedLast(a), StepOf(a)
  PROVE  ProducedLast(a)'
<1> USE DEF Inv, TypeOK, LoopTypeOK
<1>1. CASE stage'[a] = "idle"
  BY <1>1 DEF ProducedLast
<1>2. CASE CommitBegins(a)
  BY <1>2 DEF CommitBegins, ckptVars, ProducedLast, ProducerTypeOK
<1>3. CASE FlushProducer(a)
  <2>1. updates[a] # NoUpdates => pendingLog[a] # DOMAIN updates[a]
    BY <1>3, NoKeysNoUpdates DEF FlushProducer, Flushed
  <2> QED BY <1>3, <2>1 DEF FlushProducer, Flushed, brokerVars, ckptVars, producerVars, ProducedLast
<1>4. CASE CommitOffsets(a)
  BY <1>4 DEF CommitOffsets, ckptVars, producerVars, ProducedLast
<1>5. CASE Deliver(a) \/ OutputDeliveryFails(a) \/ ChangelogDeliveryFails(a)
  BY <1>5, DeliveryProducedLast
<1>6. CASE \/ Start(a) \/ SessionTimeout(a) \/ Rejoin(a) \/ OnLost(a) \/ OnRevoke(a) \/ Evict(a)
           \/ OnAssign(a) \/ RecoverMessage(a) \/ RecoveryDone(a)
           \/ \E t \in Topic : Process(a, t)
  <2>1. mode'[a] \notin {"processing", "revoking"} \/ stage[a] = "idle" \/ Evict(a)
    BY <1>6 DEF Start, SessionTimeout, Rejoin, OnLost, OnRevoke, OnAssign, RecoverMessage,
       RecoveryDone, Process, Consumable, loopVars, OwnerInv, Owned, NothingOpen
  <2>2. stage[a] # "idle" => updates' = updates
    BY <1>6 DEF Start, SessionTimeout, Rejoin, OnLost, OnRevoke, Evict, OnAssign,
       RecoverMessage, RecoveryDone, Process, Consumable, ckptVars
  <2>3. (stage' = stage /\ producerVars' = producerVars) \/ stage'[a] = "idle"
    BY <1>6 DEF Start, SessionTimeout, Rejoin, OnLost, OnRevoke, Evict, OnAssign,
       RecoverMessage, RecoveryDone, Process, Consumable, loopVars
  <2>4. changelog' = changelog
    BY <1>6 DEF Start, SessionTimeout, Rejoin, OnLost, OnRevoke, Evict, OnAssign,
       RecoverMessage, RecoveryDone, Process, brokerVars
  <2> QED BY <2>2, <2>3, <2>4 DEF ProducedLast, producerVars
<1>7. CASE FlushStores(a) \/ Backpressure(a) \/ ProcessEnds(a)
  BY <1>1, <1>7 DEF FlushStores, Backpressure, CommitDue, ProcessEnds
<1>8. CASE Loop(a)
  BY <1>2, <1>3, <1>4, <1>6, <1>7, <1>8
     DEF Loop, OnAssignFails, ProcessFails, CommitBeginFails, FlushProducerFails,
         CommitRefused, FlushStoresFails, Fail
<1>9. CASE Disturb(a)
  BY <1>5, <1>6, <1>7, <1>9 DEF Disturb, Crash, FlushProducerTimesOut, CommitErrs, Fail
<1> QED BY <1>5, <1>6, <1>8, <1>9 DEF StepOf

\* What a store saves is an offset of the changelog.
LEMMA StoreOffsetsValid ==
  ASSUME Inv, OwnerInv, OffsetInv, "recreation" \notin Hazards, [Next]_vars, NEW b \in App
  PROVE  storeOff'[b] \in -1..Len(changelog') - 1
<1>1. /\ storeOff[b] \in Int /\ Len(changelog) \in Nat /\ Len(changelog') \in Nat
      /\ storeOff[b] \in -1..Len(changelog) - 1 /\ Len(changelog) <= Len(changelog')
  <2>1. TypeOK /\ TypeOK'
    BY NextTypeOK DEF Inv
  <2>2. storeOff[b] \in Int
    BY <2>1 DEF TypeOK, StoreTypeOK
  <2>3. changelog \in Seq(Record \cup {Compacted}) /\ changelog' \in Seq(Record \cup {Compacted})
    BY <2>1 DEF TypeOK, BrokerTypeOK
  <2>4. Len(changelog) \in Nat /\ Len(changelog') \in Nat
    BY <2>3
  <2> QED BY <2>1, <2>2, <2>4, ChangelogGrows DEF OffsetInv
<1>2. CASE storeOff'[b] = storeOff[b]
  BY <1>1, <1>2
<1>3. ASSUME NEW a \in App, RecoverMessage(a)
      PROVE  storeOff'[b] \in -1..Len(changelog') - 1
  <2>1. PICK i \in DOMAIN changelog : storeOff' = [storeOff EXCEPT ![a] = i - 1]
    BY <1>3, RecoverStep DEF Inv
  <2>2. i \in Nat /\ i <= Len(changelog)
    BY DEF Inv, TypeOK, BrokerTypeOK
  <2> QED BY <1>1, <2>1, <2>2 DEF Inv, TypeOK, StoreTypeOK
<1>4. ASSUME NEW a \in App, FlushStores(a)
      PROVE  storeOff'[b] \in -1..Len(changelog') - 1
  <2>1. storeOff' = [storeOff EXCEPT ![a] = SavedOffset(a)] /\ stage[a] = "storing"
    BY <1>4 DEF FlushStores
  <2>2. SavedOffset(a) = storeOff[a] \/ SavedOffset(a) = Len(changelog) - 1
    BY <2>1 DEF SavedOffset, OffsetInv, ProducedLast
  <2>3. storeOff[a] \in -1..Len(changelog) - 1
    BY DEF OffsetInv
  <2> QED BY <1>1, <2>1, <2>2, <2>3 DEF Inv, TypeOK, StoreTypeOK
<1>5. CASE UNCHANGED vars \/ Compact \/ Recreate
  BY <1>2, <1>5 DEF vars, storeVars, Compact, Recreate
<1> QED BY <1>2, <1>3, <1>4, <1>5, StoreStep DEF Next, StepOf, storeVars

\* Every step keeps the changelog offsets of producers and stores in order.
LEMMA NextOffsetInv ==
  ASSUME "recreation" \notin Hazards, Inv, OwnerInv, OffsetInv, [Next]_vars
  PROVE  OffsetInv'
<1> SUFFICES ASSUME NEW b \in App PROVE ProducedLast(b)'
  BY StoreOffsetsValid DEF OffsetInv
<1>0. ProducedLast(b)
  BY DEF OffsetInv
<1>1. CASE UNCHANGED vars \/ Compact
  <2>1. /\ stage' = stage /\ updates' = updates /\ pendingLog' = pendingLog
        /\ deliveryError' = deliveryError /\ producedOff' = producedOff
    BY <1>1 DEF vars, loopVars, ckptVars, producerVars, Compact
  <2>2. Len(changelog') = Len(changelog)
    BY <1>1 DEF vars, brokerVars, Compact, Inv, TypeOK, BrokerTypeOK
  <2> QED BY <1>0, <2>1, <2>2 DEF ProducedLast
<1>2. ASSUME NEW a \in App, StepOf(a), a # b
      PROVE  ProducedLast(b)'
  <2>1. Untouched(b)
    BY <1>2, OthersUntouched DEF Inv
  <2>2. stage[b] # "idle" => changelog' = changelog
    BY <1>2, OthersAppendNothing DEF Inv
  <2> QED BY <1>0, <2>1, <2>2 DEF ProducedLast, Untouched, Unmoved
<1> QED BY <1>0, <1>1, <1>2, StepsProducedLast DEF Next, StepOf, Recreate

\* The changelog offsets of producers and stores stay in order, as long as the
\* changelog topic is not deleted under the stores.
THEOREM OffsetInvHolds ==
  ASSUME "eviction" \notin Hazards, "recreation" \notin Hazards
  PROVE  Spec => []OffsetInv
<1>1. Init => OffsetInv
  <2> SUFFICES ASSUME Init, NEW a \in App
               PROVE  storeOff[a] \in -1..Len(changelog) - 1 /\ ProducedLast(a)
    BY DEF OffsetInv
  <2>1. storeOff[a] = -1 /\ changelog = <<>> /\ stage[a] = "idle"
    BY DEF Init
  <2> QED BY <2>1 DEF ProducedLast
<1>2. Inv /\ OwnerInv /\ OffsetInv /\ [Next]_vars => OffsetInv'
  BY NextOffsetInv
<1> QED BY <1>1, <1>2, InvHolds, OwnerInvHolds, PTL DEF Spec

\* No InvalidChangelogOffset and no InvalidStoreChangelogOffset is ever raised, as
\* long as the changelog topic is not deleted under the stores.
THEOREM ChangelogOffsetsValidHolds ==
  ASSUME "eviction" \notin Hazards, "recreation" \notin Hazards
  PROVE  Spec => []ChangelogOffsetsValid
<1>1. TypeOK /\ OffsetInv => ChangelogOffsetsValid
  <2> SUFFICES ASSUME TypeOK, OffsetInv, NEW a \in App
               PROVE  /\ storeOff[a] < Len(changelog)
                      /\ stage[a] = "storing" => ~ChangelogOffsetRaises(a)
    BY DEF ChangelogOffsetsValid
  <2>1. storeOff[a] \in Int /\ Len(changelog) \in Nat /\ storeOff[a] < Len(changelog)
    BY DEF OffsetInv, TypeOK, BrokerTypeOK, StoreTypeOK
  <2>2. stage[a] = "storing" /\ updates[a] # NoUpdates => producedOff[a] = Len(changelog) - 1
    BY DEF OffsetInv, ProducedLast
  <2> QED BY <2>1, <2>2 DEF ChangelogOffsetRaises
<1> QED BY <1>1, OffsetInvHolds, TypeCorrect, PTL

-----------------------------------------------------------------------------
(***************************************************************************)
(* Proofs about the state in Checkpointing when none of the hazards is on: *)
(* processing sees exactly the messages before its position in every key   *)
(* (ConsistentState), and replays produce the outputs of the first time    *)
(* (SameOutputs), for any number of instances, topics, keys, messages and  *)
(* faults.                                                                 *)
(*                                                                         *)
(* ConsistentState says what the owner of the partition sees.  What keeps  *)
(* it is where that state comes from: after a crash or a handover the      *)
(* owner has only the store on its disk and the changelog, which holds     *)
(* records of committed and of abandoned checkpoints.  StateInv says that  *)
(* whatever a recovery finds is complete or is completed by a later record *)
(* it will apply (ChangelogComplete, StoreCompletes), and that the records *)
(* of a flush are the last of their keys and behind every store's offset   *)
(* (FlushedRecords), so that the commit makes them the completing ones.    *)
(***************************************************************************)

\* A value that counts messages of the key once, all those before the offsets and
\* no others, is the state of the key at the offsets.
LEMMA ExactValue ==
  ASSUME NEW k, NEW v \in Value, NEW offsets,
         CountsOnce(k, v), Covers(k, v, offsets),
         \A m \in Message : v[m] > 0 => m[2] < offsets[m[1]]
  PROVE  v = Applied(k, offsets)
<1>1. ASSUME NEW m \in Message
      PROVE  v[m] = Applied(k, offsets)[m]
  <2>1. v[m] \in Nat
    BY DEF Value
  <2>2. v[m] > 0 \/ v[m] = 0
    BY <2>1
  <2> QED BY <2>1, <2>2 DEF Applied, CountsOnce, Covers
<1>2. v \in [Message -> Nat] /\ Applied(k, offsets) \in [Message -> Nat]
  BY DEF Value, Applied
<1> QED BY <1>1, <1>2

\* The state of a key at some offsets counts its messages before them once.
LEMMA AppliedCounts ==
  ASSUME NEW k, NEW offsets
  PROVE  /\ CountsOnce(k, Applied(k, offsets))
         /\ Covers(k, Applied(k, offsets), offsets)
         /\ Applied(k, offsets) \in Value
         /\ \A m \in Message : Applied(k, offsets)[m] > 0 => m[2] < offsets[m[1]]
BY DEF CountsOnce, Covers, Applied, Value

\* A store that a recovery has nothing to add to holds the state at the committed
\* offsets.
LEMMA CompleteStore ==
  ASSUME NEW a \in App, NEW k \in Key, TypeOK, StoreHoldsCommittedOnly, StoreCompletes(a),
         storeOff[a] + 1 >= Len(changelog)
  PROVE  store[a][k] = Applied(k, committed)
<1>1. ~CompletedAfter(storeOff[a] + 1, k)
  <2>1. storeOff[a] \in Int /\ Len(changelog) \in Nat /\ DOMAIN changelog = 1..Len(changelog)
    BY DEF TypeOK, StoreTypeOK, BrokerTypeOK
  <2> QED BY <2>1 DEF CompletedAfter
<1>2. CountsOnce(k, store[a][k]) /\ Covers(k, store[a][k], committed)
  BY <1>1 DEF StoreCompletes
<1>3. store[a][k] \in Value
  BY DEF TypeOK, StoreTypeOK
<1>4. \A m \in Message : store[a][k][m] > 0 => m[2] < committed[m[1]]
  BY DEF StoreHoldsCommittedOnly
<1> QED BY <1>2, <1>3, <1>4, ExactValue

-----------------------------------------------------------------------------

\* The changelog records of a flush carry the state at the position.
LEMMA RecordState ==
  ASSUME NEW a \in App, NEW k \in DOMAIN updates[a], TypeOK, OwnerInv, OwnerState(a),
         mode[a] \in {"processing", "revoking"}
  PROVE  /\ k \in Key
         /\ ChangelogRecord(a, k).key = k
         /\ ChangelogRecord(a, k).val = Applied(k, position[a])
         /\ ChangelogRecord(a, k).processed = tpOffsets[a]
<1>1. k \in Key
  BY DEF TypeOK, CheckpointTypeOK
<1> QED BY <1>1 DEF OwnerState, Get, ChangelogRecord

\* Keys that the checkpoint has not touched have the same state at its position as
\* at the committed offsets.
LEMMA UntouchedKey ==
  ASSUME NEW a \in App, NEW k \in Key \ DOMAIN updates[a], OwnerState(a),
         mode[a] \in {"processing", "revoking"}, stage[a] # "storing"
  PROVE  Applied(k, committed) = Applied(k, position[a])
BY DEF OwnerState, Get

-----------------------------------------------------------------------------
(* Steps that append to the changelog. *)

\* A record that completes a key still does when the changelog has grown.
LEMMA AppendCompletes ==
  ASSUME TypeOK, NEW record, changelog' = Append(changelog, record), committed' = committed,
         NEW i \in Int, NEW k, CompletedAfter(i, k)
  PROVE  CompletedAfter(i, k)'
<1>1. PICK j \in DOMAIN changelog : j > i /\ Completes(j, k)
  BY DEF CompletedAfter
<1>2. j \in DOMAIN changelog' /\ changelog'[j] = changelog[j]
  BY DEF TypeOK, BrokerTypeOK
<1>3. Completes(j, k)'
  BY <1>1, <1>2 DEF Completes
<1> QED BY <1>1, <1>2, <1>3 DEF CompletedAfter

\* A delivered record keeps the changelog complete: it holds all that is committed.
LEMMA AppendComplete ==
  ASSUME NEW a \in App, NEW k \in pendingLog[a], Inv, OwnerInv, StateInv,
         changelog' = Append(changelog, ChangelogRecord(a, k)), committed' = committed
  PROVE  ChangelogComplete'
<1>1. /\ mode[a] \in {"processing", "revoking"} /\ stage[a] = "flushing" /\ Assigned(a)
      /\ k \in DOMAIN updates[a]
  BY PendingOwner DEF Inv, PendingLogOK
<1>2. /\ ChangelogRecord(a, k).key = k
      /\ ChangelogRecord(a, k).val = Applied(k, position[a])
  BY <1>1, RecordState DEF Inv, StateInv
<1>3. Covers(k, Applied(k, position[a]), committed)
  <2> SUFFICES ASSUME NEW m \in Message, KeyOf[m] = k, m[2] < committed[m[1]]
               PROVE  Applied(k, position[a])[m] = 1
    BY DEF Covers
  <2>1. committed[m[1]] <= position[a][m[1]]
    BY <1>1, MessageOffsets DEF OwnerInv, Owned, SpansCommitted
  <2>2. /\ m[2] \in Int /\ committed[m[1]] \in Int /\ position[a][m[1]] \in Int
    BY MessageOffsets, ConstantsAssumption
       DEF Inv, TypeOK, BrokerTypeOK, LoopTypeOK, Offsets
  <2> QED BY <2>1, <2>2 DEF Applied
<1>4. ASSUME NEW i \in DOMAIN changelog'
      PROVE  /\ changelog'[i] # Compacted
             /\ CountsOnce(changelog'[i].key, changelog'[i].val)
             /\ \/ Covers(changelog'[i].key, changelog'[i].val, committed)
                \/ CompletedAfter(i, changelog[i].key)'
  <2>1. CASE i \in DOMAIN changelog
    <3>1. changelog'[i] = changelog[i] /\ i \in Int
      BY <2>1 DEF Inv, TypeOK, BrokerTypeOK
    <3>2. /\ changelog[i] # Compacted
          /\ CountsOnce(changelog[i].key, changelog[i].val)
          /\ \/ Covers(changelog[i].key, changelog[i].val, committed)
             \/ CompletedAfter(i, changelog[i].key)
      BY <2>1 DEF StateInv, ChangelogComplete
    <3> QED BY <3>1, <3>2, AppendCompletes DEF Inv
  <2>2. CASE i \notin DOMAIN changelog
    <3>1. changelog'[i] = ChangelogRecord(a, k)
      BY <2>2 DEF Inv, TypeOK, BrokerTypeOK
    <3>2. ChangelogRecord(a, k) \in Record
      BY RecordInRecord DEF Inv
    <3> QED BY <1>2, <1>3, <3>1, <3>2, AppliedCounts, CompactedAssumption
  <2> QED BY <2>1, <2>2
<1> QED BY <1>4 DEF ChangelogComplete
-----------------------------------------------------------------------------
(* The commit of the offsets. *)

\* A commit makes the delivered records of its flush complete their keys: they are
\* the last ones of the keys, and behind the offsets of all the stores.
LEMMA CommitCompletesUpdated ==
  ASSUME NEW a \in App, Inv, OwnerInv, StateInv, stage[a] = "committing",
         committed' = position[a], changelog' = changelog, NEW k \in DOMAIN updates[a]
  PROVE  \E i \in DOMAIN changelog :
            /\ Completes(i, k)'
            /\ \A j \in DOMAIN changelog : j > i => changelog[j].key # k
            /\ \A b \in App : storeOff[b] + 1 < i
<1>1. mode[a] \in {"processing", "revoking"} /\ Assigned(a)
  BY DEF OwnerInv, Owned, NothingOpen, Assigned
<1>2. pendingLog[a] = {} /\ ~deliveryError[a]
  BY DEF Inv, PendingLogOK, Covered, CommitCovered
<1>3. PICK i \in DOMAIN changelog :
          /\ changelog[i] = ChangelogRecord(a, k)
          /\ \A j \in DOMAIN changelog : j > i => changelog[j].key # k
          /\ \A b \in App : storeOff[b] + 1 < i
  BY <1>2 DEF StateInv, FlushedRecords
<1>4. /\ changelog[i].key = k
      /\ changelog[i].val = Applied(k, position[a])
      /\ changelog[i].processed = tpOffsets[a]
  BY <1>1, <1>3, RecordState DEF Inv, StateInv
<1>5. ASSUME NEW t \in Topic
      PROVE  tpOffsets[a][t] < position[a][t]
  <2>1. tpOffsets[a][t] \in Int /\ position[a][t] \in Nat
    BY ConstantsAssumption DEF Inv, TypeOK, LoopTypeOK, CheckpointTypeOK, Offsets, Partial
  <2>2. tpOffsets[a][t] >= 0 => position[a][t] = tpOffsets[a][t] + 1
    BY <1>1 DEF OwnerInv, Owned, SpansCommitted
  <2> QED BY <2>1, <2>2
<1>6. Covers(k, Applied(k, position[a]), position[a])
  BY AppliedCounts
<1>7. Completes(i, k)'
  BY <1>4, <1>5, <1>6 DEF Completes
<1> QED BY <1>3, <1>7

\* For the other keys nothing is committed that was not before.
LEMMA CommitCoversOthers ==
  ASSUME NEW a \in App, OwnerInv, StateInv, stage[a] = "committing",
         NEW k \in Key \ DOMAIN updates[a], NEW v, Covers(k, v, committed)
  PROVE  Covers(k, v, position[a])
<1>1. Applied(k, committed) = Applied(k, position[a])
  BY UntouchedKey DEF OwnerInv, Owned, NothingOpen, StateInv
<1>2. \A m \in Message : KeyOf[m] = k /\ m[2] < position[a][m[1]] => m[2] < committed[m[1]]
  <2> SUFFICES ASSUME NEW m \in Message, KeyOf[m] = k, m[2] < position[a][m[1]],
                      ~(m[2] < committed[m[1]])
               PROVE  FALSE
    OBVIOUS
  <2>1. Applied(k, position[a])[m] = 1 /\ Applied(k, committed)[m] = 0
    BY DEF Applied
  <2> QED BY <1>1, <2>1
<1> QED BY <1>2 DEF Covers

\* A key that is completed after some record is so after a commit.
LEMMA CommitKeepsCompleted ==
  ASSUME NEW a \in App, Inv, OwnerInv, StateInv, stage[a] = "committing",
         committed' = position[a], changelog' = changelog,
         NEW k \in Key, NEW i \in Int, CompletedAfter(i, k)
  PROVE  CompletedAfter(i, k)'
<1>1. PICK j \in DOMAIN changelog : j > i /\ Completes(j, k)
  BY DEF CompletedAfter
<1>2. j \in Int
  BY DEF Inv, TypeOK, BrokerTypeOK
<1>3. CASE k \in DOMAIN updates[a]
  <2>1. PICK l \in DOMAIN changelog :
          /\ Completes(l, k)'
          /\ \A n \in DOMAIN changelog : n > l => changelog[n].key # k
    BY <1>3, CommitCompletesUpdated
  <2>2. j <= l /\ l \in Int
    BY <1>1, <1>2, <2>1 DEF Completes, Inv, TypeOK, BrokerTypeOK
  <2>3. l > i
    BY <1>1, <1>2, <2>2
  <2> QED BY <2>1, <2>3 DEF CompletedAfter
<1>4. CASE k \notin DOMAIN updates[a]
  <2>1. Covers(k, changelog[j].val, position[a])
    BY <1>1, <1>4, CommitCoversOthers DEF Completes
  <2>2. ASSUME NEW t \in Topic
        PROVE  changelog[j].processed[t] < position[a][t]
    <3>1. changelog[j].processed[t] < committed[t] /\ committed[t] <= position[a][t]
      BY <1>1 DEF Completes, OwnerInv, Owned, NothingOpen, SpansCommitted, Assigned
    <3>2. changelog[j] \in Record
      BY DEF Inv, TypeOK, BrokerTypeOK, StateInv, ChangelogComplete
    <3>3. /\ changelog[j].processed[t] \in Int /\ committed[t] \in Int
          /\ position[a][t] \in Int
      BY <3>2, ConstantsAssumption
         DEF Record, Partial, Inv, TypeOK, BrokerTypeOK, LoopTypeOK, Offsets
    <3> QED BY <3>1, <3>3
  <2>3. Completes(j, k)'
    BY <1>1, <2>1, <2>2 DEF Completes
  <2> QED BY <1>1, <2>3 DEF CompletedAfter
<1> QED BY <1>3, <1>4

\* A commit keeps the changelog complete.
LEMMA CommitComplete ==
  ASSUME NEW a \in App, Inv, OwnerInv, StateInv, stage[a] = "committing",
         committed' = position[a], changelog' = changelog
  PROVE  ChangelogComplete'
<1> SUFFICES ASSUME NEW i \in DOMAIN changelog
             PROVE  \/ Covers(changelog[i].key, changelog[i].val, position[a])
                    \/ CompletedAfter(i, changelog[i].key)'
  BY DEF StateInv, ChangelogComplete
<1> DEFINE k == changelog[i].key
<1>1. /\ changelog[i] # Compacted
      /\ \/ Covers(k, changelog[i].val, committed)
         \/ CompletedAfter(i, k)
  BY DEF StateInv, ChangelogComplete
<1>2. k \in Key /\ i \in Int
  BY <1>1 DEF Inv, TypeOK, BrokerTypeOK, Record
<1>3. CASE k \in DOMAIN updates[a]
  <2>1. PICK l \in DOMAIN changelog :
          /\ Completes(l, k)'
          /\ \A n \in DOMAIN changelog : n > l => changelog[n].key # k
    BY <1>3, CommitCompletesUpdated
  <2>2. l \in Int /\ i <= l
    BY <1>2, <2>1 DEF Inv, TypeOK, BrokerTypeOK
  <2>3. CASE i = l
    BY <2>1, <2>3 DEF Completes
  <2>4. CASE i # l
    BY <1>2, <2>1, <2>2, <2>4 DEF CompletedAfter
  <2> QED BY <2>3, <2>4
<1>4. CASE k \notin DOMAIN updates[a]
  BY <1>1, <1>2, <1>4, CommitCoversOthers, CommitKeepsCompleted
<1> QED BY <1>3, <1>4

\* And every store completable.
LEMMA CommitStores ==
  ASSUME NEW a \in App, NEW b \in App, Inv, OwnerInv, StateInv, stage[a] = "committing",
         committed' = position[a], changelog' = changelog, store' = store, storeOff' = storeOff
  PROVE  StoreCompletes(b)'
<1> SUFFICES ASSUME NEW k \in Key
             PROVE  \/ Covers(k, store[b][k], position[a])
                    \/ CompletedAfter(storeOff[b] + 1, k)'
  BY DEF StateInv, StoreCompletes
<1>1. /\ storeOff[b] + 1 \in Int
      /\ Covers(k, store[b][k], committed) \/ CompletedAfter(storeOff[b] + 1, k)
  BY DEF Inv, TypeOK, StoreTypeOK, StateInv, StoreCompletes
<1>2. CASE k \in DOMAIN updates[a]
  <2>1. PICK l \in DOMAIN changelog : Completes(l, k)' /\ storeOff[b] + 1 < l
    BY <1>2, CommitCompletesUpdated
  <2>2. l > storeOff[b] + 1
    BY <1>1, <2>1 DEF Inv, TypeOK, BrokerTypeOK
  <2> DEFINE n == storeOff[b] + 1
  <2>3. \E j \in DOMAIN changelog : j > n /\ Completes(j, k)'
    BY <2>1, <2>2
  <2> QED BY <2>3 DEF CompletedAfter
<1>3. CASE k \notin DOMAIN updates[a]
  BY <1>1, <1>3, CommitCoversOthers, CommitKeepsCompleted
<1> QED BY <1>2, <1>3
-----------------------------------------------------------------------------
(* The parts of the invariant, step by step. *)

\* The committed offsets move to the position of the instance that commits, in one
\* step that touches neither the changelog nor a store.
LEMMA CommitStep ==
  ASSUME Hazards = {}, NEW a \in App, TypeOK, OwnerInv, StepOf(a), committed' # committed
  PROVE  /\ stage[a] = "committing"
         /\ committed' = position[a]
         /\ changelog' = changelog
         /\ UNCHANGED storeVars
<1>1. stage[a] = "committing"
  BY GroupStep
<1>2. CASE CommitOffsets(a)
  BY <1>1, <1>2, CommitReachesPosition DEF CommitOffsets
<1>3. CASE CommitErrs(a)
  <2>1. PICK ts \in {{}, Topic} : committed' = Commit(a, ts)
    BY <1>3 DEF CommitErrs
  <2>2. committed \in [Topic -> 0..MaxOffset]
    BY DEF TypeOK, BrokerTypeOK, Offsets
  <2>3. Commit(a, {}) = committed
    BY <2>2 DEF Commit
  <2>4. committed' = position[a]
    BY <1>1, <2>1, <2>3, CommitReachesPosition
  <2> QED BY <1>1, <1>3, <2>4 DEF CommitErrs, Fail, ProcessEnds
<1>4. ~CommitOffsets(a) /\ ~CommitErrs(a) => committed' = committed
  <2>1. CASE Start(a) \/ SessionTimeout(a) \/ Deliver(a)
    BY <2>1 DEF Start, SessionTimeout, Deliver, DeliverOutput, DeliverChangelog, brokerVars
  <2>2. CASE Loop(a)
    BY <2>2 DEF Loop, Rejoin, OnAssign, OnAssignFails, OnLost, RecoverMessage, RecoveryDone,
       Process, ProcessFails, CommitBegins, CommitBeginFails, FlushProducer,
       FlushProducerFails, CommitRefused, FlushStores, FlushStoresFails, brokerVars
  <2>3. CASE Disturb(a)
    BY <2>3 DEF Disturb, OnRevoke, Evict, Crash, Backpressure, FlushProducerTimesOut,
       OutputDeliveryFails, ChangelogDeliveryFails, brokerVars
  <2> QED BY <2>1, <2>2, <2>3 DEF StepOf
<1> QED BY <1>2, <1>3, <1>4

\* Every step keeps the changelog complete.
LEMMA StepComplete ==
  ASSUME Hazards = {}, NEW a \in App, Inv, OwnerInv, StateInv, StepOf(a)
  PROVE  ChangelogComplete'
<1>1. CASE committed' = committed /\ changelog' = changelog
  BY <1>1 DEF StateInv, ChangelogComplete, Covers, CompletedAfter, Completes
<1>2. CASE committed' # committed
  BY <1>2, CommitStep, CommitComplete DEF Inv
<1>3. ASSUME NEW k \in pendingLog[a], changelog' = Append(changelog, ChangelogRecord(a, k))
      PROVE  ChangelogComplete'
  <2>1. committed' = committed
    BY <1>3, PendingOwner, CommitStep DEF Inv
  <2> QED BY <1>3, <2>1, AppendComplete
<1> QED BY <1>1, <1>2, <1>3, ChangelogStep

\* A store that a step does not write to stays completable.
LEMMA KeptStoreCompletes ==
  ASSUME Hazards = {}, NEW a \in App, NEW b \in App, Inv, OwnerInv, StateInv, StepOf(a),
         store'[b] = store[b], storeOff'[b] = storeOff[b]
  PROVE  StoreCompletes(b)'
<1>0. StoreCompletes(b) /\ storeOff[b] + 1 \in Int
  BY DEF StateInv, Inv, TypeOK, StoreTypeOK
<1>1. CASE committed' = committed /\ changelog' = changelog
  BY <1>0, <1>1 DEF StoreCompletes, Covers, CompletedAfter, Completes
<1>2. CASE committed' # committed
  BY <1>2, CommitStep, CommitStores DEF Inv, storeVars
<1>3. ASSUME NEW k \in pendingLog[a], changelog' = Append(changelog, ChangelogRecord(a, k))
      PROVE  StoreCompletes(b)'
  <2>1. committed' = committed
    BY <1>3, PendingOwner, CommitStep DEF Inv
  <2>2. \A key : CompletedAfter(storeOff[b] + 1, key) => CompletedAfter(storeOff[b] + 1, key)'
    BY <1>0, <1>3, <2>1, AppendCompletes DEF Inv
  <2> QED BY <1>0, <2>1, <2>2 DEF StoreCompletes, Covers
<1> QED BY <1>1, <1>2, <1>3, ChangelogStep

\* A recovery reads the record right behind its position: nothing is compacted.
LEMMA RecoversNext ==
  ASSUME NEW a \in App, Inv, OwnerInv, StateInv, RecoverMessage(a)
  PROVE  \E i \in DOMAIN changelog :
            /\ i = recovery[a].pos + 1
            /\ changelog[i] \in Record
            /\ storeOff' = [storeOff EXCEPT ![a] = i - 1]
            /\ recovery' = [recovery EXCEPT ![a].pos = i]
            /\ \/ /\ \A t \in Topic : changelog[i].processed[t] < committed[t]
                  /\ store' = [store EXCEPT ![a][changelog[i].key] = changelog[i].val]
               \/ /\ ~\A t \in Topic : changelog[i].processed[t] < committed[t]
                  /\ store' = store
<1>1. PICK i \in DOMAIN changelog :
            /\ i > recovery[a].pos
            /\ changelog[i] \in Record
            /\ \A j \in DOMAIN changelog :
                  recovery[a].pos < j /\ j < i => changelog[j] = Compacted
            /\ storeOff' = [storeOff EXCEPT ![a] = i - 1]
            /\ recovery' = [recovery EXCEPT ![a].pos = i]
            /\ \/ /\ \A t \in Topic : changelog[i].processed[t] < committed[t]
                  /\ store' = [store EXCEPT ![a][changelog[i].key] = changelog[i].val]
               \/ /\ ~\A t \in Topic : changelog[i].processed[t] < committed[t]
                  /\ store' = store
  BY RecoverStep DEF Inv
<1>2. i = recovery[a].pos + 1
  <2>1. recovery[a].pos \in Nat /\ i \in Int /\ DOMAIN changelog = 1..Len(changelog)
    BY DEF Inv, TypeOK, StoreTypeOK, BrokerTypeOK
  <2>2. Len(changelog) \in Nat
    BY DEF Inv, TypeOK, BrokerTypeOK
  <2>3. recovery[a].pos + 1 < i => recovery[a].pos + 1 \in DOMAIN changelog
    BY <2>1, <2>2
  <2>4. recovery[a].pos + 1 < i => changelog[recovery[a].pos + 1] = Compacted
    BY <1>1, <2>1, <2>3
  <2>5. ~(recovery[a].pos + 1 < i)
    BY <2>3, <2>4 DEF StateInv, ChangelogComplete
  <2> QED BY <1>1, <2>1, <2>5
<1> QED BY <1>1, <1>2

\* A recovery applies every record that its store still needs.
LEMMA RecoveredStoreCompletes ==
  ASSUME NEW a \in App, Inv, OwnerInv, StateInv, RecoverMessage(a)
  PROVE  StoreCompletes(a)'
<1>1. PICK i \in DOMAIN changelog :
            /\ i = recovery[a].pos + 1
            /\ changelog[i] \in Record
            /\ storeOff' = [storeOff EXCEPT ![a] = i - 1]
            /\ \/ /\ \A t \in Topic : changelog[i].processed[t] < committed[t]
                  /\ store' = [store EXCEPT ![a][changelog[i].key] = changelog[i].val]
               \/ /\ ~\A t \in Topic : changelog[i].processed[t] < committed[t]
                  /\ store' = store
  BY RecoversNext
<1>2. changelog' = changelog /\ committed' = committed
  BY DEF RecoverMessage, brokerVars
<1>3. storeOff'[a] = i - 1 /\ i \in Int /\ storeOff[a] \in Int
  BY <1>1 DEF Inv, TypeOK, StoreTypeOK, BrokerTypeOK
<1>4. i <= storeOff[a] + 2
  <2>1. recovery[a].pos <= storeOff[a] + 1 /\ recovery[a].pos \in Nat
    BY DEF StateInv, RecoversAll, RecoverMessage, Inv, TypeOK, StoreTypeOK
  <2> QED BY <1>1, <1>3, <2>1
<1>5. ASSUME NEW k \in Key
      PROVE  /\ CountsOnce(k, store'[a][k])
             /\ Covers(k, store'[a][k], committed) \/ CompletedAfter(i, k)
  <2>1. CASE /\ \A t \in Topic : changelog[i].processed[t] < committed[t]
             /\ changelog[i].key = k
    <3>1. store'[a][k] = changelog[i].val
      BY <1>1, <2>1 DEF Inv, TypeOK, StoreTypeOK
    <3> QED BY <2>1, <3>1 DEF StateInv, ChangelogComplete
  <2>2. CASE ~ /\ \A t \in Topic : changelog[i].processed[t] < committed[t]
               /\ changelog[i].key = k
    <3>1. store'[a][k] = store[a][k]
      BY <1>1, <2>2 DEF Inv, TypeOK, StoreTypeOK
    <3>2. /\ CountsOnce(k, store[a][k])
          /\ Covers(k, store[a][k], committed) \/ CompletedAfter(storeOff[a] + 1, k)
      BY DEF StateInv, StoreCompletes
    <3>3. ASSUME NEW j \in DOMAIN changelog, j > storeOff[a] + 1, Completes(j, k)
          PROVE  j > i
      <4>1. j # i
        BY <2>2, <3>3 DEF Completes
      <4>2. j \in Int
        BY DEF Inv, TypeOK, BrokerTypeOK
      <4> QED BY <1>3, <1>4, <3>3, <4>1, <4>2
    <3>4. CompletedAfter(storeOff[a] + 1, k) => CompletedAfter(i, k)
      BY <3>3 DEF CompletedAfter
    <3> QED BY <3>1, <3>2, <3>4
  <2> QED BY <2>1, <2>2
<1>6. storeOff'[a] + 1 = i
  BY <1>3
<1> QED BY <1>2, <1>5, <1>6 DEF StoreCompletes, Covers, CompletedAfter, Completes

\* The last step of a commit leaves the store complete.
LEMMA FlushedStoreCompletes ==
  ASSUME NEW a \in App, Inv, OwnerInv, StateInv, FlushStores(a)
  PROVE  /\ StoreCompletes(a)'
         /\ \A k \in Key : store'[a][k] = Applied(k, committed)
<1>1. /\ mode[a] \in {"processing", "revoking"} /\ stage[a] = "storing"
      /\ committed' = committed
  BY DEF FlushStores, OwnerInv, Owned, NothingOpen, brokerVars
<1>2. position[a] = committed
  <2>1. \A t \in Topic : position[a][t] = committed[t]
    BY <1>1 DEF OwnerInv, Owned, SpansCommitted, Assigned
  <2> QED BY <2>1 DEF Inv, TypeOK, LoopTypeOK, BrokerTypeOK, Offsets
<1>3. \A k \in Key : store'[a][k] = Get(a, k)
  BY DEF FlushStores, Inv, TypeOK, StoreTypeOK
<1>4. \A k \in Key : store'[a][k] = Applied(k, committed)
  BY <1>1, <1>2, <1>3 DEF StateInv, OwnerState
<1> QED BY <1>1, <1>4, AppliedCounts DEF StoreCompletes, Covers

\* Every step keeps every store completable.
LEMMA StepStoreCompletes ==
  ASSUME Hazards = {}, NEW a \in App, NEW b \in App, Inv, OwnerInv, StateInv, StepOf(a)
  PROVE  StoreCompletes(b)'
<1>1. CASE a # b
  BY <1>1, OthersUntouched, KeptStoreCompletes DEF Inv, Untouched
<1>2. CASE UNCHANGED storeVars
  BY <1>2, KeptStoreCompletes DEF storeVars
<1>3. CASE a = b
  BY <1>2, <1>3, StoreStep, RecoveredStoreCompletes, FlushedStoreCompletes
<1> QED BY <1>1, <1>3
\* A recovery starts at the offset of the store, and nobody appends while it runs.
LEMMA StepRecoversAll ==
  ASSUME NEW a \in App, NEW b \in App, Inv, OwnerInv, OffsetInv, StateInv, StepOf(a)
  PROVE  RecoversAll(b)'
<1> SUFFICES ASSUME mode'[b] = "recovering"
             PROVE  /\ recovery'[b].highwater = Len(changelog')
                    /\ recovery'[b].pos <= storeOff'[b] + 1
  BY DEF RecoversAll
<1>1. ASSUME mode[b] = "recovering"
      PROVE  changelog' = changelog
  <2>1. pendingLog[b] = {}
    BY <1>1, PendingOwner DEF Inv, OwnerInv, Owned, NothingOpen
  <2>2. a # b => pendingLog[a] = {}
    BY <1>1, PendingOwner DEF Inv, OwnerInv, Owned, SoleOwner, Assigned
  <2> QED BY <2>1, <2>2, ChangelogStep
<1>2. mode[b] = "recovering" =>
         recovery[b].highwater = Len(changelog) /\ recovery[b].pos <= storeOff[b] + 1
  BY DEF StateInv, RecoversAll
<1>3. CASE mode[b] = "recovering" /\ recovery'[b] = recovery[b] /\ storeOff'[b] = storeOff[b]
  BY <1>1, <1>2, <1>3
<1>4. CASE a # b
  BY <1>3, <1>4, OthersUntouched DEF Untouched, Unmoved, Inv
<1>5. CASE OnAssign(a) /\ a = b
  <2>1. recovery'[a] = [pos |-> SeekOffset(a), highwater |-> Len(changelog),
                        committed |-> committed]
    BY <1>5 DEF OnAssign, Inv, TypeOK, LoopTypeOK, StoreTypeOK
  <2>2. changelog' = changelog /\ storeOff' = storeOff
    BY <1>5 DEF OnAssign, brokerVars, storeVars
  <2>3. storeOff[a] \in Int /\ storeOff[a] >= -1
    BY DEF OffsetInv, Inv, TypeOK, StoreTypeOK, BrokerTypeOK
  <2>4. SeekOffset(a) <= storeOff[a] + 1
    BY <2>3 DEF SeekOffset
  <2> QED BY <1>5, <2>1, <2>2, <2>4
<1>6. CASE RecoverMessage(a) /\ a = b
  <2>1. PICK i \in DOMAIN changelog :
            /\ storeOff' = [storeOff EXCEPT ![a] = i - 1]
            /\ recovery' = [recovery EXCEPT ![a].pos = i]
    BY <1>6, RecoversNext
  <2>2. i \in Int /\ storeOff'[a] = i - 1 /\ recovery'[a].pos = i
    BY <2>1 DEF Inv, TypeOK, StoreTypeOK, BrokerTypeOK
  <2>3. recovery'[a].highwater = recovery[a].highwater
    BY <2>1 DEF Inv, TypeOK, StoreTypeOK
  <2> QED BY <1>1, <1>2, <1>6, <2>2, <2>3 DEF RecoverMessage
<1>7. CASE ProcessEnds(a) /\ a = b
  BY <1>7 DEF ProcessEnds, Inv, TypeOK, LoopTypeOK
<1>8. CASE mode[b] # "recovering" /\ ~OnAssign(a) /\ a = b
  <2>1. CASE Start(a) \/ SessionTimeout(a) \/ Deliver(a)
    BY <1>8, <2>1 DEF Start, SessionTimeout, Deliver, DeliverOutput, DeliverChangelog, loopVars,
       Inv, TypeOK, LoopTypeOK
  <2>2. CASE Loop(a)
    BY <1>7, <1>8, <2>2 DEF Loop, Rejoin, OnAssignFails, OnLost, RecoverMessage, RecoveryDone,
       Process, ProcessFails, CommitBegins, CommitBeginFails, FlushProducer,
       FlushProducerFails, CommitOffsets, CommitRefused, FlushStores, FlushStoresFails, Fail,
       AfterCommit, loopVars, Inv, TypeOK, LoopTypeOK
  <2>3. CASE Disturb(a)
    BY <1>7, <1>8, <2>3 DEF Disturb, OnRevoke, Evict, Crash, Backpressure,
       FlushProducerTimesOut, CommitErrs, OutputDeliveryFails, ChangelogDeliveryFails, Fail,
       AfterCommit, loopVars, Inv, TypeOK, LoopTypeOK
  <2> QED BY <2>1, <2>2, <2>3 DEF StepOf
<1>9. CASE mode[b] = "recovering" /\ ~RecoverMessage(a) /\ ~ProcessEnds(a) /\ a = b
  <2> USE DEF OwnerInv, Owned, NothingOpen
  <2>1. CASE Start(a) \/ SessionTimeout(a) \/ Deliver(a)
    BY <1>3, <1>9, <2>1 DEF Start, SessionTimeout, Deliver, DeliverOutput, DeliverChangelog,
       storeVars
  <2>2. CASE Loop(a)
    BY <1>3, <1>9, <2>2 DEF Loop, Rejoin, OnAssign, OnAssignFails, OnLost,
       RecoveryDone, Process, ProcessFails, Consumable, CommitBegins, CommitBeginFails,
       CommitDue, FlushProducer, FlushProducerFails, CommitOffsets, CommitRefused,
       FlushStores, FlushStoresFails, Fail, storeVars, Inv, TypeOK, LoopTypeOK
  <2>3. CASE Disturb(a)
    BY <1>3, <1>9, <2>3 DEF Disturb, OnRevoke, Evict, Crash, Backpressure, CommitDue,
       FlushProducerTimesOut, CommitErrs, OutputDeliveryFails, ChangelogDeliveryFails, Fail,
       storeVars, Inv, TypeOK, LoopTypeOK
  <2> QED BY <2>1, <2>2, <2>3 DEF StepOf
<1> QED BY <1>4, <1>5, <1>6, <1>7, <1>8, <1>9

\* Whoever takes the partition without a recovery, or completes one, has a complete
\* store.
LEMMA StartsComplete ==
  ASSUME NEW a \in App, Inv, OwnerInv, BoundedInv, StateInv,
         (OnAssign(a) /\ ~NeedsRecovery(a)) \/ RecoveryDone(a), NEW k \in Key
  PROVE  store[a][k] = Applied(k, committed)
<1>1. Len(changelog) \in Nat /\ storeOff[a] \in Int
  BY DEF Inv, TypeOK, StoreTypeOK, BrokerTypeOK
<1>2. CASE OnAssign(a) /\ ~NeedsRecovery(a)
  <2>1. Len(changelog) = 0 \/ Len(changelog) - 1 <= storeOff[a]
    BY <1>1, <1>2 DEF NeedsRecovery
  <2>2. CASE Len(changelog) = 0
    <3>1. ~CompletedAfter(storeOff[a] + 1, k)
      <4>1. DOMAIN changelog = 1..Len(changelog)
        BY DEF Inv, TypeOK, BrokerTypeOK
      <4> QED BY <2>2, <4>1 DEF CompletedAfter
    <3>2. CountsOnce(k, store[a][k]) /\ Covers(k, store[a][k], committed)
      BY <3>1 DEF StateInv, StoreCompletes
    <3>3. store[a][k] \in Value
      BY DEF Inv, TypeOK, StoreTypeOK
    <3> QED BY <3>2, <3>3, ExactValue DEF BoundedInv, StoreHoldsCommittedOnly
  <2>3. CASE Len(changelog) - 1 <= storeOff[a]
    <3>1. storeOff[a] + 1 >= Len(changelog)
      BY <1>1, <2>3
    <3> QED BY <3>1, CompleteStore DEF Inv, BoundedInv, StateInv
  <2> QED BY <2>1, <2>2, <2>3
<1>3. CASE RecoveryDone(a)
  <2>1. recovery[a].pos = Len(changelog) /\ recovery[a].pos <= storeOff[a] + 1
    BY <1>3 DEF RecoveryDone, RecoveryFinished, StateInv, RecoversAll
  <2>2. storeOff[a] + 1 >= Len(changelog)
    BY <1>1, <2>1
  <2> QED BY <2>2, CompleteStore DEF Inv, BoundedInv, StateInv
<1> QED BY <1>2, <1>3

\* An empty checkpoint on a complete store is the state at the committed offsets.
LEMMA EmptyOwnerState ==
  ASSUME NEW a \in App, updates[a] = NoUpdates, position[a] = committed,
         \A k \in Key : store[a][k] = Applied(k, committed)
  PROVE  OwnerState(a)
BY DEF OwnerState, Get, NoUpdates
\* Processing a message adds its effect, once, to the state of its key.
LEMMA ProcessedState ==
  ASSUME NEW a \in App, NEW t \in Topic, Inv, OwnerInv, StateInv, Process(a, t), NEW k \in Key
  PROVE  Get(a, k)' = Applied(k, position[a])'
<1> DEFINE msg == <<t, position[a][t]>>
           key == KeyOf[msg]
           val == [Get(a, key) EXCEPT ![msg] = @ + 1]
           next == [position[a] EXCEPT ![t] = @ + 1]
<1>1. /\ store' = store /\ position'[a] = next
      /\ updates'[a] = Put(updates[a], key, val)
      /\ mode[a] = "processing" /\ position[a][t] < MaxOffset
  BY DEF Process, NextMessage, Consumable, storeVars, Inv, TypeOK, LoopTypeOK, CheckpointTypeOK
<1>2. position[a] \in [Topic -> Nat]
  BY ConstantsAssumption DEF Inv, TypeOK, LoopTypeOK, Offsets
<1>3. msg \in Message /\ key \in Key
  BY <1>1, <1>2, ConstantsAssumption DEF Message
<1>4. Get(a, k)' = IF k = key THEN val ELSE Get(a, k)
  BY <1>1 DEF Get, Put
<1>5. Get(a, k) = Applied(k, position[a]) /\ Get(a, key) = Applied(key, position[a])
  BY <1>1, <1>3 DEF StateInv, OwnerState
<1>6. ASSUME NEW m \in Message, m # msg
      PROVE  m[2] < next[m[1]] <=> m[2] < position[a][m[1]]
  <2>1. m[1] \in Topic /\ m[2] \in Int /\ m = <<m[1], m[2]>>
    BY MessageOffsets
  <2>2. CASE m[1] = t
    <3>1. m[2] # position[a][t] /\ next[t] = position[a][t] + 1 /\ position[a][t] \in Int
      BY <1>2, <1>6, <2>1, <2>2
    <3> QED BY <2>1, <2>2, <3>1
  <2>3. CASE m[1] # t
    BY <1>2, <2>1, <2>3
  <2> QED BY <2>2, <2>3
<1>7. msg[2] < next[msg[1]] /\ ~(msg[2] < position[a][msg[1]])
  BY <1>2
<1>8. CASE k # key
  <2>1. ASSUME NEW m \in Message
        PROVE  Applied(k, next)[m] = Applied(k, position[a])[m]
    BY <1>6, <1>8 DEF Applied
  <2>2. Applied(k, next) = Applied(k, position[a])
    BY <2>1 DEF Applied
  <2> QED BY <1>1, <1>4, <1>5, <1>8, <2>2 DEF Applied
<1>9. CASE k = key
  <2>1. ASSUME NEW m \in Message
        PROVE  Applied(key, next)[m] = val[m]
    <3>1. CASE m = msg
      <4>1. Applied(key, next)[msg] = 1 /\ Applied(key, position[a])[msg] = 0
        BY <1>3, <1>7 DEF Applied
      <4>2. val[msg] = Applied(key, position[a])[msg] + 1
        BY <1>3, <1>5 DEF Applied
      <4> QED BY <3>1, <4>1, <4>2
    <3>2. CASE m # msg
      <4>1. val[m] = Applied(key, position[a])[m]
        BY <1>5, <3>2 DEF Applied
      <4> QED BY <1>6, <3>2, <4>1 DEF Applied
    <3> QED BY <3>1, <3>2
  <2>2. Applied(key, next) = val
    BY <1>5, <2>1 DEF Applied
  <2> QED BY <1>1, <1>4, <1>9, <2>2 DEF Applied
<1> QED BY <1>8, <1>9

\* A step of the owner keeps its view the state at its position, and its store the
\* state at the committed offsets.
LEMMA OwnStepOwnerState ==
  ASSUME Hazards = {}, NEW a \in App, Inv, OwnerInv, BoundedInv, StateInv, StepOf(a),
         Inv', OwnerInv'
  PROVE  OwnerState(a)'
<1> SUFFICES ASSUME mode'[a] \in {"processing", "revoking"}
             PROVE  OwnerState(a)'
  BY DEF OwnerState
<1>0. mode[a] \in {"processing", "revoking"} /\ stage[a] # "storing" =>
         \A k \in Key : store[a][k] = Applied(k, committed)
  BY DEF StateInv, OwnerState
<1>1. CASE /\ mode[a] \in {"processing", "revoking"}
           /\ store' = store /\ updates' = updates /\ position' = position
           /\ \/ committed' = committed /\ (stage[a] = "storing" => stage'[a] = "storing")
              \/ stage'[a] = "storing"
  <2> SUFFICES ASSUME NEW k \in Key
               PROVE  /\ stage'[a] # "storing" => store'[a][k] = Applied(k, committed)'
                      /\ Get(a, k)' = Applied(k, position[a])'
    BY DEF OwnerState
  <2>1. Get(a, k) = Applied(k, position[a])
    BY <1>1 DEF StateInv, OwnerState
  <2>2. Get(a, k)' = Get(a, k) /\ Applied(k, position[a])' = Applied(k, position[a])
    BY <1>1 DEF Get, Applied
  <2>3. stage'[a] # "storing" => store[a][k] = Applied(k, committed) /\ committed' = committed
    BY <1>0, <1>1
  <2>4. committed' = committed => Applied(k, committed)' = Applied(k, committed)
    BY DEF Applied
  <2> QED BY <1>1, <2>1, <2>2, <2>3, <2>4
<1>2. ASSUME Empty(a)', committed' = committed,
             \A k \in Key : store'[a][k] = Applied(k, committed)
      PROVE  OwnerState(a)'
  <2>1. updates'[a] = NoUpdates
    BY <1>2 DEF OwnerInv, Owned, NothingOpen, NoUpdates, Blank, Empty
  <2>2. \A t \in Topic : tpOffsets'[a][t] < 0
    BY <1>2 DEF Empty, Absent
  <2>3. \A t \in Topic : position'[a][t] = committed'[t]
    BY <2>2 DEF OwnerInv, Owned, SpansCommitted, Assigned
  <2>4. position'[a] = committed'
    BY <2>3 DEF Inv, TypeOK, LoopTypeOK, BrokerTypeOK, Offsets
  <2>5. ASSUME NEW k \in Key
        PROVE  store'[a][k] = Applied(k, committed)' /\ Get(a, k)' = Applied(k, position[a])'
    BY <1>2, <2>1, <2>4 DEF Get, NoUpdates, Applied
  <2> QED BY <2>5 DEF OwnerState
<1>3. CASE OnAssign(a)
  <2>1. ~NeedsRecovery(a)
    BY <1>3 DEF OnAssign, Inv, TypeOK, LoopTypeOK
  <2>2. store' = store /\ committed' = committed /\ Empty(a)'
    BY <1>3 DEF OnAssign, storeVars, brokerVars, ckptVars, OwnerInv, Owned, NothingOpen, Empty,
       Absent
  <2> QED BY <1>2, <1>3, <2>1, <2>2, StartsComplete
<1>4. CASE RecoveryDone(a)
  <2>1. store' = store /\ committed' = committed /\ Empty(a)'
    BY <1>4 DEF RecoveryDone, storeVars, brokerVars, ckptVars, OwnerInv, Owned, NothingOpen,
       Empty, Absent
  <2> QED BY <1>2, <1>4, <2>1, StartsComplete
<1>5. ASSUME NEW t \in Topic, Process(a, t)
      PROVE  OwnerState(a)'
  <2>1. store' = store /\ committed' = committed /\ mode' = mode /\ stage' = stage
        /\ stage[a] = "idle"
    BY <1>5 DEF Process, Consumable, storeVars, brokerVars
  <2> QED BY <1>0, <1>5, <2>1, ProcessedState DEF OwnerState, Applied
<1>6. CASE FlushStores(a)
  <2>1. committed' = committed /\ Empty(a)'
    BY <1>6 DEF FlushStores, InitCheckpoint, brokerVars, Inv, TypeOK, CheckpointTypeOK, Empty,
       Absent
  <2> QED BY <1>2, <1>6, <2>1, FlushedStoreCompletes
<1>7. CASE Backpressure(a)
  <2>1. committed' = committed /\ store' = store /\ Empty(a)'
    BY <1>7 DEF Backpressure, InitCheckpoint, storeVars, Inv, TypeOK, CheckpointTypeOK, Empty,
       Absent
  <2>2. mode[a] \in {"processing", "revoking"} /\ stage[a] # "storing"
    BY <1>7 DEF Backpressure, CommitDue, OwnerInv, Owned, NothingOpen
  <2> QED BY <1>0, <1>2, <2>1, <2>2
<1>8. CASE ProcessEnds(a) \/ RecoverMessage(a)
  BY <1>8 DEF ProcessEnds, RecoverMessage, loopVars, Inv, TypeOK, LoopTypeOK
<1>9. CASE Start(a) \/ SessionTimeout(a) \/ Deliver(a)
  BY <1>1, <1>9 DEF Start, SessionTimeout, Deliver, DeliverOutput, DeliverChangelog, brokerVars,
     loopVars, ckptVars, storeVars, Inv, TypeOK, LoopTypeOK
<1>10. CASE Loop(a)
  <2>1. CASE \/ Rejoin(a) \/ OnLost(a) \/ CommitBegins(a) \/ FlushProducer(a)
             \/ CommitOffsets(a)
    BY <1>1, <2>1 DEF Rejoin, OnLost, CommitBegins, CommitDue, FlushProducer,
       CommitOffsets, brokerVars, loopVars, ckptVars, storeVars, Inv, TypeOK, LoopTypeOK,
       OwnerInv, Owned, NothingOpen
  <2> QED BY <1>3, <1>4, <1>5, <1>6, <1>8, <1>10, <2>1
     DEF Loop, OnAssignFails, ProcessFails, CommitBeginFails, FlushProducerFails,
         CommitRefused, FlushStoresFails, Fail
<1>11. CASE Disturb(a)
  <2>1. CASE OnRevoke(a) \/ Evict(a) \/ OutputDeliveryFails(a) \/ ChangelogDeliveryFails(a)
    BY <1>1, <2>1 DEF OnRevoke, Evict, OutputDeliveryFails, ChangelogDeliveryFails, brokerVars,
       loopVars, ckptVars, storeVars, Inv, TypeOK, LoopTypeOK, OwnerInv, Owned, NothingOpen
  <2> QED BY <1>7, <1>8, <1>11, <2>1 DEF Disturb, Crash, FlushProducerTimesOut, CommitErrs, Fail
<1> QED BY <1>9, <1>10, <1>11 DEF StepOf

\* Only the owner commits offsets.
LEMMA OthersCommitNothing ==
  ASSUME NEW a \in App, NEW b \in App, a # b, OwnerInv, StepOf(a), Assigned(b)
  PROVE  committed' = committed /\ UNCHANGED storeVars
<1>1. owner = b /\ ~Assigned(a)
  BY DEF OwnerInv, Owned, SoleOwner
<1>2. stage[a] = "idle"
  BY <1>1 DEF OwnerInv, Owned, NothingOpen, Assigned
<1>3. committed' = committed
  BY <1>2, GroupStep
<1>4. ~RecoverMessage(a) /\ ~FlushStores(a)
  BY <1>1, <1>2 DEF RecoverMessage, FlushStores, Assigned
<1> QED BY <1>3, <1>4, StoreStep

\* A step of another instance does not disturb the owner's state.
LEMMA OtherStepOwnerState ==
  ASSUME NEW a \in App, NEW b \in App, a # b, Inv, OwnerInv, StateInv, StepOf(a)
  PROVE  OwnerState(b)'
<1>1. Untouched(b)
  BY OthersUntouched DEF Inv
<1>2. mode[b] \in {"processing", "revoking"} => committed' = committed
  BY OthersCommitNothing DEF Assigned
<1> QED BY <1>1, <1>2 DEF Untouched, Unmoved, StateInv, OwnerState, Get, Applied
\* A record that has been delivered is the last one of the changelog: behind the
\* offsets of all stores, and before no other record.
LEMMA DeliveredRecord ==
  ASSUME NEW a \in App, Inv, OwnerInv, OffsetInv, StateInv, DeliverChangelog(a)
  PROVE  FlushedRecords(a)'
<1>1. PICK k \in pendingLog[a] :
          /\ changelog' = Append(changelog, ChangelogRecord(a, k))
          /\ pendingLog' = [pendingLog EXCEPT ![a] = @ \ {k}]
  BY DEF DeliverChangelog
<1>2. /\ stage' = stage /\ deliveryError' = deliveryError /\ updates' = updates
      /\ tpOffsets' = tpOffsets /\ storeOff' = storeOff
  BY DEF DeliverChangelog, loopVars, ckptVars, storeVars
<1>3. pendingLog'[a] = pendingLog[a] \ {k}
  BY <1>1 DEF Inv, TypeOK, ProducerTypeOK
<1>4. changelog \in Seq(Record \cup {Compacted})
  BY DEF Inv, TypeOK, BrokerTypeOK
<1>5. Len(changelog) \in Nat /\ DOMAIN changelog = 1..Len(changelog)
  BY <1>4
<1> DEFINE n == Len(changelog) + 1
<1>6. /\ DOMAIN changelog' = 1..n
      /\ changelog'[n] = ChangelogRecord(a, k)
      /\ \A j \in DOMAIN changelog : changelog'[j] = changelog[j]
  BY <1>1, <1>4
<1>7. n \in DOMAIN changelog' /\ \A j \in DOMAIN changelog' : j \in DOMAIN changelog \/ j = n
  BY <1>5, <1>6
<1>8. \A key : ChangelogRecord(a, key)' = ChangelogRecord(a, key)
  BY <1>2 DEF ChangelogRecord
<1>9. \A b \in App : storeOff[b] + 1 < n
  <2> TAKE b \in App
  <2>1. storeOff[b] \in Int /\ storeOff[b] <= Len(changelog) - 1
    BY DEF OffsetInv, Inv, TypeOK, StoreTypeOK
  <2> QED BY <1>5, <2>1
<1>10. ASSUME stage[a] \in {"flushing", "committing"}, ~deliveryError[a],
              NEW key \in DOMAIN updates[a] \ (pendingLog[a] \ {k})
       PROVE  \E i \in DOMAIN changelog' :
                /\ changelog'[i] = ChangelogRecord(a, key)
                /\ \A j \in DOMAIN changelog' : j > i => changelog'[j].key # key
                /\ \A b \in App : storeOff[b] + 1 < i
  <2>1. CASE key = k
    <3>1. \A j \in DOMAIN changelog' : ~(j > n)
      BY <1>5, <1>7
    <3> QED BY <1>6, <1>7, <1>9, <2>1, <3>1
  <2>2. CASE key # k
    <3>1. PICK i \in DOMAIN changelog :
              /\ changelog[i] = ChangelogRecord(a, key)
              /\ \A j \in DOMAIN changelog : j > i => changelog[j].key # key
              /\ \A b \in App : storeOff[b] + 1 < i
      BY <1>10, <2>2 DEF StateInv, FlushedRecords
    <3>2. ChangelogRecord(a, k).key = k
      BY DEF ChangelogRecord
    <3>3. \A j \in DOMAIN changelog' : j > i => changelog'[j].key # key
      BY <1>6, <1>7, <2>2, <3>1, <3>2
    <3>4. i \in DOMAIN changelog'
      BY <1>5, <1>6
    <3> QED BY <1>6, <3>1, <3>3, <3>4
  <2> QED BY <2>1, <2>2
<1> QED BY <1>2, <1>3, <1>8, <1>10 DEF FlushedRecords

\* The records of a flush are where they are until they are committed.
LEMMA StepFlushedRecords ==
  ASSUME Hazards = {}, NEW a \in App, NEW b \in App, Inv, OwnerInv, OffsetInv, StateInv, StepOf(a)
  PROVE  FlushedRecords(b)'
<1>1. ASSUME /\ stage'[b] \in {"flushing", "committing"} /\ ~deliveryError'[b]
                => stage[b] \in {"flushing", "committing"} /\ ~deliveryError[b],
             stage[b] # "idle" =>
                /\ updates'[b] = updates[b] /\ pendingLog'[b] = pendingLog[b]
                /\ tpOffsets'[b] = tpOffsets[b]
                /\ changelog' = changelog /\ storeOff' = storeOff
      PROVE  FlushedRecords(b)'
  <2> SUFFICES ASSUME stage[b] \in {"flushing", "committing"}, ~deliveryError[b],
                      NEW k \in DOMAIN updates[b] \ pendingLog[b]
               PROVE  \E i \in DOMAIN changelog :
                        /\ changelog[i] = ChangelogRecord(b, k)'
                        /\ \A j \in DOMAIN changelog : j > i => changelog[j].key # k
                        /\ \A c \in App : storeOff[c] + 1 < i
    BY <1>1 DEF FlushedRecords
  <2>1. ChangelogRecord(b, k)' = ChangelogRecord(b, k)
    BY <1>1 DEF ChangelogRecord
  <2> QED BY <2>1 DEF StateInv, FlushedRecords
<1>2. CASE a # b
  <2>1. Untouched(b)
    BY <1>2, OthersUntouched DEF Inv
  <2>2. stage[b] # "idle" => changelog' = changelog
    BY <1>2, OthersAppendNothing DEF Inv
  <2>3. stage[b] # "idle" => storeOff' = storeOff
    BY <1>2, OthersCommitNothing DEF OwnerInv, Owned, NothingOpen, Assigned, storeVars
  <2> QED BY <1>1, <2>1, <2>2, <2>3 DEF Untouched, Unmoved
<1>3. CASE stage'[a] \in {"idle", "storing"} /\ a = b
  BY <1>3 DEF FlushedRecords
<1>4. CASE CommitBegins(a) /\ a = b
  <2>1. DOMAIN updates'[a] \ pendingLog'[a] = {}
    BY <1>4 DEF CommitBegins, ckptVars, Inv, TypeOK, ProducerTypeOK
  <2> QED BY <1>4, <2>1 DEF FlushedRecords
<1>5. CASE FlushProducer(a) /\ a = b
  BY <1>1, <1>5 DEF FlushProducer, Flushed, brokerVars, ckptVars, producerVars, storeVars
<1>6. CASE DeliverOutput(a) /\ a = b
  BY <1>1, <1>6 DEF DeliverOutput, loopVars, ckptVars, storeVars
<1>7. CASE DeliverChangelog(a) /\ a = b
  BY <1>7, DeliveredRecord
<1>8. CASE (OutputDeliveryFails(a) \/ ChangelogDeliveryFails(a)) /\ a = b
  BY <1>8 DEF OutputDeliveryFails, ChangelogDeliveryFails, FlushedRecords, Inv, TypeOK,
     ProducerTypeOK
<1>9. CASE /\ a = b
           /\ \/ Start(a) \/ SessionTimeout(a) \/ Rejoin(a) \/ OnAssign(a) \/ OnLost(a)
              \/ OnRevoke(a) \/ RecoverMessage(a) \/ RecoveryDone(a)
              \/ \E t \in Topic : Process(a, t)
  <2>1. stage' = stage /\ stage[a] = "idle"
    BY <1>9 DEF Start, SessionTimeout, Rejoin, OnAssign, OnLost, OnRevoke, RecoverMessage,
       RecoveryDone, Process, Consumable, loopVars, OwnerInv, Owned, NothingOpen
  <2> QED BY <1>3, <1>9, <2>1
<1>10. CASE (CommitOffsets(a) \/ FlushStores(a) \/ Backpressure(a) \/ ProcessEnds(a)) /\ a = b
  BY <1>3, <1>10 DEF CommitOffsets, FlushStores, Backpressure, CommitDue, ProcessEnds, Inv,
     TypeOK, LoopTypeOK
<1>11. CASE Loop(a) /\ a = b
  BY <1>4, <1>5, <1>9, <1>10, <1>11
     DEF Loop, OnAssignFails, ProcessFails, CommitBeginFails, FlushProducerFails,
         CommitRefused, FlushStoresFails, Fail
<1>12. CASE Disturb(a) /\ a = b
  BY <1>8, <1>9, <1>10, <1>12
     DEF Disturb, Evict, Crash, FlushProducerTimesOut, CommitErrs, Fail
<1> QED BY <1>2, <1>6, <1>7, <1>9, <1>11, <1>12 DEF StepOf, Deliver

-----------------------------------------------------------------------------

\* Initially there is no state, and nothing to recover.
LEMMA InitStateInv == Init => StateInv
<1>0. Init => ChangelogComplete
  BY DEF Init, ChangelogComplete
<1> SUFFICES ASSUME Init, NEW a \in App
             PROVE  StoreCompletes(a) /\ RecoversAll(a) /\ OwnerState(a) /\ FlushedRecords(a)
  BY <1>0 DEF StateInv
<1>1. /\ changelog = <<>> /\ mode[a] = "down" /\ stage[a] = "idle" /\ committed = Begin
      /\ store[a] = [k \in Key |-> Blank]
  BY DEF Init
<1>2. RecoversAll(a) /\ OwnerState(a) /\ FlushedRecords(a)
  BY <1>1 DEF RecoversAll, OwnerState, FlushedRecords
<1>3. ASSUME NEW k \in Key
      PROVE  CountsOnce(k, Blank) /\ Covers(k, Blank, Begin)
  <2>1. \A m \in Message : m[1] \in Topic /\ ~(m[2] < 0)
    BY MessageOffsets, ConstantsAssumption
  <2> QED BY <2>1 DEF CountsOnce, Covers, Blank, Begin
<1> QED BY <1>1, <1>2, <1>3 DEF StoreCompletes

\* Every step keeps the changelog and the stores able to restore the state of every
\* key, when nothing is evicted, compacted, committed in part or deleted.
LEMMA NextStateInv ==
  ASSUME Hazards = {}, Inv, OwnerInv, BoundedInv, OffsetInv, StateInv, [Next]_vars, Inv', OwnerInv'
  PROVE  StateInv'
<1>1. CASE UNCHANGED vars
  <2>1. /\ changelog' = changelog /\ committed' = committed /\ store' = store
        /\ storeOff' = storeOff /\ mode' = mode /\ stage' = stage /\ position' = position
        /\ tpOffsets' = tpOffsets /\ updates' = updates /\ pendingLog' = pendingLog
        /\ deliveryError' = deliveryError /\ recovery' = recovery
    BY <1>1 DEF vars, brokerVars, loopVars, ckptVars, producerVars, storeVars
  <2> QED
    BY <2>1 DEF StateInv, ChangelogComplete, StoreCompletes, RecoversAll, OwnerState,
       FlushedRecords, ChangelogRecord, Covers, CompletedAfter, Completes, Get, Applied
<1>2. ASSUME NEW a \in App, StepOf(a), NEW b \in App
      PROVE  ChangelogComplete' /\ StoreCompletes(b)' /\ RecoversAll(b)' /\ OwnerState(b)'
             /\ FlushedRecords(b)'
  BY <1>2, StepComplete, StepStoreCompletes, StepRecoversAll, OwnStepOwnerState,
     OtherStepOwnerState, StepFlushedRecords
<1>3. ASSUME NEW a \in App, StepOf(a)
      PROVE  StateInv'
  BY <1>2, <1>3 DEF StateInv
<1> QED BY <1>1, <1>3 DEF Next, StepOf, Compact, Recreate

\* The changelog and every store partition on a disk always determine the state of
\* every key at the committed offsets.
THEOREM StateInvHolds == ASSUME Hazards = {} PROVE Spec => []StateInv
<1>1. Init => StateInv
  BY InitStateInv
<1>2. Inv /\ OwnerInv /\ BoundedInv /\ OffsetInv /\ StateInv /\ [Next]_vars /\ Inv' /\ OwnerInv'
        => StateInv'
  BY NextStateInv
<1>3. Spec => []OwnerInv
  BY OwnerInvHolds
<1>4. Spec => []BoundedInv
  BY BoundedInvHolds
<1>5. Spec => []OffsetInv
  BY OffsetInvHolds
<1> QED BY <1>1, <1>2, <1>3, <1>4, <1>5, InvHolds, PTL DEF Spec

\* The whole inductive invariant: ownership, bounds, changelog offsets and state.
THEOREM ExactInvHolds == ASSUME Hazards = {} PROVE Spec => []ExactInv
<1>1. Spec => []OwnerInv
  BY OwnerInvHolds
<1>2. Spec => []BoundedInv
  BY BoundedInvHolds
<1>3. Spec => []OffsetInv
  BY OffsetInvHolds
<1>4. OwnerInv /\ BoundedInv /\ OffsetInv /\ StateInv => ExactInv
  BY DEF ExactInv
<1> QED BY <1>1, <1>2, <1>3, <1>4, StateInvHolds, PTL

\* Consistent state: an instance that processes the partition sees, for every key,
\* the effect of exactly the messages before its position - whatever crashed, timed
\* out, was revoked or pushed back before (recovery.py, checkpoint.py).
THEOREM ConsistentStateHolds == ASSUME Hazards = {} PROVE Spec => []ConsistentState
<1>1. StateInv => ConsistentState
  BY DEF StateInv, OwnerState, ConsistentState
<1> QED BY <1>1, StateInvHolds, PTL
-----------------------------------------------------------------------------
(* Outputs. *)

\* Only processing makes an output record: delivery moves it to the topic, and the
\* end of a process loses it.
LEMMA OutputsStep ==
  ASSUME NEW a \in App, Inv, StepOf(a)
  PROVE  /\ outputs' \subseteq outputs \cup pendingOut[a]
         /\ \/ pendingOut'[a] \subseteq pendingOut[a]
            \/ \E t \in Topic : Process(a, t)
<1> USE DEF Inv, TypeOK, ProducerTypeOK
<1>1. CASE Start(a) \/ SessionTimeout(a) \/ Deliver(a)
  BY <1>1 DEF Start, SessionTimeout, Deliver, DeliverOutput, DeliverChangelog, brokerVars,
     producerVars
<1>2. CASE Disturb(a)
  BY <1>2 DEF Disturb, OnRevoke, Evict, Crash, Backpressure, FlushProducerTimesOut, CommitErrs,
     OutputDeliveryFails, ChangelogDeliveryFails, Fail, ProcessEnds, brokerVars, producerVars
<1>3. CASE Loop(a)
  BY <1>3 DEF Loop, Rejoin, OnAssign, OnAssignFails, OnLost, RecoverMessage, RecoveryDone,
     Process, ProcessFails, CommitBegins, CommitBeginFails, FlushProducer, FlushProducerFails,
     CommitOffsets, CommitRefused, FlushStores, FlushStoresFails, Fail, ProcessEnds,
     brokerVars, producerVars
<1> QED BY <1>1, <1>2, <1>3 DEF StepOf

\* The output record of a message carries the state of its key right after it, when
\* no other topic contributes to that state.
LEMMA ProcessedExact ==
  ASSUME OneTopicPerKey, NEW a \in App, NEW t \in Topic, Inv, OwnerInv, StateInv, Process(a, t),
         NEW out \in pendingOut'[a], out \notin pendingOut[a]
  PROVE  OutputExact(out)
<1>0. position[a] \in [Topic -> Nat]
  BY ConstantsAssumption DEF Inv, TypeOK, LoopTypeOK, Offsets
<1>1. position[a][t] < MaxOffset
  BY DEF Process, Consumable
<1>2. PICK msg \in Message : msg = <<t, position[a][t]>>
  <2>1. <<t, position[a][t]>> \in Message
    BY <1>0, <1>1, ConstantsAssumption DEF Message
  <2> QED BY <2>1
<1>3. PICK key \in Key : key = KeyOf[msg]
  BY ConstantsAssumption
<1> DEFINE val == [Get(a, key) EXCEPT ![msg] = @ + 1]
<1>4. /\ position'[a] = [position[a] EXCEPT ![t] = @ + 1]
      /\ updates'[a] = Put(updates[a], key, val)
      /\ out = [msg |-> msg, val |-> val]
  BY <1>2, <1>3 DEF Process, NextMessage, Inv, TypeOK, LoopTypeOK, CheckpointTypeOK, ProducerTypeOK
<1>5. position'[a][t] = position[a][t] + 1
  BY <1>0, <1>4
<1>6. updates'[a][key] = Applied(key, position[a])'
  <2>1. key \in DOMAIN updates'[a]
    BY <1>4 DEF Put
  <2>2. Get(a, key)' = updates'[a][key]
    BY <2>1 DEF Get
  <2> QED BY <2>2, ProcessedState
<1>7. out.val = Applied(key, position'[a])
  <2>1. updates'[a][key] = val
    BY <1>4 DEF Put
  <2> QED BY <1>4, <1>6, <2>1 DEF Applied
<1>8. ASSUME NEW m \in Message, KeyOf[m] = key
      PROVE  m[1] = t /\ m[1] \in Topic
  BY <1>2, <1>3, <1>8, MessageOffsets DEF OneTopicPerKey
<1> DEFINE after == [s \in Topic |-> position[a][t] + 1]
<1>9. ASSUME NEW m \in Message
      PROVE  Applied(key, position'[a])[m] = Applied(key, after)[m]
  <2>1. KeyOf[m] = key => position'[a][m[1]] = after[m[1]]
    BY <1>5, <1>8
  <2> QED BY <2>1 DEF Applied
<1>10. Applied(key, position'[a]) = Applied(key, after)
  BY <1>9 DEF Applied
<1> QED BY <1>2, <1>3, <1>4, <1>7, <1>10 DEF OutputExact

\* Every step keeps the outputs exact.
LEMMA NextOutputInv ==
  ASSUME OneTopicPerKey, Inv, OwnerInv, StateInv, OutputInv, [Next]_vars
  PROVE  OutputInv'
<1>1. CASE UNCHANGED vars \/ Compact \/ Recreate
  BY <1>1 DEF vars, brokerVars, producerVars, Compact, Recreate, OutputInv, OutputExact
<1>2. ASSUME NEW a \in App, StepOf(a)
      PROVE  OutputInv'
  <2>1. ASSUME NEW out \in outputs'
        PROVE  OutputExact(out)
    BY <1>2, <2>1, OutputsStep DEF OutputInv
  <2>2. ASSUME NEW b \in App, b # a, NEW out \in pendingOut'[b]
        PROVE  OutputExact(out)
    BY <1>2, <2>2, OthersUntouched DEF OutputInv, Untouched, Unmoved, Inv
  <2>3. ASSUME NEW out \in pendingOut'[a]
        PROVE  OutputExact(out)
    <3>1. CASE out \in pendingOut[a]
      BY <3>1 DEF OutputInv
    <3>2. CASE out \notin pendingOut[a]
      BY <1>2, <3>2, OutputsStep, ProcessedExact
    <3> QED BY <3>1, <3>2
  <2> QED BY <2>1, <2>2, <2>3 DEF OutputInv, OutputExact
<1> QED BY <1>1, <1>2 DEF Next, StepOf

\* Reprocessing produces the same outputs: whatever is processed again after a
\* failure, two output records of one message are equal.
THEOREM SameOutputsHolds ==
  ASSUME Hazards = {}, OneTopicPerKey PROVE Spec => []SameOutputs
<1>1. Init => OutputInv
  BY DEF Init, OutputInv
<1>2. Inv /\ OwnerInv /\ StateInv /\ OutputInv /\ [Next]_vars => OutputInv'
  BY NextOutputInv
<1>3. TypeOK /\ OutputInv => SameOutputs
  <2> SUFFICES ASSUME TypeOK, OutputInv, NEW out1 \in outputs, NEW out2 \in outputs,
                      out1.msg = out2.msg
               PROVE  out1 = out2
    BY DEF SameOutputs
  <2>1. out1.val = out2.val
    BY DEF OutputInv, OutputExact
  <2>2. out1 \in Output /\ out2 \in Output
    BY DEF TypeOK, BrokerTypeOK
  <2> QED BY <2>1, <2>2 DEF Output
<1>4. Spec => []OwnerInv
  BY OwnerInvHolds
<1> QED BY <1>1, <1>2, <1>3, <1>4, StateInvHolds, InvHolds, TypeCorrect, PTL DEF Spec

=============================================================================
