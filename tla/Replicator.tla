------------------------------ MODULE Replicator ------------------------------
(***************************************************************************)
(* KafkaReplicatorSource: a source that copies a topic of one cluster to a *)
(* topic of another one, and keeps its offsets in the target cluster.      *)
(*                                                                         *)
(* One partition, and an instance of the source in each process of the     *)
(* application; they share a consumer group of the source cluster.  The    *)
(* consumer of the target cluster commits without being a member of a      *)
(* group, so that no commit is refused because its instance was removed.   *)
(***************************************************************************)
EXTENDS Scenario

VARIABLES
    replica,     \* for each instance: its state, see NewReplica
    logEnd,      \* number of messages in the source topic
    reader,      \* whom the coordinator of the source cluster gave the partition
    replicated,  \* offsets of messages that are in the target topic
    skipped,     \* offsets that a reset to the latest offset has passed over
    saved        \* committed offset in the target cluster

replicatorVars == <<replica, logEnd, reader, replicated, skipped, saved>>

Replicating == scenario.kind = "replicator"

ReplicatorDefinition(s) ==
    /\ s.kind = "replicator"
    /\ s.reset \in {"earliest", "latest"} /\ s.exactlyOnce \in BOOLEAN

\* position of the consumer, last offset of the checkpoint, queue and kept error of
\* the producer
NewReplica == [pc |-> "down", position |-> NoOffset, stored |-> NoOffset,
               queue |-> <<>>, error |-> FALSE]

Becomes(i, r) == replica' = [replica EXCEPT ![i] = r]

\* Source.start(), setup(), and the first checkpoint in run(): with exactly-once it
\* begins a transaction of a producer that is not transactional.
StartReplicator(i) ==
    /\ replica[i].pc = "down"
    /\ Becomes(i, [NewReplica EXCEPT !.pc = IF scenario.exactlyOnce THEN "failing" ELSE "run"])
    /\ UNCHANGED <<faults, logEnd, reader, replicated, skipped, saved>>

\* on_assign(): read on from the offset in the target cluster, or where
\* auto_offset_reset says.
AssignSource(i) ==
    /\ replica[i].pc = "run" /\ reader = NoInstance
    /\ reader' = i
    /\ LET reset == IF scenario.reset = "earliest" THEN 0 ELSE logEnd
       IN  /\ Becomes(i, [replica[i] EXCEPT !.position = IF saved = NoOffset THEN reset ELSE saved])
           /\ skipped' = IF saved = NoOffset THEN skipped \cup 0..reset - 1 ELSE skipped
    /\ UNCHANGED <<faults, logEnd, replicated, saved>>

\* produce_message(): the offset is stored, if it grows, and then the message produced,
\* unless an error is kept.
ReplicateMessage(i) ==
    LET r == replica[i]
        stored == r.position > r.stored
    IN  /\ r.pc = "run" /\ r.position \in 0..logEnd - 1
        /\ Becomes(i, [pc       |-> IF stored /\ ~r.error THEN r.pc ELSE "failing",
                       position |-> r.position + 1,
                       stored   |-> IF stored THEN r.position ELSE r.stored,
                       queue    |-> IF stored /\ ~r.error THEN Append(r.queue, r.position)
                                    ELSE r.queue,
                       error    |-> r.error /\ ~stored])
        /\ UNCHANGED <<faults, logEnd, reader, replicated, skipped, saved>>

DeliverReplica(i) ==
    /\ replica[i].queue # <<>>
    /\ Becomes(i, [replica[i] EXCEPT !.queue = Tail(@)])
    /\ replicated' = replicated \cup {Head(replica[i].queue)}
    /\ UNCHANGED <<faults, logEnd, reader, skipped, saved>>

\* InternalProducer._on_delivery() keeps the error.
ReplicaDeliveryFails(i) ==
    /\ Fault /\ replica[i].queue # <<>>
    /\ LET r == replica[i]
       IN  Becomes(i, [pc |-> r.pc, position |-> r.position, stored |-> r.stored,
                       queue |-> Tail(r.queue), error |-> TRUE])
    /\ UNCHANGED <<logEnd, reader, replicated, skipped, saved>>

Flushes(r) == r.queue = <<>> /\ ~r.error

\* Checkpoint.commit(): flush, commit, and a new checkpoint.  It is due at any time;
\* on_revoke() and the end of run() make it due.
CommitReplica(i) ==
    LET r == replica[i]
        fails == [pc |-> "failing", position |-> r.position, stored |-> r.stored,
                  queue |-> r.queue, error |-> FALSE]
        ends == [r EXCEPT !.stored = NoOffset]
    IN  /\ r.pc \in {"run", "stopping"} /\ r.stored # NoOffset
        /\ \/ Flushes(r) /\ saved' = r.stored + 1 /\ Becomes(i, ends) /\ UNCHANGED faults
           \/ Flushes(r) /\ Fault /\ saved' \in {saved, r.stored + 1} /\ Becomes(i, fails)
           \/ r.queue = <<>> /\ r.error /\ Becomes(i, fails) /\ UNCHANGED <<saved, faults>>
           \/ r.queue # <<>> /\ Fault /\ Becomes(i, fails) /\ UNCHANGED saved
        /\ UNCHANGED <<logEnd, reader, replicated, skipped>>

\* A rebalance in the source cluster, after the commit of on_revoke().
RevokeSource(i) ==
    /\ Fault /\ reader = i /\ replica[i].pc = "run" /\ replica[i].stored = NoOffset
    /\ reader' = NoInstance
    /\ Becomes(i, [replica[i] EXCEPT !.position = NoOffset])
    /\ UNCHANGED <<logEnd, replicated, skipped, saved>>

\* The coordinator removes an instance that has not been heard of for too long ...
EvictReplica(i) ==
    /\ Fault /\ reader = i
    /\ reader' = NoInstance
    /\ UNCHANGED <<replica, logEnd, replicated, skipped, saved>>

\* ... and the instance learns of it: on_lost() keeps the checkpoint.
LoseSource(i) ==
    /\ replica[i].pc = "run" /\ replica[i].position # NoOffset /\ reader # i
    /\ Becomes(i, [replica[i] EXCEPT !.position = NoOffset])
    /\ UNCHANGED <<faults, logEnd, reader, replicated, skipped, saved>>

\* stop(): the loop of run() ends, and cleanup() closes the consumer.
StopReplicator(i) ==
    /\ replica[i].pc = "run"
    /\ Fault
    /\ Becomes(i, [replica[i] EXCEPT !.pc = "stopping"])
    /\ UNCHANGED <<logEnd, reader, replicated, skipped, saved>>

\* Mutant: on_revoke() commits after a failure as well.
ClosingOffsetForced(i) ==
    IF replica[i].stored # NoOffset THEN replica[i].stored + 1 ELSE saved

\* The offset that a failed instance leaves: on_revoke() closes the checkpoint of a
\* source that has failed.
ClosingOffset(i) == saved

Closed(i) ==
    /\ Becomes(i, NewReplica)
    /\ reader' = IF reader = i THEN NoInstance ELSE reader
    /\ UNCHANGED <<logEnd, replicated, skipped>>

\* cleanup() closes the consumers, and the process ends; or the process dies.
CloseReplicator(i) ==
    /\ \/ replica[i].pc = "failing" /\ saved' = ClosingOffset(i) /\ UNCHANGED faults
       \/ /\ replica[i].pc = "stopping" /\ replica[i].stored = NoOffset
          /\ UNCHANGED <<saved, faults>>
       \/ replica[i].pc # "down" /\ Fault /\ UNCHANGED saved
    /\ Closed(i)

\* Somebody produces to the source topic.
SourceGrows ==
    /\ logEnd < MaxOffset
    /\ logEnd' = logEnd + 1
    /\ UNCHANGED <<faults, replica, reader, replicated, skipped, saved>>

ReplicatorInit ==
    /\ replica = [i \in Instance |-> NewReplica]
    /\ logEnd = 0 /\ reader = NoInstance /\ replicated = {} /\ skipped = {}
    /\ saved = NoOffset

ReplicaStep(i) ==
    \/ StartReplicator(i) \/ AssignSource(i) \/ ReplicateMessage(i) \/ DeliverReplica(i)
    \/ CommitReplica(i) \/ LoseSource(i) \/ CloseReplicator(i)

ReplicatorNext ==
    \/ \E i \in Instance :
          ReplicaStep(i) \/ ReplicaDeliveryFails(i) \/ RevokeSource(i) \/ EvictReplica(i)
          \/ StopReplicator(i)
    \/ SourceGrows

Replica ==
    [pc : {"down", "run", "stopping", "failing"}, position : NoOffset..logEnd,
     stored : NoOffset..logEnd - 1, queue : Seq(0..logEnd - 1), error : BOOLEAN]

ReplicatorTypeOK ==
    /\ logEnd \in 0..MaxOffset /\ saved \in 0..logEnd \cup {NoOffset}
    /\ reader \in Instance \cup {NoInstance} /\ replica \in [Instance -> Replica]
    /\ replicated \subseteq 0..logEnd - 1 /\ skipped \subseteq 0..logEnd - 1

-----------------------------------------------------------------------------
\* No committed offset is past a message that is not in the target topic, with
\* failed deliveries, lost answers, removed instances that go on to commit, crashes
\* and restarts; what a reset to the latest offset skips is not meant to be copied.
ReplicatedAtLeastOnce ==
    Replicating => 0..saved - 1 \subseteq replicated \cup skipped

\* In the end every message is copied or skipped.
ReplicatedAll ==
    Replicating /\ ~scenario.exactlyOnce =>
        <>(logEnd = MaxOffset /\ 0..MaxOffset - 1 \subseteq replicated \cup skipped)

=============================================================================
