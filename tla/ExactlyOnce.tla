------------------------------ MODULE ExactlyOnce -----------------------------
(***************************************************************************)
(* An application with processing_guarantee="exactly-once": the outputs of *)
(* a checkpoint and its offsets go to Kafka in one transaction.            *)
(*                                                                         *)
(* One topic partition with one output for each message; state and sinks   *)
(* are those of Checkpointing.  An output is the offset of its message.    *)
(* Each process has a transactional id of its own, so that transactions of *)
(* dead processes stay open until the broker aborts them.                  *)
(***************************************************************************)
EXTENDS Scenario

VARIABLES
    pc,           \* what each instance is doing
    checkpoint,   \* [first, last]: _starting_tp_offsets and _tp_offsets
    position,     \* where its consumer is; NoOffset without the partition
    active,       \* InternalProducer._active_transaction
    error,        \* InternalProducer._error
    attempts,     \* attempts that a transactional call has left
    library,      \* state of the transaction in the client library
    queue,        \* outputs in the producer's queue
    transaction,  \* at the broker: [outputs, offset] of the open transaction
    orphans,      \* open transactions of processes that are dead
    owner,        \* whom the coordinator gave the partition
    fenced,       \* instances that the coordinator removed
    committed,    \* committed offset of the group
    output,       \* what read_committed consumers of the output topic read
    kept          \* some checkpoint outlived its assignment

eoVars == <<pc, checkpoint, position, active, error, attempts, library, queue, transaction,
            orphans, owner, fenced, committed, output, kept>>

NoTransaction == [outputs |-> <<>>, offset |-> NoOffset]
EmptyCheckpoint == [first |-> NoOffset, last |-> NoOffset]

ExactlyOnceDefinition(s) ==
    /\ s.kind = "exactly_once"
    /\ {s.backpressure, s.eviction, s.lost, s.suppress} \subseteq BOOLEAN

\* _retriable_transaction_op(attempts=3)
Attempts == 3

Steps == {"begin", "run", "flush", "send", "commit"}

GoTo(i, step) == pc' = [pc EXCEPT ![i] = step]

\* An exception leaves the loop: Application._exception_handler() and what follows.
Fails(i) == GoTo(i, "failing")

\* Application.run() up to the loop: a producer after init_transactions().
StartInstance(i) ==
    /\ pc[i] = "down"
    /\ GoTo(i, "begin")
    /\ library' = [library EXCEPT ![i] = "ready"]
    /\ UNCHANGED <<faults, checkpoint, position, active, error, attempts, queue, transaction,
                   orphans, owner, fenced, committed, output, kept>>

\* init_checkpoint(): the new checkpoint begins a transaction, which the library
\* refuses while another one is open or has failed.
BeginTransaction(i) ==
    /\ pc[i] = "begin"
    /\ IF library[i] = "ready"
       THEN /\ checkpoint' = [checkpoint EXCEPT ![i] = EmptyCheckpoint]
            /\ active' = [active EXCEPT ![i] = TRUE]
            /\ library' = [library EXCEPT ![i] = "open"]
            /\ GoTo(i, "run")
       ELSE Fails(i) /\ UNCHANGED <<checkpoint, active, library>>
    /\ UNCHANGED <<faults, position, error, attempts, queue, transaction, orphans, owner,
                   fenced, committed, output, kept>>

\* The coordinator assigns the partition.  The committed offset is read when no
\* transaction is open that may still change it.
AssignPartition(i) ==
    /\ pc[i] = "run" /\ owner = NoInstance /\ ~fenced[i]
    /\ \A o \in orphans : o.offset = NoOffset
    /\ \A j \in Instance : transaction[j].offset = NoOffset
    /\ owner' = i
    /\ position' = [position EXCEPT ![i] = committed]
    /\ UNCHANGED <<faults, pc, checkpoint, active, error, attempts, library, queue, transaction,
                   orphans, fenced, committed, output, kept>>

\* Whether the messages of a checkpoint end with this one, as store_offset() wants it.
StoreOffset(i) ==
    IF position[i] <= checkpoint[i].last
    THEN Fails(i) /\ UNCHANGED checkpoint
    ELSE /\ checkpoint' = [checkpoint EXCEPT ![i] =
                 [first |-> IF @.first = NoOffset THEN position[i] ELSE @.first,
                  last  |-> position[i]]]
         /\ UNCHANGED pc

\* _process_message(): the output is queued and the offset stored.  produce() raises
\* the error that is kept, once, and the error of a transaction that has failed;
\* on_processing_error() may suppress it.
ProcessMessage(i) ==
    /\ pc[i] = "run" /\ position[i] \in 0..MaxOffset - 1
    /\ position' = [position EXCEPT ![i] = @ + 1]
    /\ error' = [error EXCEPT ![i] = FALSE]
    /\ \/ /\ ~error[i] /\ library[i] = "open"
          /\ queue' = [queue EXCEPT ![i] = Append(@, position[i])]
          /\ StoreOffset(i)
       \/ /\ error[i] \/ library[i] # "open"
          /\ IF scenario.suppress THEN StoreOffset(i) ELSE Fails(i) /\ UNCHANGED checkpoint
          /\ UNCHANGED queue
    /\ UNCHANGED <<faults, active, attempts, library, transaction, orphans, owner, fenced,
                   committed, output, kept>>

\* A queued output reaches the open transaction at the broker.
DeliverQueued(i) ==
    /\ pc[i] \in Steps /\ library[i] = "open" /\ queue[i] # <<>>
    /\ queue' = [queue EXCEPT ![i] = Tail(@)]
    /\ transaction' = [transaction EXCEPT ![i] =
           [outputs |-> Append(@.outputs, Head(queue[i])), offset |-> @.offset]]
    /\ UNCHANGED <<faults, pc, checkpoint, position, active, error, attempts, library, orphans,
                   owner, fenced, committed, output, kept>>

\* The delivery of an output fails: _on_delivery() keeps the error, and the library
\* wants the transaction to be aborted.
DeliveryFails(i) ==
    /\ Fault /\ pc[i] \in Steps /\ library[i] = "open" /\ queue[i] # <<>>
    /\ queue' = [queue EXCEPT ![i] = Tail(@)]
    /\ library' = [library EXCEPT ![i] = "error"]
    /\ error' = [error EXCEPT ![i] = TRUE]
    /\ UNCHANGED <<pc, checkpoint, position, active, attempts, transaction, orphans,
                   owner, fenced, committed, output, kept>>

\* A commit is due, and the sinks take what they get.
BeginCommit(i) ==
    /\ pc[i] = "run" /\ checkpoint[i].last # NoOffset
    /\ GoTo(i, "flush")
    /\ UNCHANGED <<faults, checkpoint, position, active, error, attempts, library, queue,
                   transaction, orphans, owner, fenced, committed, output, kept>>

\* A sink pushes back: commit() seeks and returns without ending the transaction.
PushBack(i) ==
    /\ scenario.backpressure /\ pc[i] = "run" /\ checkpoint[i].last # NoOffset
    /\ position' = [position EXCEPT ![i] = checkpoint[i].first]
    /\ GoTo(i, "begin")
    /\ UNCHANGED <<faults, checkpoint, active, error, attempts, library, queue, transaction,
                   orphans, owner, fenced, committed, output, kept>>

\* Mutant: the offsets go into the transaction with outputs still in the queue.
FlushedTransactionUnchecked(i) == ~error[i]

\* flush(): everything is delivered, and no error is kept.
FlushedTransaction(i) == queue[i] = <<>> /\ ~error[i]

\* commit(), step 3.  The library purges the queue of a transaction that has failed.
FlushTransaction(i) ==
    /\ pc[i] = "flush"
    /\ error' = [error EXCEPT ![i] = FALSE]
    /\ \/ /\ FlushedTransaction(i)
          /\ GoTo(i, "send") /\ attempts' = [attempts EXCEPT ![i] = Attempts]
          /\ UNCHANGED faults
       \/ error[i] /\ Fails(i) /\ UNCHANGED <<faults, attempts>>
       \/ queue[i] # <<>> /\ library[i] # "open" /\ Fails(i) /\ UNCHANGED <<faults, attempts>>
       \/ queue[i] # <<>> /\ Fault /\ Fails(i) /\ UNCHANGED attempts
    /\ UNCHANGED <<checkpoint, position, active, library, queue, transaction, orphans,
                   owner, fenced, committed, output, kept>>

\* A retriable error: the call is made again, or attempts are used up.
Retries(i) ==
    /\ Fault
    /\ attempts' = [attempts EXCEPT ![i] = @ - 1]
    /\ IF attempts[i] = 1 THEN Fails(i) ELSE UNCHANGED pc

\* _send_offsets_to_transaction(): the coordinator takes the offsets of its members
\* only; an answer may be lost after the offsets were taken.
SendOffsets(i) ==
    /\ pc[i] = "send"
    /\ LET sent == [transaction EXCEPT ![i] =
                     [outputs |-> @.outputs, offset |-> checkpoint[i].last + 1]]
       IN  \/ /\ ~fenced[i] /\ library[i] = "open"
              /\ transaction' = sent
              /\ GoTo(i, "commit") /\ attempts' = [attempts EXCEPT ![i] = Attempts]
              /\ UNCHANGED faults
           \/ /\ Retries(i)
              /\ \/ UNCHANGED transaction
                 \/ ~fenced[i] /\ library[i] = "open" /\ transaction' = sent
           \/ /\ fenced[i] \/ library[i] # "open"
              /\ Fails(i) /\ UNCHANGED <<faults, attempts, transaction>>
    /\ UNCHANGED <<checkpoint, position, active, error, library, queue, orphans, owner, fenced,
                   committed, output, kept>>

\* The broker ends the transaction: outputs and offset at once.
Ended(i) ==
    /\ output' = output \o transaction[i].outputs
    /\ committed' = transaction[i].offset
    /\ transaction' = [transaction EXCEPT ![i] = NoTransaction]

\* _commit_transaction().  The answer may be lost before or after the broker has ended
\* the transaction; the library then knows that the commit goes on.
EndTransaction(i) ==
    /\ pc[i] = "commit"
    /\ \/ /\ library[i] \in {"open", "committing"} /\ Ended(i)
          /\ library' = [library EXCEPT ![i] = "ready"]
          /\ active' = [active EXCEPT ![i] = FALSE]
          /\ GoTo(i, "begin") /\ UNCHANGED <<faults, attempts>>
       \/ /\ library[i] = "ended"
          /\ library' = [library EXCEPT ![i] = "ready"]
          /\ active' = [active EXCEPT ![i] = FALSE]
          /\ GoTo(i, "begin") /\ UNCHANGED <<faults, attempts, output, committed, transaction>>
       \/ /\ Retries(i)
          /\ \/ /\ library[i] # "error"
                /\ library' = [library EXCEPT ![i] = IF @ = "open" THEN "committing" ELSE @]
                /\ UNCHANGED <<output, committed, transaction>>
             \/ /\ library[i] \in {"open", "committing"} /\ Ended(i)
                /\ library' = [library EXCEPT ![i] = "ended"]
          /\ UNCHANGED active
       \/ /\ library[i] = "error" /\ Fails(i)
          /\ UNCHANGED <<faults, attempts, active, library, output, committed, transaction>>
    /\ UNCHANGED <<checkpoint, position, error, queue, orphans, owner, fenced, kept>>

\* The broker gives up a transaction that takes too long, and fences its producer.
TransactionTimeout(i) ==
    /\ Fault /\ pc[i] \in Steps /\ library[i] \in {"open", "committing"}
    /\ transaction' = [transaction EXCEPT ![i] = NoTransaction]
    /\ library' = [library EXCEPT ![i] = "error"]
    /\ UNCHANGED <<pc, checkpoint, position, active, error, attempts, queue, orphans, owner,
                   fenced, committed, output, kept>>

\* The process is gone: what is in its memory, and its membership.
Gone(i) ==
    /\ GoTo(i, "down")
    /\ checkpoint' = [checkpoint EXCEPT ![i] = EmptyCheckpoint]
    /\ position' = [position EXCEPT ![i] = NoOffset]
    /\ active' = [active EXCEPT ![i] = FALSE]
    /\ error' = [error EXCEPT ![i] = FALSE]
    /\ attempts' = [attempts EXCEPT ![i] = 0]
    /\ library' = [library EXCEPT ![i] = "none"]
    /\ queue' = [queue EXCEPT ![i] = <<>>]
    /\ transaction' = [transaction EXCEPT ![i] = NoTransaction]
    /\ fenced' = [fenced EXCEPT ![i] = FALSE]
    /\ owner' = IF owner = i THEN NoInstance ELSE owner
    /\ UNCHANGED <<committed, output, kept>>

Open(i) == transaction[i] # NoTransaction

\* The exit of the application after a failure: _on_revoke() commits nothing, and
\* __exit__() of the processing context aborts the transaction if there is one.  The
\* library does not abort what it is committing, and the broker is left with it.
CloseFailed(i) ==
    /\ pc[i] = "failing"
    /\ orphans' = IF Open(i) /\ (library[i] = "committing" \/ ~active[i])
                  THEN orphans \cup {transaction[i]} ELSE orphans
    /\ Gone(i)
    /\ UNCHANGED faults

\* The process dies.
CrashInstance(i) ==
    /\ Fault /\ pc[i] # "down"
    /\ orphans' = IF Open(i) THEN orphans \cup {transaction[i]} ELSE orphans
    /\ Gone(i)

\* The broker aborts a transaction whose producer is gone.
AbortOrphan ==
    /\ \E o \in orphans : orphans' = orphans \ {o}
    /\ UNCHANGED <<faults, pc, checkpoint, position, active, error, attempts, library, queue,
                   transaction, owner, fenced, committed, output, kept>>

\* A rebalance takes the partition: on_revoke() commits the checkpoint with all its
\* steps before, so that it is empty.
RevokePartition(i) ==
    /\ pc[i] = "run" /\ owner = i /\ checkpoint[i].last = NoOffset
    /\ Fault
    /\ owner' = NoInstance
    /\ position' = [position EXCEPT ![i] = NoOffset]
    /\ UNCHANGED <<pc, checkpoint, active, error, attempts, library, queue, transaction, orphans,
                   fenced, committed, output, kept>>

\* The coordinator removes an instance that it has not heard of for too long.
EvictInstance(i) ==
    /\ scenario.eviction /\ Fault
    /\ owner = i /\ pc[i] # "down"
    /\ owner' = NoInstance
    /\ fenced' = [fenced EXCEPT ![i] = TRUE]
    /\ UNCHANGED <<pc, checkpoint, position, active, error, attempts, library, queue, transaction,
                   orphans, committed, output, kept>>

\* The instance learns of it in a poll: _on_lost(), and it joins the group again with
\* the checkpoint and the transaction that it has.
LosePartition(i) ==
    /\ scenario.lost \/ checkpoint[i].last = NoOffset
    /\ fenced[i] /\ pc[i] = "run"
    /\ fenced' = [fenced EXCEPT ![i] = FALSE]
    /\ position' = [position EXCEPT ![i] = NoOffset]
    /\ kept' = (kept \/ checkpoint[i].last # NoOffset)
    /\ UNCHANGED <<faults, pc, checkpoint, active, error, attempts, library, queue, transaction,
                   orphans, owner, committed, output>>

ExactlyOnceInit ==
    /\ pc = [i \in Instance |-> "down"]
    /\ checkpoint = [i \in Instance |-> EmptyCheckpoint]
    /\ position = [i \in Instance |-> NoOffset]
    /\ active = [i \in Instance |-> FALSE]
    /\ error = [i \in Instance |-> FALSE]
    /\ attempts = [i \in Instance |-> 0]
    /\ library = [i \in Instance |-> "none"]
    /\ queue = [i \in Instance |-> <<>>]
    /\ transaction = [i \in Instance |-> NoTransaction]
    /\ orphans = {}
    /\ owner = NoInstance
    /\ fenced = [i \in Instance |-> FALSE]
    /\ committed = 0
    /\ output = <<>>
    /\ kept = FALSE

InstanceStep(i) ==
    \/ StartInstance(i) \/ BeginTransaction(i) \/ AssignPartition(i) \/ ProcessMessage(i) \/ DeliverQueued(i)
    \/ BeginCommit(i) \/ FlushTransaction(i) \/ SendOffsets(i) \/ EndTransaction(i)
    \/ CloseFailed(i) \/ LosePartition(i)

ExactlyOnceNext ==
    \/ \E i \in Instance :
          \/ InstanceStep(i) \/ PushBack(i)
          \/ DeliveryFails(i) \/ TransactionTimeout(i) \/ CrashInstance(i)
          \/ RevokePartition(i) \/ EvictInstance(i)
    \/ AbortOrphan

LibraryStates == {"none", "ready", "open", "committing", "ended", "error"}

\* The first and the last of some messages.
Messages == [first : NoOffset..MaxOffset - 1, last : NoOffset..MaxOffset - 1]

Transaction == [outputs : Seq(Nat), offset : NoOffset..MaxOffset]

ExactlyOnceTypeOK ==
    /\ pc \in [Instance -> Steps \cup {"down", "failing"}]
    /\ checkpoint \in [Instance -> Messages]
    /\ position \in [Instance -> NoOffset..MaxOffset]
    /\ active \in [Instance -> BOOLEAN] /\ error \in [Instance -> BOOLEAN]
    /\ attempts \in [Instance -> 0..Attempts]
    /\ library \in [Instance -> LibraryStates]
    /\ queue \in [Instance -> Seq(Nat)]
    /\ transaction \in [Instance -> Transaction] /\ orphans \subseteq Transaction
    /\ owner \in Instance \cup {NoInstance} /\ fenced \in [Instance -> BOOLEAN]
    /\ committed \in 0..MaxOffset /\ output \in Seq(Nat) /\ kept \in BOOLEAN

\* The transaction of i may still be committed.
Live(i) == pc[i] \in {"run", "flush", "send", "commit"} /\ library[i] \in {"open", "committing"}

\* What the client library is doing for an instance, by the step that it is at, and
\* what it has to commit.
LibraryOK(i) ==
    /\ pc[i] = "down" => library[i] = "none" /\ position[i] = NoOffset
    /\ error[i] => library[i] = "error"
    /\ pc[i] = "begin" => library[i] \in {"ready", "open", "error"}
    /\ pc[i] \in {"run", "flush", "send"} => library[i] \in {"open", "error"}
    /\ pc[i] = "commit" => library[i] \in {"open", "committing", "ended", "error"}
    /\ library[i] \in {"none", "ready", "ended"} => transaction[i] = NoTransaction /\ queue[i] = <<>>
    /\ pc[i] \in {"send", "commit"} => attempts[i] > 0 /\ (Live(i) => queue[i] = <<>>)
    /\ pc[i] \in {"flush", "send", "commit"} => checkpoint[i].last # NoOffset
    /\ checkpoint[i].first = NoOffset <=> checkpoint[i].last = NoOffset
    /\ checkpoint[i].first <= checkpoint[i].last
    /\ transaction[i].offset # NoOffset =>
           /\ pc[i] \in {"send", "commit", "failing"}
           /\ transaction[i].offset = checkpoint[i].last + 1
    /\ pc[i] = "commit" /\ Live(i) => transaction[i].offset # NoOffset

LibraryInv == \A i \in Instance : LibraryOK(i)

-----------------------------------------------------------------------------
Transactional == scenario.kind = "exactly_once"

\* "The outputs are guaranteed to be unique for every message": what consumers read are
\* the outputs of the messages before the committed offset, each once and in order,
\* through crashes, lost answers, time-outs, fencing and retried calls, unless a
\* checkpoint has outlived its assignment.
OutputsUnique ==
    Transactional /\ ~kept => output = [n \in 1..committed |-> n - 1]

\* The same without the exception.
OutputsAlwaysUnique == Transactional => output = [n \in 1..committed |-> n - 1]

\* "The processing will continue" after a sink has pushed back: only a fault of the
\* environment makes the application fail.
BackpressureContinues ==
    Transactional /\ faults = 0 => \A i \in Instance : pc[i] # "failing"

=============================================================================
