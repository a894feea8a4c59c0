----------------------------- MODULE ProcessProofs -----------------------------
(***************************************************************************)
(* Proofs about the processes that write to Kafka: an application that     *)
(* commits in transactions, the replicator, and the sources of an          *)
(* application, for any number of instances, messages, items and faults.   *)
(*                                                                         *)
(* Each result is an invariant of Application whatever part of the system  *)
(* its scenario is about, since the steps of the other parts leave the     *)
(* component's variables alone.                                            *)
(***************************************************************************)
EXTENDS Application, SequenceTheorems, TLAPS

-----------------------------------------------------------------------------
(***************************************************************************)
(* Transactions: what consumers read under exactly-once are the outputs of *)
(* the messages before the committed offset, each once and in their order  *)
(* (OutputsUnique).                                                        *)
(*                                                                         *)
(* The broker ends a transaction with whatever outputs and offset are in   *)
(* it, so that the invariant has to say of every transaction that may      *)
(* still be committed what those are.  LibraryInv ties the step an         *)
(* instance is at to the state of its transaction in the client library;   *)
(* PartitionInv says that no two instances have the partition, or offsets  *)
(* in their transactions; OutputsInv that a transaction and the queue      *)
(* behind it have the outputs of the checkpoint; StartInv that the         *)
(* checkpoint starts at the committed offset.  The last three hold until a *)
(* checkpoint outlives its assignment (kept), which is what the theorem    *)
(* excludes as well.                                                       *)
(***************************************************************************)

\* The offsets from one to another one, in their order.
Offsets(first, last) == [n \in 1..last + 1 - first |-> first + n - 1]

\* The messages of a checkpoint.
Processed(c) == IF c.last = NoOffset THEN <<>> ELSE Offsets(c.first, c.last)

\* Only one instance has the partition, or has offsets of it to commit.
PartitionOK(i) ==
    /\ position[i] # NoOffset => owner = i \/ fenced[i]
    /\ owner = i => ~fenced[i] /\ position[i] # NoOffset
    /\ checkpoint[i].last # NoOffset => owner = i \/ fenced[i]
    /\ transaction[i].offset # NoOffset =>
           /\ owner \in {i, NoInstance}
           /\ \A j \in Instance \ {i} : transaction[j].offset = NoOffset

PartitionInv == \A i \in Instance : PartitionOK(i)

\* A transaction has the outputs of its checkpoint.
OutputsOK(i) ==
    Live(i) => /\ transaction[i].outputs \o queue[i] = Processed(checkpoint[i])
               /\ checkpoint[i].last # NoOffset => position[i] = checkpoint[i].last + 1

OutputsInv == \A i \in Instance : OutputsOK(i)

\* Of the instance that has the partition, it starts at the committed offset.
StartOK(i) ==
    owner = i \/ transaction[i].offset # NoOffset =>
       /\ Live(i) => IF checkpoint[i].last = NoOffset THEN position[i] = committed
                     ELSE checkpoint[i].first = committed
       /\ library[i] \in {"ready", "ended"} => position[i] = committed

StartInv == \A i \in Instance : StartOK(i)

\* What consumers read are the outputs of the messages that are committed.
Unique == output = [n \in 1..committed |-> n - 1]

\* The inductive invariant.
ExactlyOnceInv ==
    /\ ExactlyOnceTypeOK /\ LibraryInv
    /\ kept \/ (PartitionInv /\ OutputsInv /\ StartInv /\ Unique)

\* A step of an instance, or a fault of it.
StepOf(i) ==
    \/ InstanceStep(i) \/ PushBack(i)
    \/ DeliveryFails(i) \/ TransactionTimeout(i) \/ CrashInstance(i)
    \/ RevokePartition(i) \/ EvictInstance(i)

-----------------------------------------------------------------------------
\* The bounds of a scenario are numbers.
LEMMA MessagesNat == ASSUME scenario \in Scenarios PROVE MaxOffset \in Nat
BY ScenariosAssumption DEF MaxOffset

\* A step of one instance leaves what the others have.
LEMMA OthersUnchanged ==
  ASSUME ExactlyOnceTypeOK, NEW i \in Instance, StepOf(i), NEW j \in Instance \ {i}
  PROVE  /\ pc'[j] = pc[j] /\ checkpoint'[j] = checkpoint[j] /\ position'[j] = position[j]
         /\ error'[j] = error[j] /\ library'[j] = library[j] /\ attempts'[j] = attempts[j]
         /\ queue'[j] = queue[j] /\ transaction'[j] = transaction[j] /\ fenced'[j] = fenced[j]
<1> USE DEF GoTo, Fails, StoreOffset, Retries, Ended, Gone, ExactlyOnceTypeOK
<1>1. CASE InstanceStep(i)
  BY <1>1 DEF InstanceStep, StartInstance, BeginTransaction, AssignPartition, ProcessMessage,
     DeliverQueued, BeginCommit, FlushTransaction, SendOffsets, EndTransaction, CloseFailed,
     LosePartition
<1>2. CASE ~InstanceStep(i)
  BY <1>2 DEF StepOf, PushBack, DeliveryFails, TransactionTimeout, CrashInstance,
     RevokePartition, EvictInstance
<1> QED BY <1>1, <1>2

\* A function with another value for one argument.
LEMMA EntryReplaced ==
  ASSUME NEW S, NEW T, NEW f \in [S -> T], NEW x \in S, NEW v \in T
  PROVE  [f EXCEPT ![x] = v] \in [S -> T]
OBVIOUS

\* A retry takes one of the attempts that are left.
LEMMA FewerAttempts ==
  ASSUME NEW f \in [Instance -> 0..Attempts], NEW i \in Instance, f[i] \in 1..Attempts
  PROVE  [f EXCEPT ![i] = @ - 1] \in [Instance -> 0..Attempts]
BY DEF Attempts

\* What a step of one instance may do to each of the variables.
LEMMA StepChanges ==
  ASSUME ExactlyOnceTypeOK, NEW i \in Instance, StepOf(i)
  PROVE  /\ pc' = pc \/ \E s \in Steps \cup {"down", "failing"} : pc' = [pc EXCEPT ![i] = s]
         /\ active' = active \/ \E b \in BOOLEAN : active' = [active EXCEPT ![i] = b]
         /\ error' = error \/ \E b \in BOOLEAN : error' = [error EXCEPT ![i] = b]
         /\ fenced' = fenced \/ \E b \in BOOLEAN : fenced' = [fenced EXCEPT ![i] = b]
         /\ library' = library \/ \E l \in LibraryStates : library' = [library EXCEPT ![i] = l]
         /\ \/ attempts' = attempts
            \/ \E n \in {0, Attempts} : attempts' = [attempts EXCEPT ![i] = n]
            \/ attempts' = [attempts EXCEPT ![i] = @ - 1] /\ pc[i] \in {"send", "commit"}
         /\ \/ queue' = queue \/ queue' = [queue EXCEPT ![i] = <<>>]
            \/ queue' = [queue EXCEPT ![i] = Append(@, position[i])]
                  /\ position[i] \in 0..MaxOffset - 1
            \/ queue' = [queue EXCEPT ![i] = Tail(@)] /\ queue[i] # <<>>
         /\ \/ position' = position
            \/ \E o \in {NoOffset, committed, checkpoint[i].first} :
                   position' = [position EXCEPT ![i] = o]
            \/ position' = [position EXCEPT ![i] = @ + 1] /\ position[i] \in 0..MaxOffset - 1
         /\ \/ transaction' = transaction
            \/ transaction' = [transaction EXCEPT ![i] = NoTransaction]
            \/ DeliverQueued(i)
            \/ transaction' = [transaction EXCEPT ![i] =
                                  [outputs |-> @.outputs, offset |-> checkpoint[i].last + 1]]
         /\ orphans' = orphans \/ orphans' = orphans \cup {transaction[i]}
         /\ owner' = owner \/ owner' \in {i, NoInstance}
         /\ kept' \in BOOLEAN
         /\ (committed' = committed /\ output' = output) \/ EndTransaction(i)
<1> USE DEF StepOf, InstanceStep, StartInstance, BeginTransaction, AssignPartition, ProcessMessage,
            DeliverQueued, BeginCommit, FlushTransaction, SendOffsets, EndTransaction, CloseFailed,
            LosePartition, PushBack, DeliveryFails, TransactionTimeout, CrashInstance,
            RevokePartition, EvictInstance, StoreOffset, Retries, Ended, Gone, GoTo, Fails, Steps
<1>1. pc' = pc \/ \E s \in Steps \cup {"down", "failing"} : pc' = [pc EXCEPT ![i] = s]
  BY Zenon
<1>2. active' = active \/ \E b \in BOOLEAN : active' = [active EXCEPT ![i] = b]
  BY Zenon
<1>3. error' = error \/ \E b \in BOOLEAN : error' = [error EXCEPT ![i] = b]
  BY Zenon
<1>4. fenced' = fenced \/ \E b \in BOOLEAN : fenced' = [fenced EXCEPT ![i] = b]
  BY Zenon
<1>5. library' = library \/ \E l \in LibraryStates : library' = [library EXCEPT ![i] = l]
  <2>1. library \in [Instance -> LibraryStates]
    BY DEF ExactlyOnceTypeOK
  <2> QED BY <2>1 DEF LibraryStates
<1>6. \/ attempts' = attempts
      \/ \E n \in {0, Attempts} : attempts' = [attempts EXCEPT ![i] = n]
      \/ attempts' = [attempts EXCEPT ![i] = @ - 1] /\ pc[i] \in {"send", "commit"}
  BY Zenon
<1>7. \/ queue' = queue \/ queue' = [queue EXCEPT ![i] = <<>>]
      \/ queue' = [queue EXCEPT ![i] = Append(@, position[i])] /\ position[i] \in 0..MaxOffset - 1
      \/ queue' = [queue EXCEPT ![i] = Tail(@)] /\ queue[i] # <<>>
  BY Zenon
<1>8. \/ position' = position
      \/ \E o \in {NoOffset, committed, checkpoint[i].first} :
             position' = [position EXCEPT ![i] = o]
      \/ position' = [position EXCEPT ![i] = @ + 1] /\ position[i] \in 0..MaxOffset - 1
  BY Zenon
<1>9. \/ transaction' = transaction \/ transaction' = [transaction EXCEPT ![i] = NoTransaction]
      \/ DeliverQueued(i)
      \/ transaction' = [transaction EXCEPT ![i] =
                            [outputs |-> @.outputs, offset |-> checkpoint[i].last + 1]]
  BY Zenon
<1>10. orphans' = orphans \/ orphans' = orphans \cup {transaction[i]}
  BY Zenon
<1>11. owner' = owner \/ owner' \in {i, NoInstance}
  BY Zenon
<1>12. kept' \in BOOLEAN
  <2>1. kept \in BOOLEAN
    BY DEF ExactlyOnceTypeOK
  <2> QED BY <2>1, Zenon
<1>13. (committed' = committed /\ output' = output) \/ EndTransaction(i)
  BY Zenon
<1> QED BY <1>1, <1>2, <1>3, <1>4, <1>5, <1>6, <1>7, <1>8, <1>9, <1>10, <1>11, <1>12, <1>13, Zenon

\* A step of the transactions leaves every variable of its type.
LEMMA TypeStep ==
  ASSUME ExactlyOnceTypeOK, LibraryInv, MaxOffset \in Nat, UNCHANGED scenario,
         NEW i \in Instance, StepOf(i)
  PROVE  ExactlyOnceTypeOK'
<1>1. /\ pc \in [Instance -> Steps \cup {"down", "failing"}]
      /\ checkpoint \in [Instance -> Messages]
      /\ position \in [Instance -> NoOffset..MaxOffset]
      /\ active \in [Instance -> BOOLEAN] /\ error \in [Instance -> BOOLEAN]
      /\ attempts \in [Instance -> 0..Attempts]
      /\ library \in [Instance -> LibraryStates]
      /\ queue \in [Instance -> Seq(Nat)]
      /\ transaction \in [Instance -> Transaction] /\ orphans \subseteq Transaction
      /\ owner \in Instance \cup {NoInstance} /\ fenced \in [Instance -> BOOLEAN]
      /\ committed \in 0..MaxOffset /\ output \in Seq(Nat) /\ kept \in BOOLEAN
  BY DEF ExactlyOnceTypeOK
<1>2. Messages' = Messages /\ Transaction' = Transaction /\ MaxOffset' = MaxOffset
  BY DEF Messages, Transaction, MaxOffset
<1>3. /\ EmptyCheckpoint \in Messages /\ NoTransaction \in Transaction
      /\ NoOffset \in NoOffset..MaxOffset
  BY DEF EmptyCheckpoint, Messages, NoTransaction, Transaction, NoOffset
<1>4. \A c \in Messages : c.first \in NoOffset..MaxOffset - 1 /\ c.last \in NoOffset..MaxOffset - 1
  BY DEF Messages
<1>5. \A t \in Transaction : t.outputs \in Seq(Nat) /\ t.offset \in NoOffset..MaxOffset
  BY DEF Transaction
<1>6. pc' \in [Instance -> Steps \cup {"down", "failing"}]
  <2>1. pc' = pc \/ \E s \in Steps \cup {"down", "failing"} : pc' = [pc EXCEPT ![i] = s]
    BY StepChanges
  <2> QED BY <1>1, <2>1, EntryReplaced
<1>7. /\ active' \in [Instance -> BOOLEAN] /\ error' \in [Instance -> BOOLEAN]
      /\ fenced' \in [Instance -> BOOLEAN]
  <2>1. active' = active \/ \E b \in BOOLEAN : active' = [active EXCEPT ![i] = b]
    BY StepChanges
  <2>2. error' = error \/ \E b \in BOOLEAN : error' = [error EXCEPT ![i] = b]
    BY StepChanges
  <2>3. fenced' = fenced \/ \E b \in BOOLEAN : fenced' = [fenced EXCEPT ![i] = b]
    BY StepChanges
  <2> QED BY <1>1, <2>1, <2>2, <2>3, EntryReplaced
<1>8. library' \in [Instance -> LibraryStates]
  <2>1. library' = library \/ \E l \in LibraryStates : library' = [library EXCEPT ![i] = l]
    BY StepChanges
  <2> QED BY <1>1, <2>1, EntryReplaced
<1>9. attempts' \in [Instance -> 0..Attempts]
  <2>1. \/ attempts' = attempts
        \/ \E n \in {0, Attempts} : attempts' = [attempts EXCEPT ![i] = n]
        \/ attempts' = [attempts EXCEPT ![i] = @ - 1] /\ pc[i] \in {"send", "commit"}
    BY StepChanges
  <2>2. pc[i] \in {"send", "commit"} => attempts[i] \in 1..Attempts
    BY <1>1 DEF LibraryInv, LibraryOK, Attempts
  <2>3. 0 \in 0..Attempts /\ Attempts \in 0..Attempts
    BY DEF Attempts
  <2>4. CASE attempts' = [attempts EXCEPT ![i] = @ - 1] /\ pc[i] \in {"send", "commit"}
    BY <1>1, <2>2, <2>4, FewerAttempts
  <2>5. CASE \E n \in {0, Attempts} : attempts' = [attempts EXCEPT ![i] = n]
    BY <1>1, <2>3, <2>5, EntryReplaced
  <2> QED BY <1>1, <2>1, <2>4, <2>5
<1>10. queue' \in [Instance -> Seq(Nat)]
  <2>1. \/ queue' = queue \/ queue' = [queue EXCEPT ![i] = <<>>]
        \/ queue' = [queue EXCEPT ![i] = Append(@, position[i])] /\ position[i] \in 0..MaxOffset - 1
        \/ queue' = [queue EXCEPT ![i] = Tail(@)] /\ queue[i] # <<>>
    BY StepChanges
  <2>2. position[i] \in 0..MaxOffset - 1 => Append(queue[i], position[i]) \in Seq(Nat)
    BY <1>1
  <2>3. queue[i] # <<>> => Tail(queue[i]) \in Seq(Nat)
    BY <1>1
  <2>4. CASE /\ queue' = [queue EXCEPT ![i] = Append(@, position[i])]
             /\ position[i] \in 0..MaxOffset - 1
    BY <1>1, <2>2, <2>4, EntryReplaced
  <2>5. CASE queue' = [queue EXCEPT ![i] = Tail(@)] /\ queue[i] # <<>>
    BY <1>1, <2>3, <2>5, EntryReplaced
  <2>6. CASE queue' = [queue EXCEPT ![i] = <<>>]
    BY <1>1, <2>6, EntryReplaced
  <2> QED BY <1>1, <2>1, <2>4, <2>5, <2>6
<1>11. checkpoint' \in [Instance -> Messages]
  <2>1. \/ checkpoint' = checkpoint \/ checkpoint' = [checkpoint EXCEPT ![i] = EmptyCheckpoint]
        \/ ProcessMessage(i) /\ StoreOffset(i)
    <3>1. CASE ProcessMessage(i)
      <4>1. StoreOffset(i) \/ UNCHANGED checkpoint
        BY <3>1, Zenon DEF ProcessMessage
      <4> QED BY <3>1, <4>1
    <3>2. CASE BeginTransaction(i)
      BY <3>2 DEF BeginTransaction
    <3>3. CASE Gone(i)
      BY <3>3 DEF Gone
    <3>4. ProcessMessage(i) \/ BeginTransaction(i) \/ Gone(i) \/ UNCHANGED checkpoint
      BY Zenon DEF StepOf, InstanceStep, StartInstance, AssignPartition, DeliverQueued, BeginCommit,
         FlushTransaction, SendOffsets, EndTransaction, CloseFailed, LosePartition, PushBack,
         DeliveryFails, TransactionTimeout, CrashInstance, RevokePartition, EvictInstance
    <3> QED BY <3>1, <3>2, <3>3, <3>4
  <2>2. CASE ProcessMessage(i) /\ StoreOffset(i)
    <3>1. position[i] \in NoOffset..MaxOffset - 1
      BY <2>2 DEF ProcessMessage, NoOffset
    <3>2. checkpoint' = checkpoint \/ \E first \in {position[i], checkpoint[i].first} :
             checkpoint' = [checkpoint EXCEPT ![i] = [first |-> first, last |-> position[i]]]
      BY <1>1, <2>2 DEF StoreOffset
    <3>3. \A first \in {position[i], checkpoint[i].first} :
             [first |-> first, last |-> position[i]] \in Messages
      BY <1>1, <3>1 DEF Messages
    <3>4. CASE checkpoint' # checkpoint
      <4>1. PICK first \in {position[i], checkpoint[i].first} :
               checkpoint' = [checkpoint EXCEPT ![i] = [first |-> first, last |-> position[i]]]
        BY <3>2, <3>4
      <4>2. [first |-> first, last |-> position[i]] \in Messages
        BY <3>3
      <4> HIDE DEF Messages
      <4> QED BY <1>1, <4>1, <4>2, EntryReplaced
    <3> QED BY <1>1, <3>4
  <2> QED BY <1>1, <1>3, <2>1, <2>2, EntryReplaced
<1>12. position' \in [Instance -> NoOffset..MaxOffset]
  <2>1. \/ position' = position \/ \E o \in {NoOffset, committed, checkpoint[i].first} :
              position' = [position EXCEPT ![i] = o]
        \/ position' = [position EXCEPT ![i] = @ + 1] /\ position[i] \in 0..MaxOffset - 1
    BY StepChanges
  <2>2. position[i] \in 0..MaxOffset - 1 => position[i] + 1 \in NoOffset..MaxOffset
    BY DEF NoOffset
  <2>3. {NoOffset, committed, checkpoint[i].first} \subseteq NoOffset..MaxOffset
    BY <1>1, <1>4 DEF NoOffset
  <2>4. CASE position' = [position EXCEPT ![i] = @ + 1] /\ position[i] \in 0..MaxOffset - 1
    BY <1>1, <2>2, <2>4, EntryReplaced
  <2>5. CASE \E o \in {NoOffset, committed, checkpoint[i].first} :
                position' = [position EXCEPT ![i] = o]
    BY <1>1, <2>3, <2>5, EntryReplaced
  <2> QED BY <1>1, <2>1, <2>4, <2>5
<1>13. transaction' \in [Instance -> Transaction]
  <2>1. \/ transaction' = transaction \/ transaction' = [transaction EXCEPT ![i] = NoTransaction]
        \/ DeliverQueued(i)
        \/ transaction' = [transaction EXCEPT ![i] =
                              [outputs |-> @.outputs, offset |-> checkpoint[i].last + 1]]
    BY StepChanges
  <2>2. [outputs |-> transaction[i].outputs, offset |-> checkpoint[i].last + 1] \in Transaction
    <3>1. checkpoint[i].last + 1 \in NoOffset..MaxOffset
      BY <1>1, <1>4 DEF NoOffset
    <3> QED BY <1>1, <3>1 DEF Transaction
  <2>3. CASE DeliverQueued(i)
    <3>1. Append(transaction[i].outputs, Head(queue[i])) \in Seq(Nat)
      <4>1. transaction[i].outputs \in Seq(Nat)
        BY <1>1, <1>5
      <4>2. queue[i] \in Seq(Nat) /\ queue[i] # <<>>
        BY <1>1, <2>3 DEF DeliverQueued
      <4>3. Head(queue[i]) \in Nat
        BY <4>2, HeadTailProperties
      <4> QED BY <4>1, <4>3, AppendProperties
    <3>2. [outputs |-> Append(transaction[i].outputs, Head(queue[i])),
           offset |-> transaction[i].offset] \in Transaction
      BY <1>1, <3>1 DEF Transaction
    <3> QED BY <1>1, <2>3, <3>2, EntryReplaced DEF DeliverQueued
  <2> QED BY <1>1, <1>3, <2>1, <2>2, <2>3, EntryReplaced
<1>14. orphans' \subseteq Transaction
  <2>1. orphans' = orphans \/ orphans' = orphans \cup {transaction[i]}
    BY StepChanges
  <2> QED BY <1>1, <2>1
<1>15. owner' \in Instance \cup {NoInstance} /\ kept' \in BOOLEAN
  <2>1. owner' = owner \/ owner' \in {i, NoInstance}
    BY StepChanges
  <2>2. kept' \in BOOLEAN
    BY <1>1, StepChanges
  <2> QED BY <1>1, <2>1, <2>2
<1>16. committed' \in 0..MaxOffset /\ output' \in Seq(Nat)
  <2>1. (committed' = committed /\ output' = output) \/ EndTransaction(i)
    BY StepChanges
  <2>2. CASE EndTransaction(i)
    <3>1. CASE library[i] \in {"open", "committing"} /\ Ended(i)
      <4>1. transaction[i].offset # NoOffset
        BY <2>2, <3>1 DEF EndTransaction, LibraryInv, LibraryOK, Live
      <4>2. transaction[i].offset \in 0..MaxOffset /\ transaction[i].outputs \in Seq(Nat)
        BY <1>1, <1>5, <4>1 DEF NoOffset
      <4> QED BY <1>1, <3>1, <4>2 DEF Ended
    <3> QED BY <1>1, <2>2, <3>1 DEF EndTransaction
  <2> QED BY <1>1, <2>1, <2>2
<1> QED BY <1>2, <1>6, <1>7, <1>8, <1>9, <1>10, <1>11, <1>12, <1>13, <1>14, <1>15, <1>16
       DEF ExactlyOnceTypeOK
\* What the client library is doing goes with the step of the instance, after any step.
LEMMA LibraryStep ==
  ASSUME ExactlyOnceTypeOK, LibraryInv, NEW i \in Instance, StepOf(i)
  PROVE  LibraryInv'
<1> SUFFICES ASSUME NEW j \in Instance PROVE LibraryOK(j)'
  BY DEF LibraryInv
<1>1. CASE j # i
  BY <1>1, OthersUnchanged DEF LibraryInv, LibraryOK, Live
<1>2. CASE j = i
  <2> USE <1>2 DEF NoOffset, Live
  <2>1. CASE StartInstance(i)
    <3>1. /\ pc[i] = "down" /\ pc'[i] = "begin" /\ library'[i] = "ready"
          /\ UNCHANGED <<checkpoint, attempts, queue, transaction, error>>
      BY <2>1 DEF StartInstance, GoTo, ExactlyOnceTypeOK
    <3> QED BY <3>1 DEF LibraryInv, LibraryOK, NoTransaction
  <2>2. CASE BeginTransaction(i)
    <3>1. pc[i] = "begin" /\ UNCHANGED <<attempts, queue, transaction, error>>
      BY <2>2 DEF BeginTransaction
    <3>2. CASE library[i] = "ready"
      <4>1. /\ pc'[i] = "run" /\ library'[i] = "open" /\ checkpoint'[i] = EmptyCheckpoint
        BY <2>2, <3>2 DEF BeginTransaction, GoTo, ExactlyOnceTypeOK
      <4> QED BY <3>1, <3>2, <4>1 DEF LibraryInv, LibraryOK, NoTransaction, EmptyCheckpoint
    <3>3. CASE library[i] # "ready"
      <4>1. pc'[i] = "failing" /\ UNCHANGED <<library, checkpoint>>
        BY <2>2, <3>3 DEF BeginTransaction, GoTo, Fails, ExactlyOnceTypeOK
      <4> QED BY <3>1, <3>3, <4>1 DEF LibraryInv, LibraryOK
    <3> QED BY <3>2, <3>3
  <2>3. CASE AssignPartition(i) \/ RevokePartition(i) \/ EvictInstance(i) \/ LosePartition(i)
    <3>1. /\ UNCHANGED <<library, error, checkpoint, attempts, queue, transaction>> /\ UNCHANGED pc
          /\ pc[i] # "down"
      BY <2>3 DEF AssignPartition, RevokePartition, EvictInstance, LosePartition
    <3> QED BY <3>1 DEF LibraryInv, LibraryOK
  <2>4. CASE ProcessMessage(i)
    <3>1. /\ pc[i] = "run" /\ pc'[i] \in {"run", "failing"}
          /\ UNCHANGED <<library, attempts, transaction>>
          /\ position[i] \in Nat /\ ~error'[i]
      BY <2>4 DEF ProcessMessage, StoreOffset, GoTo, Fails, ExactlyOnceTypeOK
    <3>2. queue'[i] # queue[i] => library[i] = "open"
      BY <2>4 DEF ProcessMessage
    <3>3. \/ checkpoint'[i] = checkpoint[i]
          \/ /\ position[i] > checkpoint[i].last
             /\ checkpoint'[i] = [first |-> IF checkpoint[i].first = NoOffset THEN position[i]
                                            ELSE checkpoint[i].first, last |-> position[i]]
      <4>1. \/ UNCHANGED checkpoint \/ StoreOffset(i)
        BY <2>4, Zenon DEF ProcessMessage
      <4> QED BY <3>1, <4>1 DEF StoreOffset, ExactlyOnceTypeOK, Messages
    <3>4. checkpoint[i].first \in Int /\ checkpoint[i].last \in Int
      BY DEF ExactlyOnceTypeOK, Messages
    <3>5. LibraryOK(i) /\ transaction[i].offset = NoOffset
      BY <3>1 DEF LibraryInv, LibraryOK
    <3>6. /\ checkpoint'[i].first <= checkpoint'[i].last
          /\ checkpoint'[i].first = NoOffset <=> checkpoint'[i].last = NoOffset
      <4>1. CASE checkpoint'[i] = checkpoint[i]
        BY <3>5, <4>1 DEF LibraryOK
      <4>2. CASE checkpoint'[i] # checkpoint[i]
        BY <3>1, <3>3, <3>4, <3>5, <4>2 DEF LibraryOK
      <4> QED BY <4>1, <4>2
    <3> QED BY <3>1, <3>2, <3>5, <3>6 DEF LibraryOK
  <2>5. CASE DeliverQueued(i)
    <3>1. /\ library[i] = "open" /\ queue[i] # <<>>
          /\ UNCHANGED <<pc, library, error, attempts, checkpoint>>
          /\ transaction'[i].offset = transaction[i].offset /\ pc[i] \in Steps
      BY <2>5 DEF DeliverQueued, ExactlyOnceTypeOK, Transaction
    <3>2. pc[i] \notin {"send", "commit"}
      BY <3>1 DEF LibraryInv, LibraryOK
    <3> QED BY <3>1, <3>2 DEF LibraryInv, LibraryOK
  <2>6. CASE DeliveryFails(i)
    <3>1. /\ library[i] = "open" /\ queue[i] # <<>> /\ library'[i] = "error" /\ pc[i] \in Steps
          /\ UNCHANGED <<pc, attempts, checkpoint, transaction>>
      BY <2>6 DEF DeliveryFails, ExactlyOnceTypeOK
    <3> QED BY <3>1 DEF LibraryInv, LibraryOK, Steps
  <2>7. CASE TransactionTimeout(i)
    <3>1. /\ library'[i] = "error" /\ transaction'[i] = NoTransaction /\ pc[i] \in Steps
          /\ UNCHANGED <<pc, attempts, checkpoint>>
      BY <2>7 DEF TransactionTimeout, ExactlyOnceTypeOK
    <3> QED BY <3>1 DEF LibraryInv, LibraryOK, Steps, NoTransaction
  <2>8. CASE BeginCommit(i) \/ PushBack(i)
    <3>1. /\ pc[i] = "run" /\ checkpoint[i].last # NoOffset /\ pc'[i] \in {"flush", "begin"}
          /\ UNCHANGED <<library, error, attempts, checkpoint, queue, transaction>>
      BY <2>8 DEF BeginCommit, PushBack, GoTo, ExactlyOnceTypeOK
    <3> QED BY <3>1 DEF LibraryInv, LibraryOK
  <2>9. CASE FlushTransaction(i)
    <3>1. pc[i] = "flush" /\ UNCHANGED <<library, checkpoint, queue, transaction>> /\ ~error'[i]
      BY <2>9 DEF FlushTransaction, ExactlyOnceTypeOK
    <3>2. \/ pc'[i] = "send" /\ attempts'[i] = Attempts /\ queue[i] = <<>>
          \/ pc'[i] = "failing" /\ attempts' = attempts
      BY <2>9 DEF FlushTransaction, FlushedTransaction, GoTo, Fails, ExactlyOnceTypeOK
    <3> QED BY <3>1, <3>2 DEF LibraryInv, LibraryOK, Attempts
  <2>10. CASE SendOffsets(i)
    <3>1. pc[i] = "send" /\ UNCHANGED <<library, error, checkpoint, queue>>
      BY <2>10 DEF SendOffsets
    <3>2. \/ transaction'[i] = transaction[i]
          \/ transaction'[i].offset = checkpoint[i].last + 1 /\ library[i] = "open"
      BY <2>10 DEF SendOffsets, ExactlyOnceTypeOK
    <3>3. \/ pc'[i] = "commit" /\ attempts'[i] = Attempts
                /\ transaction'[i].offset = checkpoint[i].last + 1
          \/ pc'[i] = "failing"
          \/ pc'[i] = "send" /\ attempts[i] # 1 /\ attempts'[i] = attempts[i] - 1
      BY <2>10 DEF SendOffsets, Retries, GoTo, Fails, ExactlyOnceTypeOK
    <3>4. /\ checkpoint[i].last \in Int /\ checkpoint[i].last >= NoOffset
          /\ attempts[i] \in Nat
      BY DEF ExactlyOnceTypeOK, Messages
    <3>5. attempts'[i] > 0 \/ pc'[i] = "failing"
      BY <3>1, <3>3, <3>4 DEF LibraryInv, LibraryOK, Attempts
    <3>6. LibraryOK(i)
      BY DEF LibraryInv
    <3> QED BY <3>1, <3>2, <3>3, <3>4, <3>5, <3>6 DEF LibraryOK
  <2>11. CASE EndTransaction(i)
    <3>1. pc[i] = "commit" /\ UNCHANGED <<error, checkpoint, queue>>
      BY <2>11 DEF EndTransaction
    <3>2. \/ pc'[i] = "begin" /\ library'[i] = "ready"
          \/ pc'[i] = "commit" /\ attempts[i] # 1 /\ attempts'[i] = attempts[i] - 1
          \/ pc'[i] = "failing"
      BY <2>11 DEF EndTransaction, Retries, GoTo, Fails, ExactlyOnceTypeOK
    <3>3. \/ library'[i] = "ended" /\ transaction'[i] = NoTransaction
                /\ library[i] \in {"open", "committing"}
          \/ /\ library'[i] = "ready" /\ transaction'[i] = NoTransaction /\ pc'[i] = "begin"
             /\ library[i] \in {"open", "committing"}
          \/ /\ library'[i] = "ready" /\ library[i] = "ended" /\ transaction'[i] = transaction[i]
             /\ pc'[i] = "begin"
          \/ library[i] = "open" /\ library'[i] = "committing" /\ transaction'[i] = transaction[i]
          \/ library' = library /\ transaction'[i] = transaction[i]
      BY <2>11 DEF EndTransaction, Ended, GoTo, ExactlyOnceTypeOK
    <3>4. library[i] \in {"open", "committing"} =>
             queue[i] = <<>> /\ transaction[i].offset # NoOffset
      BY <3>1 DEF LibraryInv, LibraryOK
    <3>5. library[i] \in {"open", "committing", "ended", "error"}
      BY <3>1 DEF LibraryInv, LibraryOK
    <3>6. attempts'[i] > 0 \/ pc'[i] # "commit"
      <4>1. attempts[i] \in Nat /\ attempts[i] > 0
        BY <3>1 DEF LibraryInv, LibraryOK, ExactlyOnceTypeOK
      <4> QED BY <3>2, <4>1
    <3>7. LibraryOK(i)
      BY DEF LibraryInv
    <3> QED BY <3>1, <3>2, <3>3, <3>4, <3>5, <3>6, <3>7 DEF LibraryOK, NoTransaction
  <2>12. CASE CloseFailed(i) \/ CrashInstance(i)
    <3>1. Gone(i)
      BY <2>12 DEF CloseFailed, CrashInstance
    <3>2. /\ pc'[i] = "down" /\ checkpoint'[i] = EmptyCheckpoint /\ library'[i] = "none"
          /\ queue'[i] = <<>>
          /\ transaction'[i] = NoTransaction /\ position'[i] = NoOffset /\ ~error'[i]
      BY <3>1 DEF Gone, GoTo, ExactlyOnceTypeOK
    <3> QED BY <3>2 DEF LibraryOK, EmptyCheckpoint, NoTransaction
  <2> QED BY <2>1, <2>2, <2>3, <2>4, <2>5, <2>6, <2>7, <2>8, <2>9, <2>10, <2>11, <2>12
          DEF StepOf, InstanceStep
<1> QED BY <1>1, <1>2
\* Only AssignPartition gives the partition to an instance, and a step of another one
\* does not take it.
LEMMA OwnerChange ==
  ASSUME NEW i \in Instance, StepOf(i)
  PROVE  \/ owner' = owner
         \/ owner = i /\ owner' = NoInstance
         \/ AssignPartition(i)
BY Zenon DEF StepOf, InstanceStep, StartInstance, BeginTransaction, ProcessMessage, DeliverQueued,
   BeginCommit, FlushTransaction, SendOffsets, EndTransaction, CloseFailed, LosePartition, PushBack,
   DeliveryFails, TransactionTimeout, CrashInstance, RevokePartition, EvictInstance, Gone

\* Only an instance that has the partition sends offsets.
LEMMA OffsetSent ==
  ASSUME ExactlyOnceTypeOK, LibraryInv, PartitionInv, NEW i \in Instance, StepOf(i),
         transaction[i].offset = NoOffset, transaction'[i].offset # NoOffset
  PROVE  owner = i /\ owner' = owner
<1>1. CASE SendOffsets(i)
  <2>1. ~fenced[i] /\ pc[i] = "send" /\ owner' = owner
    BY <1>1 DEF SendOffsets
  <2>2. checkpoint[i].last # NoOffset
    BY <2>1 DEF LibraryInv, LibraryOK
  <2> QED BY <2>1, <2>2 DEF PartitionInv, PartitionOK
<1>2. CASE DeliverQueued(i)
  BY <1>2 DEF DeliverQueued, ExactlyOnceTypeOK, Transaction
<1>3. CASE transaction' = [transaction EXCEPT ![i] = NoTransaction]
  BY <1>3 DEF NoTransaction, ExactlyOnceTypeOK
<1>4. \/ SendOffsets(i) \/ DeliverQueued(i) \/ UNCHANGED transaction
      \/ transaction' = [transaction EXCEPT ![i] = NoTransaction]
  BY Zenon DEF StepOf, InstanceStep, StartInstance, BeginTransaction, AssignPartition,
     ProcessMessage, BeginCommit, FlushTransaction, EndTransaction, Ended, CloseFailed,
     LosePartition, PushBack, DeliveryFails, TransactionTimeout, CrashInstance,
     RevokePartition, EvictInstance, Gone
<1> QED BY <1>1, <1>2, <1>3, <1>4

\* No two instances come to have the partition, or offsets in their transactions.
LEMMA PartitionStep ==
  ASSUME ExactlyOnceTypeOK, LibraryInv, PartitionInv, ~kept', NEW i \in Instance, StepOf(i)
  PROVE  PartitionInv'
<1> USE ScenarioAssumption
<1> SUFFICES ASSUME NEW j \in Instance PROVE PartitionOK(j)'
  BY DEF PartitionInv
<1>1. CASE j # i
  <2>1. owner' = j <=> owner = j
    BY <1>1, OwnerChange DEF AssignPartition
  <2>2. ASSUME transaction[j].offset # NoOffset
        PROVE  owner' \in {j, NoInstance} /\ transaction'[i].offset = NoOffset
    <3>1. owner \in {j, NoInstance} /\ transaction[i].offset = NoOffset
      BY <1>1, <2>2 DEF PartitionInv, PartitionOK
    <3>2. owner' \in {j, NoInstance}
      BY <2>2, <3>1, OwnerChange DEF AssignPartition
    <3> QED BY <1>1, <3>1, <3>2, OffsetSent
  <2>3. \A k \in Instance \ {i} : transaction'[k] = transaction[k]
    BY OthersUnchanged
  <2>4. /\ checkpoint'[j] = checkpoint[j] /\ position'[j] = position[j] /\ fenced'[j] = fenced[j]
        /\ transaction'[j] = transaction[j]
    BY <1>1, OthersUnchanged
  <2>5. PartitionOK(j)
    BY DEF PartitionInv
  <2> QED BY <2>1, <2>2, <2>3, <2>4, <2>5 DEF PartitionOK
<1>2. CASE j = i
  <2>1. PartitionOK(i)
    BY DEF PartitionInv
  <2>2. \A k \in Instance \ {i} : transaction'[k] = transaction[k]
    BY OthersUnchanged
  <2>3. ASSUME transaction'[i].offset # NoOffset
        PROVE  /\ owner' \in {i, NoInstance}
               /\ \A k \in Instance \ {i} : transaction'[k].offset = NoOffset
    <3>1. CASE transaction[i].offset = NoOffset
      <4>1. owner = i /\ owner' = owner
        BY <2>3, <3>1, OffsetSent
      <4>2. ASSUME NEW k \in Instance \ {i} PROVE transaction[k].offset = NoOffset
        BY <4>1 DEF PartitionInv, PartitionOK
      <4> QED BY <2>2, <4>1, <4>2
    <3>2. CASE transaction[i].offset # NoOffset
      BY <2>1, <2>2, <3>2, OwnerChange DEF PartitionOK, AssignPartition
    <3> QED BY <3>1, <3>2
  <2>4. /\ position'[i] # NoOffset => owner' = i \/ fenced'[i]
        /\ owner' = i => ~fenced'[i] /\ position'[i] # NoOffset
        /\ checkpoint'[i].last # NoOffset => owner' = i \/ fenced'[i]
    <3>1. CASE UNCHANGED <<checkpoint, position, owner, fenced>>
      BY <2>1, <3>1 DEF PartitionOK
    <3>2. CASE BeginTransaction(i)
      <4>1. /\ UNCHANGED <<position, owner, fenced>>
            /\ checkpoint'[i] \in {checkpoint[i], EmptyCheckpoint}
        BY <3>2 DEF BeginTransaction, ExactlyOnceTypeOK
      <4> QED BY <2>1, <4>1 DEF PartitionOK, EmptyCheckpoint
    <3>3. CASE AssignPartition(i)
      <4>1. owner' = i /\ ~fenced'[i] /\ position'[i] = committed /\ committed \in Nat
        BY <3>3 DEF AssignPartition, ExactlyOnceTypeOK
      <4> QED BY <4>1 DEF NoOffset
    <3>4. CASE ProcessMessage(i)
      <4>1. position[i] \in Nat /\ position'[i] = position[i] + 1 /\ UNCHANGED <<owner, fenced>>
        BY <3>4 DEF ProcessMessage, ExactlyOnceTypeOK
      <4> QED BY <2>1, <4>1 DEF PartitionOK, NoOffset
    <3>5. CASE PushBack(i)
      <4>1. /\ checkpoint[i].last # NoOffset /\ position'[i] = checkpoint[i].first
            /\ UNCHANGED <<checkpoint, owner, fenced>>
        BY <3>5 DEF PushBack, ExactlyOnceTypeOK
      <4>2. checkpoint[i].first # NoOffset
        BY <4>1 DEF LibraryInv, LibraryOK
      <4> QED BY <2>1, <4>1, <4>2 DEF PartitionOK
    <3>6. CASE Gone(i)
      <4>1. position'[i] = NoOffset /\ checkpoint'[i] = EmptyCheckpoint /\ owner' # i
        BY <3>6 DEF Gone, ExactlyOnceTypeOK
      <4> QED BY <4>1 DEF EmptyCheckpoint
    <3>7. CASE RevokePartition(i)
      <4>1. position'[i] = NoOffset /\ checkpoint'[i].last = NoOffset /\ owner' # i
        BY <3>7 DEF RevokePartition, ExactlyOnceTypeOK
      <4> QED BY <4>1
    <3>8. CASE EvictInstance(i)
      <4>1. fenced'[i] /\ owner' # i
        BY <3>8 DEF EvictInstance, ExactlyOnceTypeOK
      <4> QED BY <4>1
    <3>9. CASE LosePartition(i)
      <4>1. fenced[i] /\ position'[i] = NoOffset /\ UNCHANGED <<checkpoint, owner>>
        BY <3>9 DEF LosePartition, ExactlyOnceTypeOK
      <4>2. checkpoint[i].last = NoOffset
        BY <3>9 DEF LosePartition
      <4> QED BY <2>1, <4>1, <4>2 DEF PartitionOK
    <3> QED BY <3>1, <3>2, <3>3, <3>4, <3>5, <3>6, <3>7, <3>8, <3>9 DEF StepOf, InstanceStep,
            StartInstance, DeliverQueued, BeginCommit, FlushTransaction, SendOffsets,
            EndTransaction, CloseFailed, DeliveryFails, TransactionTimeout, CrashInstance
  <2> QED BY <1>2, <2>3, <2>4 DEF PartitionOK
<1> QED BY <1>1, <1>2

\* Sequences of outputs may be put together in either order.
LEMMA InThree ==
  ASSUME NEW s \in Seq(Nat), NEW q \in Seq(Nat), NEW t \in Seq(Nat)
  PROVE  (s \o q) \o t = s \o (q \o t)
BY SMTT(60), ConcatAssociative

\* An output that is queued comes after those that are there.
LEMMA QueuedLast ==
  ASSUME NEW s \in Seq(Nat), NEW q \in Seq(Nat), NEW x \in Nat
  PROVE  s \o Append(q, x) = Append(s \o q, x)
<1>1. Append(q, x) = q \o <<x>> /\ Append(s \o q, x) = (s \o q) \o <<x>>
  BY AppendIsConcat, ConcatProperties
<1> QED BY <1>1, InThree

\* A delivery leaves the outputs in their order.
LEMMA DeliveredInOrder ==
  ASSUME NEW s \in Seq(Nat), NEW q \in Seq(Nat), q # <<>>
  PROVE  Append(s, Head(q)) \o Tail(q) = s \o q
<1>1. PICK h \in Nat, t \in Seq(Nat) : h = Head(q) /\ t = Tail(q)
  BY HeadTailProperties
<1>2. <<h>> \in Seq(Nat)
  OBVIOUS
<1>3. Append(s, h) = s \o <<h>>
  BY AppendIsConcat
<1>4. (s \o <<h>>) \o t = s \o (<<h>> \o t)
  BY <1>2, InThree
<1>5. <<h>> \o t = q
  <2>1. /\ Len(q) \in Nat \ {0} /\ Len(t) = Len(q) - 1 /\ q[1] = h
        /\ \A n \in 1..Len(t) : t[n] = q[n + 1]
    BY <1>1, EmptySeq, HeadTailProperties
  <2>2. Len(<<h>>) = 1 /\ <<h>>[1] = h
    OBVIOUS
  <2>3. /\ <<h>> \o t \in Seq(Nat) /\ Len(<<h>> \o t) = Len(<<h>>) + Len(t)
        /\ \A n \in 1..Len(<<h>>) + Len(t) : (<<h>> \o t)[n] =
              IF n <= Len(<<h>>) THEN <<h>>[n] ELSE t[n - Len(<<h>>)]
    BY <1>1, <1>2, ConcatProperties
  <2>4. ASSUME NEW n \in 1..Len(q) PROVE (<<h>> \o t)[n] = q[n]
    <3>1. CASE n = 1
      BY <2>1, <2>2, <2>3, <3>1
    <3>2. CASE n > 1
      <4>1. n - 1 \in 1..Len(t) /\ n \in 1..1 + Len(t) /\ n - 1 + 1 = n
        BY <2>1, <3>2
      <4> QED BY <2>1, <2>2, <2>3, <3>2, <4>1
    <3> QED BY <2>1, <3>1, <3>2
  <2>5. Len(<<h>> \o t) = Len(q)
    BY <2>1, <2>2, <2>3
  <2> QED BY <2>3, <2>4, <2>5, SeqEqual
<1> QED BY <1>1, <1>3, <1>4, <1>5

\* Some offsets, and the next one.
LEMMA OffsetsNext ==
  ASSUME NEW first \in Nat, NEW last \in Int, first <= last + 1
  PROVE  /\ Offsets(first, last) \in Seq(Nat)
         /\ Offsets(first, last + 1) = Append(Offsets(first, last), last + 1)
<1>1. Offsets(first, last) \in Seq(Nat) /\ Len(Offsets(first, last)) = last + 1 - first
  BY DEF Offsets
<1>2. Offsets(first, last + 1) \in Seq(Nat) /\ Len(Offsets(first, last + 1)) = last + 2 - first
  BY DEF Offsets
<1>3. /\ Append(Offsets(first, last), last + 1) \in Seq(Nat)
      /\ Len(Append(Offsets(first, last), last + 1)) = last + 2 - first
      /\ \A n \in 1..last + 1 - first :
            Append(Offsets(first, last), last + 1)[n] = Offsets(first, last)[n]
      /\ Append(Offsets(first, last), last + 1)[last + 2 - first] = last + 1
  <2>1. last + 1 \in Nat
    OBVIOUS
  <2>2. /\ Append(Offsets(first, last), last + 1) \in Seq(Nat)
        /\ Len(Append(Offsets(first, last), last + 1)) = Len(Offsets(first, last)) + 1
        /\ \A n \in 1..Len(Offsets(first, last)) :
              Append(Offsets(first, last), last + 1)[n] = Offsets(first, last)[n]
        /\ Append(Offsets(first, last), last + 1)[Len(Offsets(first, last)) + 1] = last + 1
    BY <1>1, <2>1, AppendProperties
  <2>3. last + 1 - first + 1 = last + 2 - first
    OBVIOUS
  <2> QED BY <1>1, <2>2, <2>3
<1>4. ASSUME NEW n \in 1..last + 2 - first
      PROVE  Offsets(first, last + 1)[n] = Append(Offsets(first, last), last + 1)[n]
  <2>1. Offsets(first, last + 1)[n] = first + n - 1
    BY DEF Offsets
  <2>2. CASE n \in 1..last + 1 - first
    <3>1. Offsets(first, last)[n] = first + n - 1
      BY <2>2 DEF Offsets
    <3> QED BY <1>3, <2>1, <2>2, <3>1
  <2>3. CASE n = last + 2 - first
    BY <1>3, <2>1, <2>3
  <2>4. n \in 1..last + 1 - first \/ n = last + 2 - first
    OBVIOUS
  <2> QED BY <2>2, <2>3, <2>4
<1> QED BY <1>1, <1>2, <1>3, <1>4, SeqEqual

\* The messages of a checkpoint with one more.
LEMMA ProcessedNext ==
  ASSUME NEW c \in Messages, c.first = NoOffset <=> c.last = NoOffset, c.first <= c.last,
         NEW p \in Nat, c.last # NoOffset => p = c.last + 1,
         NEW d, d = [first |-> IF c.first = NoOffset THEN p ELSE c.first, last |-> p]
  PROVE  Processed(d) = Append(Processed(c), p)
<1>1. c.first \in Int /\ c.last \in Int /\ d.last = p /\ p # NoOffset
  BY DEF Messages, NoOffset
<1>2. CASE c.last = NoOffset
  <2>1. Processed(d) = Offsets(p, p) /\ Processed(c) = <<>>
    BY <1>1, <1>2 DEF Processed
  <2>2. Offsets(p, p) = Append(Offsets(p, p - 1), p)
    <3>1. Offsets(p, (p - 1) + 1) = Append(Offsets(p, p - 1), (p - 1) + 1)
      BY OffsetsNext
    <3>2. (p - 1) + 1 = p
      OBVIOUS
    <3> QED BY <3>1, <3>2
  <2>3. Offsets(p, p - 1) = <<>>
    BY DEF Offsets
  <2> QED BY <2>1, <2>2, <2>3
<1>3. CASE c.last # NoOffset
  <2>1. d.first = c.first /\ p = c.last + 1 /\ c.first \in Nat
    BY <1>3 DEF Messages, NoOffset
  <2>2. Processed(d) = Offsets(c.first, c.last + 1) /\ Processed(c) = Offsets(c.first, c.last)
    BY <1>1, <1>3, <2>1 DEF Processed
  <2>3. Offsets(c.first, c.last + 1) = Append(Offsets(c.first, c.last), c.last + 1)
    <3>1. c.first <= c.last + 1
      BY <1>1
    <3> QED BY <1>1, <2>1, <3>1, OffsetsNext
  <2> QED BY <2>1, <2>2, <2>3
<1> QED BY <1>2, <1>3
\* A message that is processed goes into the queue and into the checkpoint.
LEMMA MessageProcessed ==
  ASSUME ExactlyOnceTypeOK, LibraryInv, NEW i \in Instance, ProcessMessage(i), Live(i)',
         OutputsOK(i)
  PROVE  /\ pc[i] = "run" /\ Live(i) /\ position[i] \in Nat /\ position'[i] = position[i] + 1
         /\ queue'[i] = Append(queue[i], position[i])
         /\ checkpoint'[i] = [first |-> IF checkpoint[i].first = NoOffset THEN position[i]
                                        ELSE checkpoint[i].first, last |-> position[i]]
<1>1. /\ pc[i] = "run" /\ position[i] \in Nat /\ position'[i] = position[i] + 1
      /\ library' = library /\ pc'[i] # "failing"
  BY DEF ProcessMessage, Live, ExactlyOnceTypeOK
<1>2. library[i] = "open" /\ ~error[i]
  BY <1>1 DEF Live, LibraryInv, LibraryOK
<1>3. queue'[i] = Append(queue[i], position[i]) /\ StoreOffset(i)
  BY <1>2 DEF ProcessMessage, ExactlyOnceTypeOK
<1>4. position[i] > checkpoint[i].last
  <2>1. ~Fails(i)
    BY <1>1 DEF Fails, GoTo, ExactlyOnceTypeOK
  <2>2. checkpoint[i].last \in Int
    BY DEF ExactlyOnceTypeOK, Messages
  <2> QED BY <1>1, <1>3, <2>1, <2>2 DEF StoreOffset
<1>5. checkpoint'[i] = [first |-> IF checkpoint[i].first = NoOffset THEN position[i]
                                  ELSE checkpoint[i].first, last |-> position[i]]
  <2>1. checkpoint[i].last \in Int
    BY DEF ExactlyOnceTypeOK, Messages
  <2>2. ~(position[i] <= checkpoint[i].last)
    BY <1>1, <1>4, <2>1
  <2> QED BY <1>3, <2>2 DEF StoreOffset, ExactlyOnceTypeOK
<1> QED BY <1>1, <1>2, <1>3, <1>5 DEF Live

\* A transaction that may be committed keeps the outputs of its checkpoint.
LEMMA OutputsStep ==
  ASSUME ExactlyOnceTypeOK, LibraryInv, PartitionInv, OutputsInv, ~kept', NEW i \in Instance,
         StepOf(i)
  PROVE  OutputsInv'
<1> SUFFICES ASSUME NEW j \in Instance PROVE OutputsOK(j)'
  BY DEF OutputsInv
<1>1. CASE j # i
  <2>1. OutputsOK(j)
    BY DEF OutputsInv
  <2> QED BY <1>1, <2>1, OthersUnchanged DEF OutputsOK, Live
<1>2. CASE j = i
  <2> SUFFICES ASSUME Live(i)'
               PROVE  /\ transaction'[i].outputs \o queue'[i] = Processed(checkpoint'[i])
                      /\ checkpoint'[i].last # NoOffset => position'[i] = checkpoint'[i].last + 1
    BY <1>2 DEF OutputsOK
  <2>1. OutputsOK(i) /\ LibraryOK(i) /\ PartitionOK(i)
    BY DEF OutputsInv, LibraryInv, PartitionInv
  <2>2. CASE BeginTransaction(i)
    <3>1. /\ library[i] = "ready" /\ checkpoint'[i] = EmptyCheckpoint
          /\ UNCHANGED <<queue, transaction>>
      BY <2>2 DEF BeginTransaction, GoTo, Fails, Live, ExactlyOnceTypeOK
    <3>2. transaction[i].outputs = <<>> /\ queue[i] = <<>>
      BY <2>1, <3>1 DEF LibraryOK, NoTransaction
    <3>3. Processed(EmptyCheckpoint) = <<>>
      BY DEF Processed, EmptyCheckpoint
    <3>4. <<>> \o <<>> = <<>>
      OBVIOUS
    <3> QED BY <3>1, <3>2, <3>3, <3>4 DEF EmptyCheckpoint
  <2>3. CASE AssignPartition(i)
    <3>1. /\ UNCHANGED <<pc, library, queue, transaction, checkpoint>> /\ owner = NoInstance
          /\ ~fenced[i]
      BY <2>3 DEF AssignPartition
    <3>2. checkpoint[i].last = NoOffset
      BY <2>1, <3>1, ScenarioAssumption DEF PartitionOK
    <3> QED BY <2>1, <3>1, <3>2 DEF OutputsOK, Live
  <2>4. CASE ProcessMessage(i)
    <3> DEFINE c == checkpoint[i]
               p == position[i]
    <3>1. /\ Live(i) /\ p \in Nat /\ position'[i] = p + 1 /\ queue'[i] = Append(queue[i], p)
          /\ checkpoint'[i] = [first |-> IF c.first = NoOffset THEN p ELSE c.first, last |-> p]
      BY <2>1, <2>4, MessageProcessed
    <3>2. transaction' = transaction
      BY <2>4 DEF ProcessMessage
    <3>3. Processed(checkpoint'[i]) = Append(Processed(c), p)
      <4>1. c \in Messages
        BY DEF ExactlyOnceTypeOK
      <4>2. (c.first = NoOffset <=> c.last = NoOffset) /\ c.first <= c.last
        BY <2>1 DEF LibraryOK
      <4>3. c.last # NoOffset => p = c.last + 1
        BY <2>1, <3>1 DEF OutputsOK
      <4> HIDE DEF c, p
      <4> QED BY <3>1, <4>1, <4>2, <4>3, ProcessedNext
    <3>4. transaction[i].outputs \o Append(queue[i], p)
            = Append(transaction[i].outputs \o queue[i], p)
      <4>1. transaction[i].outputs \in Seq(Nat) /\ queue[i] \in Seq(Nat)
        BY DEF ExactlyOnceTypeOK, Transaction
      <4>2. p \in Nat
        BY <3>1
      <4> HIDE DEF p
      <4> QED BY <4>1, <4>2, QueuedLast
    <3>5. transaction[i].outputs \o queue[i] = Processed(c)
      BY <2>1, <3>1 DEF OutputsOK
    <3>6. transaction'[i].outputs \o queue'[i] = Processed(checkpoint'[i])
      BY <3>1, <3>2, <3>3, <3>4, <3>5
    <3>7. position'[i] = checkpoint'[i].last + 1
      BY <3>1
    <3> QED BY <3>6, <3>7
  <2>5. CASE DeliverQueued(i)
    <3>1. /\ UNCHANGED <<pc, library, checkpoint, position>> /\ queue[i] # <<>>
          /\ queue'[i] = Tail(queue[i])
          /\ transaction'[i].outputs = Append(transaction[i].outputs, Head(queue[i]))
      BY <2>5 DEF DeliverQueued, ExactlyOnceTypeOK
    <3>2. transaction[i].outputs \in Seq(Nat) /\ queue[i] \in Seq(Nat)
      BY DEF ExactlyOnceTypeOK, Transaction
    <3>3. transaction'[i].outputs \o queue'[i] = transaction[i].outputs \o queue[i]
      BY <3>1, <3>2, DeliveredInOrder
    <3> QED BY <2>1, <3>1, <3>3 DEF OutputsOK, Live
  <2>6. CASE SendOffsets(i)
    <3>1. UNCHANGED <<library, checkpoint, position, queue>> /\ pc[i] = "send"
      BY <2>6 DEF SendOffsets
    <3>2. transaction'[i].outputs = transaction[i].outputs
      BY <2>6 DEF SendOffsets, ExactlyOnceTypeOK
    <3> QED BY <2>1, <3>1, <3>2 DEF OutputsOK, Live
  <2>7. CASE EndTransaction(i)
    <3>1. UNCHANGED <<checkpoint, position, queue>> /\ pc[i] = "commit"
      BY <2>7 DEF EndTransaction
    <3>2. transaction' = transaction /\ library[i] \in {"open", "committing"}
      BY <2>7 DEF EndTransaction, Retries, GoTo, Fails, Live, ExactlyOnceTypeOK
    <3> QED BY <2>1, <3>1, <3>2 DEF OutputsOK, Live
  <2>8. CASE BeginCommit(i) \/ FlushTransaction(i) \/ EvictInstance(i)
    <3>1. /\ UNCHANGED <<library, checkpoint, position, queue, transaction>>
          /\ pc[i] \in {"run", "flush"} \/ pc' = pc
      BY <2>8 DEF BeginCommit, FlushTransaction, EvictInstance
    <3> QED BY <2>1, <3>1 DEF OutputsOK, Live
  <2>9. CASE RevokePartition(i) \/ LosePartition(i)
    <3>1. UNCHANGED <<pc, library, checkpoint, queue, transaction>>
      BY <2>9 DEF RevokePartition, LosePartition
    <3>2. checkpoint[i].last = NoOffset
      BY <2>9 DEF RevokePartition, LosePartition
    <3> QED BY <2>1, <3>1, <3>2 DEF OutputsOK, Live
  <2>10. CASE StartInstance(i) \/ PushBack(i)
    BY <2>10 DEF StartInstance, PushBack, GoTo, Live, ExactlyOnceTypeOK
  <2>11. CASE DeliveryFails(i) \/ TransactionTimeout(i)
    BY <2>11 DEF DeliveryFails, TransactionTimeout, Live, ExactlyOnceTypeOK
  <2>12. CASE Gone(i)
    BY <2>12 DEF Gone, GoTo, Live, ExactlyOnceTypeOK
  <2> QED BY <2>2, <2>3, <2>4, <2>5, <2>6, <2>7, <2>8, <2>9, <2>10, <2>11, <2>12
          DEF StepOf, InstanceStep, CloseFailed, CrashInstance
<1> QED BY <1>1, <1>2
\* What is committed is the position of the instance that commits it.
LEMMA EndedAtPosition ==
  ASSUME ExactlyOnceTypeOK, LibraryInv, PartitionInv, OutputsInv, StartInv, NEW i \in Instance,
         pc[i] = "commit", library[i] \in {"open", "committing"}, Ended(i)
  PROVE  /\ transaction[i].offset # NoOffset
         /\ checkpoint[i].first = committed /\ checkpoint[i].last # NoOffset
         /\ committed' = checkpoint[i].last + 1 /\ position[i] = committed'
         /\ output' = output \o Processed(checkpoint[i])
<1>1. LibraryOK(i) /\ OutputsOK(i) /\ StartOK(i) /\ Live(i)
  BY DEF LibraryInv, OutputsInv, StartInv, Live
<1>2. /\ transaction[i].offset # NoOffset /\ transaction[i].offset = checkpoint[i].last + 1
      /\ checkpoint[i].last # NoOffset /\ queue[i] = <<>>
  BY <1>1 DEF LibraryOK
<1>3. checkpoint[i].first = committed
  BY <1>1, <1>2 DEF StartOK
<1>4. /\ position[i] = checkpoint[i].last + 1
      /\ transaction[i].outputs \o queue[i] = Processed(checkpoint[i])
  BY <1>1, <1>2 DEF OutputsOK
<1>5. transaction[i].outputs \o queue[i] = transaction[i].outputs
  <2>1. transaction[i].outputs \in Seq(Nat)
    BY DEF ExactlyOnceTypeOK, Transaction
  <2> QED BY <1>2, <2>1, ConcatEmptySeq
<1> QED BY <1>2, <1>3, <1>4, <1>5 DEF Ended

\* The checkpoint that may be committed still starts at the committed offset.
LEMMA StartStep ==
  ASSUME ExactlyOnceTypeOK, LibraryInv, PartitionInv, OutputsInv, StartInv, ~kept',
         NEW i \in Instance, StepOf(i)
  PROVE  StartInv'
<1> SUFFICES ASSUME NEW j \in Instance PROVE StartOK(j)'
  BY DEF StartInv
<1>1. StartOK(i) /\ LibraryOK(i) /\ PartitionOK(i) /\ OutputsOK(i) /\ i # NoInstance
  BY ScenarioAssumption DEF StartInv, LibraryInv, PartitionInv, OutputsInv
<1>2. CASE j # i
  <2>1. owner' = j <=> owner = j
    BY <1>1, <1>2, OwnerChange, ScenarioAssumption DEF AssignPartition
  <2>2. CASE committed' = committed
    <3>1. StartOK(j)
      BY DEF StartInv
    <3> QED BY <1>2, <2>1, <2>2, <3>1, OthersUnchanged DEF StartOK, Live
  <2>3. CASE committed' # committed
    <3>1. EndTransaction(i)
      BY <2>3, Zenon DEF StepOf, InstanceStep, StartInstance, BeginTransaction, AssignPartition,
         ProcessMessage, DeliverQueued, BeginCommit, FlushTransaction, SendOffsets, CloseFailed,
         LosePartition, PushBack, DeliveryFails, TransactionTimeout, CrashInstance, RevokePartition,
         EvictInstance, Gone
    <3>2. pc[i] = "commit" /\ library[i] \in {"open", "committing"} /\ Ended(i)
      BY <2>3, <3>1 DEF EndTransaction
    <3>3. transaction[i].offset # NoOffset
      BY <3>2, EndedAtPosition
    <3>4. owner # j /\ transaction[j].offset = NoOffset
      BY <1>1, <1>2, <3>3, ScenarioAssumption DEF PartitionOK
    <3> QED BY <1>2, <2>1, <3>4, OthersUnchanged DEF StartOK
  <2> QED BY <2>2, <2>3
<1>3. CASE j = i
  <2> SUFFICES ASSUME owner' = i \/ transaction'[i].offset # NoOffset
               PROVE  /\ Live(i)' =>
                            IF checkpoint'[i].last = NoOffset THEN position'[i] = committed'
                                     ELSE checkpoint'[i].first = committed'
                      /\ library'[i] \in {"ready", "ended"} => position'[i] = committed'
    BY <1>3 DEF StartOK
  <2>1. CASE StartInstance(i)
    <3>1. pc[i] = "down" /\ UNCHANGED <<owner, transaction>>
      BY <2>1 DEF StartInstance
    <3>2. owner # i /\ transaction[i].offset = NoOffset
      BY <1>1, <3>1 DEF LibraryOK, PartitionOK, NoTransaction
    <3> QED BY <3>1, <3>2
  <2>2. CASE BeginTransaction(i)
    <3>1. UNCHANGED <<owner, transaction, position, committed>> /\ pc[i] = "begin"
      BY <2>2 DEF BeginTransaction
    <3>2. CASE library[i] = "ready"
      <4>1. checkpoint'[i] = EmptyCheckpoint /\ library'[i] = "open"
        BY <2>2, <3>2 DEF BeginTransaction, ExactlyOnceTypeOK
      <4> QED BY <1>1, <3>1, <3>2, <4>1 DEF StartOK, EmptyCheckpoint
    <3>3. CASE library[i] # "ready"
      <4>1. pc'[i] = "failing" /\ library' = library
        BY <2>2, <3>3 DEF BeginTransaction, GoTo, Fails, ExactlyOnceTypeOK
      <4> QED BY <1>1, <3>1, <3>3, <4>1 DEF LibraryOK, Live
    <3> QED BY <3>2, <3>3
  <2>3. CASE AssignPartition(i)
    <3>1. /\ UNCHANGED <<pc, library, checkpoint, committed>> /\ owner = NoInstance /\ ~fenced[i]
          /\ position'[i] = committed
      BY <2>3 DEF AssignPartition, ExactlyOnceTypeOK
    <3>2. checkpoint[i].last = NoOffset
      BY <1>1, <3>1 DEF PartitionOK
    <3> QED BY <3>1, <3>2
  <2>4. CASE ProcessMessage(i)
    <3>1. UNCHANGED <<owner, transaction, library, committed>> /\ pc[i] = "run"
      BY <2>4 DEF ProcessMessage
    <3>2. library[i] \notin {"ready", "ended"}
      BY <1>1, <3>1 DEF LibraryOK
    <3>3. ASSUME Live(i)' PROVE checkpoint'[i].first = committed /\ checkpoint'[i].last # NoOffset
      <4>1. /\ Live(i) /\ position[i] \in Nat
            /\ checkpoint'[i] = [first |-> IF checkpoint[i].first = NoOffset THEN position[i]
                                           ELSE checkpoint[i].first, last |-> position[i]]
        BY <1>1, <2>4, <3>3, MessageProcessed
      <4>2. checkpoint'[i].last # NoOffset
        BY <4>1 DEF NoOffset
      <4>3. checkpoint[i].first = NoOffset <=> checkpoint[i].last = NoOffset
        BY <1>1 DEF LibraryOK
      <4>4. IF checkpoint[i].last = NoOffset THEN position[i] = committed
            ELSE checkpoint[i].first = committed
        BY <1>1, <3>1, <4>1 DEF StartOK
      <4> QED BY <4>1, <4>2, <4>3, <4>4
    <3> QED BY <3>1, <3>2, <3>3
  <2>5. CASE SendOffsets(i)
    <3>1. UNCHANGED <<owner, library, checkpoint, position, committed>> /\ pc[i] = "send"
      BY <2>5 DEF SendOffsets
    <3>2. owner = i \/ transaction[i].offset # NoOffset
      BY <3>1, OffsetSent
    <3> QED BY <1>1, <3>1, <3>2 DEF StartOK, Live
  <2>6. CASE EndTransaction(i)
    <3>1. pc[i] = "commit" /\ UNCHANGED <<owner, checkpoint, position>>
      BY <2>6 DEF EndTransaction
    <3>2. CASE /\ library[i] \in {"open", "committing"} /\ Ended(i)
               /\ library'[i] \in {"ready", "ended"}
      BY <3>1, <3>2, EndedAtPosition DEF Live
    <3>3. CASE ~(library[i] \in {"open", "committing"} /\ Ended(i)
                  /\ library'[i] \in {"ready", "ended"})
      <4>1. /\ UNCHANGED <<transaction, committed>>
            /\ \/ library' = library
               \/ library[i] = "open" /\ library'[i] = "committing"
               \/ library[i] = "ended" /\ library'[i] = "ready" /\ pc'[i] = "begin"
        BY <2>6, <3>3 DEF EndTransaction, GoTo, ExactlyOnceTypeOK
      <4> QED BY <1>1, <3>1, <4>1 DEF StartOK, Live
    <3> QED BY <3>2, <3>3
  <2>7. CASE DeliverQueued(i)
    <3>1. UNCHANGED <<pc, owner, library, checkpoint, position, committed>>
      BY <2>7 DEF DeliverQueued
    <3>2. transaction'[i].offset = transaction[i].offset
      BY <2>7 DEF DeliverQueued, ExactlyOnceTypeOK
    <3> QED BY <1>1, <3>1, <3>2 DEF StartOK, Live
  <2>8. CASE BeginCommit(i) \/ FlushTransaction(i)
    <3>1. /\ UNCHANGED <<owner, transaction, library, checkpoint, position, committed>>
          /\ pc[i] \in {"run", "flush"}
      BY <2>8 DEF BeginCommit, FlushTransaction
    <3> QED BY <1>1, <3>1 DEF StartOK, Live
  <2>9. CASE PushBack(i)
    <3>1. UNCHANGED library /\ pc[i] = "run" /\ pc'[i] = "begin"
      BY <2>9 DEF PushBack, GoTo, ExactlyOnceTypeOK
    <3> QED BY <1>1, <3>1 DEF LibraryOK, Live
  <2>10. CASE EvictInstance(i)
    <3>1. /\ UNCHANGED <<pc, transaction, library, checkpoint, position, committed>>
          /\ owner = i
      BY <2>10 DEF EvictInstance
    <3> QED BY <1>1, <3>1 DEF StartOK, Live
  <2>11. CASE RevokePartition(i) \/ LosePartition(i)
    <3>1. pc[i] = "run" /\ UNCHANGED transaction /\ owner' # i
      BY <1>1, <2>11 DEF RevokePartition, LosePartition, PartitionOK
    <3> QED BY <1>1, <3>1 DEF LibraryOK
  <2>12. CASE DeliveryFails(i) \/ TransactionTimeout(i)
    <3>1. library'[i] = "error"
      BY <2>12 DEF DeliveryFails, TransactionTimeout, ExactlyOnceTypeOK
    <3> QED BY <3>1 DEF Live
  <2>13. CASE Gone(i)
    <3>1. library'[i] = "none"
      BY <2>13 DEF Gone, ExactlyOnceTypeOK
    <3> QED BY <3>1 DEF Live
  <2> QED BY <2>1, <2>2, <2>3, <2>4, <2>5, <2>6, <2>7, <2>8, <2>9, <2>10, <2>11, <2>12, <2>13
          DEF StepOf, InstanceStep, CloseFailed, CrashInstance
<1> QED BY <1>2, <1>3

\* A transaction that ends adds the outputs of the messages whose offsets it commits.
LEMMA UniqueStep ==
  ASSUME ExactlyOnceTypeOK, LibraryInv, PartitionInv, OutputsInv, StartInv, Unique,
         MaxOffset \in Nat,
         NEW i \in Instance, StepOf(i)
  PROVE  Unique'
<1>1. CASE UNCHANGED <<output, committed>>
  BY <1>1 DEF Unique
<1>2. CASE ~UNCHANGED <<output, committed>>
  <2>1. EndTransaction(i)
    BY <1>2, Zenon DEF StepOf, InstanceStep, StartInstance, BeginTransaction, AssignPartition,
       ProcessMessage, DeliverQueued, BeginCommit, FlushTransaction, SendOffsets, CloseFailed,
       LosePartition, PushBack, DeliveryFails, TransactionTimeout, CrashInstance, RevokePartition,
       EvictInstance, Gone
  <2>2. pc[i] = "commit" /\ library[i] \in {"open", "committing"} /\ Ended(i)
    BY <1>2, <2>1 DEF EndTransaction
  <2>3. PICK first \in Nat, last \in Nat :
           /\ first = committed /\ committed' = last + 1 /\ first <= last
           /\ output' = output \o Offsets(first, last)
    <3>1. /\ checkpoint[i].first = committed /\ checkpoint[i].last # NoOffset
          /\ committed' = checkpoint[i].last + 1 /\ output' = output \o Processed(checkpoint[i])
      BY <2>2, EndedAtPosition
    <3>2. checkpoint[i].last \in Nat /\ committed \in Nat
      BY <3>1 DEF ExactlyOnceTypeOK, Messages, NoOffset
    <3>3. checkpoint[i].first <= checkpoint[i].last
      BY DEF LibraryInv, LibraryOK
    <3> QED BY <3>1, <3>2, <3>3 DEF Processed
  <2>4. output = [n \in 1..first |-> n - 1]
    BY <2>3 DEF Unique
  <2>5. [n \in 1..first |-> n - 1] \o Offsets(first, last) = [n \in 1..last + 1 |-> n - 1]
    BY <2>3 DEF Offsets
  <2> QED BY <2>3, <2>4, <2>5 DEF Unique
<1> QED BY <1>1, <1>2
-----------------------------------------------------------------------------
\* Every step of the transactions keeps the invariant.
LEMMA ExactlyOnceStep ==
  ASSUME ExactlyOnceInv, MaxOffset \in Nat, UNCHANGED scenario,
         ExactlyOnceNext \/ UNCHANGED eoVars
  PROVE  ExactlyOnceInv'
<1>1. ASSUME NEW i \in Instance, StepOf(i) PROVE ExactlyOnceInv'
  <2>1. ExactlyOnceTypeOK' /\ LibraryInv'
    BY <1>1, TypeStep, LibraryStep DEF ExactlyOnceInv
  <2>2. kept => kept'
    BY <1>1, Zenon DEF StepOf, InstanceStep, StartInstance, BeginTransaction, AssignPartition,
       ProcessMessage, DeliverQueued, BeginCommit, FlushTransaction, SendOffsets,
       EndTransaction, CloseFailed, LosePartition, PushBack, DeliveryFails, TransactionTimeout,
       CrashInstance, RevokePartition, EvictInstance, Gone
  <2>3. ASSUME ~kept' PROVE (PartitionInv /\ OutputsInv /\ StartInv /\ Unique)'
    <3>1. ExactlyOnceTypeOK /\ LibraryInv /\ PartitionInv /\ OutputsInv /\ StartInv /\ Unique
      BY <2>2, <2>3 DEF ExactlyOnceInv
    <3> QED BY <1>1, <2>3, <3>1, PartitionStep, OutputsStep, StartStep, UniqueStep
  <2> QED BY <2>1, <2>3 DEF ExactlyOnceInv
<1>2. ASSUME AbortOrphan \/ UNCHANGED eoVars PROVE ExactlyOnceInv'
  <2>1. /\ UNCHANGED <<pc, checkpoint, position, active, error, attempts, library, queue,
                       transaction, owner, fenced, committed, output, kept>>
        /\ orphans' \subseteq orphans
    BY <1>2 DEF AbortOrphan, eoVars
  <2>2. ExactlyOnceTypeOK'
    BY <2>1 DEF ExactlyOnceInv, ExactlyOnceTypeOK, MaxOffset, Messages, Transaction
  <2>3. LibraryInv'
    BY <2>1 DEF ExactlyOnceInv, LibraryInv, LibraryOK, Live
  <2>4. PartitionInv => PartitionInv'
    BY <2>1 DEF PartitionInv, PartitionOK
  <2>5. OutputsInv => OutputsInv'
    BY <2>1 DEF OutputsInv, OutputsOK, Live
  <2>6. StartInv => StartInv'
    BY <2>1 DEF StartInv, StartOK, Live
  <2>7. Unique => Unique'
    BY <2>1 DEF Unique
  <2> QED BY <2>1, <2>2, <2>3, <2>4, <2>5, <2>6, <2>7 DEF ExactlyOnceInv
<1> QED BY <1>1, <1>2 DEF ExactlyOnceNext, StepOf

\* The initial states.
LEMMA ExactlyOnceStart ==
  ASSUME ExactlyOnceInit, MaxOffset \in Nat
  PROVE  ExactlyOnceInv
<1>1. ExactlyOnceTypeOK
  <2>1. /\ EmptyCheckpoint \in Messages /\ NoTransaction \in Transaction
        /\ NoOffset \in NoOffset..MaxOffset
        /\ 0 \in 0..MaxOffset /\ 0 \in 0..Attempts
    BY DEF EmptyCheckpoint, Messages, NoTransaction, Transaction, NoOffset, Attempts
  <2>2. \A T : \A v \in T : [i \in Instance |-> v] \in [Instance -> T]
    OBVIOUS
  <2>3. /\ checkpoint \in [Instance -> Messages] /\ transaction \in [Instance -> Transaction]
        /\ position \in [Instance -> NoOffset..MaxOffset] /\ attempts \in [Instance -> 0..Attempts]
    BY <2>1, <2>2 DEF ExactlyOnceInit
  <2>4. /\ pc \in [Instance -> Steps \cup {"down", "failing"}]
        /\ library \in [Instance -> LibraryStates]
        /\ queue \in [Instance -> Seq(Nat)]
    BY DEF ExactlyOnceInit, LibraryStates
  <2>5. /\ active \in [Instance -> BOOLEAN] /\ error \in [Instance -> BOOLEAN]
        /\ fenced \in [Instance -> BOOLEAN]
    BY DEF ExactlyOnceInit
  <2>6. /\ orphans \subseteq Transaction /\ owner \in Instance \cup {NoInstance}
        /\ committed \in 0..MaxOffset /\ output \in Seq(Nat)
    BY <2>1 DEF ExactlyOnceInit
  <2>7. kept \in BOOLEAN
    BY DEF ExactlyOnceInit
  <2> QED BY <2>3, <2>4, <2>5, <2>6, <2>7 DEF ExactlyOnceTypeOK
<1>2. LibraryInv
  BY DEF ExactlyOnceInit, LibraryInv, LibraryOK, EmptyCheckpoint, NoTransaction, NoOffset, Live
<1>3. PartitionInv /\ StartInv
  BY ScenarioAssumption DEF ExactlyOnceInit, PartitionInv, PartitionOK, StartInv, StartOK, Live,
     EmptyCheckpoint, NoTransaction, NoOffset
<1>4. OutputsInv
  BY DEF ExactlyOnceInit, OutputsInv, OutputsOK, Live
<1>5. Unique
  BY DEF ExactlyOnceInit, Unique
<1> QED BY <1>1, <1>2, <1>3, <1>4, <1>5 DEF ExactlyOnceInv

\* The invariant of every behaviour of the application, whatever part of the system its
\* scenario is about.
LEMMA TransactionsInvariant == Spec => [](scenario \in Scenarios /\ ExactlyOnceInv)
<1>1. Init => scenario \in Scenarios /\ ExactlyOnceInv
  BY MessagesNat, ExactlyOnceStart DEF Init
<1>2. scenario \in Scenarios /\ ExactlyOnceInv /\ [Next]_applicationVars
      => (scenario \in Scenarios /\ ExactlyOnceInv)'
  <2> SUFFICES ASSUME scenario \in Scenarios, ExactlyOnceInv, [Next]_applicationVars
               PROVE  (scenario \in Scenarios /\ ExactlyOnceInv)'
    OBVIOUS
  <2>1. UNCHANGED scenario /\ (ExactlyOnceNext \/ UNCHANGED eoVars)
    BY Zenon DEF Next, applicationVars, BesidesExactlyOnce, BesidesReplicator, BesidesProcesses,
       BesidesConnector, BesidesTracker, BesidesBroker, BesidesSink, BesidesGraph, BesidesTopics
  <2> QED BY <2>1, MessagesNat, ExactlyOnceStep
<1> QED BY <1>1, <1>2, PTL DEF Spec

\* In an application with processing_guarantee="exactly-once", whatever fails and whichever
\* calls of InternalProducer are retried: every variable has a value that it may have, and
\* the library's transaction is in a state that fits the step of Checkpoint.commit() and of
\* init_checkpoint() at which the instance is.
THEOREM TransactionsTyped == Spec => [](Transactional => ExactlyOnceTypeOK /\ LibraryInv)
<1>1. ExactlyOnceInv => (Transactional => ExactlyOnceTypeOK /\ LibraryInv)
  BY DEF ExactlyOnceInv
<1> QED BY <1>1, TransactionsInvariant, PTL

\* "The outputs are guaranteed to be unique for every message": Checkpoint.commit() with its
\* transaction gives read_committed consumers the outputs of the messages before the
\* committed offset, each once and in order, through crashes, lost answers, time-outs,
\* fencing and retried calls, unless a checkpoint has outlived its assignment.
THEOREM OutputsUniqueHolds == Spec => []OutputsUnique
<1>1. ExactlyOnceInv => OutputsUnique
  BY DEF ExactlyOnceInv, OutputsUnique, Unique
<1> QED BY <1>1, TransactionsInvariant, PTL

-----------------------------------------------------------------------------
(***************************************************************************)
(* The replicator.  A commit is of the offset that was stored last, and a  *)
(* flush that returns without an error has emptied the queue.  So the      *)
(* invariant says of every instance without an error that the messages up  *)
(* to the one it stored, and up to the one it reads next, are copied,      *)
(* skipped or in its queue.                                                *)
(***************************************************************************)

\* The messages up to one are copied, skipped, or in the queue of an instance.
Kept(i, last) == 0..last \subseteq replicated \cup skipped \cup Range(replica[i].queue)

\* What an instance may yet commit, and what it goes on after, is kept.
ReplicaOK(i) ==
    replica[i].pc \in {"run", "stopping"} /\ ~replica[i].error =>
        Kept(i, replica[i].stored) /\ Kept(i, replica[i].position - 1)

\* The inductive invariant.
ReplicaInv ==
    /\ ReplicatorTypeOK
    /\ \A i \in Instance : ReplicaOK(i)
    /\ 0..saved - 1 \subseteq replicated \cup skipped

-----------------------------------------------------------------------------
\* The bounds of a scenario are numbers.
LEMMA BoundsNat == ASSUME scenario \in Scenarios PROVE MaxOffset \in Nat
BY ScenariosAssumption DEF MaxOffset

\* What a queue has after a message is appended to it.
LEMMA RangeOfAppend ==
  ASSUME NEW T, NEW q \in Seq(T), NEW e \in T
  PROVE  Range(Append(q, e)) = Range(q) \cup {e}
BY AppendProperties DEF Range

\* What a queue has besides its head.
LEMMA RangeOfTail ==
  ASSUME NEW T, NEW q \in Seq(T), q # <<>>
  PROVE  /\ Head(q) \in T /\ Tail(q) \in Seq(T)
         /\ Range(q) = {Head(q)} \cup Range(Tail(q))
<1>1. /\ Head(q) = q[1] /\ Tail(q) \in Seq(T) /\ Len(q) \in Nat \ {0} /\ Len(Tail(q)) = Len(q) - 1
      /\ \A n \in 1..Len(Tail(q)) : Tail(q)[n] = q[n + 1]
  BY HeadTailProperties, EmptySeq
<1>2. q[1] \in T
  BY <1>1
<1>3. \A n \in 1..Len(q) : n = 1 \/ (n - 1 \in 1..Len(Tail(q)) /\ q[n] = Tail(q)[n - 1])
  BY <1>1
<1>4. DOMAIN q = 1..Len(q) /\ DOMAIN Tail(q) = 1..Len(Tail(q))
  BY <1>1
<1>5. ASSUME NEW n \in DOMAIN q PROVE q[n] \in {Head(q)} \cup Range(Tail(q))
  BY <1>1, <1>3, <1>4 DEF Range
<1>6. {Head(q)} \cup Range(Tail(q)) \subseteq Range(q)
  BY <1>1, <1>4 DEF Range
<1> QED BY <1>1, <1>2, <1>5, <1>6 DEF Range

\* A step of an instance of the replicator, or a fault of it.
ReplicaStepOf(i) ==
    \/ ReplicaStep(i) \/ ReplicaDeliveryFails(i) \/ RevokeSource(i) \/ EvictReplica(i)
    \/ StopReplicator(i)

\* A longer topic has more offsets.
LEMMA LongerTopic ==
  ASSUME NEW m \in Nat, NEW n \in Nat, m <= n
  PROVE  /\ NoOffset..m \subseteq NoOffset..n /\ NoOffset..m - 1 \subseteq NoOffset..n - 1
         /\ 0..m - 1 \subseteq 0..n - 1 /\ 0..m \subseteq 0..n
BY DEF NoOffset

\* A step of an instance changes the state of that instance alone, and takes nothing
\* from the target topic.
LEMMA ReplicaAlone ==
  ASSUME ReplicatorTypeOK, NEW i \in Instance, ReplicaStepOf(i)
  PROVE  /\ \A j \in Instance \ {i} : replica'[j] = replica[j]
         /\ replicated \subseteq replicated' /\ skipped \subseteq skipped'
         /\ logEnd' = logEnd
<1> USE DEF Becomes, Closed, ReplicatorTypeOK
<1>1. CASE ReplicaStep(i)
  BY <1>1 DEF ReplicaStep, StartReplicator, AssignSource, ReplicateMessage, DeliverReplica,
     CommitReplica, LoseSource, CloseReplicator
<1>2. CASE ~ReplicaStep(i)
  BY <1>2 DEF ReplicaStepOf, ReplicaDeliveryFails, RevokeSource, EvictReplica, StopReplicator
<1> QED BY <1>1, <1>2

\* The types after a step, if the state of the instance is of its type.
LEMMA ReplicaTyped ==
  ASSUME ReplicatorTypeOK, MaxOffset \in Nat, UNCHANGED <<scenario, logEnd>>,
         NEW i \in Instance, NEW r \in Replica, replica' = [replica EXCEPT ![i] = r],
         reader' \in Instance \cup {NoInstance}, saved' \in 0..logEnd \cup {NoOffset},
         replicated' \subseteq 0..logEnd - 1, skipped' \subseteq 0..logEnd - 1
  PROVE  ReplicatorTypeOK' /\ replica'[i] = r
BY DEF ReplicatorTypeOK, Replica, MaxOffset

\* What one instance does with its messages.
LEMMA ReplicaStepKeeps ==
  ASSUME ReplicaInv, MaxOffset \in Nat, UNCHANGED scenario, NEW i \in Instance, ReplicaStepOf(i)
  PROVE  /\ ReplicatorTypeOK' /\ ReplicaOK(i)'
         /\ 0..saved' - 1 \subseteq replicated' \cup skipped'
<1> DEFINE Goal == /\ ReplicatorTypeOK' /\ ReplicaOK(i)'
                   /\ 0..saved' - 1 \subseteq replicated' \cup skipped'
<1> PICK r : r = replica[i]
  OBVIOUS
<1>1. r \in Replica /\ logEnd \in Nat
  BY DEF ReplicaInv, ReplicatorTypeOK
<1>2. /\ r \in Replica /\ logEnd \in Nat /\ saved \in 0..logEnd \cup {NoOffset}
      /\ reader \in Instance \cup {NoInstance} /\ replica \in [Instance -> Replica]
      /\ replicated \subseteq 0..logEnd - 1 /\ skipped \subseteq 0..logEnd - 1
      /\ 0..saved - 1 \subseteq replicated \cup skipped
  BY DEF ReplicaInv, ReplicatorTypeOK
<1>3. /\ r.pc \in {"down", "run", "stopping", "failing"} /\ r.position \in NoOffset..logEnd
      /\ r.stored \in NoOffset..logEnd - 1 /\ r.queue \in Seq(0..logEnd - 1) /\ r.error \in BOOLEAN
  BY <1>2 DEF Replica
<1>4. r.pc \in {"run", "stopping"} /\ ~r.error =>
         /\ 0..r.stored \subseteq replicated \cup skipped \cup Range(r.queue)
         /\ 0..r.position - 1 \subseteq replicated \cup skipped \cup Range(r.queue)
  BY DEF ReplicaInv, ReplicaOK, Kept
<1>5. /\ ReplicatorTypeOK /\ NewReplica \in Replica /\ Range(<<>>) = {}
      /\ 0..NoOffset = {} /\ 0..NoOffset - 1 = {}
  BY <1>2 DEF ReplicaInv, NewReplica, Replica, NoOffset, Range
<1>6. ASSUME NEW n \in Replica, replica' = [replica EXCEPT ![i] = n], logEnd' = logEnd,
             reader' \in Instance \cup {NoInstance}, saved' \in 0..logEnd \cup {NoOffset},
             replicated' \subseteq 0..logEnd - 1, skipped' \subseteq 0..logEnd - 1,
             0..saved' - 1 \subseteq replicated' \cup skipped',
             n.pc \in {"run", "stopping"} /\ ~n.error =>
               /\ 0..n.stored \subseteq replicated' \cup skipped' \cup Range(n.queue)
               /\ 0..n.position - 1 \subseteq replicated' \cup skipped' \cup Range(n.queue)
      PROVE  Goal
  BY <1>5, <1>6, ReplicaTyped DEF ReplicaOK, Kept
<1> SUFFICES Goal
  OBVIOUS
<1> HIDE DEF Goal
<1>7. CASE StartReplicator(i)
  <2>1. PICK s \in {"run", "failing"} :
          /\ replica' = [replica EXCEPT ![i] = [NewReplica EXCEPT !.pc = s]]
          /\ UNCHANGED <<logEnd, reader, replicated, skipped, saved>>
    BY <1>7 DEF StartReplicator, Becomes
  <2>2. PICK n : n = [NewReplica EXCEPT !.pc = s]
    OBVIOUS
  <2>3. n \in Replica /\ n.stored = NoOffset /\ n.position = NoOffset
    BY <1>5, <2>2 DEF NewReplica, Replica
  <2>4. /\ replica' = [replica EXCEPT ![i] = n]
        /\ UNCHANGED <<logEnd, reader, replicated, skipped, saved>>
    BY <2>1, <2>2
  <2> QED BY <1>2, <1>5, <1>6, <2>3, <2>4
<1>8. CASE AssignSource(i)
  <2>1. PICK p : p = IF saved = NoOffset THEN IF scenario.reset = "earliest" THEN 0 ELSE logEnd
                     ELSE saved
    OBVIOUS
  <2>2. replica' = [replica EXCEPT ![i] = [r EXCEPT !.position = p]]
    BY Zenon, <1>8, <2>1 DEF AssignSource, Becomes
  <2>3. /\ reader' = i /\ UNCHANGED <<logEnd, replicated, saved>>
        /\ skipped' = IF saved = NoOffset
                      THEN skipped \cup 0..(IF scenario.reset = "earliest" THEN 0 ELSE logEnd) - 1
                      ELSE skipped
    BY <1>8 DEF AssignSource
  <2>4. p \in 0..logEnd /\ skipped \subseteq skipped' /\ skipped' \subseteq 0..logEnd - 1
        /\ 0..p - 1 \subseteq replicated \cup skipped'
    BY <1>2, <2>1, <2>3 DEF NoOffset
  <2>5. PICK n : n = [r EXCEPT !.position = p]
    OBVIOUS
  <2>6. /\ n.stored = r.stored /\ n.position = p /\ n.queue = r.queue
        /\ n.error = r.error /\ n.pc = r.pc
    BY <1>1, <2>5 DEF Replica
  <2>7. n \in Replica
    BY <1>1, <2>4, <2>5 DEF Replica, NoOffset
  <2>8. replica' = [replica EXCEPT ![i] = n]
    BY <2>2, <2>5
  <2> QED BY <1>2, <1>4, <1>6, <2>3, <2>4, <2>6, <2>7, <2>8
<1>9. CASE ReplicateMessage(i)
  <2>1. PICK n :
        /\ replica' = [replica EXCEPT ![i] = n]
        /\ n = [pc       |-> IF r.position > r.stored /\ ~r.error THEN r.pc ELSE "failing",
                position |-> r.position + 1,
                stored   |-> IF r.position > r.stored THEN r.position ELSE r.stored,
                queue    |-> IF r.position > r.stored /\ ~r.error THEN Append(r.queue, r.position)
                             ELSE r.queue,
                error    |-> r.error /\ ~(r.position > r.stored)]
    BY <1>9 DEF ReplicateMessage, Becomes
  <2>2. r.position \in 0..logEnd - 1 /\ UNCHANGED <<logEnd, reader, replicated, skipped, saved>>
    BY <1>9 DEF ReplicateMessage
  <2>3. /\ r.position + 1 \in NoOffset..logEnd /\ r.position \in NoOffset..logEnd - 1
        /\ Append(r.queue, r.position) \in Seq(0..logEnd - 1)
    BY <1>1, <1>3, <2>2 DEF NoOffset
  <2>4. n \in Replica
    BY <1>3, <2>1, <2>3 DEF Replica
  <2>5. CASE n.pc \in {"run", "stopping"}
    <3>1. /\ n.queue = Append(r.queue, r.position) /\ n.stored = r.position /\ ~r.error
          /\ r.pc = n.pc
          /\ n.position = r.position + 1
      BY <2>1, <2>5
    <3>2. Range(n.queue) = Range(r.queue) \cup {r.position}
      <4>1. Range(Append(r.queue, r.position)) = Range(r.queue) \cup {r.position}
        <5>0. PICK T : T = 0..logEnd - 1
          OBVIOUS
        <5>1. r.queue \in Seq(T) /\ r.position \in T
          BY <1>3, <2>2, <5>0
        <5>2. ASSUME NEW q \in Seq(T), NEW o \in T
              PROVE  Range(Append(q, o)) = Range(q) \cup {o}
          BY RangeOfAppend
        <5> QED BY <5>1, <5>2
      <4> QED BY <3>1, <4>1
    <3>3. 0..r.position = (0..r.position - 1) \cup {r.position} /\ n.position - 1 = r.position
      BY <2>2, <3>1
    <3> QED BY <1>2, <1>4, <1>6, <2>1, <2>2, <2>4, <2>5, <3>1, <3>2, <3>3
  <2> QED BY <1>2, <1>6, <2>1, <2>2, <2>4, <2>5
<1>10. CASE DeliverReplica(i)
  <2>1. PICK n : n = [r EXCEPT !.queue = Tail(@)] /\ replica' = [replica EXCEPT ![i] = n]
    BY <1>10 DEF DeliverReplica, Becomes
  <2>2. /\ r.queue # <<>> /\ replicated' = replicated \cup {Head(r.queue)}
        /\ UNCHANGED <<logEnd, reader, skipped, saved>>
    BY <1>10 DEF DeliverReplica
  <2>3. /\ Head(r.queue) \in 0..logEnd - 1 /\ Tail(r.queue) \in Seq(0..logEnd - 1)
        /\ Range(r.queue) = {Head(r.queue)} \cup Range(Tail(r.queue))
    BY <1>3, <2>2, RangeOfTail
  <2>4. n \in Replica
    BY <1>1, <2>1, <2>3 DEF Replica
  <2>5. /\ n.pc = r.pc /\ n.position = r.position /\ n.stored = r.stored /\ n.error = r.error
        /\ n.queue = Tail(r.queue)
    BY <1>1, <2>1 DEF Replica
  <2> QED BY <1>2, <1>4, <1>6, <2>1, <2>2, <2>3, <2>4, <2>5
<1>11. CASE ReplicaDeliveryFails(i)
  <2>1. PICK n : /\ n = [pc |-> r.pc, position |-> r.position, stored |-> r.stored,
                         queue |-> Tail(r.queue), error |-> TRUE]
                 /\ replica' = [replica EXCEPT ![i] = n]
    BY <1>11 DEF ReplicaDeliveryFails, Becomes
  <2>2. r.queue # <<>> /\ UNCHANGED <<logEnd, reader, replicated, skipped, saved>>
    BY <1>11 DEF ReplicaDeliveryFails
  <2>3. Tail(r.queue) \in Seq(0..logEnd - 1)
    BY <1>3, <2>2, RangeOfTail
  <2>4. n \in Replica /\ n.error
    BY <1>3, <2>1, <2>3 DEF Replica
  <2> QED BY <1>2, <1>6, <2>1, <2>2, <2>4
<1>12. CASE CommitReplica(i)
  <2>1. r.stored # NoOffset /\ UNCHANGED <<logEnd, reader, replicated, skipped>>
    BY <1>12 DEF CommitReplica
  <2>2. Flushes(r) /\ saved' = r.stored + 1 =>
           saved' \in 0..logEnd \cup {NoOffset} /\ 0..saved' - 1 \subseteq replicated \cup skipped
    <3>1. r.pc \in {"run", "stopping"}
      BY <1>12 DEF CommitReplica
    <3>2. Flushes(r) => 0..r.stored \subseteq replicated \cup skipped
      BY <1>4, <1>5, <3>1 DEF Flushes
    <3>3. PICK o \in 0..logEnd - 1 : o = r.stored
      BY <1>1, <1>3, <2>1 DEF NoOffset
    <3>4. o + 1 \in 0..logEnd /\ o + 1 - 1 = o
      BY <1>1
    <3> QED BY <3>2, <3>3, <3>4
  <2>3. CASE /\ Flushes(r) /\ saved' = r.stored + 1
             /\ replica' = [replica EXCEPT ![i] = [r EXCEPT !.stored = NoOffset]]
    <3>1. PICK n : n = [r EXCEPT !.stored = NoOffset]
      OBVIOUS
    <3>2. n \in Replica
      BY <1>1, <3>1 DEF Replica, NoOffset
    <3>3. /\ n.stored = NoOffset /\ n.pc = r.pc /\ n.position = r.position /\ n.error = r.error
          /\ n.queue = r.queue
      BY <1>1, <3>1 DEF Replica
    <3>4. r.queue = <<>> /\ ~r.error /\ replica' = [replica EXCEPT ![i] = n]
      BY <2>3, <3>1 DEF Flushes
    <3>5. /\ saved' \in 0..logEnd \cup {NoOffset} /\ 0..saved' - 1 \subseteq replicated \cup skipped
          /\ reader' \in Instance \cup {NoInstance}
      BY <1>2, <2>1, <2>3, <2>2
    <3> QED BY <1>2, <1>4, <1>5, <1>6, <2>1, <3>2, <3>3, <3>4, <3>5
  <2>4. CASE /\ saved' = saved \/ (Flushes(r) /\ saved' = r.stored + 1)
             /\ replica' = [replica EXCEPT ![i] =
                              [pc |-> "failing", position |-> r.position, stored |-> r.stored,
                               queue |-> r.queue, error |-> FALSE]]
    <3>1. PICK n : n = [pc |-> "failing", position |-> r.position, stored |-> r.stored,
                        queue |-> r.queue, error |-> FALSE]
      OBVIOUS
    <3>2. n \in Replica /\ n.pc = "failing"
      BY <1>3, <3>1 DEF Replica
    <3>3. replica' = [replica EXCEPT ![i] = n]
      BY <2>4, <3>1
    <3>4. saved' \in 0..logEnd \cup {NoOffset} /\ 0..saved' - 1 \subseteq replicated \cup skipped
      <4>1. CASE saved' = saved
        BY <1>2, <4>1
      <4>2. CASE Flushes(r) /\ saved' = r.stored + 1
        BY <2>2, <4>2
      <4> QED BY <2>4, <4>1, <4>2
    <3> QED BY <1>2, <1>6, <2>1, <3>2, <3>3, <3>4
  <2> QED BY <1>12, <2>3, <2>4 DEF CommitReplica, Becomes
<1>13. CASE LoseSource(i) \/ RevokeSource(i)
  <2>1. PICK n : n = [r EXCEPT !.position = NoOffset]
    OBVIOUS
  <2>2. /\ n \in Replica /\ n.stored = r.stored /\ n.position = NoOffset /\ n.queue = r.queue
        /\ n.error = r.error /\ n.pc = r.pc
    BY <1>1, <2>1 DEF Replica, NoOffset
  <2>3. /\ replica' = [replica EXCEPT ![i] = n] /\ reader' \in Instance \cup {NoInstance}
        /\ UNCHANGED <<logEnd, replicated, skipped, saved>>
    BY <1>2, <1>13, <2>1 DEF LoseSource, RevokeSource, Becomes
  <2> QED BY <1>2, <1>4, <1>5, <1>6, <2>2, <2>3
<1>14. CASE EvictReplica(i)
  <2>1. replica' = [replica EXCEPT ![i] = r]
    BY <1>2, <1>14 DEF EvictReplica
  <2> QED BY <1>2, <1>4, <1>6, <1>14, <2>1 DEF EvictReplica
<1>15. CASE StopReplicator(i)
  <2>1. PICK n : n = [r EXCEPT !.pc = "stopping"]
    OBVIOUS
  <2>2. /\ n \in Replica /\ n.stored = r.stored /\ n.position = r.position /\ n.queue = r.queue
        /\ n.error = r.error
    BY <1>1, <2>1 DEF Replica
  <2>3. replica' = [replica EXCEPT ![i] = n] /\ r.pc = "run"
    BY <1>2, <1>15, <2>1 DEF StopReplicator, Becomes
  <2> QED BY <1>2, <1>4, <1>6, <1>15, <2>2, <2>3 DEF StopReplicator
<1>16. CASE CloseReplicator(i)
  <2>1. /\ replica' = [replica EXCEPT ![i] = NewReplica] /\ reader' \in Instance \cup {NoInstance}
        /\ UNCHANGED <<logEnd, replicated, skipped, saved>>
    BY <1>2, <1>16 DEF CloseReplicator, Closed, Becomes, ClosingOffset
  <2> QED BY <1>2, <1>5, <1>6, <2>1 DEF NewReplica
<1>17. CASE ReplicaStep(i)
  BY <1>7, <1>8, <1>9, <1>10, <1>13, <1>16, <1>12, <1>17 DEF ReplicaStep
<1> QED BY <1>11, <1>13, <1>14, <1>15, <1>17 DEF ReplicaStepOf

\* The replicator's invariant after any step of the application.
LEMMA ReplicatorStep ==
  ASSUME ReplicaInv, MaxOffset \in Nat, UNCHANGED scenario,
         ReplicatorNext \/ UNCHANGED replicatorVars
  PROVE  ReplicaInv'
<1>1. ASSUME NEW i \in Instance, ReplicaStepOf(i) PROVE ReplicaInv'
  <2>1. /\ ReplicatorTypeOK' /\ ReplicaOK(i)' /\ 0..saved' - 1 \subseteq replicated' \cup skipped'
    BY <1>1, ReplicaStepKeeps
  <2>2. /\ \A j \in Instance \ {i} : replica'[j] = replica[j]
        /\ replicated \subseteq replicated' /\ skipped \subseteq skipped'
    BY <1>1, ReplicaAlone DEF ReplicaInv
  <2>3. ASSUME NEW j \in Instance \ {i} PROVE ReplicaOK(j)'
    BY <2>2 DEF ReplicaInv, ReplicaOK, Kept
  <2> QED BY <2>1, <2>3 DEF ReplicaInv
<1>2. CASE SourceGrows \/ UNCHANGED replicatorVars
  <2>1. /\ UNCHANGED <<replica, reader, replicated, skipped, saved>>
        /\ logEnd' \in logEnd..MaxOffset
    BY <1>2 DEF SourceGrows, replicatorVars, ReplicaInv, ReplicatorTypeOK
  <2>2. ReplicatorTypeOK'
    <3>1. logEnd \in Nat /\ MaxOffset' = MaxOffset /\ logEnd' \in Nat /\ logEnd <= logEnd'
      BY <2>1 DEF ReplicaInv, ReplicatorTypeOK, MaxOffset
    <3>2. /\ saved \in 0..logEnd \cup {NoOffset} /\ reader \in Instance \cup {NoInstance}
          /\ replica \in [Instance -> Replica]
          /\ replicated \subseteq 0..logEnd - 1 /\ skipped \subseteq 0..logEnd - 1
      BY DEF ReplicaInv, ReplicatorTypeOK
    <3>3. /\ NoOffset..logEnd \subseteq NoOffset..logEnd'
          /\ NoOffset..logEnd - 1 \subseteq NoOffset..logEnd' - 1
          /\ 0..logEnd - 1 \subseteq 0..logEnd' - 1 /\ 0..logEnd \subseteq 0..logEnd'
      BY <3>1, LongerTopic
    <3>4. ASSUME NEW q \in Seq(0..logEnd - 1) PROVE q \in Seq(0..logEnd' - 1)
      BY <3>3, SeqMonotonic
    <3>5. Replica \subseteq Replica'
      BY <3>3, <3>4 DEF Replica
    <3>6. replica \in [Instance -> Replica']
      BY <3>5, <3>2
    <3>7. logEnd' \in 0..MaxOffset'
      BY <2>1, <3>1
    <3> QED BY <2>1, <3>3, <3>2, <3>6, <3>7 DEF ReplicatorTypeOK
  <2>3. ASSUME NEW i \in Instance PROVE ReplicaOK(i)'
    BY <2>1 DEF ReplicaInv, ReplicaOK, Kept
  <2> QED BY <2>1, <2>2, <2>3 DEF ReplicaInv
<1> QED BY <1>1, <1>2 DEF ReplicatorNext, ReplicaStepOf

\* A KafkaReplicatorSource copies at least once: checkpoint() flushes the producer before it
\* commits, so that no committed offset is past a message that is not in the target topic,
\* with failed deliveries, lost answers, removed instances that go on to commit, crashes
\* and restarts.
THEOREM ReplicatedAtLeastOnceHolds ==
    Spec => []((Replicating => ReplicatorTypeOK) /\ ReplicatedAtLeastOnce)
<1>1. Init => scenario \in Scenarios /\ ReplicaInv
  <2> SUFFICES ASSUME Init PROVE scenario \in Scenarios /\ ReplicaInv
    OBVIOUS
  <2>1. scenario \in Scenarios /\ MaxOffset \in Nat
    BY BoundsNat DEF Init
  <2>2. NewReplica \in Replica /\ saved = NoOffset /\ logEnd = 0
    BY DEF Init, ReplicatorInit, NewReplica, Replica, NoOffset
  <2> QED BY <2>1, <2>2 DEF Init, ReplicatorInit, ReplicaInv, ReplicatorTypeOK, ReplicaOK, Kept,
         NewReplica, NoOffset
<1>2. scenario \in Scenarios /\ ReplicaInv /\ [Next]_applicationVars
      => (scenario \in Scenarios /\ ReplicaInv)'
  <2> SUFFICES ASSUME scenario \in Scenarios, ReplicaInv, [Next]_applicationVars
               PROVE  (scenario \in Scenarios /\ ReplicaInv)'
    OBVIOUS
  <2>1. UNCHANGED scenario /\ (ReplicatorNext \/ UNCHANGED replicatorVars)
    BY Zenon DEF Next, applicationVars, BesidesExactlyOnce, BesidesReplicator, BesidesProcesses,
       BesidesConnector, BesidesTracker, BesidesBroker, BesidesSink, BesidesGraph, BesidesTopics
  <2> QED BY <2>1, BoundsNat, ReplicatorStep
<1>3. ReplicaInv => (Replicating => ReplicatorTypeOK) /\ ReplicatedAtLeastOnce
  BY DEF ReplicaInv, ReplicatedAtLeastOnce
<1> QED BY <1>1, <1>2, <1>3, PTL DEF Spec

-----------------------------------------------------------------------------
(***************************************************************************)
(* The processes of sources and their manager, which may end the           *)
(* application only after it has asked every process whether it failed.    *)
(***************************************************************************)

\* A source that has failed tells so.
FailuresKnown == \A s \in failed : HasError(s)

\* Sources that were stopped are not alive.
StoppedInv ==
    /\ app # "loop" => \A s \in Instance \ (waiting \cup {joining}) : ~Alive(s)
    /\ app = "ended" => waiting = {} /\ joining = NoInstance

\* The inductive invariant.
SupervisedInv ==
    /\ SourcesTypeOK /\ FailuresKnown /\ StoppedInv
    /\ app = "ended" /\ failed # {} => outcome = "source_error"

\* What Exits() does to the process of a source.
LEMMA ExitsTo ==
  ASSUME SourcesTypeOK, NEW s \in Instance, NEW code \in {0, Killed, Terminated},
         NEW piped \in BOOLEAN, Exits(s, code, piped)
  PROVE  \E c \in Child : /\ child' = [child EXCEPT ![s] = c]
                          /\ c.pc = "dead" /\ c.code = code /\ (piped => c.piped)
<1>1. PICK r \in Child : r = child[s]
  BY DEF SourcesTypeOK
<1>2. PICK c : c = [r EXCEPT !.pc = "dead", !.code = code, !.piped = @ \/ piped]
  OBVIOUS
<1>3. c \in Child
  BY <1>2 DEF Child
<1>4. c.pc = "dead" /\ c.code = code
  BY <1>2 DEF Child
<1>5. c.piped = (r.piped \/ piped)
  BY <1>2 DEF Child
<1>6. child' = [child EXCEPT ![s] = c]
  BY <1>1, <1>2 DEF Exits, Turns
<1> QED BY <1>3, <1>4, <1>5, <1>6

\* How the process of a source may go on: it changes while it is alive, or is spawned by
\* the loop; and a failure is one that it tells.
ChildStep(s, c) ==
    /\ child' = [child EXCEPT ![s] = c] /\ c \in Child /\ Alive(s)
    /\ c.running => c.pc \in {"running", "closing", "dead"}
    /\ \/ failed' = failed
       \/ /\ failed' = failed \cup {s} /\ c.pc = "dead"
          /\ c.piped \/ c.code \notin {0, Terminated}

\* The steps of the process of a source.
LEMMA SourceSteps ==
  ASSUME SourcesTypeOK, NEW s \in Instance,
         \/ InstallHandlers(s) \/ HandleSignal(s) \/ RunSource(s) \/ SourceReturns(s)
         \/ SourceCompletes(s) \/ SourceFails(s)
  PROVE  /\ \E c \in Child : ChildStep(s, c)
         /\ UNCHANGED <<app, running, waiting, joining, outcome>>
<1>1. PICK r \in Child : r = child[s]
  BY DEF SourcesTypeOK
<1>2. r.running => r.pc \in {"running", "closing", "dead"}
  BY <1>1 DEF SourcesTypeOK
<1>3. UNCHANGED <<app, running, waiting, joining, outcome>> /\ Alive(s)
  BY DEF InstallHandlers, HandleSignal, RunSource, SourceReturns, SourceCompletes, SourceFails,
     Alive
<1>4. ASSUME NEW code \in {0, Killed, Terminated}, NEW piped \in BOOLEAN, Exits(s, code, piped),
             \/ failed' = failed
             \/ failed' = failed \cup {s} /\ (piped \/ code = Killed)
      PROVE  \E c \in Child : ChildStep(s, c)
  <2>1. PICK c \in Child : /\ child' = [child EXCEPT ![s] = c]
                           /\ c.pc = "dead" /\ c.code = code /\ (piped => c.piped)
    BY <1>4, ExitsTo
  <2>2. \/ failed' = failed
        \/ /\ failed' = failed \cup {s} /\ c.pc = "dead"
           /\ c.piped \/ c.code \notin {0, Terminated}
    <3>1. CASE piped
      BY <1>4, <2>1, <3>1
    <3>2. CASE ~piped
      BY <1>4, <2>1, <3>2 DEF Killed, Terminated
    <3> QED BY <3>1, <3>2
  <2> QED BY <1>3, <2>1, <2>2 DEF ChildStep
<1>5. CASE InstallHandlers(s)
  <2>1. CASE child[s].term
    <3>1. Exits(s, Terminated, FALSE) /\ failed' = failed
      BY <1>5, <2>1 DEF InstallHandlers
    <3> QED BY <1>3, <1>4, <3>1
  <2>2. CASE ~child[s].term
    <3>1. PICK c : c = [r EXCEPT !.pc = "ready"]
      OBVIOUS
    <3>2. c \in Child /\ c.running = r.running
      BY <3>1 DEF Child
    <3>3. child' = [child EXCEPT ![s] = c] /\ failed' = failed /\ r.pc = "spawned"
      BY <1>1, <1>5, <2>2, <3>1 DEF InstallHandlers, Turns
    <3> QED BY <1>2, <1>3, <3>2, <3>3 DEF ChildStep
  <2> QED BY <2>1, <2>2
<1>6. CASE HandleSignal(s)
  <2>1. PICK c : c = IF r.stopping THEN [r EXCEPT !.term = FALSE]
                     ELSE [r EXCEPT !.term = FALSE, !.stopping = TRUE, !.running = FALSE]
    OBVIOUS
  <2>2. child' = [child EXCEPT ![s] = c] /\ failed' = failed
    BY <1>1, <1>6, <2>1 DEF HandleSignal, Turns
  <2>3. CASE r.stopping
    <3>1. c \in Child /\ c.pc = r.pc /\ c.running = r.running
      BY <2>1, <2>3 DEF Child
    <3> QED BY <1>2, <1>3, <2>2, <3>1 DEF ChildStep
  <2>4. CASE ~r.stopping
    <3>1. c = [r EXCEPT !.term = FALSE, !.stopping = TRUE, !.running = FALSE]
      BY <2>1, <2>4
    <3>2. c \in Child
      BY <3>1 DEF Child
    <3>3. c.running = FALSE
      BY <3>1 DEF Child
    <3> QED BY <1>3, <2>2, <3>2, <3>3 DEF ChildStep
  <2> QED BY <2>3, <2>4
<1>7. CASE RunSource(s)
  <2>1. PICK c : c = [r EXCEPT !.pc = "running", !.running = TRUE]
    OBVIOUS
  <2>2. child' = [child EXCEPT ![s] = c] /\ failed' = failed
    BY <1>1, <1>7, <2>1 DEF RunSource, Turns
  <2>3. c \in Child
    BY <2>1 DEF Child
  <2>4. c.pc = "running"
    BY <2>1 DEF Child
  <2> QED BY <1>3, <2>2, <2>3, <2>4 DEF ChildStep
<1>8. CASE SourceReturns(s)
  <2>1. PICK c : c = [r EXCEPT !.pc = "closing"]
    OBVIOUS
  <2>2. child' = [child EXCEPT ![s] = c] /\ failed' = failed
    BY <1>1, <1>8, <2>1 DEF SourceReturns, Turns
  <2>3. c \in Child
    BY <2>1 DEF Child
  <2>4. c.pc = "closing"
    BY <2>1 DEF Child
  <2> QED BY <1>3, <2>2, <2>3, <2>4 DEF ChildStep
<1>9. CASE SourceCompletes(s)
  BY <1>3, <1>4, <1>9 DEF SourceCompletes
<1>10. CASE SourceFails(s)
  BY <1>3, <1>4, <1>10 DEF SourceFails
<1> QED BY <1>3, <1>5, <1>6, <1>7, <1>8, <1>9, <1>10

\* A step of the process of a source keeps the invariant.
LEMMA ChildKeeps ==
  ASSUME SupervisedInv, NEW s \in Instance, NEW c \in Child, ChildStep(s, c),
         app' = app, running' = running, outcome' = outcome,
         waiting' \subseteq Instance, joining' \in Instance \cup {NoInstance},
         app # "ended" \/ UNCHANGED <<waiting, joining>>,
         waiting \cup {joining} \subseteq waiting' \cup {joining', NoInstance}
  PROVE  SupervisedInv'
<1>1. SourcesTypeOK'
  <2>1. child \in [Instance -> Child] /\ failed \subseteq Instance
        /\ \A t \in Instance : child[t].running => child[t].pc \in {"running", "closing", "dead"}
    BY DEF SupervisedInv, SourcesTypeOK
  <2>2. child' \in [Instance -> Child] /\ failed' \subseteq Instance
    BY <2>1 DEF ChildStep
  <2>3. ASSUME NEW t \in Instance
        PROVE  child'[t].running => child'[t].pc \in {"running", "closing", "dead"}
    BY <2>1 DEF ChildStep
  <2> QED BY <2>2, <2>3 DEF SupervisedInv, SourcesTypeOK
<1>2. child' = [child EXCEPT ![s] = c] /\ child \in [Instance -> Child] /\ Alive(s)
  BY DEF ChildStep, SupervisedInv, SourcesTypeOK
<1>3. FailuresKnown'
  <2>1. ASSUME NEW t \in failed' PROVE HasError(t)'
    <3>1. CASE t = s /\ t \notin failed
      BY <1>2, <3>1 DEF ChildStep, HasError
    <3>2. CASE t \in failed
      <4>1. child[t].pc = "dead" /\ child[s].pc # "dead" /\ t \in Instance
        BY <1>2, <3>2 DEF SupervisedInv, FailuresKnown, HasError, Alive, SourcesTypeOK
      <4>2. child'[t] = child[t]
        BY <1>2, <4>1
      <4> QED BY <3>2, <4>2 DEF SupervisedInv, FailuresKnown, HasError
    <3> QED BY <3>1, <3>2 DEF ChildStep
  <2> QED BY <2>1 DEF FailuresKnown
<1>4. StoppedInv'
  <2>1. ASSUME app # "loop", NEW t \in Instance \ (waiting' \cup {joining'}) PROVE ~Alive(t)'
    <3>1. t \in Instance \ (waiting \cup {joining})
      BY ScenarioAssumption
    <3>2. ~Alive(t)
      BY <2>1, <3>1 DEF SupervisedInv, StoppedInv
    <3>3. child'[t] = child[t]
      BY <1>2, <3>2
    <3> QED BY <3>2, <3>3 DEF Alive
  <2> QED BY <2>1 DEF SupervisedInv, StoppedInv
<1>5. app # "ended"
  BY <1>2, ScenarioAssumption DEF SupervisedInv, StoppedInv
<1> QED BY <1>1, <1>3, <1>4, <1>5 DEF SupervisedInv

\* The supervisor's invariant after any step of the application.
LEMMA SupervisorStep ==
  ASSUME SupervisedInv, SourcesNext \/ UNCHANGED sourceVars
  PROVE  SupervisedInv'
<1>1. ASSUME NEW s \in Instance,
             \/ InstallHandlers(s) \/ HandleSignal(s) \/ RunSource(s) \/ SourceReturns(s)
             \/ SourceCompletes(s) \/ SourceFails(s)
      PROVE  SupervisedInv'
  <2>1. PICK c \in Child : ChildStep(s, c)
    BY <1>1, SourceSteps DEF SupervisedInv
  <2>2. UNCHANGED <<app, running, waiting, joining, outcome>>
    BY <1>1, SourceSteps DEF SupervisedInv
  <2> QED BY <2>1, <2>2, ChildKeeps DEF SupervisedInv, SourcesTypeOK
<1>2. ASSUME NEW s \in Instance, StopSource(s) PROVE SupervisedInv'
  <2>1. CASE Alive(s)
    <3>1. PICK r \in Child : r = child[s]
      BY DEF SupervisedInv, SourcesTypeOK
    <3>2. PICK c : c = [r EXCEPT !.term = TRUE]
      OBVIOUS
    <3>3. c \in Child /\ c.pc = r.pc /\ c.running = r.running
      BY <3>2 DEF Child
    <3>4. child' = [child EXCEPT ![s] = c] /\ failed' = failed
      BY <1>2, <2>1, <3>1, <3>2 DEF StopSource, Turns
    <3>5. r.running => r.pc \in {"running", "closing", "dead"}
      BY <3>1 DEF SupervisedInv, SourcesTypeOK
    <3>6. ChildStep(s, c)
      BY <2>1, <3>3, <3>4, <3>5 DEF ChildStep
    <3>7. /\ app' = app /\ running' = running /\ outcome' = outcome /\ app = "stopping"
          /\ waiting' = waiting \ {s} /\ joining' = s /\ joining = NoInstance
      BY <1>2, <2>1 DEF StopSource
    <3>8. waiting \subseteq Instance
      BY DEF SupervisedInv, SourcesTypeOK
    <3> QED BY <3>3, <3>6, <3>7, <3>8, ChildKeeps
  <2>2. CASE ~Alive(s)
    <3>1. /\ UNCHANGED <<child, joining, failed, app, running, outcome>>
          /\ waiting' = waiting \ {s} /\ app = "stopping"
      BY <1>2, <2>2 DEF StopSource
    <3> QED BY <2>2, <3>1 DEF SupervisedInv, SourcesTypeOK, FailuresKnown, StoppedInv, HasError,
           Alive
  <2> QED BY <2>1, <2>2
<1>3. CASE KillSource
  <2>1. joining \in Instance /\ Alive(joining) /\ failed' = failed \cup {joining}
        /\ UNCHANGED <<app, running, waiting, joining, outcome>> /\ Exits(joining, Killed, FALSE)
    BY <1>3 DEF KillSource, SupervisedInv, SourcesTypeOK
  <2>2. PICK c \in Child : /\ child' = [child EXCEPT ![joining] = c]
                           /\ c.pc = "dead" /\ c.code = Killed
    BY <2>1, ExitsTo DEF SupervisedInv
  <2>3. ChildStep(joining, c)
    BY <2>1, <2>2 DEF ChildStep, Killed, Terminated
  <2> QED BY <2>1, <2>3, ChildKeeps DEF SupervisedInv, SourcesTypeOK
<1>4. CASE StartSources
  <2>1. /\ UNCHANGED <<failed, app, running, waiting, joining, outcome>> /\ app = "loop"
        /\ child \in [Instance -> Child]
    BY <1>4 DEF StartSources, SupervisedInv, SourcesTypeOK
  <2>2. PICK c : c = [NewChild EXCEPT !.pc = "spawned"]
    OBVIOUS
  <2>3. NewChild \in Child
    BY DEF NewChild, Child
  <2>4. c \in Child /\ c.running = FALSE
    BY <2>2 DEF NewChild, Child
  <2>5. child' = [s \in Instance |-> IF child[s].pc = "new" THEN c ELSE child[s]]
    BY <1>4, <2>2 DEF StartSources
  <2>6. child' \in [Instance -> Child]
    BY <2>1, <2>4, <2>5
  <2>7. ASSUME NEW s \in Instance
        PROVE  child'[s].running => child'[s].pc \in {"running", "closing", "dead"}
    BY <2>4, <2>5 DEF SupervisedInv, SourcesTypeOK
  <2>8. ASSUME NEW s \in failed PROVE HasError(s)'
    <3>1. HasError(s) /\ s \in Instance
      BY DEF SupervisedInv, SourcesTypeOK, FailuresKnown
    <3>2. child'[s] = child[s]
      BY <2>5, <3>1 DEF HasError
    <3> QED BY <3>1, <3>2 DEF HasError
  <2> QED BY <2>1, <2>6, <2>7, <2>8 DEF SupervisedInv, SourcesTypeOK, FailuresKnown, StoppedInv
<1>5. CASE RaiseForError \/ LoopEnds
  <2>1. /\ UNCHANGED <<child, failed, joining>>
        /\ \E result \in {"normal", "error", "source_error"} : Stops(result)
    BY <1>5 DEF RaiseForError, LoopEnds
  <2> QED BY <2>1 DEF Stops, SupervisedInv, SourcesTypeOK, FailuresKnown, StoppedInv, HasError,
         Alive
<1>6. CASE RequestStop \/ UNCHANGED sourceVars
  BY <1>6 DEF RequestStop, sourceVars, SupervisedInv, SourcesTypeOK, FailuresKnown, StoppedInv,
     HasError, Alive
<1>7. CASE JoinSource
  BY <1>7 DEF JoinSource, SupervisedInv, SourcesTypeOK, FailuresKnown, StoppedInv, HasError, Alive
<1>8. CASE FinishStop
  <2>1. failed # {} => \E s \in Instance : HasError(s)
    BY DEF SupervisedInv, FailuresKnown, SourcesTypeOK
  <2>2. failed # {} => outcome' = "source_error"
    BY <1>8, <2>1 DEF FinishStop
  <2>3. outcome' \in {outcome, "source_error"} /\ app = "stopping" /\ app' = "ended"
        /\ waiting = {} /\ joining = NoInstance
        /\ UNCHANGED <<child, failed, running, waiting, joining>>
    BY <1>8 DEF FinishStop
  <2> QED BY <2>2, <2>3 DEF SupervisedInv, SourcesTypeOK, FailuresKnown, StoppedInv, HasError, Alive
<1> QED BY <1>1, <1>2, <1>3, <1>4, <1>5, <1>6, <1>7, <1>8 DEF SourcesNext, ProcessStep

\* SourceManager with raise_for_error() and stop_sources(): an application that ends has no
\* source process left, and ends without an error only when no source has failed, whenever
\* processes die, are killed or do not answer to the stop.
THEOREM SourcesSupervisedHolds ==
    Spec => []((Supervising => SourcesTypeOK) /\ SourcesSupervised)
<1>1. Init => SupervisedInv
  <2> SUFFICES ASSUME Init PROVE SupervisedInv
    OBVIOUS
  <2>1. NewChild \in Child /\ NewChild.running = FALSE
    BY DEF NewChild, Child
  <2> QED BY <2>1 DEF Init, SourcesInit, SupervisedInv, SourcesTypeOK, FailuresKnown, StoppedInv
<1>2. SupervisedInv /\ [Next]_applicationVars => SupervisedInv'
  <2> SUFFICES ASSUME SupervisedInv, [Next]_applicationVars PROVE SupervisedInv'
    OBVIOUS
  <2>1. SourcesNext \/ UNCHANGED sourceVars
    BY Zenon DEF Next, applicationVars, BesidesExactlyOnce, BesidesReplicator, BesidesProcesses,
       BesidesConnector, BesidesTracker, BesidesBroker, BesidesSink, BesidesGraph, BesidesTopics
  <2> QED BY <2>1, SupervisorStep
<1>3. SupervisedInv => (Supervising => SourcesTypeOK) /\ SourcesSupervised
  <2> SUFFICES ASSUME SupervisedInv PROVE SourcesSupervised
    BY DEF SupervisedInv
  <2>1. app = "ended" => \A s \in Instance : ~Alive(s)
    BY ScenarioAssumption DEF SupervisedInv, StoppedInv
  <2> QED BY <2>1 DEF SupervisedInv, SourcesSupervised
<1> QED BY <1>1, <1>2, <1>3, PTL DEF Spec

-----------------------------------------------------------------------------
(***************************************************************************)
(* Source connectors.  A flush is not undone by what happens after it, so  *)
(* the invariant is about all that a process has read: it is delivered, in *)
(* the queue, to be read again, or the process has an error.               *)
(***************************************************************************)

\* run() goes on, or what comes after it.
Working(p) == p.pc \in {"run", "flush", "ack", "clear", "done"}

\* What a query's records do not raise their error for.
Overlooked(p) == IF scenario.source = "query" THEN p.overlooked ELSE {}

\* Without an error, what was read is delivered or in the queue; of a chunk that may be
\* read again, that is so of what is before it; ...
ItemsOK(p, items) ==
    /\ Working(p) /\ ~p.error => p.read \ Overlooked(p) \subseteq items \cup Range(p.queue)
    /\ Chunked => p.read \ (p.overlooked \cup p.start..p.next) \subseteq items
    /\ ~Subscribed => p.read \subseteq 0..p.next - 1 /\ p.acks = {}
    /\ p.pc = "done" \/ (p.pc \in {"ack", "clear"} /\ ~scenario.concurrent) =>
          p.queue = <<>> /\ ~p.error

\* ... and the states go to the changelog one at a time.
StatesOK(p, last) ==
    /\ ~Stateful => p.update = NoOffset
    /\ ~Subscribed => p.pc \notin {"ack", "clear"}
    /\ p.pc = "down" => p.log = <<>>
    /\ Stateful /\ p.pc # "down" =>
          /\ last < p.next /\ (p.log = <<>> \/ p.log = <<p.next - 1>>)
          /\ p.update = NoOffset \/ p.update = p.next - 1
          /\ p.pc = "run" => p.log = <<>>
          /\ p.pc = "flush" => p.update = NoOffset
          /\ p.pc \in {"run", "flush"} /\ p.update = NoOffset /\ p.log = <<>> =>
                last = p.next - 1

\* What was flushed or acknowledged is delivered.
FlushedOK ==
    /\ ~Subscribed => flushed \subseteq produced
    /\ Stateful => flushed \subseteq 0..changelog
    /\ Subscribed /\ ~scenario.concurrent => acked \subseteq produced

\* The relations between the numbers of a process.
BoundsOK(p) ==
    /\ p.update < p.next /\ p.start <= p.next /\ p.failures < ChunkAttempts
    /\ p.acks \subseteq p.read

\* The inductive invariant.
ConnectorInv ==
    /\ ConnectorTypeOK
    /\ ItemsOK(process, produced) /\ StatesOK(process, changelog) /\ FlushedOK

-----------------------------------------------------------------------------
\* What the process is after an error was raised.
LEMMA RaisedTo ==
  ASSUME MaxOffset \in Nat, NEW r \in Process, r = process, r.failures < ChunkAttempts,
         NEW n, n = Raised
  PROVE  /\ n \in Process
         /\ \/ /\ Chunked /\ r.failures + 1 < ChunkAttempts
               /\ n.pc = r.pc /\ n.next = r.start /\ n.read = r.read \ (r.start..r.next)
               /\ n.update = r.update /\ n.queue = r.queue /\ n.log = r.log /\ n.error = FALSE
               /\ n.acks = r.acks /\ n.closing = r.closing /\ n.start = r.start
               /\ n.failures = r.failures + 1 /\ n.overlooked = r.overlooked
            \/ /\ n.pc = "failing" /\ n.next = r.next /\ n.read = r.read /\ n.update = r.update
               /\ n.queue = r.queue /\ n.log = r.log /\ n.error = FALSE /\ n.acks = r.acks
               /\ n.closing = r.closing /\ n.start = r.start /\ n.failures = r.failures
               /\ n.overlooked = r.overlooked
<1>1. CASE Chunked /\ r.failures + 1 < ChunkAttempts
  <2>1. n = [r EXCEPT !.error = FALSE, !.next = r.start, !.failures = @ + 1,
                      !.read = @ \ (r.start..r.next)]
    BY <1>1 DEF Raised
  <2>2. PICK a : a = [r EXCEPT !.error = FALSE]
    OBVIOUS
  <2>3. PICK b : b = [a EXCEPT !.next = r.start]
    OBVIOUS
  <2>4. PICK c : c = [b EXCEPT !.failures = @ + 1]
    OBVIOUS
  <2>5. a \in Process /\ a.next = r.next /\ a.start = r.start /\ a.failures = r.failures
        /\ a.read = r.read
    BY <2>2 DEF Process
  <2>6. b \in Process
    BY <2>3, <2>5 DEF Process
  <2>7. b.failures = r.failures /\ b.read = r.read
    BY <2>3, <2>5 DEF Process
  <2>8. r.failures + 1 \in 0..1
    BY <1>1 DEF ChunkAttempts, Process
  <2>9. c \in Process
    BY <2>4, <2>6, <2>7, <2>8 DEF Process
  <2>10. c.read = r.read
    BY <2>4, <2>6, <2>7 DEF Process
  <2>11. n = [c EXCEPT !.read = @ \ (r.start..r.next)]
    BY <2>1, <2>2, <2>3, <2>4
  <2>12. n \in Process
    <3>1. PICK v \in SUBSET Item : v = r.read \ (r.start..r.next)
      BY DEF Process
    <3>2. n = [c EXCEPT !.read = v]
      BY <2>10, <2>11, <3>1
    <3> QED BY <2>9, <3>2 DEF Process
  <2>13. /\ n.pc = r.pc /\ n.next = r.start /\ n.read = r.read \ (r.start..r.next)
        /\ n.update = r.update /\ n.queue = r.queue /\ n.log = r.log
    BY <2>1 DEF Process
  <2>14. /\ n.error = FALSE /\ n.acks = r.acks /\ n.closing = r.closing /\ n.start = r.start
         /\ n.failures = r.failures + 1 /\ n.overlooked = r.overlooked
    BY <2>1 DEF Process
  <2> QED BY <1>1, <2>12, <2>13, <2>14
<1>2. CASE ~(Chunked /\ r.failures + 1 < ChunkAttempts)
  <2>1. n = [r EXCEPT !.pc = "failing", !.error = FALSE]
    BY <1>2 DEF Raised
  <2>2. n \in Process
    BY <2>1 DEF Process
  <2>3. /\ n.pc = "failing" /\ n.next = r.next /\ n.read = r.read /\ n.update = r.update
        /\ n.queue = r.queue /\ n.log = r.log
    BY <2>1 DEF Process
  <2>4. /\ n.error = FALSE /\ n.acks = r.acks /\ n.closing = r.closing /\ n.start = r.start
        /\ n.failures = r.failures /\ n.overlooked = r.overlooked
    BY <2>1 DEF Process
  <2> QED BY <2>2, <2>3, <2>4
<1> QED BY <1>1, <1>2

\* The process of an item that was produced without an error.
LEMMA ProducedTo ==
  ASSUME MaxOffset \in Nat, NEW r \in Process, r = process, ~r.error, NEW item \in Item,
         NEW n, n = Produced(item)
  PROVE  /\ n \in Process
         /\ n.pc = r.pc /\ n.next = r.next /\ n.read = r.read \cup {item} /\ n.update = r.update
         /\ n.queue = Append(r.queue, item) /\ n.log = r.log /\ n.error = r.error
         /\ n.acks = r.acks /\ n.closing = r.closing /\ n.start = r.start
         /\ n.failures = r.failures /\ n.overlooked = r.overlooked
<1>1. n = [r EXCEPT !.queue = Append(@, item), !.read = @ \cup {item}]
  BY DEF Produced
<1>2. PICK q : q = Append(r.queue, item)
  OBVIOUS
<1>3. r.queue \in Seq(Item)
  BY DEF Process
<1>4. q \in Seq(Item)
  BY <1>2, <1>3
<1>5. n = [r EXCEPT !.queue = q, !.read = @ \cup {item}]
  BY <1>1, <1>2
<1>6. n \in Process
  <2>1. PICK a : a = [r EXCEPT !.queue = q]
    OBVIOUS
  <2>2. a \in Process
    BY <1>4, <2>1 DEF Process
  <2>3. a.read = r.read
    BY <2>1 DEF Process
  <2>4. n = [a EXCEPT !.read = @ \cup {item}]
    BY <1>5, <2>1, <2>3
  <2>5. PICK v \in SUBSET Item : v = r.read \cup {item}
    BY DEF Process
  <2>6. n = [a EXCEPT !.read = v]
    BY <2>3, <2>4, <2>5
  <2> QED BY <2>2, <2>6 DEF Process
<1>7. /\ n.pc = r.pc /\ n.next = r.next /\ n.read = r.read \cup {item} /\ n.update = r.update
      /\ n.queue = Append(r.queue, item) /\ n.log = r.log
  BY <1>1 DEF Process
<1>8. /\ n.error = r.error /\ n.acks = r.acks /\ n.closing = r.closing /\ n.start = r.start
      /\ n.failures = r.failures /\ n.overlooked = r.overlooked
  BY <1>1 DEF Process
<1> QED BY <1>6, <1>7, <1>8

\* What the invariant after a step is about.
LEMMA ConnectorBecomes ==
  ASSUME UNCHANGED scenario, NEW n \in Process, process' = n, BoundsOK(n),
         ItemsOK(n, produced'), StatesOK(n, changelog'), FlushedOK',
         changelog' \in Item \cup {NoOffset},
         produced' \subseteq Item, acked' \subseteq Item, flushed' \subseteq Item
  PROVE  ConnectorInv'
<1>1. Item' = Item /\ Process' = Process /\ ChunkAttempts' = ChunkAttempts
  BY DEF Item, Process, ChunkAttempts, MaxOffset
<1>2. ConnectorTypeOK'
  BY <1>1 DEF ConnectorTypeOK, BoundsOK
<1>3. ItemsOK(process, produced)' /\ StatesOK(process, changelog)'
  BY DEF ItemsOK, StatesOK, Working, Overlooked, Chunked, Subscribed, Stateful
<1> QED BY <1>2, <1>3 DEF ConnectorInv

\* The same, for a step that delivers nothing and changes no state.
LEMMA ProcessBecomes ==
  ASSUME ConnectorInv, UNCHANGED <<scenario, produced, changelog, acked, flushed>>,
         NEW n \in Process, process' = n, BoundsOK(n), ItemsOK(n, produced), StatesOK(n, changelog)
  PROVE  ConnectorInv'
<1>1. FlushedOK'
  BY DEF ConnectorInv, FlushedOK, Subscribed, Stateful
<1> QED BY <1>1, ConnectorBecomes DEF ConnectorInv, ConnectorTypeOK

\* What the invariant says of the process before a step.
LEMMA ProcessBefore ==
  ASSUME ConnectorInv
  PROVE  /\ process \in Process /\ BoundsOK(process)
         /\ ItemsOK(process, produced) /\ StatesOK(process, changelog)
BY DEF ConnectorInv, ConnectorTypeOK, BoundsOK

\* An error that is raised loses no item that a new attempt does not produce.
LEMMA RaisedKeeps ==
  ASSUME ConnectorInv, MaxOffset \in Nat, process' = Raised,
         process.pc = "run" \/ (Subscribed /\ process.pc # "down"),
         UNCHANGED <<scenario, produced, changelog, acked, flushed>>
  PROVE  ConnectorInv'
<1>1. PICK r \in Process : /\ r = process /\ BoundsOK(r) /\ ItemsOK(r, produced)
                           /\ StatesOK(r, changelog)
  BY ProcessBefore
<1>2. PICK n : n = Raised
  OBVIOUS
<1>3. /\ n \in Process
      /\ \/ /\ Chunked /\ r.failures + 1 < ChunkAttempts
            /\ n.next = r.start /\ n.read = r.read \ (r.start..r.next)
            /\ n.failures = r.failures + 1
         \/ n.pc = "failing" /\ n.next = r.next /\ n.read = r.read /\ n.failures = r.failures
  BY <1>1, <1>2, RaisedTo DEF BoundsOK
<1>4. /\ n.pc \in {r.pc, "failing"} /\ n.update = r.update /\ n.queue = r.queue /\ n.log = r.log
      /\ n.acks = r.acks /\ n.start = r.start /\ n.overlooked = r.overlooked
  BY <1>1, <1>2, RaisedTo DEF BoundsOK
<1>5. r.next \in Nat /\ r.start \in Nat /\ r.failures \in Nat /\ r.read \subseteq Nat
  BY <1>1 DEF Process, Item
<1>6. CASE n.pc = "failing" /\ n.next = r.next /\ n.read = r.read /\ n.failures = r.failures
  <2>1. BoundsOK(n)
    BY <1>1, <1>4, <1>6 DEF BoundsOK
  <2>2. ItemsOK(n, produced)
    BY <1>1, <1>4, <1>6 DEF ItemsOK, Working
  <2>3. StatesOK(n, changelog)
    BY <1>1, <1>4, <1>6 DEF StatesOK
  <2> QED BY <1>2, <1>3, <2>1, <2>2, <2>3, ProcessBecomes
<1>7. CASE /\ Chunked /\ r.failures + 1 < ChunkAttempts
           /\ n.next = r.start /\ n.read = r.read \ (r.start..r.next)
           /\ n.failures = r.failures + 1
  <2>1. ~Stateful /\ ~Subscribed /\ scenario.source = "query"
    BY <1>5, <1>7 DEF Chunked, Stateful, Subscribed, ChunkAttempts
  <2>2. BoundsOK(n)
    BY <1>1, <1>4, <1>5, <1>7, <2>1 DEF BoundsOK, StatesOK, ItemsOK, NoOffset
  <2>3. n.read \ n.overlooked \subseteq produced
    BY <1>1, <1>4, <1>7 DEF ItemsOK
  <2>4. n.read \subseteq 0..n.next - 1
    BY <1>1, <1>5, <1>7, <2>1 DEF ItemsOK
  <2>5. n.pc \notin {"done", "ack", "clear"}
    BY <1>1, <1>4, <2>1
  <2>6. ItemsOK(n, produced)
    BY <1>1, <1>4, <2>1, <2>3, <2>4, <2>5 DEF ItemsOK, Overlooked
  <2>7. StatesOK(n, changelog)
    BY <1>1, <1>4, <2>1 DEF StatesOK
  <2> QED BY <1>2, <1>3, <2>2, <2>6, <2>7, ProcessBecomes
<1> QED BY <1>3, <1>6, <1>7

\* A new process reads on behind the state of the changelog.
LEMMA StartSourceKeeps ==
  ASSUME ConnectorInv, MaxOffset \in Nat, UNCHANGED scenario, StartSource
  PROVE  ConnectorInv'
<1>1. PICK x : x = IF Stateful THEN changelog + 1 ELSE 0
  OBVIOUS
<1>2. x \in 0..MaxOffset /\ (Stateful => x - 1 = changelog /\ changelog < x)
  BY <1>1 DEF ConnectorInv, ConnectorTypeOK, Item, NoOffset
<1>3. NewProcess \in Process
  BY DEF NewProcess, Process, Item, NoOffset
<1>4. PICK n : n = [NewProcess EXCEPT !.pc = "run", !.next = x]
  OBVIOUS
<1>5. process' = n /\ UNCHANGED <<produced, changelog, acked, flushed>>
  BY <1>1, <1>4 DEF StartSource
<1>6. PICK a : a = [NewProcess EXCEPT !.pc = "run"]
  OBVIOUS
<1>7. a \in Process
  BY <1>3, <1>6 DEF Process
<1>8. n = [a EXCEPT !.next = x]
  BY <1>4, <1>6
<1>9. n \in Process
  BY <1>2, <1>7, <1>8 DEF Process
<1>10. /\ n.pc = "run" /\ n.next = x /\ n.read = {} /\ n.update = NoOffset /\ n.log = <<>>
  BY <1>4 DEF NewProcess
<1>11. /\ n.acks = {} /\ n.start = 0 /\ n.failures = 0
  BY <1>4 DEF NewProcess
<1>12. BoundsOK(n)
  BY <1>2, <1>10, <1>11 DEF BoundsOK, NoOffset, ChunkAttempts
<1>13. ItemsOK(n, produced)
  BY <1>10, <1>11 DEF ItemsOK
<1>14. StatesOK(n, changelog)
  BY <1>2, <1>10 DEF StatesOK
<1> QED BY <1>5, <1>9, <1>12, <1>13, <1>14, ProcessBecomes

\* The end of a process leaves nothing of it.
LEMMA EndSourceKeeps ==
  ASSUME ConnectorInv, MaxOffset \in Nat, UNCHANGED scenario, EndSource
  PROVE  ConnectorInv'
<1>1. process' = NewProcess /\ UNCHANGED <<produced, changelog, acked, flushed>>
  BY DEF EndSource
<1>2. NewProcess \in Process
  BY DEF NewProcess, Process, Item, NoOffset
<1>3. BoundsOK(NewProcess) /\ ItemsOK(NewProcess, produced) /\ StatesOK(NewProcess, changelog)
  BY DEF NewProcess, BoundsOK, ItemsOK, StatesOK, Working, NoOffset, ChunkAttempts
<1> QED BY <1>1, <1>2, <1>3, ProcessBecomes

\* An item that is read is in the queue, and its state is set.
LEMMA ReadItemKeeps ==
  ASSUME ConnectorInv, MaxOffset \in Nat, UNCHANGED scenario, ReadItem
  PROVE  ConnectorInv'
<1>1. PICK r \in Process : /\ r = process /\ BoundsOK(r) /\ ItemsOK(r, produced)
                           /\ StatesOK(r, changelog)
  BY ProcessBefore
<1>2. /\ ~Subscribed /\ r.pc = "run" /\ r.next < MaxOffset
      /\ UNCHANGED <<produced, changelog, acked, flushed>>
  BY <1>1 DEF ReadItem
<1>3. CASE r.error
  <2>1. process' = Raised
    BY <1>1, <1>3 DEF ReadItem
  <2> QED BY <1>1, <1>2, <2>1, RaisedKeeps
<1>4. CASE ~r.error
  <2>1. PICK m : m = Produced(r.next)
    OBVIOUS
  <2>2. PICK u : u = IF Stateful THEN r.next ELSE NoOffset
    OBVIOUS
  <2>3. PICK n : n = [m EXCEPT !.next = @ + 1, !.update = u]
    OBVIOUS
  <2>4. process' = n
    BY <1>1, <1>4, <2>1, <2>2, <2>3 DEF ReadItem
  <2>5. r.next \in Item /\ r.next + 1 \in 0..MaxOffset /\ r.next \in Nat
    BY <1>2 DEF Item, Process
  <2>6. m \in Process
    BY <1>1, <1>4, <2>1, <2>5, ProducedTo
  <2>7. /\ m.pc = r.pc /\ m.next = r.next /\ m.read = r.read \cup {r.next}
        /\ m.update = r.update /\ m.queue = Append(r.queue, r.next) /\ m.log = r.log
        /\ m.error = r.error /\ m.acks = r.acks /\ m.closing = r.closing /\ m.start = r.start
        /\ m.failures = r.failures /\ m.overlooked = r.overlooked
    BY <1>1, <1>4, <2>1, <2>5, ProducedTo
  <2>8. PICK a : a = [m EXCEPT !.next = @ + 1]
    OBVIOUS
  <2>9. PICK x \in 0..MaxOffset : x = r.next + 1
    BY <2>5
  <2>10. a = [m EXCEPT !.next = x]
    BY <2>7, <2>8, <2>9
  <2>11. a \in Process
    BY <2>6, <2>10 DEF Process
  <2>12. n = [a EXCEPT !.update = u] /\ u \in Item \cup {NoOffset}
    BY <2>2, <2>3, <2>5, <2>8
  <2>13. n \in Process
    BY <2>11, <2>12 DEF Process
  <2>14. /\ n.pc = m.pc /\ n.next = m.next + 1 /\ n.read = m.read /\ n.update = u
         /\ n.queue = m.queue /\ n.log = m.log
    BY <2>3, <2>6 DEF Process
  <2>15. /\ n.error = m.error /\ n.acks = m.acks /\ n.closing = m.closing /\ n.start = m.start
         /\ n.failures = m.failures /\ n.overlooked = m.overlooked
    BY <2>3, <2>6 DEF Process
  <2>16. /\ n.next = r.next + 1 /\ n.update = u /\ n.log = r.log /\ n.start = r.start
         /\ n.failures = r.failures /\ n.acks = r.acks /\ n.read = r.read \cup {r.next}
    BY <2>7, <2>14, <2>15
  <2>17. r.start \in Int /\ changelog \in Int /\ r.next + 1 - 1 = r.next
    BY <2>5 DEF Process, ConnectorInv, ConnectorTypeOK, Item, NoOffset
  <2>18. BoundsOK(n)
    BY <1>1, <2>2, <2>5, <2>16, <2>17 DEF BoundsOK, NoOffset
  <2>19. Range(n.queue) = Range(r.queue) \cup {r.next}
    <3>1. r.queue \in Seq(Item)
      BY DEF Process
    <3>2. Range(Append(r.queue, r.next)) = Range(r.queue) \cup {r.next}
      BY <2>5, <3>1, RangeOfAppend
    <3> QED BY <2>7, <2>14, <3>2
  <2>20. n.read = r.read \cup {r.next} /\ n.overlooked = r.overlooked
    BY <2>7, <2>14, <2>15
  <2>21. n.read \ Overlooked(n) \subseteq produced \cup Range(n.queue)
    BY <1>1, <1>2, <1>4, <2>19, <2>20 DEF ItemsOK, Working, Overlooked
  <2>22. Chunked => n.read \ (n.overlooked \cup n.start..n.next) \subseteq produced
    <3>1. r.start..r.next + 1 = (r.start..r.next) \cup {r.next + 1} /\ r.next \in r.start..r.next
      BY <1>1 DEF BoundsOK, Process
    <3> QED BY <1>1, <2>7, <2>14, <2>15, <2>20, <3>1 DEF ItemsOK
  <2>23. n.read \subseteq 0..n.next - 1 /\ n.acks = {}
    BY <1>1, <1>2, <2>5, <2>7, <2>14, <2>15, <2>20 DEF ItemsOK
  <2>24. n.pc = "run"
    BY <1>2, <2>7, <2>14
  <2>25. ItemsOK(n, produced)
    BY <2>21, <2>22, <2>23, <2>24 DEF ItemsOK
  <2>26. StatesOK(n, changelog)
    <3>1. Stateful => changelog < n.next
      BY <1>1, <1>2, <2>5, <2>16, <2>17 DEF StatesOK
    <3>2. Stateful => n.log = <<>> /\ n.update = n.next - 1 /\ n.update # NoOffset
      BY <1>1, <1>2, <2>2, <2>5, <2>16, <2>17 DEF StatesOK, NoOffset
    <3>3. ~Stateful => n.update = NoOffset
      BY <2>2, <2>16
    <3> QED BY <2>24, <3>1, <3>2, <3>3 DEF StatesOK
  <2> QED BY <1>2, <2>4, <2>13, <2>18, <2>25, <2>26, ProcessBecomes
<1> QED BY <1>3, <1>4

\* After a chunk, what is not delivered is known to be overlooked.
LEMMA FlushChunkKeeps ==
  ASSUME ConnectorInv, MaxOffset \in Nat, UNCHANGED scenario, FlushChunk
  PROVE  ConnectorInv'
<1>1. PICK r \in Process : /\ r = process /\ BoundsOK(r) /\ ItemsOK(r, produced)
                           /\ StatesOK(r, changelog)
  BY ProcessBefore
<1>2. r.pc = "run" /\ Chunked /\ UNCHANGED <<produced, changelog, acked, flushed>>
  BY <1>1 DEF FlushChunk, ChunkRead
<1>3. ~Subscribed /\ ~Stateful
  BY <1>2 DEF Chunked, Subscribed, Stateful
<1>4. r.read \subseteq Item /\ Range(r.queue) \subseteq Item /\ r.next \in 0..MaxOffset
  <2>1. r.queue \in Seq(Item) /\ DOMAIN r.queue = 1..Len(r.queue)
    BY DEF Process
  <2>2. \A k \in DOMAIN r.queue : r.queue[k] \in Item
    BY <2>1
  <2> QED BY <2>2 DEF Process, Range
<1>5. PICK n : n = [r EXCEPT !.start = r.next, !.failures = 0]
  OBVIOUS
<1>6. PICK m : m = [n EXCEPT !.overlooked = @ \cup Range(r.queue)]
  OBVIOUS
<1>7. n \in Process
  <2>1. PICK a : a = [r EXCEPT !.start = r.next]
    OBVIOUS
  <2>2. a \in Process
    BY <1>4, <2>1 DEF Process
  <2>3. PICK z \in 0..1 : z = 0
    OBVIOUS
  <2>4. n = [a EXCEPT !.failures = z]
    BY <1>5, <2>1, <2>3
  <2> QED BY <2>2, <2>4 DEF Process
<1>8. /\ n.pc = r.pc /\ n.next = r.next /\ n.read = r.read /\ n.update = r.update
      /\ n.queue = r.queue /\ n.log = r.log
  BY <1>5 DEF Process
<1>9. /\ n.error = r.error /\ n.acks = r.acks /\ n.closing = r.closing /\ n.start = r.next
      /\ n.failures = 0 /\ n.overlooked = r.overlooked
  BY <1>5 DEF Process
<1>10. m \in Process
  <2>1. PICK v \in SUBSET Item : v = n.overlooked \cup Range(r.queue)
    BY <1>4, <1>7 DEF Process
  <2>2. m = [n EXCEPT !.overlooked = v]
    BY <1>6, <2>1
  <2> QED BY <1>7, <2>2 DEF Process
<1>11. /\ m.pc = n.pc /\ m.next = n.next /\ m.read = n.read /\ m.update = n.update
       /\ m.queue = n.queue /\ m.log = n.log
  BY <1>6, <1>7 DEF Process
<1>12. /\ m.error = n.error /\ m.acks = n.acks /\ m.closing = n.closing /\ m.start = n.start
       /\ m.failures = n.failures /\ m.overlooked = n.overlooked \cup Range(r.queue)
  BY <1>6, <1>7 DEF Process
<1>13. BoundsOK(n) /\ StatesOK(n, changelog)
  <2>1. BoundsOK(n)
    BY <1>1, <1>4, <1>8, <1>9 DEF BoundsOK, ChunkAttempts
  <2>2. StatesOK(n, changelog)
    BY <1>1, <1>2, <1>3, <1>8 DEF StatesOK
  <2> QED BY <2>1, <2>2
<1>14. BoundsOK(m) /\ StatesOK(m, changelog)
  BY <1>11, <1>12, <1>13 DEF BoundsOK, StatesOK
<1>15. ~r.error => r.read \ r.overlooked \subseteq produced \cup Range(r.queue)
  BY <1>1, <1>2 DEF ItemsOK, Working, Overlooked
<1>16. CASE r.queue = <<>> /\ ~r.error /\ process' = n
  <2>1. r.read \ r.overlooked \subseteq produced
    BY <1>15, <1>16 DEF Range
  <2>2. Overlooked(n) = Overlooked(r) /\ n.pc = "run" /\ n.read = r.read /\ n.queue = r.queue
        /\ n.next = r.next /\ n.acks = r.acks /\ n.overlooked = r.overlooked /\ n.error = r.error
    BY <1>2, <1>8, <1>9 DEF Overlooked
  <2>3. ItemsOK(n, produced)
    BY <1>1, <1>2, <1>3, <2>1, <2>2 DEF ItemsOK, Working
  <2> QED BY <1>2, <1>7, <1>13, <1>16, <2>3, ProcessBecomes
<1>17. CASE r.error /\ process' = Raised
  BY <1>1, <1>2, <1>17, RaisedKeeps
<1>18. CASE ~r.error /\ process' = m
  <2>1. m.overlooked = r.overlooked \cup Range(r.queue) /\ m.pc = "run" /\ m.read = r.read
        /\ m.queue = r.queue /\ m.next = r.next /\ m.acks = r.acks
    BY <1>2, <1>8, <1>9, <1>11, <1>12
  <2>2. m.read \ m.overlooked \subseteq produced
    BY <1>15, <1>18, <2>1
  <2>3. m.read \ Overlooked(m) \subseteq produced \cup Range(m.queue)
    BY <1>1, <1>2, <1>18, <2>1 DEF ItemsOK, Working, Overlooked
  <2>4. ItemsOK(m, produced)
    BY <1>1, <1>3, <2>1, <2>2, <2>3 DEF ItemsOK
  <2> QED BY <1>2, <1>10, <1>14, <1>18, <2>4, ProcessBecomes
<1> QED BY <1>1, <1>5, <1>6, <1>16, <1>17, <1>18 DEF FlushChunk

\* An item that the client's thread passes on is in the queue.
LEMMA ReceiveItemKeeps ==
  ASSUME ConnectorInv, MaxOffset \in Nat, UNCHANGED scenario, ReceiveItem
  PROVE  ConnectorInv'
<1>1. PICK r \in Process : /\ r = process /\ BoundsOK(r) /\ ItemsOK(r, produced)
                           /\ StatesOK(r, changelog)
  BY ProcessBefore
<1>2. /\ Subscribed /\ r.pc \in {"run", "flush", "ack", "clear"}
      /\ r.pc = "run" \/ scenario.concurrent
      /\ UNCHANGED <<produced, changelog, acked, flushed>>
  BY <1>1 DEF ReceiveItem
<1>3. PICK item \in Item :
        process' = IF r.error THEN Produced(item)
                   ELSE [Produced(item) EXCEPT !.acks = @ \cup {item}]
  BY <1>1 DEF ReceiveItem, Item
<1>4. ~Chunked /\ ~Stateful
  BY <1>2 DEF Chunked, Subscribed, Stateful
<1>5. CASE r.error
  <2>1. process' = Raised
    BY <1>1, <1>3, <1>5 DEF Produced
  <2> QED BY <1>1, <1>2, <2>1, RaisedKeeps
<1>6. CASE ~r.error
  <2>1. PICK m : m = Produced(item)
    OBVIOUS
  <2>2. m \in Process
    BY <1>1, <1>6, <2>1, ProducedTo
  <2>3. /\ m.pc = r.pc /\ m.next = r.next /\ m.read = r.read \cup {item} /\ m.update = r.update
        /\ m.queue = Append(r.queue, item) /\ m.log = r.log /\ m.error = r.error
        /\ m.acks = r.acks /\ m.closing = r.closing /\ m.start = r.start
        /\ m.failures = r.failures /\ m.overlooked = r.overlooked
    BY <1>1, <1>6, <2>1, ProducedTo
  <2>4. PICK v \in SUBSET Item : v = m.acks \cup {item}
    BY <2>2 DEF Process
  <2>5. PICK n : n = [m EXCEPT !.acks = v]
    OBVIOUS
  <2>6. process' = n
    BY <1>3, <1>6, <2>1, <2>4, <2>5
  <2>7. n \in Process
    BY <2>2, <2>5 DEF Process
  <2>8. /\ n.pc = m.pc /\ n.next = m.next /\ n.read = m.read /\ n.update = m.update
        /\ n.queue = m.queue /\ n.log = m.log
    BY <2>2, <2>5 DEF Process
  <2>9. /\ n.error = m.error /\ n.acks = v /\ n.closing = m.closing /\ n.start = m.start
        /\ n.failures = m.failures /\ n.overlooked = m.overlooked
    BY <2>2, <2>5 DEF Process
  <2>10. Range(n.queue) = Range(r.queue) \cup {item}
    <3>1. r.queue \in Seq(Item)
      BY DEF Process
    <3>2. Range(Append(r.queue, item)) = Range(r.queue) \cup {item}
      BY <3>1, RangeOfAppend
    <3> QED BY <2>3, <2>8, <3>2
  <2>11. BoundsOK(n)
    BY <1>1, <2>3, <2>4, <2>8, <2>9 DEF BoundsOK
  <2>12. n.read \ Overlooked(n) \subseteq produced \cup Range(n.queue)
    BY <1>1, <1>2, <1>6, <2>3, <2>8, <2>9, <2>10 DEF ItemsOK, Working, Overlooked
  <2>13. ItemsOK(n, produced)
    BY <1>2, <1>4, <2>3, <2>8, <2>12 DEF ItemsOK
  <2>14. StatesOK(n, changelog)
    BY <1>1, <1>2, <1>4, <2>3, <2>8 DEF StatesOK
  <2> QED BY <1>2, <2>6, <2>7, <2>11, <2>13, <2>14, ProcessBecomes
<1> QED BY <1>5, <1>6

\* The end of run() changes nothing but that.
LEMMA EndRunKeeps ==
  ASSUME ConnectorInv, MaxOffset \in Nat, UNCHANGED scenario, EndRun
  PROVE  ConnectorInv'
<1>1. PICK r \in Process : /\ r = process /\ BoundsOK(r) /\ ItemsOK(r, produced)
                           /\ StatesOK(r, changelog)
  BY ProcessBefore
<1>2. PICK n : n = [r EXCEPT !.closing = TRUE]
  OBVIOUS
<1>3. process' = n /\ UNCHANGED <<produced, changelog, acked, flushed>>
  BY <1>1, <1>2 DEF EndRun
<1>4. n \in Process
  BY <1>2 DEF Process
<1>5. /\ n.pc = r.pc /\ n.next = r.next /\ n.read = r.read /\ n.update = r.update
      /\ n.queue = r.queue /\ n.log = r.log
  BY <1>2 DEF Process
<1>6. /\ n.error = r.error /\ n.acks = r.acks /\ n.closing = TRUE /\ n.start = r.start
      /\ n.failures = r.failures /\ n.overlooked = r.overlooked
  BY <1>2 DEF Process
<1>7. BoundsOK(n) /\ StatesOK(n, changelog)
  BY <1>1, <1>5, <1>6 DEF BoundsOK, StatesOK
<1>8. ItemsOK(n, produced)
  BY <1>1, <1>5, <1>6 DEF ItemsOK, Working, Overlooked
<1> QED BY <1>3, <1>4, <1>7, <1>8, ProcessBecomes

\* A flush produces the last state, if there is one, behind all that are in the changelog.
LEMMA BeginFlushKeeps ==
  ASSUME ConnectorInv, MaxOffset \in Nat, UNCHANGED scenario, BeginFlush
  PROVE  ConnectorInv'
<1>1. PICK r \in Process : /\ r = process /\ BoundsOK(r) /\ ItemsOK(r, produced)
                           /\ StatesOK(r, changelog)
  BY ProcessBefore
<1>2. r.pc = "run" /\ UNCHANGED <<produced, changelog, acked, flushed>>
  BY <1>1 DEF BeginFlush
<1>3. CASE r.update = NoOffset
  <2>1. PICK n : n = [r EXCEPT !.pc = "flush"]
    OBVIOUS
  <2>2. process' = n
    BY <1>1, <1>3, <2>1 DEF BeginFlush
  <2>3. n \in Process
    BY <2>1 DEF Process
  <2>4. /\ n.pc = "flush" /\ n.next = r.next /\ n.read = r.read /\ n.update = r.update
        /\ n.queue = r.queue /\ n.log = r.log
    BY <2>1 DEF Process
  <2>5. /\ n.error = r.error /\ n.acks = r.acks /\ n.closing = r.closing /\ n.start = r.start
        /\ n.failures = r.failures /\ n.overlooked = r.overlooked
    BY <2>1 DEF Process
  <2>6. BoundsOK(n)
    BY <1>1, <2>4, <2>5 DEF BoundsOK
  <2>7. ItemsOK(n, produced)
    BY <1>1, <1>2, <2>4, <2>5 DEF ItemsOK, Working, Overlooked
  <2>8. StatesOK(n, changelog)
    BY <1>1, <1>2, <1>3, <2>4, <2>5 DEF StatesOK
  <2> QED BY <1>2, <2>2, <2>3, <2>6, <2>7, <2>8, ProcessBecomes
<1>4. CASE r.update # NoOffset /\ r.error
  <2>1. PICK n : n = [r EXCEPT !.pc = "failing", !.error = FALSE]
    OBVIOUS
  <2>2. process' = n
    BY <1>1, <1>4, <2>1 DEF BeginFlush
  <2>3. n \in Process
    BY <2>1 DEF Process
  <2>4. /\ n.pc = "failing" /\ n.next = r.next /\ n.read = r.read /\ n.update = r.update
        /\ n.queue = r.queue /\ n.log = r.log
    BY <2>1 DEF Process
  <2>5. /\ n.error = FALSE /\ n.acks = r.acks /\ n.closing = r.closing /\ n.start = r.start
        /\ n.failures = r.failures /\ n.overlooked = r.overlooked
    BY <2>1 DEF Process
  <2>6. BoundsOK(n)
    BY <1>1, <2>4, <2>5 DEF BoundsOK
  <2>7. ItemsOK(n, produced)
    BY <1>1, <2>4, <2>5 DEF ItemsOK, Working
  <2>8. StatesOK(n, changelog)
    BY <1>1, <1>2, <2>4, <2>5 DEF StatesOK
  <2> QED BY <1>2, <2>2, <2>3, <2>6, <2>7, <2>8, ProcessBecomes
<1>5. CASE r.update # NoOffset /\ ~r.error
  <2>1. /\ Stateful /\ ~Subscribed /\ ~Chunked /\ r.log = <<>> /\ r.update = r.next - 1
        /\ changelog < r.next
    BY <1>1, <1>2, <1>5 DEF StatesOK, Stateful, Subscribed, Chunked
  <2>2. r.update \in Item /\ r.next \in Int
    BY <1>5 DEF Process
  <2>3. PICK l : l = Append(r.log, r.update)
    OBVIOUS
  <2>4. l = <<r.next - 1>> /\ l \in Seq(Item)
    BY <2>1, <2>2, <2>3
  <2>5. PICK n : n = [r EXCEPT !.pc = "flush", !.log = l, !.update = NoOffset]
    OBVIOUS
  <2>6. process' = n
    BY <1>1, <1>5, <2>3, <2>5 DEF BeginFlush
  <2>7. PICK a : a = [r EXCEPT !.pc = "flush"]
    OBVIOUS
  <2>8. PICK b : b = [a EXCEPT !.log = l]
    OBVIOUS
  <2>9. a \in Process
    BY <2>7 DEF Process
  <2>10. b \in Process
    BY <2>4, <2>8, <2>9 DEF Process
  <2>11. n = [b EXCEPT !.update = NoOffset]
    BY <2>5, <2>7, <2>8
  <2>12. n \in Process
    BY <2>10, <2>11 DEF Process
  <2>13. /\ n.pc = "flush" /\ n.next = r.next /\ n.read = r.read /\ n.update = NoOffset
         /\ n.queue = r.queue /\ n.log = l
    BY <2>5 DEF Process
  <2>14. /\ n.error = r.error /\ n.acks = r.acks /\ n.closing = r.closing /\ n.start = r.start
         /\ n.failures = r.failures /\ n.overlooked = r.overlooked
    BY <2>5 DEF Process
  <2>15. BoundsOK(n)
    <3>1. r.next \in Nat
      BY DEF Process
    <3> QED BY <1>1, <2>13, <2>14, <3>1 DEF BoundsOK, NoOffset
  <2>16. ItemsOK(n, produced)
    BY <1>1, <1>2, <2>1, <2>13, <2>14 DEF ItemsOK, Working, Overlooked
  <2>17. n.log # <<>>
    BY <2>4, <2>13
  <2>18. StatesOK(n, changelog)
    BY <2>1, <2>4, <2>13, <2>17 DEF StatesOK
  <2> QED BY <1>2, <2>6, <2>12, <2>15, <2>16, <2>18, ProcessBecomes
<1> QED BY <1>3, <1>4, <1>5

\* A flush that returns has seen everything delivered.
LEMMA EndFlushKeeps ==
  ASSUME ConnectorInv, MaxOffset \in Nat, UNCHANGED scenario, EndFlush
  PROVE  ConnectorInv'
<1>1. PICK r \in Process : /\ r = process /\ BoundsOK(r) /\ ItemsOK(r, produced)
                           /\ StatesOK(r, changelog)
  BY ProcessBefore
<1>2. r.pc = "flush" /\ UNCHANGED <<produced, changelog, acked>>
  BY <1>1 DEF EndFlush
<1>3. CASE process' = [r EXCEPT !.pc = "failing"] /\ flushed' = flushed
  <2>1. PICK n : n = [r EXCEPT !.pc = "failing"]
    OBVIOUS
  <2>2. n \in Process
    BY <2>1 DEF Process
  <2>3. /\ n.pc = "failing" /\ n.next = r.next /\ n.read = r.read /\ n.update = r.update
        /\ n.queue = r.queue /\ n.log = r.log
    BY <2>1 DEF Process
  <2>4. /\ n.error = r.error /\ n.acks = r.acks /\ n.closing = r.closing /\ n.start = r.start
        /\ n.failures = r.failures /\ n.overlooked = r.overlooked
    BY <2>1 DEF Process
  <2>5. BoundsOK(n)
    BY <1>1, <2>3, <2>4 DEF BoundsOK
  <2>6. ItemsOK(n, produced)
    BY <1>1, <2>3, <2>4 DEF ItemsOK, Working
  <2>7. StatesOK(n, changelog)
    BY <1>1, <1>2, <2>3, <2>4 DEF StatesOK
  <2> QED BY <1>2, <1>3, <2>1, <2>2, <2>5, <2>6, <2>7, ProcessBecomes
<1>4. CASE FlushReturns /\ flushed' = flushed \cup (r.read \ r.overlooked)
           /\ process' = [r EXCEPT !.error = FALSE,
                !.pc = IF r.closing THEN "done" ELSE IF Subscribed THEN "ack" ELSE "run"]
  <2>1. PICK x \in {"done", "ack", "run"} :
          x = IF r.closing THEN "done" ELSE IF Subscribed THEN "ack" ELSE "run"
    OBVIOUS
  <2>2. x = "ack" => Subscribed
    BY <2>1
  <2>3. PICK n : n = [r EXCEPT !.error = FALSE, !.pc = x]
    OBVIOUS
  <2>4. process' = n
    BY <1>4, <2>1, <2>3
  <2>5. n \in Process
    BY <2>3 DEF Process
  <2>6. /\ n.pc = x /\ n.next = r.next /\ n.read = r.read /\ n.update = r.update
        /\ n.queue = r.queue /\ n.log = r.log
    BY <2>3 DEF Process
  <2>7. /\ n.error = FALSE /\ n.acks = r.acks /\ n.closing = r.closing /\ n.start = r.start
        /\ n.failures = r.failures /\ n.overlooked = r.overlooked
    BY <2>3 DEF Process
  <2>8. r.queue = <<>> /\ r.log = <<>> /\ ~r.error
    BY <1>1, <1>4 DEF FlushReturns
  <2>9. r.read \ Overlooked(r) \subseteq produced
    BY <1>1, <1>2, <2>8 DEF ItemsOK, Working, Range
  <2>10. r.read \ r.overlooked \subseteq produced
    BY <2>9 DEF Overlooked
  <2>11. Stateful => ~Subscribed /\ r.next - 1 = changelog /\ r.read \subseteq 0..changelog
    BY <1>1, <1>2, <2>8 DEF StatesOK, ItemsOK, Stateful, Subscribed
  <2>12. FlushedOK'
    BY <1>2, <1>4, <2>10, <2>11 DEF FlushedOK, ConnectorInv, Stateful, Subscribed
  <2>13. BoundsOK(n)
    BY <1>1, <2>6, <2>7 DEF BoundsOK
  <2>14. ItemsOK(n, produced)
    BY <1>1, <1>2, <2>6, <2>7, <2>8 DEF ItemsOK, Working, Overlooked
  <2>15. StatesOK(n, changelog)
    BY <1>1, <1>2, <2>2, <2>6, <2>8, <2>11 DEF StatesOK
  <2>16. flushed' \subseteq Item
    BY <1>4 DEF Process, ConnectorInv, ConnectorTypeOK
  <2>17. produced \subseteq Item /\ acked \subseteq Item /\ changelog \in Item \cup {NoOffset}
    BY DEF ConnectorInv, ConnectorTypeOK
  <2> QED BY <1>2, <2>4, <2>5, <2>12, <2>13, <2>14, <2>15, <2>16, <2>17, ConnectorBecomes
<1> QED BY <1>1, <1>3, <1>4 DEF EndFlush

\* What is acknowledged was delivered, unless the client's thread goes on meanwhile.
LEMMA AcknowledgeKeeps ==
  ASSUME ConnectorInv, MaxOffset \in Nat, UNCHANGED scenario,
         Acknowledge \/ ForgetAcks
  PROVE  ConnectorInv'
<1>1. PICK r \in Process : /\ r = process /\ BoundsOK(r) /\ ItemsOK(r, produced)
                           /\ StatesOK(r, changelog)
  BY ProcessBefore
<1>2. /\ r.pc \in {"ack", "clear"} /\ UNCHANGED <<produced, changelog, flushed>>
      /\ acked' \in {acked, acked \cup r.acks}
  BY <1>1 DEF Acknowledge, ForgetAcks
<1>3. Subscribed /\ ~Stateful /\ ~Chunked
  BY <1>1, <1>2 DEF StatesOK, Subscribed, Stateful, Chunked
<1>4. FlushedOK'
  <2>1. ~scenario.concurrent => r.read \subseteq produced
    BY <1>1, <1>2, <1>3 DEF ItemsOK, Working, Overlooked, Subscribed, Range
  <2> QED BY <1>1, <1>2, <1>3, <2>1 DEF FlushedOK, ConnectorInv, BoundsOK, Subscribed, Stateful
<1>5. /\ acked' \subseteq Item /\ flushed \subseteq Item /\ produced \subseteq Item
      /\ changelog \in Item \cup {NoOffset}
  BY <1>2 DEF ConnectorInv, ConnectorTypeOK, Process
<1>6. CASE Acknowledge
  <2>1. PICK n : n = [r EXCEPT !.pc = "clear"]
    OBVIOUS
  <2>2. process' = n
    BY <1>1, <1>6, <2>1 DEF Acknowledge
  <2>3. n \in Process
    BY <2>1 DEF Process
  <2>4. /\ n.pc = "clear" /\ n.next = r.next /\ n.read = r.read /\ n.update = r.update
        /\ n.queue = r.queue /\ n.log = r.log
    BY <2>1 DEF Process
  <2>5. /\ n.error = r.error /\ n.acks = r.acks /\ n.closing = r.closing /\ n.start = r.start
        /\ n.failures = r.failures /\ n.overlooked = r.overlooked
    BY <2>1 DEF Process
  <2>6. BoundsOK(n)
    BY <1>1, <2>4, <2>5 DEF BoundsOK
  <2>7. r.pc = "ack"
    BY <1>1, <1>6 DEF Acknowledge
  <2>8. ItemsOK(n, produced)
    BY <1>1, <1>3, <2>4, <2>5, <2>7 DEF ItemsOK, Working, Overlooked
  <2>9. StatesOK(n, changelog)
    BY <1>1, <1>3, <2>4, <2>5 DEF StatesOK
  <2> QED BY <1>2, <1>4, <1>5, <2>2, <2>3, <2>6, <2>8, <2>9, ConnectorBecomes
<1>7. CASE ForgetAcks
  <2>1. PICK n : n = [r EXCEPT !.pc = "run", !.acks = {}]
    OBVIOUS
  <2>2. process' = n
    BY <1>1, <1>7, <2>1 DEF ForgetAcks
  <2>3. n \in Process
    <3>1. PICK v \in SUBSET Item : v = {}
      OBVIOUS
    <3>2. n = [r EXCEPT !.pc = "run", !.acks = v]
      BY <2>1, <3>1
    <3> QED BY <3>2 DEF Process
  <2>4. /\ n.pc = "run" /\ n.next = r.next /\ n.read = r.read /\ n.update = r.update
        /\ n.queue = r.queue /\ n.log = r.log
    BY <2>1 DEF Process
  <2>5. /\ n.error = r.error /\ n.acks = {} /\ n.closing = r.closing /\ n.start = r.start
        /\ n.failures = r.failures /\ n.overlooked = r.overlooked
    BY <2>1 DEF Process
  <2>6. BoundsOK(n)
    BY <1>1, <2>4, <2>5 DEF BoundsOK
  <2>7. ItemsOK(n, produced)
    BY <1>1, <1>2, <1>3, <2>4, <2>5 DEF ItemsOK, Working, Overlooked
  <2>8. StatesOK(n, changelog)
    BY <1>1, <1>3, <2>4, <2>5 DEF StatesOK
  <2> QED BY <1>2, <1>4, <1>5, <2>2, <2>3, <2>6, <2>7, <2>8, ConnectorBecomes
<1> QED BY <1>6, <1>7

\* A delivery moves an item from the queue to the topic; a failed one keeps an error.
LEMMA DeliverItemKeeps ==
  ASSUME ConnectorInv, MaxOffset \in Nat, UNCHANGED scenario,
         DeliverItem \/ ItemFails
  PROVE  ConnectorInv'
<1>1. PICK r \in Process : /\ r = process /\ BoundsOK(r) /\ ItemsOK(r, produced)
                           /\ StatesOK(r, changelog)
  BY ProcessBefore
<1>2. r.queue # <<>> /\ UNCHANGED <<changelog, acked, flushed>>
  BY <1>1 DEF DeliverItem, ItemFails
<1>3. PICK q, h : q = Tail(r.queue) /\ h = Head(r.queue)
  OBVIOUS
<1>4. q \in Seq(Item) /\ h \in Item /\ Range(r.queue) = {h} \cup Range(q)
  <2>1. r.queue \in Seq(Item)
    BY DEF Process
  <2> QED BY <1>2, <1>3, <2>1, RangeOfTail
<1>5. r.pc # "done" /\ ~(r.pc \in {"ack", "clear"} /\ ~scenario.concurrent)
  BY <1>1, <1>2 DEF ItemsOK
<1>6. /\ changelog \in Item \cup {NoOffset} /\ produced \subseteq Item
      /\ acked \subseteq Item /\ flushed \subseteq Item
  BY DEF ConnectorInv, ConnectorTypeOK
<1>7. CASE DeliverItem
  <2>1. PICK n : n = [r EXCEPT !.queue = q]
    OBVIOUS
  <2>2. process' = n /\ produced' = produced \cup {h}
    BY <1>1, <1>3, <1>7, <2>1 DEF DeliverItem
  <2>3. n \in Process
    BY <1>4, <2>1 DEF Process
  <2>4. /\ n.pc = r.pc /\ n.next = r.next /\ n.read = r.read /\ n.update = r.update
        /\ n.queue = q /\ n.log = r.log
    BY <2>1 DEF Process
  <2>5. /\ n.error = r.error /\ n.acks = r.acks /\ n.closing = r.closing /\ n.start = r.start
        /\ n.failures = r.failures /\ n.overlooked = r.overlooked
    BY <2>1 DEF Process
  <2>6. BoundsOK(n) /\ StatesOK(n, changelog')
    BY <1>1, <1>2, <2>4, <2>5 DEF BoundsOK, StatesOK
  <2>7. ItemsOK(n, produced')
    BY <1>1, <1>4, <1>5, <2>2, <2>4, <2>5 DEF ItemsOK, Working, Overlooked
  <2>8. FlushedOK'
    BY <1>2, <2>2 DEF FlushedOK, ConnectorInv, Stateful, Subscribed
  <2> QED BY <1>2, <1>4, <1>6, <2>2, <2>3, <2>6, <2>7, <2>8, ConnectorBecomes
<1>8. CASE ItemFails
  <2>1. PICK n : n = [r EXCEPT !.queue = q, !.error = TRUE]
    OBVIOUS
  <2>2. process' = n /\ produced' = produced
    BY <1>1, <1>3, <1>8, <2>1 DEF ItemFails
  <2>3. n \in Process
    BY <1>4, <2>1 DEF Process
  <2>4. /\ n.pc = r.pc /\ n.next = r.next /\ n.read = r.read /\ n.update = r.update
        /\ n.queue = q /\ n.log = r.log
    BY <2>1 DEF Process
  <2>5. /\ n.error = TRUE /\ n.acks = r.acks /\ n.closing = r.closing /\ n.start = r.start
        /\ n.failures = r.failures /\ n.overlooked = r.overlooked
    BY <2>1 DEF Process
  <2>6. BoundsOK(n) /\ StatesOK(n, changelog)
    BY <1>1, <2>4, <2>5 DEF BoundsOK, StatesOK
  <2>7. ItemsOK(n, produced)
    BY <1>1, <1>5, <2>4, <2>5 DEF ItemsOK
  <2> QED BY <1>2, <2>2, <2>3, <2>6, <2>7, ProcessBecomes
<1> QED BY <1>7, <1>8

\* The state that is delivered is later than those in the changelog.
LEMMA DeliverStateKeeps ==
  ASSUME ConnectorInv, MaxOffset \in Nat, UNCHANGED scenario, DeliverState
  PROVE  ConnectorInv'
<1>1. PICK r \in Process : /\ r = process /\ BoundsOK(r) /\ ItemsOK(r, produced)
                           /\ StatesOK(r, changelog)
  BY ProcessBefore
<1>2. r.log # <<>> /\ UNCHANGED <<produced, acked, flushed>>
  BY <1>1 DEF DeliverState
<1>3. PICK l, h : l = Tail(r.log) /\ h = Head(r.log)
  OBVIOUS
<1>4. l \in Seq(Item) /\ h \in Item
  <2>1. r.log \in Seq(Item)
    BY DEF Process
  <2> QED BY <1>2, <1>3, <2>1, RangeOfTail
<1>5. Stateful => r.pc # "down" /\ h = r.next - 1 /\ l = <<>> /\ changelog <= h
  <2>1. r.next \in Int /\ changelog \in Int
    BY DEF Process, ConnectorInv, ConnectorTypeOK, Item, NoOffset
  <2>2. Stateful => r.pc # "down" /\ r.log = <<r.next - 1>> /\ changelog < r.next
    BY <1>1, <1>2 DEF StatesOK
  <2>3. ASSUME Stateful PROVE h = r.next - 1 /\ l = <<>>
    <3>1. PICK x \in Int : x = r.next - 1
      BY <2>1
    <3>2. /\ Head(<<x>>) = <<x>>[1] /\ Tail(<<x>>) \in Seq(Int)
          /\ Len(Tail(<<x>>)) = Len(<<x>>) - 1
      <4>1. <<x>> \in Seq(Int) /\ <<x>> # <<>>
        OBVIOUS
      <4> QED BY <4>1, HeadTailProperties
    <3>3. Len(<<x>>) = 1 /\ <<x>>[1] = x
      OBVIOUS
    <3>4. Tail(<<x>>) = <<>>
      BY <3>2, <3>3, EmptySeq
    <3>5. r.log = <<x>>
      BY <2>2, <2>3, <3>1
    <3> QED BY <1>3, <3>1, <3>2, <3>3, <3>4, <3>5
  <2> QED BY <2>1, <2>2, <2>3
<1>6. r.pc # "down"
  BY <1>1, <1>2 DEF StatesOK
<1>7. PICK n : n = [r EXCEPT !.log = l]
  OBVIOUS
<1>8. process' = n /\ changelog' = h
  BY <1>1, <1>3, <1>7 DEF DeliverState
<1>9. n \in Process
  BY <1>4, <1>7 DEF Process
<1>10. /\ n.pc = r.pc /\ n.next = r.next /\ n.read = r.read /\ n.update = r.update
       /\ n.queue = r.queue /\ n.log = l
  BY <1>7 DEF Process
<1>11. /\ n.error = r.error /\ n.acks = r.acks /\ n.closing = r.closing /\ n.start = r.start
       /\ n.failures = r.failures /\ n.overlooked = r.overlooked
  BY <1>7 DEF Process
<1>12. BoundsOK(n)
  BY <1>1, <1>10, <1>11 DEF BoundsOK
<1>13. ItemsOK(n, produced')
  BY <1>1, <1>2, <1>10, <1>11 DEF ItemsOK, Working, Overlooked
<1>14. StatesOK(n, changelog')
  <2>1. r.next \in Int
    BY DEF Process
  <2>2. Stateful => h < r.next
    BY <1>5, <2>1
  <2> QED BY <1>1, <1>5, <1>6, <1>8, <1>10, <2>2 DEF StatesOK
<1>15. FlushedOK'
  <2>1. Stateful => 0..changelog \subseteq 0..h
    BY <1>4, <1>5 DEF ConnectorInv, ConnectorTypeOK, Item, NoOffset
  <2> QED BY <1>2, <1>8, <2>1 DEF FlushedOK, ConnectorInv, Stateful, Subscribed
<1>16. produced \subseteq Item /\ acked \subseteq Item /\ flushed \subseteq Item
  BY DEF ConnectorInv, ConnectorTypeOK
<1> QED BY <1>2, <1>4, <1>8, <1>9, <1>12, <1>13, <1>14, <1>15, <1>16, ConnectorBecomes

\* The connector's invariant after any step of the application.
LEMMA ConnectorStep ==
  ASSUME ConnectorInv, MaxOffset \in Nat, UNCHANGED scenario,
         ConnectorNext \/ UNCHANGED connectorVars
  PROVE  ConnectorInv'
<1>1. CASE UNCHANGED connectorVars
  BY <1>1, ProcessBefore, ProcessBecomes DEF connectorVars
<1>2. CASE ConnectorNext
  BY <1>2, StartSourceKeeps, ReadItemKeeps, FlushChunkKeeps, ReceiveItemKeeps, EndRunKeeps,
     BeginFlushKeeps, EndFlushKeeps, AcknowledgeKeeps, DeliverItemKeeps, DeliverStateKeeps,
     EndSourceKeeps DEF ConnectorNext, SourceStep
<1> QED BY <1>1, <1>2

\* "It ensures the state is published to the changelog topic and all messages are
\* successfully delivered to Kafka": a Source.flush() or StatefulSource.flush() that has
\* returned is never undone by what fails, dies and starts again later; a source whose run()
\* ends without an error has delivered what it read; and a PubSub source that is not
\* concurrent acknowledges only what it has delivered.
THEOREM FlushIsSafeHolds == Spec => []((Connecting => ConnectorTypeOK) /\ FlushIsSafe)
<1>1. Init => scenario \in Scenarios /\ ConnectorInv
  <2> SUFFICES ASSUME Init PROVE scenario \in Scenarios /\ ConnectorInv
    OBVIOUS
  <2>1. scenario \in Scenarios /\ MaxOffset \in Nat
    BY BoundsNat DEF Init
  <2>2. NewProcess \in Process
    BY <2>1 DEF NewProcess, Process, Item, NoOffset
  <2>3. BoundsOK(NewProcess) /\ ItemsOK(NewProcess, {}) /\ StatesOK(NewProcess, NoOffset)
    BY DEF NewProcess, BoundsOK, ItemsOK, StatesOK, Working, NoOffset, ChunkAttempts
  <2> QED BY <2>1, <2>2, <2>3 DEF Init, ConnectorInit, ConnectorInv, ConnectorTypeOK, BoundsOK,
         FlushedOK
<1>2. scenario \in Scenarios /\ ConnectorInv /\ [Next]_applicationVars
      => (scenario \in Scenarios /\ ConnectorInv)'
  <2> SUFFICES ASSUME scenario \in Scenarios, ConnectorInv, [Next]_applicationVars
               PROVE  (scenario \in Scenarios /\ ConnectorInv)'
    OBVIOUS
  <2>1. UNCHANGED scenario /\ (ConnectorNext \/ UNCHANGED connectorVars)
    BY Zenon DEF Next, applicationVars, BesidesExactlyOnce, BesidesReplicator, BesidesProcesses,
       BesidesConnector, BesidesTracker, BesidesBroker, BesidesSink, BesidesGraph, BesidesTopics
  <2> QED BY <2>1, BoundsNat, ConnectorStep
<1>3. ConnectorInv => (Connecting => ConnectorTypeOK) /\ FlushIsSafe
  <2> SUFFICES ASSUME ConnectorInv PROVE FlushIsSafe
    BY DEF ConnectorInv
  <2>1. process.pc = "done" => process.read \ Overlooked(process) \subseteq produced
    BY DEF ConnectorInv, ItemsOK, Working, Range
  <2> QED BY <2>1 DEF ConnectorInv, FlushedOK, FlushIsSafe, Overlooked
<1> QED BY <1>1, <1>2, <1>3, PTL DEF Spec

=============================================================================
