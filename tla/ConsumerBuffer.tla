---------------------------- MODULE ConsumerBuffer ----------------------------
(***************************************************************************)
(* InternalConsumer in its buffered mode, which concat() and the joins use *)
(* to process topics in timestamp order: the consumer reads batches ahead  *)
(* of the processing, keeps them in one buffer per topic partition, hands  *)
(* out the oldest of the buffered messages, and pauses the partitions      *)
(* whose buffers are full.  Sink backpressure clears the buffers and seeks *)
(* back to the first offsets of the checkpoint.                            *)
(*                                                                         *)
(* One group of buffers is modelled: the partitions of one number, one per *)
(* topic.  A message handed out is processed at once.                      *)
(***************************************************************************)
EXTENDS Integers, Sequences, FiniteSets, Functions, FiniteSetsExt

CONSTANTS
    Topic,       \* the topics that are read together
    Stamps,      \* topic -> timestamps of its messages, by offset + 1
    MaxBuffer,   \* max_partition_buffer_size
    MaxFaults,   \* bound on restarts and backpressure
    HazardSets   \* the combinations of hazards to consider

\* "unprocessed" - backpressure may find a topic whose messages are buffered,
\*                 none of them processed since the last commit
\* "caught_up"   - a restart or backpressure may leave a topic at the end of its
\*                 log, with nothing to be read again
HazardKinds == {"unprocessed", "caught_up"}

ASSUME ConstantsAssumption ==
    /\ IsFiniteSet(Topic)
    /\ Stamps \in [Topic -> Seq(Nat)]
    /\ MaxBuffer \in Nat \ {0}
    /\ MaxFaults \in Nat
    /\ HazardSets \subseteq SUBSET HazardKinds

VARIABLES
    \* Kafka
    available,      \* topic -> messages in the log
    committed,      \* topic -> committed offset of the group
    \* librdkafka
    position,       \* topic -> next offset consume() returns
    fetched,        \* topic -> end of the messages in the local queue
    cached,         \* topic -> cached high watermark
    paused,         \* topics the consumer does not fetch
    \* InternalConsumer
    buffer,         \* topic -> PartitionBuffer
    backpressured,  \* InternalConsumer._backpressurred_tps
    \* the current Checkpoint
    tpOffsets,      \* topic -> last processed offset (-1: absent)
    starting,       \* topic -> first processed offset (-1: absent)
    \* history
    handled,        \* messages processed and not given up, as <<topic, offset>>
    known,          \* topic -> watermark when the consumer last looked
    faults,
    hazards         \* what may go wrong in this behaviour, one of HazardSets

kafkaVars    == <<available, committed>>
clientVars   == <<position, fetched, cached, paused>>
consumerVars == <<buffer, backpressured>>
ckptVars     == <<tpOffsets, starting>>
vars == <<kafkaVars, clientVars, consumerVars, ckptVars, handled, known, faults, hazards>>

Unknown == -1001

Size(t) == Len(Stamps[t])
Offset(t) == 0..Size(t) - 1
Stamp(t, offset) == Stamps[t][offset + 1]
Message == {m \in Topic \X Nat : m[2] \in Offset(m[1])}

Buffer(t) == [messages : Seq(Offset(t)), maxOffset : -1..Size(t) - 1,
              highWatermark : {Unknown} \cup 0..Size(t), paused : BOOLEAN]

Buffers == [messages : Seq(Nat), maxOffset : Int, highWatermark : Int, paused : BOOLEAN]

\* Of one topic.
TypedAt(t) ==
    /\ available[t] \in 0..Size(t)
    /\ committed[t] \in 0..available[t]
    /\ position[t] \in 0..fetched[t]
    /\ fetched[t] \in 0..available[t]
    /\ cached[t] \in {Unknown} \cup 0..available[t]
    /\ buffer[t] \in Buffer(t)
    /\ tpOffsets[t] \in -1..Size(t) - 1
    /\ starting[t] \in -1..tpOffsets[t]
    /\ known[t] \in {Unknown} \cup 0..available[t]

TypeOK ==
    /\ {available, committed, position, fetched, cached, tpOffsets, starting, known}
           \subseteq [Topic -> Int]
    /\ buffer \in [Topic -> Buffers]
    /\ \A t \in Topic : TypedAt(t)
    /\ paused \subseteq Topic
    /\ backpressured \subseteq Topic
    /\ handled \subseteq Message
    /\ faults \in 0..MaxFaults
    /\ hazards \in HazardSets

-----------------------------------------------------------------------------
(* PartitionBuffer *)

EmptyBuffer == [messages |-> <<>>, maxOffset |-> -1, highWatermark |-> Unknown,
                paused |-> FALSE]

\* Mutant: a partition that has been read to the end counts as active.
IdlenessLate(b) ==
    IF b.highWatermark < 0 THEN "unknown"
    ELSE IF b.maxOffset >= b.highWatermark THEN "idle" ELSE "active"

\* idleness()
Idleness(b) ==
    IF b.highWatermark < 0 THEN "unknown"
    ELSE IF b.maxOffset + 1 >= b.highWatermark THEN "idle" ELSE "active"

IsEmpty(b) == b.messages = <<>>
Full(b) == Len(b.messages) >= MaxBuffer

\* Mutant: the watermark of a drained buffer is kept.
PopLeftKeepsWatermark(b) == [b EXCEPT !.messages = Tail(@)]

\* popleft(): the watermark of a buffer that becomes empty is not trusted.
PopLeft(b) ==
    [b EXCEPT !.messages = Tail(@),
              !.highWatermark = IF Len(b.messages) = 1 THEN Unknown ELSE @]

\* Mutants: clear() forgets to reset the largest offset, or the pause.
ClearKeepsMaxOffset(b) == [EmptyBuffer EXCEPT !.maxOffset = b.maxOffset]
ClearKeepsPaused(b) == [EmptyBuffer EXCEPT !.paused = b.paused]

\* clear()
Clear(b) == EmptyBuffer

-----------------------------------------------------------------------------
(* PartitionBufferGroup *)

\* pop() hands out a message: with several partitions, only when none of them
\* is waiting for the broker.
Ready(bufs) ==
    /\ \E t \in Topic : ~IsEmpty(bufs[t])
    /\ \/ Cardinality(Topic) = 1
       \/ \A t \in Topic : IsEmpty(bufs[t]) => Idleness(bufs[t]) = "idle"

\* The partitions with the smallest next timestamp.
Oldest(bufs) ==
    {t \in Topic :
        /\ ~IsEmpty(bufs[t])
        /\ \A u \in Topic : ~IsEmpty(bufs[u]) =>
              Stamp(t, Head(bufs[t].messages)) <= Stamp(u, Head(bufs[u].messages))}

\* Mutant: offsets are off by one.
FeedNext(batch) ==
    [t \in Topic |->
        [buffer[t] EXCEPT
            !.messages = @ \o [i \in 1..batch[t] |-> position[t] + i],
            !.maxOffset = IF batch[t] = 0 THEN @ ELSE position[t] + batch[t],
            !.highWatermark = cached[t]]]

\* The messages a batch adds to the buffers, and the cached watermarks.
Feed(batch) ==
    [t \in Topic |->
        [buffer[t] EXCEPT
            !.messages = @ \o [i \in 1..batch[t] |-> position[t] + i - 1],
            !.maxOffset = IF batch[t] = 0 THEN @ ELSE position[t] + batch[t] - 1,
            !.highWatermark = cached[t]]]

\* resume_empty(): paused partitions that are idle or not full.
Resumable(bufs) ==
    {t \in Topic : bufs[t].paused /\ (Idleness(bufs[t]) # "active" \/ ~Full(bufs[t]))}

\* pause_full(): never in a group of a single partition.
Pausable(bufs) ==
    {t \in Topic :
        /\ Cardinality(Topic) > 1
        /\ ~bufs[t].paused
        /\ Full(bufs[t])
        /\ Idleness(bufs[t]) = "active"}

Balanced(bufs) ==
    [t \in Topic |->
        [bufs[t] EXCEPT !.paused = (@ \/ t \in Pausable(bufs)) /\ t \notin Resumable(bufs)]]

-----------------------------------------------------------------------------
(* librdkafka, as InternalConsumer uses it *)

\* The background thread gets a fetch response: more messages, or only the
\* news that there are none.
Fetch(t) ==
    /\ t \notin paused
    /\ cached[t] # available[t] \/ fetched[t] # available[t]
    /\ cached' = [cached EXCEPT ![t] = available[t]]
    /\ \/ fetched[t] = available[t] /\ UNCHANGED fetched
       \/ fetched' \in {[fetched EXCEPT ![t] = n] : n \in fetched[t] + 1..available[t]}
    /\ UNCHANGED <<kafkaVars, position, paused, consumerVars, ckptVars, handled,
                   known, faults, hazards>>

\* What consume() may return: as many messages as it is asked for, if the local
\* queue holds them, of any of the partitions.
Batches ==
    LET queued == [t \in Topic |-> fetched[t] - position[t]]
        total  == SumFunction(queued)
    IN  {batch \in [Topic -> 0..MaxBuffer] :
            /\ \A t \in Topic : batch[t] <= queued[t]
            /\ SumFunction(batch) = IF total < MaxBuffer THEN total ELSE MaxBuffer}

-----------------------------------------------------------------------------
(* InternalConsumer and Application *)

\* The message is processed and its offset stored in the checkpoint.
HandOut(bufs, t) ==
    LET offset == Head(bufs[t].messages)
    IN  /\ buffer' = [bufs EXCEPT ![t] = PopLeft(@)]
        /\ handled' = handled \cup {<<t, offset>>}
        /\ tpOffsets' = [tpOffsets EXCEPT ![t] = offset]
        /\ starting' = [starting EXCEPT ![t] = IF @ < 0 THEN offset ELSE @]

\* poll_row(buffered=True) finds a message in the buffer.
PollBuffer ==
    /\ Ready(buffer)
    /\ \E t \in Oldest(buffer) :
          /\ HandOut(buffer, t)
          /\ known' = [known EXCEPT ![t] = cached[t]]
    /\ UNCHANGED <<kafkaVars, clientVars, backpressured, faults, hazards>>

\* poll_row(buffered=True) feeds the buffer first, and probes it again.
\* PartitionBuffer.append() would raise for an offset that is not new.
PollFeed ==
    /\ ~Ready(buffer)
    /\ \E batch \in Batches :
          LET fed  == Feed(batch)
              bufs == Balanced(fed)
              now  == (paused \ (Resumable(fed) \ backpressured)) \cup Pausable(fed)
              next == [t \in Topic |-> position[t] + batch[t]]
          IN  /\ \A t \in Topic : batch[t] > 0 => position[t] > buffer[t].maxOffset
              /\ position' = next
              /\ fetched' = [t \in Topic |-> IF t \in now THEN next[t] ELSE fetched[t]]
              /\ paused' = now
              /\ \/ Ready(bufs) /\ \E t \in Oldest(bufs) : HandOut(bufs, t)
                 \/ ~Ready(bufs) /\ buffer' = bufs /\ UNCHANGED <<ckptVars, handled>>
    /\ known' = cached
    /\ UNCHANGED <<kafkaVars, cached, backpressured, faults, hazards>>

\* Checkpoint.commit() without backpressure.
CommitCheckpoint ==
    /\ \E t \in Topic : tpOffsets[t] >= 0
    /\ committed' = [t \in Topic |->
                        IF tpOffsets[t] >= 0 THEN tpOffsets[t] + 1 ELSE committed[t]]
    /\ tpOffsets' = [t \in Topic |-> -1]
    /\ starting' = [t \in Topic |-> -1]
    /\ UNCHANGED <<available, clientVars, consumerVars, handled, known, faults, hazards>>

\* A topic that restarts at this offset has messages to read, or is untouched.
HasMore(t, offset) == offset = 0 \/ offset < available[t]

\* Mutant: seek to the last processed offset of the checkpoint.
SeekToLast(t) == IF starting[t] >= 0 THEN tpOffsets[t] ELSE position[t]

\* Where trigger_backpressure() leaves a partition.
SeekTo(t) == IF starting[t] >= 0 THEN starting[t] ELSE position[t]

\* trigger_backpressure(): pause everything, clear the buffers, rewind the
\* topics of the checkpoint, which is then replaced.
TriggerBackpressure ==
    /\ \E t \in Topic : tpOffsets[t] >= 0
    /\ faults < MaxFaults
    /\ "unprocessed" \in hazards \/ \A t \in Topic : ~IsEmpty(buffer[t]) => starting[t] >= 0
    /\ "caught_up" \in hazards \/ \A t \in Topic : HasMore(t, SeekTo(t))
    /\ faults' = faults + 1
    /\ paused' = Topic
    /\ backpressured' = Topic
    /\ buffer' = [t \in Topic |-> Clear(buffer[t])]
    /\ position' = [t \in Topic |-> SeekTo(t)]
    /\ fetched' = position'
    /\ tpOffsets' = [t \in Topic |-> -1]
    /\ starting' = [t \in Topic |-> -1]
    /\ handled' = {m \in handled : starting[m[1]] < 0 \/ m[2] < starting[m[1]]}
    /\ UNCHANGED <<kafkaVars, cached, known, hazards>>

\* resume_backpressured() after the wait.
ResumeBackpressured ==
    /\ backpressured # {}
    /\ paused' = paused \ backpressured
    /\ backpressured' = {}
    /\ UNCHANGED <<kafkaVars, position, fetched, cached, buffer, ckptVars, handled,
                   known, faults, hazards>>

\* The application stops without a commit and starts again.
Restart ==
    /\ faults < MaxFaults
    /\ "caught_up" \in hazards \/ \A t \in Topic : HasMore(t, committed[t])
    /\ faults' = faults + 1
    /\ position' = committed
    /\ fetched' = committed
    /\ cached' = [t \in Topic |-> Unknown]
    /\ paused' = {}
    /\ buffer' = [t \in Topic |-> EmptyBuffer]
    /\ backpressured' = {}
    /\ tpOffsets' = [t \in Topic |-> -1]
    /\ starting' = [t \in Topic |-> -1]
    /\ known' = [t \in Topic |-> Unknown]
    /\ handled' = {m \in handled : m[2] < committed[m[1]]}
    /\ UNCHANGED <<kafkaVars, hazards>>

\* A producer writes the next message of a topic.
Produce(t) ==
    /\ available[t] < Size(t)
    /\ available' = [available EXCEPT ![t] = @ + 1]
    /\ UNCHANGED <<committed, clientVars, consumerVars, ckptVars, handled, known, faults, hazards>>

Init ==
    /\ available \in {f \in [Topic -> UNION {0..Size(t) : t \in Topic}] :
                        \A t \in Topic : f[t] <= Size(t)}
    /\ committed = [t \in Topic |-> 0]
    /\ position = [t \in Topic |-> 0]
    /\ fetched = [t \in Topic |-> 0]
    /\ cached = [t \in Topic |-> Unknown]
    /\ paused = {}
    /\ buffer = [t \in Topic |-> EmptyBuffer]
    /\ backpressured = {}
    /\ tpOffsets = [t \in Topic |-> -1]
    /\ starting = [t \in Topic |-> -1]
    /\ handled = {}
    /\ known = [t \in Topic |-> Unknown]
    /\ faults = 0
    /\ hazards \in HazardSets

Next ==
    \/ \E t \in Topic : Fetch(t) \/ Produce(t)
    \/ PollBuffer \/ PollFeed
    \/ CommitCheckpoint
    \/ TriggerBackpressure \/ ResumeBackpressured
    \/ Restart

Spec == Init /\ [][Next]_vars

\* The processing loop polls, commits and resumes, librdkafka fetches; nobody
\* has to produce another message.
Fairness ==
    /\ WF_vars(PollBuffer \/ PollFeed)
    /\ WF_vars(CommitCheckpoint)
    /\ WF_vars(ResumeBackpressured)
    /\ \A t \in Topic : WF_vars(Fetch(t))

FairSpec == Spec /\ Fairness

-----------------------------------------------------------------------------
(* Properties. *)

\* The messages of a topic that the consumer has still to hand out.
Unread(t) ==
    {offset \in Offset(t) : offset >= position[t]} \cup Range(buffer[t].messages)

\* Timestamp alignment (docs/concatenating.md): the message handed out is not
\* younger than an unread message of another topic that the consumer knew of
\* when it last looked: it looks again whenever it drains a topic.
InOrder ==
    [][\A t \in Topic : tpOffsets'[t] > tpOffsets[t] =>
          \A u \in Topic : \A offset \in Unread(u)' :
              offset < known'[u] /\ u # t => Stamp(t, tpOffsets'[t]) <= Stamp(u, offset)]_vars

\* PartitionBuffer.append() never raises "Invalid offset".
AppendValid == \A t \in Topic : position[t] > buffer[t].maxOffset

\* A paused topic is paused by its buffer or by backpressure, one of which
\* resumes it, and a buffer that counts as paused is not fetched.
PausesAgree == paused = backpressured \cup {t \in Topic : buffer[t].paused}

\* At-least-once: every message before the committed offset has been processed
\* by a checkpoint that was not given up.
NothingSkipped ==
    \A t \in Topic : \A offset \in 0..committed[t] - 1 : <<t, offset>> \in handled

\* An idle topic does not hold up the others (buffering.py, Idleness): every
\* message in the log is eventually processed.
EverythingHandled ==
    <>[](\A t \in Topic : \A offset \in 0..available[t] - 1 : <<t, offset>> \in handled)

\* Messages are skipped only where backpressure drops buffered messages of a
\* topic that the checkpoint has no offset of.
SkippedByBackpressureOnly == "unprocessed" \notin hazards => NothingSkipped

\* Messages stay unprocessed only where one of the hazards has struck.
StuckByHazardsOnly == hazards = {} => EverythingHandled
=============================================================================
