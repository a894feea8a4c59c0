---------------------------- MODULE BufferProofs ----------------------------
(***************************************************************************)
(* The buffered consumer, proved for every number of topics, every log and *)
(* every buffer size: its types, that append() never raises, that pauses   *)
(* agree, that nothing is skipped but where backpressure drops messages of *)
(* a topic without an offset, and that topics are read in timestamp order. *)
(*                                                                         *)
(* The invariant is one of each topic.  A buffer holds the messages before *)
(* the position of the consumer, without a gap, so that the next message   *)
(* of a topic is known: it is what committed offsets, the offsets of the   *)
(* checkpoint and the processed messages are compared with.                *)
(***************************************************************************)
EXTENDS ConsumerBuffer, SequenceTheorems, FiniteSetTheorems, TLAPS

\* A buffer has the messages before a position, without a gap.
Consecutive(q, end) == \A k \in 1..Len(q) : q[k] = end - Len(q) + k - 1

\* The buffer of a partition whose consumer is at a position.
BufferOK(b, end) ==
    /\ Consecutive(b.messages, end)
    /\ b.maxOffset < end
    /\ b.messages # <<>> => b.maxOffset = end - 1

\* The next message of a topic that is handed out.
NextOf(t) == position[t] - Len(buffer[t].messages)

\* The offsets of a topic in their order.
OffsetsOK(t) ==
    /\ NextOf(t) \in Nat /\ committed[t] <= NextOf(t) /\ tpOffsets[t] < NextOf(t)
    /\ starting[t] >= 0 => committed[t] <= starting[t]

\* A watermark that an empty buffer has is the one that the consumer saw last.
WatermarkOK(t) ==
    IsEmpty(buffer[t]) /\ buffer[t].highWatermark >= 0 => known[t] = buffer[t].highWatermark

\* Nothing is buffered or fetched under backpressure.
PressureOK(t) ==
    t \in backpressured =>
        IsEmpty(buffer[t]) /\ ~buffer[t].paused /\ fetched[t] = position[t]

HandledOK(t) ==
    "unprocessed" \notin hazards => \A offset \in 0..NextOf(t) - 1 : <<t, offset>> \in handled

TopicOK(t) ==
    /\ BufferOK(buffer[t], position[t]) /\ OffsetsOK(t) /\ WatermarkOK(t)
    /\ PressureOK(t) /\ HandledOK(t)

BufferInv ==
    /\ TypeOK /\ PausesAgree
    /\ \A t \in Topic : TopicOK(t)

-----------------------------------------------------------------------------
\* What the types say of one topic.
Numbers(t) ==
    /\ Size(t) \in Nat /\ available[t] \in Int /\ committed[t] \in Int
    /\ position[t] \in Int /\ fetched[t] \in Int /\ cached[t] \in Int
    /\ tpOffsets[t] \in Int /\ starting[t] \in Int /\ known[t] \in Int
    /\ buffer[t].messages \in Seq(Nat) /\ Len(buffer[t].messages) \in Nat
    /\ buffer[t].maxOffset \in Int /\ buffer[t].highWatermark \in Int

\* The types of the variables give those of a topic's values.
LEMMA TopicTypes ==
  ASSUME TypeOK, NEW t \in Topic
  PROVE  Numbers(t)
<1>1. Size(t) \in Nat
  BY ConstantsAssumption DEF Size
<1>2. /\ available[t] \in Int /\ committed[t] \in Int /\ position[t] \in Int
      /\ fetched[t] \in Int /\ cached[t] \in Int /\ tpOffsets[t] \in Int
      /\ starting[t] \in Int /\ known[t] \in Int
  BY DEF TypeOK
<1>3. PICK b \in Buffers : b = buffer[t]
  BY DEF TypeOK
<1>4. /\ b.messages \in Seq(Nat) /\ b.maxOffset \in Int /\ b.highWatermark \in Int
  BY <1>3 DEF Buffers
<1> QED BY <1>1, <1>2, <1>3, <1>4 DEF Numbers

\* librdkafka's thread and the producers only add messages.
LEMMA FetchKeeps ==
  ASSUME BufferInv, NEW t \in Topic, Fetch(t) \/ Produce(t)
  PROVE  BufferInv'
<1>1. /\ UNCHANGED <<committed, position, paused, consumerVars, ckptVars, handled, known, faults,
                     hazards>>
      /\ UNCHANGED <<buffer, backpressured, tpOffsets, starting>>
  BY DEF Fetch, Produce, kafkaVars, clientVars, consumerVars, ckptVars
<1>2. /\ {available', fetched', cached'} \subseteq [Topic -> Int]
      /\ \A u \in Topic : /\ fetched'[u] >= fetched[u] /\ fetched'[u] <= available'[u]
                          /\ available'[u] >= available[u] /\ available'[u] <= Size(u)
                          /\ cached'[u] \in {Unknown} \cup 0..available'[u]
                          /\ u \in paused => fetched'[u] = fetched[u]
  <2>1. \A u \in Topic : /\ Size(u) \in Nat /\ available[u] \in Int /\ fetched[u] \in Int
                         /\ cached[u] \in Int
    BY TopicTypes DEF BufferInv, Numbers
  <2>2. CASE Fetch(t)
    BY <2>1, <2>2 DEF Fetch, BufferInv, TypeOK, TypedAt, kafkaVars, clientVars
  <2>3. CASE Produce(t)
    BY <2>1, <2>3 DEF Produce, BufferInv, TypeOK, TypedAt, kafkaVars, clientVars
  <2> QED BY <2>2, <2>3
<1>3. TypeOK'
  <2>1. ASSUME NEW u \in Topic PROVE TypedAt(u)'
    <3>1. TypedAt(u) /\ Numbers(u)
      BY TopicTypes DEF BufferInv, TypeOK
    <3>2. /\ available'[u] \in Int /\ fetched'[u] \in Int /\ cached'[u] \in Int
      BY <1>2
    <3>3. /\ available'[u] \in 0..Size(u) /\ committed[u] \in 0..available'[u]
          /\ position[u] \in 0..fetched'[u] /\ fetched'[u] \in 0..available'[u]
          /\ known[u] \in {Unknown} \cup 0..available'[u]
      <4>1. /\ available[u] \in Int /\ committed[u] \in Int /\ position[u] \in Int
            /\ fetched[u] \in Int /\ known[u] \in Int /\ Size(u) \in Nat
        BY <3>1 DEF Numbers
      <4>2. /\ committed[u] \in 0..available[u] /\ position[u] \in 0..fetched[u]
            /\ available[u] \in 0..Size(u)
            /\ fetched[u] \in 0..available[u] /\ known[u] \in {Unknown} \cup 0..available[u]
        BY <3>1 DEF TypedAt
      <4>3. /\ fetched'[u] >= fetched[u] /\ fetched'[u] <= available'[u]
            /\ available'[u] >= available[u] /\ available'[u] <= Size(u)
        BY <1>2
      <4> QED BY <3>2, <4>1, <4>2, <4>3
    <3> QED BY <1>1, <1>2, <3>1, <3>3 DEF TypedAt
  <2> QED BY <1>1, <1>2, <2>1 DEF BufferInv, TypeOK
<1>4. PausesAgree'
  BY <1>1 DEF BufferInv, PausesAgree
<1>5. ASSUME NEW u \in Topic PROVE TopicOK(u)'
  <2>1. u \in backpressured => u \in paused
    BY DEF BufferInv, PausesAgree
  <2>2. TopicOK(u)
    BY DEF BufferInv
  <2> QED BY <1>1, <1>2, <2>1, <2>2 DEF TopicOK, OffsetsOK, NextOf, WatermarkOK, PressureOK,
             HandledOK
<1> QED BY <1>3, <1>4, <1>5 DEF BufferInv

\* What is committed has been handed out.
LEMMA CommitKeeps ==
  ASSUME BufferInv, CommitCheckpoint
  PROVE  BufferInv'
<1>1. /\ UNCHANGED <<available, position, fetched, cached, paused, buffer, backpressured, handled,
                     known, faults, hazards>>
      /\ committed' = [t \in Topic |->
                         IF tpOffsets[t] >= 0 THEN tpOffsets[t] + 1 ELSE committed[t]]
      /\ tpOffsets' = [t \in Topic |-> -1] /\ starting' = [t \in Topic |-> -1]
  BY DEF CommitCheckpoint, clientVars, consumerVars
<1>2. ASSUME NEW t \in Topic PROVE TypedAt(t)' /\ TopicOK(t)'
  <2>1. /\ committed'[t] = IF tpOffsets[t] >= 0 THEN tpOffsets[t] + 1 ELSE committed[t]
        /\ tpOffsets'[t] = -1 /\ starting'[t] = -1
    BY <1>1
  <2>2. TypedAt(t) /\ TopicOK(t) /\ Numbers(t)
    BY TopicTypes DEF BufferInv, TypeOK
  <2>3. OffsetsOK(t)' /\ committed'[t] \in 0..available[t]
    <3>1. NextOf(t)' = NextOf(t)
      BY <1>1 DEF NextOf
    <3>2. /\ NextOf(t) \in Nat /\ committed[t] <= NextOf(t) /\ tpOffsets[t] < NextOf(t)
      BY <2>2 DEF TopicOK, OffsetsOK
    <3>3. /\ committed[t] \in 0..available[t] /\ available[t] \in Int
          /\ committed[t] \in Int /\ tpOffsets[t] \in Int /\ NextOf(t) <= available[t]
      BY <2>2 DEF TypedAt, Numbers, NextOf
    <3>4. committed'[t] \in 0..available[t] /\ committed'[t] <= NextOf(t)
      BY <2>1, <3>2, <3>3
    <3> QED BY <2>1, <3>1, <3>2, <3>4 DEF OffsetsOK
  <2>4. TypedAt(t)'
    <3>1. /\ tpOffsets'[t] \in -1..Size(t) - 1 /\ starting'[t] \in -1..tpOffsets'[t]
      BY <2>1, <2>2 DEF Numbers
    <3> QED BY <1>1, <2>2, <2>3, <3>1 DEF TypedAt
  <2> QED BY <1>1, <2>2, <2>3, <2>4 DEF TopicOK, NextOf, WatermarkOK, PressureOK, HandledOK
<1>3. {committed', tpOffsets', starting'} \subseteq [Topic -> Int]
  <2>1. \A t \in Topic : tpOffsets[t] \in Int /\ committed[t] \in Int
    BY TopicTypes DEF BufferInv, Numbers
  <2> QED BY <1>1, <2>1
<1>4. TypeOK' /\ PausesAgree'
  BY <1>1, <1>2, <1>3 DEF BufferInv, TypeOK, PausesAgree
<1> QED BY <1>2, <1>4 DEF BufferInv

\* Buffers that are empty again.
LEMMA EmptyOK ==
  ASSUME NEW t \in Topic, NEW p \in Nat
  PROVE  /\ BufferOK(EmptyBuffer, p) /\ EmptyBuffer \in Buffer(t) /\ EmptyBuffer \in Buffers
         /\ IsEmpty(EmptyBuffer) /\ ~EmptyBuffer.paused /\ Len(EmptyBuffer.messages) = 0
         /\ EmptyBuffer.highWatermark = Unknown
<1>1. Size(t) \in Nat
  BY ConstantsAssumption DEF Size
<1> QED BY <1>1 DEF EmptyBuffer, BufferOK, Consecutive, Buffer, Buffers, IsEmpty, Unknown

\* Backpressure goes back to where the checkpoint starts.
LEMMA BackpressureKeeps ==
  ASSUME BufferInv, TriggerBackpressure
  PROVE  BufferInv'
<1>1. /\ UNCHANGED <<available, committed, cached, known, hazards>>
      /\ paused' = Topic /\ backpressured' = Topic /\ faults' = faults + 1 /\ faults < MaxFaults
      /\ buffer' = [t \in Topic |-> EmptyBuffer]
      /\ position' = [t \in Topic |-> SeekTo(t)] /\ fetched' = position'
      /\ tpOffsets' = [t \in Topic |-> -1] /\ starting' = [t \in Topic |-> -1]
      /\ handled' = {m \in handled : starting[m[1]] < 0 \/ m[2] < starting[m[1]]}
      /\ "unprocessed" \in hazards \/ \A t \in Topic : ~IsEmpty(buffer[t]) => starting[t] >= 0
  BY DEF TriggerBackpressure, kafkaVars, Clear
<1>2. ASSUME NEW t \in Topic PROVE TypedAt(t)' /\ TopicOK(t)'
  <2>1. /\ position'[t] = SeekTo(t) /\ fetched'[t] = SeekTo(t) /\ buffer'[t] = EmptyBuffer
        /\ tpOffsets'[t] = -1 /\ starting'[t] = -1
    BY <1>1
  <2>2. TypedAt(t) /\ TopicOK(t) /\ Numbers(t)
    BY TopicTypes DEF BufferInv, TypeOK
  <2>3. SeekTo(t) \in committed[t]..position[t] /\ SeekTo(t) \in Nat
    <3>1. /\ NextOf(t) \in Nat /\ committed[t] <= NextOf(t) /\ tpOffsets[t] < NextOf(t)
          /\ starting[t] >= 0 => committed[t] <= starting[t]
      BY <2>2 DEF TopicOK, OffsetsOK
    <3>2. /\ committed[t] \in Nat /\ starting[t] \in Int /\ position[t] \in Int
          /\ tpOffsets[t] \in Int /\ NextOf(t) <= position[t] /\ starting[t] <= tpOffsets[t]
      BY <2>2 DEF TypedAt, Numbers, NextOf
    <3> QED BY <3>1, <3>2 DEF SeekTo
  <2>4. /\ BufferOK(buffer'[t], position'[t]) /\ buffer'[t] \in Buffer(t) /\ IsEmpty(buffer'[t])
        /\ ~buffer'[t].paused /\ Len(buffer'[t].messages) = 0
        /\ buffer'[t].highWatermark = Unknown
    BY <2>1, <2>3, EmptyOK
  <2>5. NextOf(t)' = SeekTo(t)
    BY <2>1, <2>3, <2>4 DEF NextOf
  <2>6. TypedAt(t)'
    <3>1. /\ tpOffsets'[t] \in -1..Size(t) - 1 /\ starting'[t] \in -1..tpOffsets'[t]
      BY <2>1, <2>2 DEF Numbers
    <3>2. /\ position'[t] \in 0..fetched'[t] /\ fetched'[t] \in 0..available[t]
      <4>1. /\ position[t] \in Int /\ fetched[t] \in Int /\ available[t] \in Int
            /\ position[t] <= fetched[t] /\ fetched[t] <= available[t]
        BY <2>2 DEF TypedAt, Numbers
      <4>2. committed[t] \in Int
        BY <2>2 DEF Numbers
      <4> QED BY <2>1, <2>3, <4>1, <4>2
    <3> QED BY <1>1, <2>2, <2>4, <3>1, <3>2 DEF TypedAt
  <2>7. HandledOK(t)'
    <3> SUFFICES ASSUME "unprocessed" \notin hazards, NEW offset \in 0..SeekTo(t) - 1
                 PROVE  <<t, offset>> \in handled'
      BY <1>1, <2>5 DEF HandledOK
    <3>1. starting[t] < 0 => Len(buffer[t].messages) = 0
      BY <1>1, <2>2 DEF IsEmpty, Numbers
    <3>2. <<t, offset>> \in handled
      <4>1. \A o \in 0..NextOf(t) - 1 : <<t, o>> \in handled
        BY <2>2 DEF HandledOK, TopicOK
      <4>2. SeekTo(t) <= NextOf(t) /\ NextOf(t) \in Nat
        <5>1. starting[t] < 0 => NextOf(t) = position[t]
          BY <2>2, <3>1 DEF NextOf, Numbers
        <5>2. NextOf(t) \in Nat /\ tpOffsets[t] < NextOf(t) /\ starting[t] <= tpOffsets[t]
          BY <2>2 DEF TopicOK, OffsetsOK, TypedAt, Numbers
        <5>3. starting[t] \in Int /\ tpOffsets[t] \in Int /\ position[t] \in Int
          BY <2>2 DEF Numbers
        <5> QED BY <5>1, <5>2, <5>3 DEF SeekTo
      <4> QED BY <2>3, <4>1, <4>2
    <3>3. starting[t] < 0 \/ offset < starting[t]
      BY <2>2 DEF SeekTo, Numbers
    <3> QED BY <1>1, <3>2, <3>3
  <2>8. OffsetsOK(t)' /\ WatermarkOK(t)' /\ PressureOK(t)'
    BY <1>1, <2>1, <2>2, <2>3, <2>4, <2>5
       DEF OffsetsOK, WatermarkOK, PressureOK, Unknown, Numbers
  <2> QED BY <2>4, <2>6, <2>7, <2>8 DEF TopicOK
<1>3. \A t \in Topic : SeekTo(t) \in Int
  BY TopicTypes DEF SeekTo, Numbers, BufferInv
<1>4. /\ {position', fetched', tpOffsets', starting'} \subseteq [Topic -> Int]
      /\ buffer' \in [Topic -> Buffers]
  BY <1>1, <1>3, EmptyOK
<1>5. faults' \in 0..MaxFaults /\ handled' \subseteq Message
  BY <1>1, ConstantsAssumption DEF BufferInv, TypeOK
<1>6. TypeOK'
  BY <1>1, <1>2, <1>4, <1>5 DEF BufferInv, TypeOK
<1>7. PausesAgree'
  BY <1>1 DEF PausesAgree
<1> QED BY <1>2, <1>6, <1>7 DEF BufferInv

\* The wait is over: nothing is paused by a buffer then.
LEMMA ResumeKeeps ==
  ASSUME BufferInv, ResumeBackpressured
  PROVE  BufferInv'
<1>1. /\ UNCHANGED <<available, committed, position, fetched, cached, buffer, tpOffsets, starting,
                     handled, known, faults, hazards>>
      /\ paused' = paused \ backpressured /\ backpressured' = {}
  BY DEF ResumeBackpressured, kafkaVars, ckptVars
<1>2. TypeOK'
  BY <1>1 DEF BufferInv, TypeOK, TypedAt
<1>3. PausesAgree'
  BY <1>1 DEF BufferInv, PausesAgree, TopicOK, PressureOK
<1>4. ASSUME NEW t \in Topic PROVE TopicOK(t)'
  BY <1>1 DEF BufferInv, TopicOK, OffsetsOK, NextOf, WatermarkOK, PressureOK, HandledOK
<1> QED BY <1>2, <1>3, <1>4 DEF BufferInv

\* A restart begins at the committed offsets, before which all is handled.
LEMMA RestartKeeps ==
  ASSUME BufferInv, Restart
  PROVE  BufferInv'
<1>1. /\ UNCHANGED <<available, committed, hazards>>
      /\ paused' = {} /\ backpressured' = {} /\ faults' = faults + 1 /\ faults < MaxFaults
      /\ buffer' = [t \in Topic |-> EmptyBuffer]
      /\ position' = committed /\ fetched' = committed
      /\ cached' = [t \in Topic |-> Unknown] /\ known' = [t \in Topic |-> Unknown]
      /\ tpOffsets' = [t \in Topic |-> -1] /\ starting' = [t \in Topic |-> -1]
      /\ handled' = {m \in handled : m[2] < committed[m[1]]}
  BY DEF Restart, kafkaVars
<1>2. ASSUME NEW t \in Topic PROVE TypedAt(t)' /\ TopicOK(t)' /\ ~buffer'[t].paused
  <2>1. /\ position'[t] = committed[t] /\ fetched'[t] = committed[t]
        /\ buffer'[t] = EmptyBuffer /\ cached'[t] = Unknown /\ known'[t] = Unknown
        /\ tpOffsets'[t] = -1 /\ starting'[t] = -1
    BY <1>1
  <2>2. TypedAt(t) /\ TopicOK(t) /\ Numbers(t)
    BY TopicTypes DEF BufferInv, TypeOK
  <2>3. committed[t] \in Nat /\ committed[t] <= NextOf(t) /\ NextOf(t) \in Int
    BY <2>2 DEF TypedAt, TopicOK, OffsetsOK, Numbers
  <2>4. /\ BufferOK(buffer'[t], position'[t]) /\ buffer'[t] \in Buffer(t)
        /\ ~buffer'[t].paused /\ Len(buffer'[t].messages) = 0
        /\ buffer'[t].highWatermark = Unknown
    BY <2>1, <2>3, EmptyOK
  <2>5. NextOf(t)' = committed[t]
    BY <2>1, <2>3, <2>4 DEF NextOf
  <2>6. TypedAt(t)'
    <3>1. /\ tpOffsets'[t] \in -1..Size(t) - 1 /\ starting'[t] \in -1..tpOffsets'[t]
      BY <2>1, <2>2 DEF Numbers
    <3>2. /\ position'[t] \in 0..fetched'[t] /\ fetched'[t] \in 0..available[t]
      BY <2>1, <2>2 DEF TypedAt, Numbers
    <3>3. known'[t] \in {Unknown} /\ cached'[t] \in {Unknown}
      BY <2>1
    <3> QED BY <1>1, <2>2, <2>4, <3>1, <3>2, <3>3 DEF TypedAt
  <2>7. HandledOK(t)'
    <3> SUFFICES ASSUME "unprocessed" \notin hazards, NEW offset \in 0..committed[t] - 1
                 PROVE  <<t, offset>> \in handled'
      BY <1>1, <2>5 DEF HandledOK
    <3>1. <<t, offset>> \in handled
      BY <2>2, <2>3 DEF HandledOK, TopicOK
    <3> QED BY <1>1, <2>3, <3>1
  <2>8. OffsetsOK(t)' /\ WatermarkOK(t)' /\ PressureOK(t)'
    BY <1>1, <2>1, <2>2, <2>3, <2>4, <2>5
       DEF OffsetsOK, WatermarkOK, PressureOK, Unknown, Numbers
  <2> QED BY <2>4, <2>6, <2>7, <2>8 DEF TopicOK
<1>3. /\ {position', fetched', cached', known', tpOffsets', starting'} \subseteq [Topic -> Int]
      /\ buffer' \in [Topic -> Buffers]
  BY <1>1, EmptyOK DEF BufferInv, TypeOK, Unknown
<1>4. faults' \in 0..MaxFaults /\ handled' \subseteq Message
  BY <1>1, ConstantsAssumption DEF BufferInv, TypeOK
<1>5. TypeOK'
  BY <1>1, <1>2, <1>3, <1>4 DEF BufferInv, TypeOK
<1>6. PausesAgree'
  BY <1>1, <1>2 DEF PausesAgree
<1> QED BY <1>2, <1>5, <1>6 DEF BufferInv

\* What popleft() leaves of a buffer, and what it returns.
LEMMA PopLeftOK ==
  ASSUME NEW t \in Topic, NEW b \in Buffers, b \in Buffer(t), NEW p \in Int, BufferOK(b, p),
         ~IsEmpty(b)
  PROVE  /\ PopLeft(b) \in Buffers /\ PopLeft(b) \in Buffer(t) /\ BufferOK(PopLeft(b), p)
         /\ PopLeft(b).paused = b.paused
         /\ Len(PopLeft(b).messages) = Len(b.messages) - 1
         /\ IsEmpty(PopLeft(b)) => PopLeft(b).highWatermark = Unknown
         /\ Head(b.messages) = p - Len(b.messages) /\ Head(b.messages) \in Offset(t)
<1>1. PICK q \in Seq(Nat) : q = b.messages
  BY DEF Buffers
<1>2. q \in Seq(Offset(t)) /\ q # <<>>
  BY <1>1 DEF Buffer, IsEmpty
<1>3. PICK l : l = Tail(q)
  OBVIOUS
<1>4. /\ l \in Seq(Nat) /\ Len(l) = Len(q) - 1 /\ Len(q) \in Nat \ {0} /\ Head(q) = q[1]
      /\ \A k \in 1..Len(l) : l[k] = q[k + 1]
  BY <1>2, <1>3, EmptySeq, HeadTailProperties
<1>5. l \in Seq(Offset(t)) /\ Head(q) \in Offset(t)
  BY <1>2, <1>3, HeadTailProperties
<1>6. PICK w \in Int : w = IF Len(q) = 1 THEN Unknown ELSE b.highWatermark
  BY DEF Buffers, Unknown
<1>7. w \in {Unknown} \cup 0..Size(t)
  BY <1>6 DEF Buffer
<1>8. PICK a : a = [b EXCEPT !.messages = l]
  OBVIOUS
<1>9. PICK n : n = [a EXCEPT !.highWatermark = w]
  OBVIOUS
<1>10. n = PopLeft(b)
  BY <1>1, <1>3, <1>6, <1>8, <1>9 DEF PopLeft
<1>11. a \in Buffers /\ n \in Buffers
  BY <1>4, <1>6, <1>8, <1>9 DEF Buffers
<1>12. a \in Buffer(t)
  BY <1>5, <1>8 DEF Buffer
<1>13. n \in Buffer(t)
  BY <1>7, <1>9, <1>12 DEF Buffer
<1>14. /\ n.messages = l /\ n.highWatermark = w /\ n.paused = b.paused
       /\ n.maxOffset = b.maxOffset /\ b.maxOffset \in Int
  BY <1>8, <1>9 DEF Buffers
<1>15. Consecutive(q, p) /\ b.maxOffset < p /\ b.maxOffset = p - 1
  BY <1>1, <1>2 DEF BufferOK
<1>16. Consecutive(l, p)
  <2> SUFFICES ASSUME NEW k \in 1..Len(l) PROVE l[k] = p - Len(l) + k - 1
    BY DEF Consecutive
  <2>1. l[k] = q[k + 1] /\ k + 1 \in 1..Len(q)
    BY <1>4
  <2>2. q[k + 1] = p - Len(q) + (k + 1) - 1
    BY <1>15, <2>1 DEF Consecutive
  <2> QED BY <1>4, <2>1, <2>2
<1>17. Head(q) = p - Len(q)
  <2>1. 1 \in 1..Len(q)
    BY <1>4
  <2>2. q[1] = p - Len(q) + 1 - 1
    BY <1>15, <2>1 DEF Consecutive
  <2> QED BY <1>4, <2>2
<1>18. BufferOK(n, p)
  BY <1>14, <1>15, <1>16 DEF BufferOK
<1>19. l = <<>> => Len(q) = 1
  BY <1>4
<1> QED BY <1>1, <1>4, <1>5, <1>6, <1>10, <1>11, <1>13, <1>14, <1>17, <1>18, <1>19 DEF IsEmpty

\* A function on 1..m is a sequence.
LEMMA FunctionIsSeq ==
  ASSUME NEW S, NEW m \in Nat, NEW r \in [1..m -> S]
  PROVE  r \in Seq(S)
BY SeqDef, Zenon

\* A sequence of consecutive numbers.
LEMMA Counting ==
  ASSUME NEW m \in Nat, NEW p \in Nat, NEW S, \A k \in 1..m : p + k - 1 \in S,
         NEW r, r = [i \in 1..m |-> p + i - 1]
  PROVE  r \in Seq(S) /\ Len(r) = m /\ \A k \in 1..m : r[k] = p + k - 1
<1>1. r \in [1..m -> S]
  OBVIOUS
<1>2. r \in Seq(S)
  BY <1>1, FunctionIsSeq
<1>3. DOMAIN r = 1..m
  OBVIOUS
<1>4. Len(r) \in Nat /\ DOMAIN r = 1..Len(r)
  BY <1>2, LenProperties
<1>5. Len(r) = m
  BY <1>3, <1>4
<1>6. \A k \in 1..m : r[k] = p + k - 1
  OBVIOUS
<1> QED BY <1>2, <1>5, <1>6

\* What a batch adds to a buffer.
LEMMA FedOK ==
  ASSUME BufferInv, NEW t \in Topic, NEW batch \in [Topic -> 0..MaxBuffer],
         position[t] + batch[t] <= Size(t)
  PROVE  LET n == Balanced(Feed(batch))[t] IN
         /\ n \in Buffers /\ n \in Buffer(t) /\ BufferOK(n, position[t] + batch[t])
         /\ Len(n.messages) = Len(buffer[t].messages) + batch[t]
         /\ n.highWatermark = cached[t]
         /\ batch[t] = 0 => n.messages = buffer[t].messages
         /\ n.paused = ((buffer[t].paused \/ t \in Pausable(Feed(batch)))
                           /\ t \notin Resumable(Feed(batch)))
         /\ Feed(batch)[t].paused = buffer[t].paused
         /\ Len(Feed(batch)[t].messages) = Len(n.messages)
<1>1. PICK b \in Buffers : b = buffer[t]
  BY DEF BufferInv, TypeOK
<1>2. b \in Buffer(t) /\ BufferOK(b, position[t]) /\ Numbers(t) /\ TypedAt(t)
  BY <1>1, TopicTypes DEF BufferInv, TypeOK, TypedAt, TopicOK
<1>3. PICK q \in Seq(Nat) : q = b.messages
  BY DEF Buffers
<1>4. PICK p \in Nat : p = position[t]
  BY <1>2 DEF TypedAt, Numbers
<1>5. PICK m \in Nat : m = batch[t]
  BY ConstantsAssumption
<1>6. PICK r : r = [i \in 1..m |-> p + i - 1]
  OBVIOUS
<1>7. /\ Size(t) \in Nat /\ p + m <= Size(t)
  BY <1>2, <1>4, <1>5 DEF Numbers
<1>8. r \in Seq(Nat) /\ r \in Seq(Offset(t)) /\ Len(r) = m /\ \A k \in 1..m : r[k] = p + k - 1
  <2>1. PICK S : S = Offset(t)
    OBVIOUS
  <2>2. \A k \in 1..m : p + k - 1 \in Nat /\ p + k - 1 \in S
    BY <1>7, <2>1 DEF Offset
  <2>3. /\ \A k \in 1..m : p + k - 1 \in Nat
        /\ \A k \in 1..m : p + k - 1 \in S
    BY <2>2
  <2>4. r \in Seq(Nat) /\ Len(r) = m /\ \A k \in 1..m : r[k] = p + k - 1
    BY <1>6, <2>3, Counting
  <2>5. r \in Seq(S)
    <3>1. r \in [1..m -> S]
      BY <1>6, <2>3
    <3> QED BY <3>1, FunctionIsSeq
  <2> QED BY <2>1, <2>4, <2>5, Zenon
<1>9. PICK c : c = q \o r
  OBVIOUS
<1>10. /\ c \in Seq(Nat) /\ Len(c) = Len(q) + m /\ Len(q) \in Nat
       /\ \A k \in 1..Len(q) + m : c[k] = IF k <= Len(q) THEN q[k] ELSE r[k - Len(q)]
  BY <1>8, <1>9, ConcatProperties, LenProperties
<1>11. c \in Seq(Offset(t))
  <2>1. q \in Seq(Offset(t))
    BY <1>2, <1>3 DEF Buffer
  <2> QED BY <1>8, <1>9, <2>1, ConcatProperties
<1>12. PICK x : x \in Int /\ x = IF m = 0 THEN b.maxOffset ELSE p + m - 1
  <2>1. b.maxOffset \in Int /\ p + m - 1 \in Int
    BY DEF Buffers
  <2> QED BY <2>1, Zenon
<1>13. x \in -1..Size(t) - 1
  <2>1. b.maxOffset \in -1..Size(t) - 1
    BY <1>2 DEF Buffer
  <2> QED BY <1>7, <1>12, <2>1
<1>14. PICK w \in Int : w = cached[t]
  BY <1>2 DEF Numbers
<1>15. w \in {Unknown} \cup 0..Size(t)
  <2>1. cached[t] \in {Unknown} \cup 0..available[t] /\ available[t] \in 0..Size(t)
    BY <1>2 DEF TypedAt
  <2> QED BY <1>7, <1>14, <2>1
<1>16. PICK y \in BOOLEAN : y = ((b.paused \/ t \in Pausable(Feed(batch)))
                                   /\ t \notin Resumable(Feed(batch)))
  OBVIOUS
<1>17. PICK d : d = [b EXCEPT !.messages = c]
  OBVIOUS
<1>18. PICK e : e = [d EXCEPT !.maxOffset = x]
  OBVIOUS
<1>19. PICK f : f = [e EXCEPT !.highWatermark = w]
  OBVIOUS
<1>20. PICK n : n = [f EXCEPT !.paused = y]
  OBVIOUS
<1>21. d \in Buffers /\ d \in Buffer(t)
  BY <1>2, <1>10, <1>11, <1>17 DEF Buffers, Buffer
<1>22. e \in Buffers /\ e \in Buffer(t)
  <2>1. e \in Buffers
    BY <1>12, <1>18, <1>21 DEF Buffers
  <2>2. PICK X, S, W : X = -1..Size(t) - 1 /\ S = Seq(Offset(t)) /\ W = {Unknown} \cup 0..Size(t)
    OBVIOUS
  <2>3. d \in [messages : S, maxOffset : X, highWatermark : W, paused : BOOLEAN] /\ x \in X
    BY <1>13, <1>21, <2>2 DEF Buffer
  <2>4. e \in [messages : S, maxOffset : X, highWatermark : W, paused : BOOLEAN]
    BY <1>18, <2>3
  <2>5. e \in Buffer(t)
    BY <2>2, <2>4 DEF Buffer
  <2> QED BY <2>1, <2>5
<1>23. f \in Buffers /\ f \in Buffer(t)
  BY <1>15, <1>19, <1>22 DEF Buffers, Buffer
<1>24. n \in Buffers /\ n \in Buffer(t)
  BY <1>20, <1>23 DEF Buffers, Buffer
<1>25. n.messages = c /\ n.maxOffset = x /\ n.highWatermark = w /\ n.paused = y
  BY <1>17, <1>18, <1>19, <1>20 DEF Buffers
<1>26. Feed(batch)[t] = f
  BY <1>1, <1>3, <1>4, <1>5, <1>6, <1>9, <1>12, <1>14, <1>17, <1>18, <1>19 DEF Feed, Buffers
<1>27. f.paused = b.paused
  BY <1>17, <1>18, <1>19 DEF Buffers
<1>28. Balanced(Feed(batch))[t] = n
  BY <1>16, <1>20, <1>26, <1>27 DEF Balanced
<1>29. Consecutive(c, p + m)
  <2>1. Consecutive(q, p)
    BY <1>2, <1>3, <1>4 DEF BufferOK
  <2> SUFFICES ASSUME NEW k \in 1..Len(c) PROVE c[k] = p + m - Len(c) + k - 1
    BY DEF Consecutive
  <2>2. CASE k <= Len(q)
    <3>1. k \in 1..Len(q)
      BY <1>10, <2>2
    <3>2. q[k] = p - Len(q) + k - 1
      BY <2>1, <3>1 DEF Consecutive
    <3>3. c[k] = q[k]
      BY <1>10, <2>2, <3>1
    <3> QED BY <1>10, <3>1, <3>2, <3>3
  <2>3. CASE k > Len(q)
    <3>1. k - Len(q) \in 1..m
      BY <1>10, <2>3
    <3> QED BY <1>8, <1>10, <2>3, <3>1
  <2> QED BY <1>10, <2>2, <2>3
<1>30. x < p + m /\ (c # <<>> => x = p + m - 1)
  <2>1. b.maxOffset < p /\ (q # <<>> => b.maxOffset = p - 1) /\ b.maxOffset \in Int
    BY <1>2, <1>3, <1>4 DEF BufferOK, Buffers
  <2>2. m = 0 => c = q
    BY <1>8, <1>9, <1>10
  <2> QED BY <1>12, <2>1, <2>2
<1>31. BufferOK(n, p + m)
  BY <1>25, <1>29, <1>30 DEF BufferOK
<1>32. m = 0 => c = q
  BY <1>8, <1>9, <1>10
<1>33. f.messages = c
  BY <1>17, <1>18, <1>19 DEF Buffers
<1> QED BY <1>1, <1>3, <1>4, <1>5, <1>10, <1>14, <1>16, <1>24, <1>25, <1>26, <1>27, <1>28, <1>31,
           <1>32, <1>33

\* A poll hands out the first message of a buffer b of a topic, or none of it.
HandedOut(b, t) ==
    /\ ~IsEmpty(b) /\ buffer'[t] = PopLeft(b)
    /\ tpOffsets'[t] = Head(b.messages) /\ <<t, Head(b.messages)>> \in handled'
    /\ starting'[t] = IF starting[t] < 0 THEN Head(b.messages) ELSE starting[t]

\* No message of the topic is handed out.
Untouched(b, t) ==
    buffer'[t] = b /\ tpOffsets'[t] = tpOffsets[t] /\ starting'[t] = starting[t]

\* A message is handed out of one topic, the others are not touched.
LEMMA HandOutTopic ==
  ASSUME TypeOK, NEW bufs \in [Topic -> Buffers], NEW t \in Topic, t \in Oldest(bufs),
         HandOut(bufs, t), NEW u \in Topic
  PROVE  /\ HandedOut(bufs[u], u) \/ (u # t /\ Untouched(bufs[u], u))
         /\ handled \subseteq handled'
<1>1. /\ buffer' = [bufs EXCEPT ![t] = PopLeft(@)]
      /\ handled' = handled \cup {<<t, Head(bufs[t].messages)>>}
      /\ tpOffsets' = [tpOffsets EXCEPT ![t] = Head(bufs[t].messages)]
      /\ starting' = [starting EXCEPT ![t] = IF @ < 0 THEN Head(bufs[t].messages) ELSE @]
  BY DEF HandOut
<1>2. ~IsEmpty(bufs[t])
  BY DEF Oldest
<1>3. /\ tpOffsets \in [Topic -> Int] /\ starting \in [Topic -> Int]
  BY DEF TypeOK
<1>4. CASE u = t
  BY <1>1, <1>2, <1>3, <1>4 DEF HandedOut
<1>5. CASE u # t
  BY <1>1, <1>3, <1>5 DEF Untouched
<1>6. handled \subseteq handled'
  BY <1>1, Zenon
<1> QED BY <1>4, <1>5, <1>6, Zenon

\* What a poll leaves of one topic.
LEMMA AfterPoll ==
  ASSUME BufferInv, NEW t \in Topic, NEW b \in Buffers, b \in Buffer(t),
         NEW p \in Int, position'[t] = p, position[t] <= p, p <= fetched[t],
         fetched'[t] \in {p, fetched[t]}, BufferOK(b, p),
         Len(b.messages) = Len(buffer[t].messages) + (p - position[t]),
         HandedOut(b, t) \/ Untouched(b, t), handled \subseteq handled',
         UNCHANGED <<available, committed, cached, backpressured, hazards>>,
         known'[t] \in {known[t], cached[t]},
         IsEmpty(b) /\ b.highWatermark >= 0 => known'[t] = b.highWatermark,
         t \in backpressured => IsEmpty(b) /\ ~b.paused /\ fetched'[t] = p
  PROVE  /\ TypedAt(t)' /\ TopicOK(t)' /\ buffer'[t] \in Buffers
         /\ tpOffsets'[t] \in Int /\ starting'[t] \in Int /\ buffer'[t].paused = b.paused
<1>1. TypedAt(t) /\ TopicOK(t) /\ Numbers(t)
  BY TopicTypes DEF BufferInv, TypeOK
<1>2. PICK n \in Int : n = NextOf(t)
  BY <1>1 DEF TopicOK, OffsetsOK
<1>3. /\ n \in Nat /\ n = p - Len(b.messages) /\ Len(b.messages) \in Nat
  <2>1. b.messages \in Seq(Nat)
    BY DEF Buffers
  <2>2. PICK l \in Nat : l = Len(b.messages)
    BY <2>1, LenProperties
  <2>3. PICK k \in Nat : k = Len(buffer[t].messages)
    BY <1>1 DEF Numbers
  <2>4. PICK o \in Int : o = position[t]
    BY <1>1 DEF Numbers
  <2>5. n = o - k /\ n \in Nat
    BY <1>1, <1>2, <2>3, <2>4 DEF NextOf, TopicOK, OffsetsOK
  <2>6. l = k + (p - o)
    BY <2>2, <2>3, <2>4
  <2> QED BY <2>2, <2>5, <2>6
<1>4. /\ buffer'[t] \in Buffers /\ buffer'[t] \in Buffer(t) /\ BufferOK(buffer'[t], p)
      /\ buffer'[t].paused = b.paused
      /\ \/ ~IsEmpty(buffer'[t])
         \/ buffer'[t].highWatermark = Unknown
         \/ IsEmpty(b) /\ buffer'[t] = b
      /\ IsEmpty(b) => buffer'[t] = b
  BY PopLeftOK DEF HandedOut, Untouched
<1>5. /\ OffsetsOK(t)' /\ HandledOK(t)'
      /\ tpOffsets'[t] \in -1..Size(t) - 1 /\ starting'[t] \in -1..tpOffsets'[t]
      /\ tpOffsets'[t] \in Int /\ starting'[t] \in Int
  <2>1. /\ committed[t] <= n /\ tpOffsets[t] < n /\ committed[t] \in Int
        /\ tpOffsets[t] \in Int /\ starting[t] \in Int /\ Size(t) \in Nat
        /\ tpOffsets[t] \in -1..Size(t) - 1 /\ starting[t] \in -1..tpOffsets[t]
        /\ starting[t] >= 0 => committed[t] <= starting[t]
    BY <1>1, <1>2 DEF TopicOK, OffsetsOK, TypedAt, Numbers
  <2>2. "unprocessed" \notin hazards => \A o \in 0..n - 1 : <<t, o>> \in handled
    BY <1>1, <1>2 DEF TopicOK, HandledOK
  <2>3. CASE HandedOut(b, t)
    <3>1. /\ Head(b.messages) = n /\ n \in Offset(t)
          /\ Len(buffer'[t].messages) = Len(b.messages) - 1
      <4>1. ~IsEmpty(b) /\ buffer'[t] = PopLeft(b)
        BY <2>3 DEF HandedOut
      <4>2. /\ Head(b.messages) = p - Len(b.messages) /\ Head(b.messages) \in Offset(t)
            /\ Len(PopLeft(b).messages) = Len(b.messages) - 1
        BY <4>1, PopLeftOK
      <4> QED BY <1>3, <4>1, <4>2
    <3>2. /\ tpOffsets'[t] = n /\ <<t, n>> \in handled'
          /\ starting'[t] = IF starting[t] < 0 THEN n ELSE starting[t]
      BY <2>3, <3>1 DEF HandedOut
    <3>3. NextOf(t)' = n + 1
      BY <1>3, <3>1 DEF NextOf
    <3>4. n \in 0..Size(t) - 1
      BY <3>1 DEF Offset
    <3>5. /\ tpOffsets'[t] \in -1..Size(t) - 1 /\ starting'[t] \in -1..tpOffsets'[t]
          /\ starting'[t] >= 0 => committed[t] <= starting'[t]
          /\ tpOffsets'[t] \in Int /\ starting'[t] \in Int
      BY <1>3, <2>1, <3>2, <3>4
    <3>6. n + 1 \in Nat /\ committed[t] <= n + 1 /\ tpOffsets'[t] < n + 1
      <4>1. PICK c \in Int : c = committed[t] /\ c <= n
        BY <2>1
      <4>2. n \in Nat /\ n < n + 1 /\ c <= n + 1
        BY <1>3, <4>1
      <4> QED BY <3>2, <4>1, <4>2
    <3>7. OffsetsOK(t)'
      BY <3>3, <3>5, <3>6 DEF OffsetsOK
    <3>8. HandledOK(t)'
      <4> SUFFICES ASSUME "unprocessed" \notin hazards, NEW offset \in 0..(n + 1) - 1
                   PROVE  <<t, offset>> \in handled'
        BY <3>3 DEF HandledOK
      <4>1. offset = n \/ offset \in 0..n - 1
        BY <1>3
      <4> QED BY <2>2, <3>2, <4>1
    <3> QED BY <3>5, <3>7, <3>8
  <2>4. CASE Untouched(b, t)
    <3>1. NextOf(t)' = n
      BY <1>3, <2>4 DEF NextOf, Untouched
    <3>2. /\ tpOffsets'[t] = tpOffsets[t] /\ starting'[t] = starting[t]
      BY <2>4 DEF Untouched
    <3>3. OffsetsOK(t)'
      BY <1>3, <2>1, <3>1, <3>2 DEF OffsetsOK
    <3>4. HandledOK(t)'
      BY <2>2, <3>1 DEF HandledOK
    <3> QED BY <2>1, <3>2, <3>3, <3>4
  <2> QED BY <2>3, <2>4
<1>6. TypedAt(t)'
  <2>1. /\ available[t] \in 0..Size(t) /\ committed[t] \in 0..available[t]
        /\ cached[t] \in {Unknown} \cup 0..available[t]
        /\ known[t] \in {Unknown} \cup 0..available[t]
    BY <1>1 DEF TypedAt
  <2>2. p \in 0..fetched'[t] /\ fetched'[t] \in 0..available[t]
    <3>1. /\ position[t] \in 0..fetched[t] /\ fetched[t] \in 0..available[t]
          /\ position[t] \in Int /\ fetched[t] \in Int /\ available[t] \in Int
      BY <1>1 DEF TypedAt, Numbers
    <3> QED BY <3>1
  <2>3. known'[t] \in {Unknown} \cup 0..available[t]
    BY <2>1
  <2> QED BY <1>4, <1>5, <2>1, <2>2, <2>3 DEF TypedAt
<1>7. WatermarkOK(t)'
  BY <1>4 DEF WatermarkOK, Unknown
<1>8. PressureOK(t)'
  BY <1>4 DEF PressureOK
<1>9. TopicOK(t)'
  BY <1>4, <1>5, <1>7, <1>8 DEF TopicOK
<1> QED BY <1>4, <1>5, <1>6, <1>9

\* The types of a state whose topics are as they should be.
LEMMA TypedAgain ==
  ASSUME BufferInv,
         UNCHANGED <<available, committed, cached, backpressured, faults, hazards>>,
         position' \in [Topic -> Int], fetched' \in [Topic -> Int], known' \in [Topic -> Int],
         tpOffsets' \in [Topic -> Int], starting' \in [Topic -> Int],
         buffer' \in [Topic -> Buffers], paused' \subseteq Topic, handled' \subseteq Message,
         \A t \in Topic : TypedAt(t)'
  PROVE  TypeOK'
BY DEF BufferInv, TypeOK

\* What is handed out is a message.
LEMMA HandOutTyped ==
  ASSUME TypeOK, NEW bufs \in [Topic -> Buffers], NEW t \in Topic, t \in Oldest(bufs),
         HandOut(bufs, t), bufs[t] \in Buffer(t)
  PROVE  /\ tpOffsets' \in [Topic -> Int] /\ starting' \in [Topic -> Int]
         /\ handled' \subseteq Message
         /\ \A p \in Buffers : p = PopLeft(bufs[t]) => buffer' \in [Topic -> Buffers]
<1>1. /\ buffer' = [bufs EXCEPT ![t] = PopLeft(@)]
      /\ handled' = handled \cup {<<t, Head(bufs[t].messages)>>}
      /\ tpOffsets' = [tpOffsets EXCEPT ![t] = Head(bufs[t].messages)]
      /\ starting' = [starting EXCEPT ![t] = IF @ < 0 THEN Head(bufs[t].messages) ELSE @]
  BY DEF HandOut
<1>2. PICK q \in Seq(Nat) : q = bufs[t].messages
  BY DEF Buffers
<1>3. q \in Seq(Offset(t)) /\ q # <<>>
  BY <1>2 DEF Buffer, Oldest, IsEmpty
<1>4. PICK h : h = Head(bufs[t].messages)
  OBVIOUS
<1>5. h \in Offset(t) /\ h \in Nat
  BY <1>2, <1>3, <1>4, HeadTailProperties
<1>6. <<t, h>> \in Message
  BY <1>5 DEF Message
<1>7. handled' \subseteq Message
  BY <1>1, <1>4, <1>6 DEF TypeOK
<1>8. tpOffsets' \in [Topic -> Int] /\ starting' \in [Topic -> Int]
  BY <1>1, <1>4, <1>5 DEF TypeOK
<1>9. \A p \in Buffers : p = PopLeft(bufs[t]) => buffer' \in [Topic -> Buffers]
  BY <1>1
<1> QED BY <1>7, <1>8, <1>9

\* A poll that finds a message in the buffers.
LEMMA PollBufferKeeps ==
  ASSUME BufferInv, PollBuffer
  PROVE  BufferInv'
<1>1. PICK t \in Topic : /\ t \in Oldest(buffer) /\ HandOut(buffer, t)
                         /\ known' = [known EXCEPT ![t] = cached[t]]
  BY DEF PollBuffer, Oldest
<1>2. UNCHANGED <<available, committed, position, fetched, cached, paused, backpressured, faults,
                  hazards>>
  BY DEF PollBuffer, kafkaVars, clientVars
<1>3. TypeOK /\ buffer \in [Topic -> Buffers]
  BY DEF BufferInv, TypeOK
<1>4. ASSUME NEW u \in Topic
      PROVE  TypedAt(u)' /\ TopicOK(u)' /\ buffer'[u].paused = buffer[u].paused
                         /\ buffer'[u] \in Buffers
  <2>1. /\ HandedOut(buffer[u], u) \/ (u # t /\ Untouched(buffer[u], u))
        /\ handled \subseteq handled'
    BY <1>1, <1>3, HandOutTopic
  <2>2. TopicOK(u) /\ TypedAt(u) /\ Numbers(u)
    BY TopicTypes DEF BufferInv, TypeOK
  <2>3. PICK b \in Buffers : b = buffer[u]
    BY <1>3
  <2>4. PICK p \in Int : p = position[u]
    BY <2>2 DEF Numbers
  <2>5. b \in Buffer(u) /\ BufferOK(b, p)
    BY <2>2, <2>3, <2>4 DEF TopicOK, TypedAt
  <2>6. /\ position'[u] = p /\ position[u] <= p /\ p <= fetched[u] /\ fetched'[u] = fetched[u]
    <3>1. position[u] <= fetched[u]
      BY <2>2 DEF TypedAt, Numbers
    <3> QED BY <1>2, <2>4, <3>1
  <2>7. Len(b.messages) = Len(buffer[u].messages) + (p - position[u])
    BY <2>2, <2>3, <2>4 DEF Numbers
  <2>8. known \in [Topic -> Int] /\ known'[u] = IF u = t THEN cached[t] ELSE known[u]
    BY <1>1 DEF BufferInv, TypeOK
  <2>9. IsEmpty(b) => u # t
    BY <1>1, <2>3 DEF Oldest
  <2>10. IsEmpty(b) /\ b.highWatermark >= 0 => known'[u] = b.highWatermark
    BY <2>2, <2>3, <2>8, <2>9 DEF TopicOK, WatermarkOK
  <2>11. u \in backpressured => IsEmpty(b) /\ ~b.paused /\ fetched'[u] = p
    BY <2>2, <2>3, <2>4, <2>6 DEF TopicOK, PressureOK
  <2>12. HandedOut(b, u) \/ Untouched(b, u)
    BY <2>1, <2>3
  <2>13. known'[u] \in {known[u], cached[u]}
    BY <2>8
  <2> QED BY <1>2, <2>1, <2>3, <2>5, <2>6, <2>7, <2>10, <2>11, <2>12, <2>13, AfterPoll
<1>5. PausesAgree'
  BY <1>2, <1>4 DEF BufferInv, PausesAgree
<1>6. TypeOK'
  <2>1. buffer[t] \in Buffer(t) /\ PopLeft(buffer[t]) \in Buffers
    <3>1. PICK b \in Buffers : b = buffer[t]
      BY <1>3
    <3>2. PICK p \in Int : p = position[t]
      BY TopicTypes DEF BufferInv, Numbers
    <3>3. b \in Buffer(t) /\ BufferOK(b, p) /\ ~IsEmpty(b)
      BY <1>1, <3>1, <3>2 DEF BufferInv, TypeOK, TypedAt, TopicOK, Oldest
    <3> QED BY <3>1, <3>3, PopLeftOK
  <2>2. /\ tpOffsets' \in [Topic -> Int] /\ starting' \in [Topic -> Int]
        /\ handled' \subseteq Message /\ buffer' \in [Topic -> Buffers]
    BY <1>1, <1>3, <2>1, HandOutTyped
  <2>3. /\ position' \in [Topic -> Int] /\ fetched' \in [Topic -> Int]
        /\ known' \in [Topic -> Int] /\ paused' \subseteq Topic
    BY <1>1, <1>2, <1>3 DEF TypeOK
  <2> QED BY <1>2, <1>4, <2>2, <2>3, TypedAgain
<1> QED BY <1>4, <1>5, <1>6 DEF BufferInv

\* The pauses of the partitions and of their buffers change together.
LEMMA BalanceAgrees ==
  ASSUME BufferInv, NEW batch \in [Topic -> 0..MaxBuffer],
         paused' = (paused \ (Resumable(Feed(batch)) \ backpressured)) \cup Pausable(Feed(batch)),
         UNCHANGED backpressured,
         \A t \in Topic :
            /\ Feed(batch)[t].paused = buffer[t].paused
            /\ buffer'[t].paused = ((buffer[t].paused \/ t \in Pausable(Feed(batch)))
                                      /\ t \notin Resumable(Feed(batch)))
  PROVE  PausesAgree'
<1>1. PICK P, R : P = Pausable(Feed(batch)) /\ R = Resumable(Feed(batch))
  OBVIOUS
<1>2. P \subseteq Topic /\ R \subseteq Topic
  BY <1>1 DEF Pausable, Resumable
<1>3. P \cap R = {}
  BY <1>1 DEF Pausable, Resumable
<1>4. paused = backpressured \cup {t \in Topic : buffer[t].paused} /\ backpressured \subseteq Topic
  BY DEF BufferInv, PausesAgree, TypeOK
<1>5. \A t \in Topic : buffer'[t].paused = ((buffer[t].paused \/ t \in P) /\ t \notin R)
  BY <1>1
<1>6. paused' = (paused \ (R \ backpressured)) \cup P
  BY <1>1
<1>7. ASSUME NEW t \in Topic PROVE t \in paused' <=> (t \in backpressured \/ buffer'[t].paused)
  BY <1>3, <1>4, <1>5, <1>6
<1>8. paused' \subseteq Topic
  BY <1>2, <1>4, <1>6
<1> QED BY <1>4, <1>7, <1>8 DEF PausesAgree

\* A poll adds this batch to the buffers, which are then these.
FedBy(batch, bufs) ==
    /\ batch \in [Topic -> 0..MaxBuffer] /\ bufs \in [Topic -> Buffers]
    /\ position' = [t \in Topic |-> position[t] + batch[t]]
    /\ fetched' = [t \in Topic |-> IF t \in paused' THEN position'[t] ELSE fetched[t]]
    /\ paused' = (paused \ (Resumable(Feed(batch)) \ backpressured)) \cup Pausable(Feed(batch))
    /\ \/ Ready(bufs) /\ \E t \in Oldest(bufs) : HandOut(bufs, t)
       \/ buffer' = bufs /\ UNCHANGED <<tpOffsets, starting, handled>>
    /\ \A t \in Topic :
          /\ batch[t] <= fetched[t] - position[t]
          /\ bufs[t] \in Buffers /\ bufs[t] \in Buffer(t)
          /\ BufferOK(bufs[t], position[t] + batch[t])
          /\ Len(bufs[t].messages) = Len(buffer[t].messages) + batch[t]
          /\ bufs[t].highWatermark = cached[t]
          /\ batch[t] = 0 => bufs[t].messages = buffer[t].messages
          /\ bufs[t].paused = ((buffer[t].paused \/ t \in Pausable(Feed(batch)))
                                 /\ t \notin Resumable(Feed(batch)))
          /\ Feed(batch)[t].paused = buffer[t].paused
          /\ Len(Feed(batch)[t].messages) = Len(bufs[t].messages)

\* Every poll that feeds the buffers adds a batch.
LEMMA FeedsABatch ==
  ASSUME BufferInv, PollFeed
  PROVE  \E batch, bufs : FedBy(batch, bufs)
<1>1. PICK batch \in Batches :
         LET fed  == Feed(batch)
             bufs == Balanced(fed)
             now  == (paused \ (Resumable(fed) \ backpressured)) \cup Pausable(fed)
             next == [t \in Topic |-> position[t] + batch[t]]
         IN  /\ position' = next
             /\ fetched' = [t \in Topic |-> IF t \in now THEN next[t] ELSE fetched[t]]
             /\ paused' = now
             /\ \/ Ready(bufs) /\ \E t \in Oldest(bufs) : HandOut(bufs, t)
                \/ ~Ready(bufs) /\ buffer' = bufs /\ UNCHANGED <<ckptVars, handled>>
  BY DEF PollFeed
<1>2. TypeOK
  BY DEF BufferInv
<1>3. batch \in [Topic -> 0..MaxBuffer] /\ \A t \in Topic : batch[t] <= fetched[t] - position[t]
  BY <1>1 DEF Batches
<1>4. PICK bufs : bufs = Balanced(Feed(batch))
  OBVIOUS
<1>5. /\ position' = [t \in Topic |-> position[t] + batch[t]]
      /\ fetched' = [t \in Topic |-> IF t \in paused' THEN position'[t] ELSE fetched[t]]
      /\ paused' = (paused \ (Resumable(Feed(batch)) \ backpressured)) \cup Pausable(Feed(batch))
      /\ \/ Ready(bufs) /\ \E t \in Oldest(bufs) : HandOut(bufs, t)
         \/ buffer' = bufs /\ UNCHANGED <<tpOffsets, starting, handled>>
  BY <1>1, <1>4 DEF ckptVars
<1>6. ASSUME NEW t \in Topic
      PROVE  /\ bufs[t] \in Buffers /\ bufs[t] \in Buffer(t)
             /\ BufferOK(bufs[t], position[t] + batch[t])
             /\ Len(bufs[t].messages) = Len(buffer[t].messages) + batch[t]
             /\ bufs[t].highWatermark = cached[t]
             /\ batch[t] = 0 => bufs[t].messages = buffer[t].messages
             /\ bufs[t].paused = ((buffer[t].paused \/ t \in Pausable(Feed(batch)))
                                    /\ t \notin Resumable(Feed(batch)))
             /\ Feed(batch)[t].paused = buffer[t].paused
             /\ Len(Feed(batch)[t].messages) = Len(bufs[t].messages)
  <2>1. /\ position[t] \in Int /\ fetched[t] \in Int /\ batch[t] \in Int /\ Size(t) \in Int
        /\ fetched[t] <= Size(t)
    BY <1>2, <1>3, TopicTypes, ConstantsAssumption DEF TypeOK, TypedAt, Numbers
  <2>2. position[t] + batch[t] <= Size(t)
    BY <1>3, <2>1
  <2> QED BY <1>3, <1>4, <2>2, FedOK
<1>7. bufs \in [Topic -> Buffers]
  BY <1>4, <1>6 DEF Balanced
<1>8. FedBy(batch, bufs)
  BY <1>3, <1>5, <1>6, <1>7 DEF FedBy
<1> QED BY <1>8

\* A poll that feeds the buffers first.
LEMMA PollFeedKeeps ==
  ASSUME BufferInv, PollFeed
  PROVE  BufferInv'
<1>1. PICK batch, bufs : FedBy(batch, bufs)
  BY FeedsABatch
<1>2. /\ UNCHANGED <<available, committed, cached, backpressured, faults, hazards>>
      /\ known' = cached
  BY DEF PollFeed, kafkaVars
<1>3. TypeOK
  BY DEF BufferInv
<1>4. batch \in [Topic -> 0..MaxBuffer] /\ \A t \in Topic : batch[t] <= fetched[t] - position[t]
  BY <1>1 DEF FedBy
<1>5. /\ position' = [t \in Topic |-> position[t] + batch[t]]
      /\ fetched' = [t \in Topic |-> IF t \in paused' THEN position'[t] ELSE fetched[t]]
      /\ paused' = (paused \ (Resumable(Feed(batch)) \ backpressured)) \cup Pausable(Feed(batch))
      /\ \/ \E t \in Oldest(bufs) : HandOut(bufs, t)
         \/ buffer' = bufs /\ UNCHANGED <<tpOffsets, starting, handled>>
  BY <1>1 DEF FedBy
<1>6. ASSUME NEW t \in Topic
      PROVE  /\ bufs[t] \in Buffers /\ bufs[t] \in Buffer(t)
             /\ BufferOK(bufs[t], position[t] + batch[t])
             /\ Len(bufs[t].messages) = Len(buffer[t].messages) + batch[t]
             /\ bufs[t].highWatermark = cached[t]
             /\ batch[t] = 0 => bufs[t].messages = buffer[t].messages
             /\ bufs[t].paused = ((buffer[t].paused \/ t \in Pausable(Feed(batch)))
                                    /\ t \notin Resumable(Feed(batch)))
             /\ Feed(batch)[t].paused = buffer[t].paused
             /\ Len(Feed(batch)[t].messages) = Len(bufs[t].messages)
  BY <1>1 DEF FedBy
<1>7. bufs \in [Topic -> Buffers]
  BY <1>1 DEF FedBy
<1>8. handled \subseteq handled'
  BY <1>3, <1>5, <1>7, HandOutTopic DEF Oldest
<1>9. ASSUME NEW t \in Topic
      PROVE  TypedAt(t)' /\ TopicOK(t)' /\ buffer'[t].paused = bufs[t].paused
                         /\ buffer'[t] \in Buffers
  <2>1. TopicOK(t) /\ TypedAt(t) /\ Numbers(t)
    BY <1>3, TopicTypes DEF BufferInv, TypeOK
  <2>2. PICK b \in Buffers : b = bufs[t]
    BY <1>6
  <2>3. PICK m \in Nat : m = batch[t]
    BY <1>4, ConstantsAssumption
  <2>4. PICK o \in Int : o = position[t]
    BY <2>1 DEF Numbers
  <2>5. PICK p \in Int : p = o + m
    OBVIOUS
  <2>6. position'[t] = p /\ fetched'[t] \in {p, fetched[t]}
    BY <1>5, <2>3, <2>4, <2>5
  <2>7. position[t] <= p /\ p <= fetched[t]
    <3>1. m <= fetched[t] - o /\ fetched[t] \in Int
      BY <1>4, <2>1, <2>3, <2>4 DEF Numbers
    <3> QED BY <2>4, <2>5, <3>1
  <2>8. /\ b \in Buffer(t) /\ BufferOK(b, p)
        /\ Len(b.messages) = Len(buffer[t].messages) + (p - position[t])
    BY <1>6, <2>1, <2>2, <2>3, <2>4, <2>5 DEF Numbers
  <2>9. HandedOut(b, t) \/ Untouched(b, t)
    <3>1. ASSUME NEW u \in Oldest(bufs), HandOut(bufs, u) PROVE HandedOut(b, t) \/ Untouched(b, t)
      BY <1>3, <1>7, <2>2, <3>1, HandOutTopic DEF Oldest
    <3>2. CASE buffer' = bufs /\ UNCHANGED <<tpOffsets, starting, handled>>
      BY <2>2, <3>2 DEF Untouched
    <3> QED BY <1>5, <3>1, <3>2
  <2>10. known'[t] = cached[t] /\ b.highWatermark = cached[t]
    BY <1>2, <1>6, <2>2
  <2>11. t \in backpressured => IsEmpty(b) /\ ~b.paused /\ fetched'[t] = p
    <3> SUFFICES ASSUME t \in backpressured
                 PROVE  IsEmpty(b) /\ ~b.paused /\ fetched'[t] = p
      OBVIOUS
    <3>1. IsEmpty(buffer[t]) /\ ~buffer[t].paused /\ fetched[t] = position[t]
      BY <2>1 DEF TopicOK, PressureOK
    <3>2. m = 0
      BY <1>4, <2>3, <2>4, <3>1
    <3>3. IsEmpty(b) /\ Len(b.messages) = 0
      <4>1. bufs[t].messages = buffer[t].messages /\ buffer[t].messages = <<>>
        BY <1>6, <2>3, <3>1, <3>2 DEF IsEmpty
      <4>2. b.messages = <<>>
        BY <2>2, <4>1
      <4> QED BY <4>2, EmptySeq DEF IsEmpty
    <3>4. t \notin Pausable(Feed(batch))
      <4>1. Len(Feed(batch)[t].messages) = 0
        BY <1>6, <2>2, <3>3
      <4> QED BY <4>1, ConstantsAssumption DEF Pausable, Full
    <3>5. ~b.paused
      BY <1>6, <2>2, <3>1, <3>4
    <3>6. p = fetched[t]
      BY <2>4, <2>5, <3>1, <3>2
    <3> QED BY <2>6, <3>3, <3>5, <3>6
  <2> QED BY <1>2, <1>8, <2>2, <2>6, <2>7, <2>8, <2>9, <2>10, <2>11, AfterPoll
<1>10. PausesAgree'
  <2>1. \A t \in Topic :
            /\ Feed(batch)[t].paused = buffer[t].paused
            /\ buffer'[t].paused = ((buffer[t].paused \/ t \in Pausable(Feed(batch)))
                                      /\ t \notin Resumable(Feed(batch)))
    BY <1>6, <1>9
  <2> QED BY <1>2, <1>4, <1>5, <2>1, BalanceAgrees
<1>11. TypeOK'
  <2>1. \A t \in Topic : /\ position[t] \in Int /\ fetched[t] \in Int /\ batch[t] \in Int
    BY <1>3, <1>4, TopicTypes, ConstantsAssumption DEF Numbers
  <2>2. /\ position' \in [Topic -> Int] /\ fetched' \in [Topic -> Int]
        /\ known' \in [Topic -> Int]
    BY <1>2, <1>3, <1>5, <2>1 DEF TypeOK
  <2>3. paused' \subseteq Topic
    BY <1>3, <1>5 DEF TypeOK, Pausable
  <2>4. /\ tpOffsets' \in [Topic -> Int] /\ starting' \in [Topic -> Int]
        /\ handled' \subseteq Message /\ buffer' \in [Topic -> Buffers]
    <3>1. ASSUME NEW u \in Oldest(bufs), HandOut(bufs, u)
          PROVE  /\ tpOffsets' \in [Topic -> Int] /\ starting' \in [Topic -> Int]
                 /\ handled' \subseteq Message /\ buffer' \in [Topic -> Buffers]
      <4>1. u \in Topic /\ ~IsEmpty(bufs[u])
        BY <3>1 DEF Oldest
      <4>2. PICK b \in Buffers : b = bufs[u]
        BY <1>7, <4>1
      <4>3. PICK p \in Int : p = position[u] + batch[u]
        BY <2>1, <4>1
      <4>4. PopLeft(bufs[u]) \in Buffers
        BY <1>6, <4>1, <4>2, <4>3, PopLeftOK
      <4> QED BY <1>3, <1>6, <1>7, <3>1, <4>1, <4>4, HandOutTyped
    <3>2. CASE buffer' = bufs /\ UNCHANGED <<tpOffsets, starting, handled>>
      BY <1>3, <1>7, <3>2 DEF TypeOK
    <3> QED BY <1>5, <3>1, <3>2
  <2> QED BY <1>2, <1>9, <2>2, <2>3, <2>4, TypedAgain
<1> QED BY <1>9, <1>10, <1>11 DEF BufferInv

\* The buffers are empty at first.
LEMMA InitBuffer == Init => BufferInv
<1> SUFFICES ASSUME Init PROVE BufferInv
  OBVIOUS
<1>1. /\ committed = [t \in Topic |-> 0] /\ position = [t \in Topic |-> 0]
      /\ fetched = [t \in Topic |-> 0] /\ cached = [t \in Topic |-> Unknown]
      /\ paused = {} /\ buffer = [t \in Topic |-> EmptyBuffer] /\ backpressured = {}
      /\ tpOffsets = [t \in Topic |-> -1] /\ starting = [t \in Topic |-> -1]
      /\ handled = {} /\ known = [t \in Topic |-> Unknown] /\ faults = 0 /\ hazards \in HazardSets
  BY DEF Init
<1>2. /\ available \in [Topic -> UNION {0..Size(t) : t \in Topic}]
      /\ \A t \in Topic : available[t] <= Size(t)
  BY DEF Init
<1>3. ASSUME NEW t \in Topic PROVE Size(t) \in Nat /\ available[t] \in 0..Size(t)
  <2>1. Size(t) \in Nat /\ \A u \in Topic : Size(u) \in Nat
    BY ConstantsAssumption DEF Size
  <2>2. available[t] \in UNION {0..Size(u) : u \in Topic}
    BY <1>2
  <2>3. available[t] \in Nat
    BY <2>1, <2>2
  <2> QED BY <1>2, <2>1, <2>3
<1>4. available \in [Topic -> Int]
  <2>1. \A t \in Topic : available[t] \in Int
    BY <1>3
  <2> QED BY <1>2, <2>1
<1>5. ASSUME NEW t \in Topic PROVE TypedAt(t) /\ TopicOK(t)
  <2>1. /\ committed[t] = 0 /\ position[t] = 0 /\ fetched[t] = 0 /\ cached[t] = Unknown
        /\ buffer[t] = EmptyBuffer /\ tpOffsets[t] = -1 /\ starting[t] = -1 /\ known[t] = Unknown
    BY <1>1
  <2>2. /\ BufferOK(buffer[t], position[t]) /\ buffer[t] \in Buffer(t)
        /\ Len(buffer[t].messages) = 0 /\ buffer[t].highWatermark = Unknown
    BY <2>1, EmptyOK
  <2>3. NextOf(t) = 0
    BY <2>1, <2>2 DEF NextOf
  <2>4. TypedAt(t)
    BY <1>3, <2>1, <2>2 DEF TypedAt
  <2> QED BY <1>1, <2>1, <2>2, <2>3, <2>4
           DEF TopicOK, OffsetsOK, WatermarkOK, PressureOK, HandledOK, Unknown
<1>6. /\ {available, committed, position, fetched, cached, tpOffsets, starting, known}
             \subseteq [Topic -> Int]
      /\ buffer \in [Topic -> Buffers]
  BY <1>1, <1>4, EmptyOK DEF Unknown
<1>7. TypeOK
  BY <1>1, <1>5, <1>6, ConstantsAssumption DEF TypeOK
<1>8. PausesAgree
  BY <1>1, EmptyOK DEF PausesAgree
<1> QED BY <1>5, <1>7, <1>8 DEF BufferInv

\* Every step keeps the invariant.
LEMMA NextKeepsBuffer == BufferInv /\ [Next]_vars => BufferInv'
<1> SUFFICES ASSUME BufferInv, [Next]_vars PROVE BufferInv'
  OBVIOUS
<1>1. ASSUME NEW t \in Topic, Fetch(t) \/ Produce(t) PROVE BufferInv'
  BY <1>1, FetchKeeps
<1>2. CASE PollBuffer
  BY <1>2, PollBufferKeeps
<1>3. CASE PollFeed
  BY <1>3, PollFeedKeeps
<1>4. CASE CommitCheckpoint
  BY <1>4, CommitKeeps
<1>5. CASE TriggerBackpressure
  BY <1>5, BackpressureKeeps
<1>6. CASE ResumeBackpressured
  BY <1>6, ResumeKeeps
<1>7. CASE Restart
  BY <1>7, RestartKeeps
<1>8. CASE UNCHANGED vars
  BY <1>8 DEF BufferInv, TypeOK, TypedAt, PausesAgree, TopicOK, OffsetsOK, NextOf, WatermarkOK,
     PressureOK, HandledOK, vars, kafkaVars, clientVars, consumerVars, ckptVars
<1> QED BY <1>1, <1>2, <1>3, <1>4, <1>5, <1>6, <1>7, <1>8 DEF Next

\* The invariant holds in every state.
LEMMA AlwaysBuffer == Spec => []BufferInv
BY InitBuffer, NextKeepsBuffer, PTL DEF Spec

-----------------------------------------------------------------------------
\* The types of the variables.
THEOREM BufferTyped == Spec => []TypeOK
BY AlwaysBuffer, PTL DEF BufferInv

\* PartitionBuffer.append() never meets an offset that is not new.
THEOREM AppendValidHolds == Spec => []AppendValid
<1>1. BufferInv => AppendValid
  BY TopicTypes DEF BufferInv, TopicOK, BufferOK, AppendValid, Numbers
<1> QED BY <1>1, AlwaysBuffer, PTL

\* The pauses of the consumer are those of the buffers and of backpressure.
THEOREM PausesAgreeHolds == Spec => []PausesAgree
BY AlwaysBuffer, PTL DEF BufferInv

\* What is committed has been processed, where backpressure does not find a
\* topic with buffered messages and nothing processed.
THEOREM SkippedByBackpressureOnlyHolds == Spec => []SkippedByBackpressureOnly
<1>1. BufferInv => SkippedByBackpressureOnly
  <2> SUFFICES ASSUME BufferInv, "unprocessed" \notin hazards, NEW t \in Topic,
                      NEW offset \in 0..committed[t] - 1
               PROVE  <<t, offset>> \in handled
    BY DEF SkippedByBackpressureOnly, NothingSkipped
  <2>1. /\ committed[t] \in Int /\ NextOf(t) \in Nat /\ committed[t] <= NextOf(t)
        /\ \A o \in 0..NextOf(t) - 1 : <<t, o>> \in handled
    BY TopicTypes DEF BufferInv, TopicOK, OffsetsOK, HandledOK, Numbers
  <2> QED BY <2>1
<1> QED BY <1>1, AlwaysBuffer, PTL

-----------------------------------------------------------------------------
\* What is handed out is not younger than the next message of another topic
\* that the consumer has or knows of.
OldestFirst(t) ==
    tpOffsets'[t] > tpOffsets[t] =>
        \A u \in Topic \ {t} :
            NextOf(u)' < known'[u] =>
                /\ tpOffsets'[t] \in Offset(t)
                /\ Stamp(t, tpOffsets'[t]) <= Stamp(u, NextOf(u)')

\* HandOut() of the oldest message, with every empty topic known to be idle.
LEMMA HandOutOldest ==
  ASSUME TypeOK, BufferInv', NEW bufs \in [Topic -> Buffers], Ready(bufs),
         NEW h \in Topic, h \in Oldest(bufs), HandOut(bufs, h),
         \A t \in Topic : /\ bufs[t] \in Buffer(t) /\ BufferOK(bufs[t], position'[t])
                          /\ IsEmpty(bufs[t]) /\ bufs[t].highWatermark >= 0 =>
                                known'[t] = bufs[t].highWatermark,
         NEW t \in Topic
  PROVE  OldestFirst(t)
<1> SUFFICES ASSUME tpOffsets'[t] > tpOffsets[t], NEW u \in Topic \ {t},
                    NextOf(u)' < known'[u]
             PROVE  /\ tpOffsets'[t] \in Offset(t)
                    /\ Stamp(t, tpOffsets'[t]) <= Stamp(u, NextOf(u)')
  BY DEF OldestFirst
<1>1. t = h
  <2>1. tpOffsets \in [Topic -> Int]
    BY DEF TypeOK
  <2>2. t # h => tpOffsets'[t] = tpOffsets[t]
    BY <2>1 DEF HandOut
  <2> QED BY <2>1, <2>2
<1>2. HandedOut(bufs[t], t) \/ Untouched(bufs[t], t)
  BY HandOutTopic
<1>3. tpOffsets'[t] = Head(bufs[t].messages) /\ buffer'[u] = bufs[u]
  BY <1>1 DEF HandOut, TypeOK
<1>4. ~IsEmpty(bufs[t]) /\ bufs[t] \in Buffers /\ bufs[u] \in Buffers /\ bufs[u] \in Buffer(u)
  BY <1>1 DEF Oldest
<1>5. PICK p \in Int : p = position'[u]
  BY DEF BufferInv, TypeOK
<1>6. PICK r \in Int : r = position'[t]
  BY DEF BufferInv, TypeOK
<1>7. Head(bufs[t].messages) \in Offset(t)
  BY <1>4, <1>6, PopLeftOK
<1>8. PICK b \in Buffers : b = bufs[u]
  BY <1>4
<1>9. NextOf(u)' = p - Len(b.messages)
  BY <1>3, <1>5, <1>8 DEF NextOf
<1>10. CASE ~IsEmpty(b)
  <2>1. Head(b.messages) = p - Len(b.messages)
    BY <1>4, <1>5, <1>8, <1>10, PopLeftOK
  <2>2. Stamp(t, Head(bufs[t].messages)) <= Stamp(u, Head(bufs[u].messages))
    BY <1>1, <1>8, <1>10 DEF Oldest
  <2> QED BY <1>3, <1>7, <1>8, <1>9, <2>1, <2>2
<1>11. CASE IsEmpty(b)
  <2>1. Cardinality(Topic) # 1
    <3>1. IsFiniteSet(Topic)
      BY ConstantsAssumption
    <3>2. Cardinality(Topic) = 1 => \E x : Topic = {x}
      BY <3>1, FS_Singleton, Zenon
    <3> QED BY <3>2
  <2>2. Idleness(b) = "idle"
    <3>1. \A w \in Topic : IsEmpty(bufs[w]) => Idleness(bufs[w]) = "idle"
      BY <2>1 DEF Ready
    <3>2. IsEmpty(bufs[u]) /\ u \in Topic
      BY <1>8, <1>11
    <3>3. Idleness(bufs[u]) = "idle"
      BY <3>1, <3>2
    <3> QED BY <1>8, <3>3
  <2>3. b.highWatermark >= 0 /\ b.maxOffset + 1 >= b.highWatermark
    <3>1. b.highWatermark \in Int
      BY DEF Buffers
    <3> QED BY <2>2, <3>1 DEF Idleness
  <2>4. known'[u] = b.highWatermark
    BY <1>8, <1>11, <2>3
  <2>5. b.maxOffset \in Int /\ b.highWatermark \in Int /\ b.maxOffset < p
    BY <1>5, <1>8 DEF Buffers, BufferOK
  <2>6. NextOf(u)' = p
    BY <1>9, <1>11, EmptySeq DEF IsEmpty
  <2> QED BY <2>3, <2>4, <2>5, <2>6
<1> QED BY <1>10, <1>11

\* Both polls hand out the oldest message.
LEMMA PollsOldest ==
  ASSUME BufferInv, BufferInv', PollBuffer \/ PollFeed, NEW t \in Topic
  PROVE  OldestFirst(t)
<1>1. CASE PollBuffer
  <2>1. PICK h \in Topic : /\ h \in Oldest(buffer) /\ HandOut(buffer, h)
                           /\ known' = [known EXCEPT ![h] = cached[h]]
    BY <1>1 DEF PollBuffer, Oldest
  <2>2. Ready(buffer) /\ position' = position
    BY <1>1 DEF PollBuffer, clientVars
  <2>3. TypeOK /\ buffer \in [Topic -> Buffers] /\ known \in [Topic -> Int]
    BY DEF BufferInv, TypeOK
  <2>4. ASSUME NEW u \in Topic
        PROVE  /\ buffer[u] \in Buffer(u) /\ BufferOK(buffer[u], position'[u])
               /\ IsEmpty(buffer[u]) /\ buffer[u].highWatermark >= 0 =>
                     known'[u] = buffer[u].highWatermark
    <3>1. TopicOK(u) /\ buffer[u] \in Buffer(u)
      BY DEF BufferInv, TypeOK, TypedAt
    <3>2. IsEmpty(buffer[u]) => u # h
      BY <2>1 DEF Oldest
    <3> QED BY <2>1, <2>2, <2>3, <3>1, <3>2 DEF TopicOK, WatermarkOK
  <2> QED BY <2>1, <2>2, <2>3, <2>4, HandOutOldest
<1>2. CASE PollFeed
  <2>1. PICK batch, bufs : FedBy(batch, bufs)
    BY <1>2, FeedsABatch
  <2>2. TypeOK /\ bufs \in [Topic -> Buffers] /\ known' = cached
    BY <1>2, <2>1 DEF BufferInv, FedBy, PollFeed
  <2>3. ASSUME NEW u \in Topic
        PROVE  /\ bufs[u] \in Buffer(u) /\ BufferOK(bufs[u], position'[u])
               /\ IsEmpty(bufs[u]) /\ bufs[u].highWatermark >= 0 =>
                     known'[u] = bufs[u].highWatermark
    BY <2>1, <2>2 DEF FedBy
  <2>4. CASE Ready(bufs) /\ \E h \in Oldest(bufs) : HandOut(bufs, h)
    BY <2>2, <2>3, <2>4, HandOutOldest DEF Oldest
  <2>5. CASE UNCHANGED tpOffsets
    BY <2>2, <2>5 DEF OldestFirst, TypeOK
  <2> QED BY <2>1, <2>4, <2>5 DEF FedBy
<1> QED BY <1>1, <1>2

\* No other step stores the offset of a message.
LEMMA OffsetsAdvance ==
  ASSUME TypeOK, [Next]_vars, NEW t \in Topic, tpOffsets'[t] > tpOffsets[t]
  PROVE  PollBuffer \/ PollFeed
<1>1. tpOffsets \in [Topic -> Int] /\ tpOffsets[t] >= -1
  BY TopicTypes DEF TypeOK, TypedAt, Numbers
<1>2. CASE UNCHANGED tpOffsets
  BY <1>1, <1>2
<1>3. CASE tpOffsets' = [u \in Topic |-> -1]
  BY <1>1, <1>3
<1>4. \/ PollBuffer \/ PollFeed \/ UNCHANGED tpOffsets \/ tpOffsets' = [u \in Topic |-> -1]
  BY DEF Next, vars, ckptVars, Fetch, Produce, CommitCheckpoint, TriggerBackpressure,
         ResumeBackpressured, Restart
<1> QED BY <1>2, <1>3, <1>4

\* Timestamps are numbers.
LEMMA StampTyped ==
  ASSUME NEW t \in Topic, NEW offset \in Offset(t)
  PROVE  Stamp(t, offset) \in Int
BY ConstantsAssumption DEF Offset, Size, Stamp

\* The messages of a topic are in the order of their timestamps.
StampsSorted ==
    \A t \in Topic : \A i, j \in Offset(t) : i <= j => Stamp(t, i) <= Stamp(t, j)

\* The messages that are not handed out come after the next one.
UnreadLater ==
    \A u \in Topic : \A offset \in Unread(u) :
        offset \in Offset(u) /\ NextOf(u) <= offset /\ NextOf(u) \in Offset(u)

\* Buffers have no gap, and what is not fetched comes after them.
LEMMA UnreadAfterNext == BufferInv => UnreadLater
<1> SUFFICES ASSUME BufferInv, NEW u \in Topic, NEW offset \in Unread(u)
             PROVE  offset \in Offset(u) /\ NextOf(u) <= offset /\ NextOf(u) \in Offset(u)
  BY DEF UnreadLater
<1>1. TopicOK(u) /\ TypedAt(u) /\ Numbers(u)
  BY TopicTypes DEF BufferInv, TypeOK
<1>2. PICK q \in Seq(Nat) : q = buffer[u].messages
  BY <1>1 DEF Numbers
<1>3. PICK p \in Int : p = position[u]
  BY <1>1 DEF Numbers
<1>4. Len(q) \in Nat /\ NextOf(u) = p - Len(q) /\ NextOf(u) \in Nat /\ Consecutive(q, p)
  BY <1>1, <1>2, <1>3, LenProperties DEF NextOf, TopicOK, OffsetsOK, BufferOK
<1>5. q \in Seq(Offset(u))
  BY <1>1, <1>2 DEF TypedAt, Buffer
<1>6. CASE offset \in Offset(u) /\ offset >= p
  BY <1>1, <1>4, <1>6 DEF Offset, Numbers
<1>7. CASE offset \in Range(q)
  <2>1. PICK k \in 1..Len(q) : offset = q[k]
    BY <1>7, LenProperties DEF Range
  <2>2. offset = p - Len(q) + k - 1 /\ k \in Int
    BY <1>4, <2>1 DEF Consecutive
  <2>3. offset \in Offset(u)
    BY <1>5, <2>1, ElementOfSeq
  <2> QED BY <1>1, <1>4, <2>1, <2>2, <2>3 DEF Offset, Numbers
<1> QED BY <1>2, <1>3, <1>6, <1>7 DEF Unread

\* Messages are handed out in the order of their timestamps across topics.
THEOREM InOrderHolds == StampsSorted => (Spec => InOrder)
<1> SUFFICES ASSUME StampsSorted PROVE Spec => InOrder
  OBVIOUS
<1>1. ASSUME BufferInv, BufferInv', UnreadLater', [Next]_vars
      PROVE  \A t \in Topic : tpOffsets'[t] > tpOffsets[t] =>
                \A u \in Topic : \A offset \in Unread(u)' :
                    offset < known'[u] /\ u # t => Stamp(t, tpOffsets'[t]) <= Stamp(u, offset)
  <2> SUFFICES ASSUME NEW t \in Topic, tpOffsets'[t] > tpOffsets[t], NEW u \in Topic,
                      NEW offset \in Unread(u)', offset < known'[u], u # t
               PROVE  Stamp(t, tpOffsets'[t]) <= Stamp(u, offset)
    OBVIOUS
  <2>1. PollBuffer \/ PollFeed
    BY <1>1, OffsetsAdvance DEF BufferInv
  <2>2. OldestFirst(t)
    BY <1>1, <2>1, PollsOldest
  <2>3. PICK n : n = NextOf(u)'
    OBVIOUS
  <2>4. offset \in Offset(u) /\ n <= offset /\ n \in Offset(u)
    BY <1>1, <2>3 DEF UnreadLater
  <2>5. n \in Int /\ offset \in Int
    BY <2>4 DEF Offset
  <2>6. n < known'[u]
    <3>1. known'[u] \in Int
      BY <1>1 DEF BufferInv, TypeOK
    <3> QED BY <2>4, <2>5, <3>1
  <2>7. tpOffsets'[t] \in Offset(t) /\ Stamp(t, tpOffsets'[t]) <= Stamp(u, n)
    BY <2>2, <2>3, <2>6 DEF OldestFirst
  <2>8. Stamp(u, n) <= Stamp(u, offset)
    BY <2>4 DEF StampsSorted
  <2>9. /\ Stamp(u, n) \in Int /\ Stamp(u, offset) \in Int /\ Stamp(t, tpOffsets'[t]) \in Int
    BY <2>4, <2>7, StampTyped
  <2> QED BY <2>7, <2>8, <2>9
<1>2. BufferInv /\ [Next]_vars => BufferInv'
  BY NextKeepsBuffer
<1> QED BY <1>1, UnreadAfterNext, AlwaysBuffer, PTL DEF Spec, InOrder
=============================================================================
