--------------------------- MODULE ApplicationProofs ---------------------------
(***************************************************************************)
(* Proofs that what is committed is in the system of every sink            *)
(* (SinksAtLeastOnce), for any number of sinks of any kind, records and    *)
(* faults; that an application ends by itself when it is due               *)
(* (EndsWhenDue), for any limits, messages and clients; that the topics    *)
(* that instances start with fit (ChangelogsFit, InternalTopicsFit), for   *)
(* any number of instances, plan and topics; that messages of several      *)
(* topics come to an operation in order (TopicsAligned), for any program   *)
(* of any size; and the types of the whole application (TypeOK).           *)
(***************************************************************************)
EXTENDS ProcessProofs, FiniteSetTheorems

-----------------------------------------------------------------------------
(***************************************************************************)
(* Sinks.  Every record that the application has given to a sink is        *)
(* stored, skipped, or held by the sink: in its batch, in a request        *)
(* without an answer, or lost with a request of which the sink remembers   *)
(* that one has failed.  A flush returns only from a sink that holds       *)
(* nothing, and whatever ends it otherwise takes the partition back to the *)
(* committed offset.  A file that is replaced loses nothing that is        *)
(* committed: the one that a batch goes to is named after the committed    *)
(* offset.                                                                 *)
(***************************************************************************)

\* What the system of a sink has, what the sink has decided not to write, and what the
\* system has refused in an answer that the sink does not read.
Stored(s, o) == o \in dropped[s] \cup overlooked[s] \/ \E w \in written[s] : w.offset = o

\* What is under way, or was.
Requested(b, o) == b.kept \/ \E k \in 1..Len(b.requests) : o \in b.requests[k]

\* What a sink has not given up.
Held(b, o) == o \in Range(b.batch) \/ Requested(b, o)

\* What the files of a sink are: replaced, appended to, or none.
FileOf(s) == scenario.sinks[s].file

\* Of files that are replaced, the one named after the committed offset has what is not
\* committed, and no record is in two of them; a file that is appended to is the only one.
Replaced(files, last) ==
    \A w \in files :
       /\ w.file <= last /\ w.file <= w.offset /\ (w.file < last => w.offset < last)
       /\ \A v \in files : v.offset = w.offset => v = w

\* The files of a sink, if it has any.
FilesOK(s) ==
    /\ FileOf(s) # "none" => dropped[s] = {} /\ overlooked[s] = {}
    /\ FileOf(s) = "replace" => Replaced(written[s], sunk)
    /\ FileOf(s) = "append" => \A v, w \in written[s] : v.file = w.file

\* What is committed is stored.
CommittedOK(s) == (\A o \in 0..sunk - 1 : Stored(s, o)) /\ FilesOK(s)

\* A sink has batches or requests, but for KinesisSink, which has both, and is the one that
\* does not read its answers.
OutboxOK(s) ==
    /\ Style(s) # "kinesis" => overlooked[s] = {}
    /\ Batching(s) => outbox[s].requests = <<>> /\ ~outbox[s].kept
    /\ ~Batching(s) /\ Style(s) # "kinesis" => outbox[s].batch = <<>>

\* A sink of files that are replaced has all records since the commit, or has written them.
Filled(s) ==
    /\ Len(outbox[s].batch) = writer.next - sunk
    /\ \A k \in 1..Len(outbox[s].batch) : outbox[s].batch[k] = sunk + k - 1

\* It has been flushed: it holds nothing.
Emptied(s) == outbox[s].batch = <<>> /\ \A w \in written[s] : w.offset < writer.next

\* While records come, each is stored or held; a flush turns the sinks, one after the
\* other, from what they hold to what they have stored.
RunningOK(s) ==
    writer.pc = "run" =>
        /\ \A o \in 0..writer.next - 1 : Stored(s, o) \/ Held(outbox[s], o)
        /\ FileOf(s) = "replace" => Filled(s)

\* A sink before the one that is flushed has stored all; from there on, they hold the rest.
FlushingOK(s) ==
    writer.pc = "flush" =>
        /\ s < writer.at => \A o \in 0..writer.next - 1 : Stored(s, o)
        /\ s >= writer.at => \A o \in 0..writer.next - 1 : Stored(s, o) \/ Held(outbox[s], o)
        /\ s = writer.at /\ Style(s) = "kinesis" /\ writer.attempt = 1 =>
              \A o \in 0..writer.next - 1 : Stored(s, o) \/ Requested(outbox[s], o)
        /\ FileOf(s) = "replace" =>
              \/ s <= writer.at /\ Emptied(s)
              \/ s >= writer.at /\ Filled(s)

\* A checkpoint begins at the committed offset.
WriterOK ==
    /\ writer.pc = "run" =>
          IF writer.start = NoOffset THEN writer.next = sunk
          ELSE writer.start = sunk /\ writer.next > sunk
    /\ writer.pc = "flush" => writer.start = sunk /\ writer.next > sunk

\* All of this, of one sink.
SinkOK(s) == CommittedOK(s) /\ OutboxOK(s) /\ RunningOK(s) /\ FlushingOK(s)

\* And of all sinks, while the application writes to them.
SinkInv ==
    Sinking => /\ SinkDefinition(scenario) /\ MaxOffset \in Nat
               /\ SinkTypeOK /\ WriterOK
               /\ \A s \in Sinks : SinkOK(s)

-----------------------------------------------------------------------------
\* The smaller one of two numbers, and the only one of one.
LEMMA MinMax ==
  ASSUME NEW m \in Int, NEW n \in Int
  PROVE  /\ Min({m, n}) = IF m <= n THEN m ELSE n
         /\ Max({m}) = m
<1>1. Min({m, n}) = IF m <= n THEN m ELSE n
  BY DEF Min
<1>2. Max({m}) = m
  BY DEF Max
<1> QED BY <1>1, <1>2

\* The first elements of a sequence.
LEMMA FirstPart ==
  ASSUME NEW S, NEW q \in Seq(S), NEW l \in Nat, l = Len(q), NEW k \in 0..l
  PROVE  /\ SubSeq(q, 1, k) \in Seq(S) /\ Len(SubSeq(q, 1, k)) = k
         /\ \A i \in 1..k : SubSeq(q, 1, k)[i] = q[i]
<1>1. q \in [1..l -> S]
  BY LenProperties
<1>2. \A i \in 1..k : q[i] \in S
  BY <1>1
<1>3. k \in Int /\ 1 \in Int
  OBVIOUS
<1>4. PICK c : c = SubSeq(q, 1, k)
  OBVIOUS
<1>5. /\ c \in Seq(S) /\ Len(c) = IF 1 <= k THEN k - 1 + 1 ELSE 0
      /\ \A i \in 1..k - 1 + 1 : c[i] = q[1 + i - 1]
  <2>1. /\ SubSeq(q, 1, k) \in Seq(S)
        /\ Len(SubSeq(q, 1, k)) = IF 1 <= k THEN k - 1 + 1 ELSE 0
        /\ \A i \in 1..k - 1 + 1 : SubSeq(q, 1, k)[i] = q[1 + i - 1]
    BY <1>2, <1>3, SubSeqProperties
  <2> QED BY <1>4, <2>1, Zenon
<1>6. Len(c) = k
  BY <1>5
<1>7. k - 1 + 1 = k /\ \A i \in 1..k : 1 + i - 1 = i
  OBVIOUS
<1>8. \A i \in 1..k : c[i] = q[i]
  BY <1>5, <1>7
<1> QED BY <1>4, <1>5, <1>6, <1>8

\* The last elements of a sequence.
LEMMA LastPart ==
  ASSUME NEW S, NEW q \in Seq(S), NEW l \in Nat, l = Len(q), NEW k \in 0..l
  PROVE  /\ SubSeq(q, k + 1, l) \in Seq(S) /\ Len(SubSeq(q, k + 1, l)) = l - k
         /\ \A i \in 1..l - k : SubSeq(q, k + 1, l)[i] = q[k + i]
<1>1. q \in [1..l -> S]
  BY LenProperties
<1>2. PICK m \in Int : m = k + 1
  OBVIOUS
<1>3. \A i \in m..l : q[i] \in S
  BY <1>1, <1>2
<1>4. l \in Int
  OBVIOUS
<1>5. PICK c : c = SubSeq(q, m, l)
  OBVIOUS
<1>6. /\ c \in Seq(S) /\ Len(c) = IF m <= l THEN l - m + 1 ELSE 0
      /\ \A i \in 1..l - m + 1 : c[i] = q[m + i - 1]
  <2>1. /\ SubSeq(q, m, l) \in Seq(S)
        /\ Len(SubSeq(q, m, l)) = IF m <= l THEN l - m + 1 ELSE 0
        /\ \A i \in 1..l - m + 1 : SubSeq(q, m, l)[i] = q[m + i - 1]
    BY <1>3, <1>4, SubSeqProperties
  <2> QED BY <1>5, <2>1, Zenon
<1>7. Len(c) = l - k
  BY <1>2, <1>6
<1>8. l - m + 1 = l - k /\ \A i \in 1..l - k : m + i - 1 = k + i
  BY <1>2
<1>9. \A i \in 1..l - k : c[i] = q[k + i]
  BY <1>6, <1>8
<1> QED BY <1>2, <1>5, <1>6, <1>7, <1>9

\* The elements of a sequence are in its first part or in its last one.
LEMMA TwoParts ==
  ASSUME NEW S, NEW q \in Seq(S), NEW m \in Nat, m = Len(q), NEW l \in 0..m
  PROVE  /\ SubSeq(q, 1, l) \in Seq(S) /\ SubSeq(q, l + 1, m) \in Seq(S)
         /\ Len(SubSeq(q, 1, l)) = l
         /\ Range(SubSeq(q, 1, l)) \subseteq Range(q)
         /\ Range(SubSeq(q, l + 1, m)) \subseteq Range(q)
         /\ Range(q) \subseteq Range(SubSeq(q, 1, l)) \cup Range(SubSeq(q, l + 1, m))
         /\ l = m => SubSeq(q, 1, l) = q /\ SubSeq(q, l + 1, m) = <<>>
<1>. PICK c, r : c = SubSeq(q, 1, l) /\ r = SubSeq(q, l + 1, m)
  OBVIOUS
<1>1. DOMAIN q = 1..m
  BY LenProperties
<1>2. c \in Seq(S) /\ Len(c) = l /\ \A k \in 1..l : c[k] = q[k]
  <2>1. /\ SubSeq(q, 1, l) \in Seq(S) /\ Len(SubSeq(q, 1, l)) = l
        /\ \A k \in 1..l : SubSeq(q, 1, l)[k] = q[k]
    BY FirstPart
  <2> QED BY <2>1, Zenon
<1>3. r \in Seq(S) /\ Len(r) = m - l /\ \A k \in 1..m - l : r[k] = q[l + k]
  <2>1. /\ SubSeq(q, l + 1, m) \in Seq(S) /\ Len(SubSeq(q, l + 1, m)) = m - l
        /\ \A k \in 1..m - l : SubSeq(q, l + 1, m)[k] = q[l + k]
    BY LastPart
  <2> QED BY <2>1, Zenon
<1>4. DOMAIN c = 1..l /\ DOMAIN r = 1..m - l
  BY <1>2, <1>3, LenProperties, Zenon
<1>5. Range(c) \subseteq Range(q)
  <2> SUFFICES ASSUME NEW k \in 1..l PROVE c[k] \in Range(q)
    BY <1>4, Zenon DEF Range
  <2>1. k \in 1..m
    OBVIOUS
  <2> QED BY <1>1, <1>2, <2>1, Zenon DEF Range
<1>6. Range(r) \subseteq Range(q)
  <2> SUFFICES ASSUME NEW k \in 1..m - l PROVE r[k] \in Range(q)
    BY <1>4, Zenon DEF Range
  <2>1. l + k \in 1..m
    OBVIOUS
  <2> QED BY <1>1, <1>3, <2>1, Zenon DEF Range
<1>7. Range(q) \subseteq Range(c) \cup Range(r)
  <2> SUFFICES ASSUME NEW k \in 1..m PROVE q[k] \in Range(c) \cup Range(r)
    BY <1>1, Zenon DEF Range
  <2>1. CASE k \in 1..l
    <3>1. c[k] = q[k] /\ c[k] \in Range(c)
      BY <1>2, <1>4, <2>1, Zenon DEF Range
    <3> QED BY <3>1
  <2>2. CASE k \notin 1..l
    <3>1. k - l \in 1..m - l /\ l + (k - l) = k
      BY <2>2
    <3>2. r[k - l] = q[k] /\ r[k - l] \in Range(r)
      BY <1>3, <1>4, <3>1, Zenon DEF Range
    <3> QED BY <3>2
  <2> QED BY <2>1, <2>2
<1>8. l = m => c = q
  BY SubSeqFull, Zenon
<1>9. l = m => r = <<>>
  <2> SUFFICES ASSUME l = m PROVE r = <<>>
    OBVIOUS
  <2>1. Len(r) = 0
    BY <1>3
  <2> QED BY <1>3, <2>1, EmptySeq
<1> QED BY <1>2, <1>3, <1>5, <1>6, <1>7, <1>8, <1>9

\* Taking one element out of a sequence leaves the others.
LEMMA RemoveAtKeeps ==
  ASSUME NEW S, NEW q \in Seq(S), NEW m \in Nat, m = Len(q), NEW k \in 1..m
  PROVE  /\ RemoveAt(q, k) \in Seq(S)
         /\ \A j \in 1..m : j # k =>
               \E i \in 1..Len(RemoveAt(q, k)) : RemoveAt(q, k)[i] = q[j]
<1>1. PICK p \in 0..m : p = k - 1
  OBVIOUS
<1>2. k \in 0..m
  OBVIOUS
<1>3. PICK a : a = SubSeq(q, 1, p)
  OBVIOUS
<1>4. PICK b : b = SubSeq(q, k + 1, m)
  OBVIOUS
<1>5. PICK r : r = RemoveAt(q, k)
  OBVIOUS
<1>6. r = a \o b
  BY <1>1, <1>3, <1>4, <1>5, Zenon DEF RemoveAt
<1>7. a \in Seq(S) /\ Len(a) = p /\ \A j \in 1..p : a[j] = q[j]
  <2>1. /\ SubSeq(q, 1, p) \in Seq(S) /\ Len(SubSeq(q, 1, p)) = p
        /\ \A j \in 1..p : SubSeq(q, 1, p)[j] = q[j]
    BY FirstPart
  <2> QED BY <1>3, <2>1, Zenon
<1>8. b \in Seq(S) /\ Len(b) = m - k /\ \A j \in 1..m - k : b[j] = q[k + j]
  <2>1. /\ SubSeq(q, k + 1, m) \in Seq(S) /\ Len(SubSeq(q, k + 1, m)) = m - k
        /\ \A j \in 1..m - k : SubSeq(q, k + 1, m)[j] = q[k + j]
    BY <1>2, LastPart
  <2> QED BY <1>4, <2>1, Zenon
<1>9. /\ r \in Seq(S) /\ Len(r) = Len(a) + Len(b)
      /\ \A i \in 1..Len(a) + Len(b) : r[i] = IF i <= Len(a) THEN a[i] ELSE b[i - Len(a)]
  BY <1>6, <1>7, <1>8, ConcatProperties, Zenon
<1>10. Len(r) = m - 1 /\ \A i \in 1..m - 1 : r[i] = IF i <= p THEN a[i] ELSE b[i - p]
  <2>1. Len(a) + Len(b) = m - 1
    BY <1>1, <1>7, <1>8
  <2> QED BY <1>7, <1>9, <2>1, Zenon
<1>11. ASSUME NEW j \in 1..m, j # k PROVE \E i \in 1..m - 1 : r[i] = q[j]
  <2>1. CASE j \in 1..p
    <3>1. j \in 1..m - 1 /\ j <= p
      BY <1>1, <2>1
    <3>2. r[j] = a[j]
      BY <1>10, <3>1, Zenon
    <3>3. r[j] = q[j]
      BY <1>7, <2>1, <3>2, Zenon
    <3> QED BY <3>1, <3>3, Zenon
  <2>2. CASE j \notin 1..p
    <3>1. PICK i \in 1..m - 1 : i = j - 1
      BY <1>1, <1>11, <2>2
    <3>2. PICK n \in 1..m - k : n = i - p
      BY <1>1, <1>11, <2>2, <3>1
    <3>3. ~(i <= p) /\ k + n = j
      BY <1>1, <1>11, <2>2, <3>1, <3>2
    <3>4. r[i] = b[n]
      BY <1>10, <3>2, <3>3, Zenon
    <3>5. b[n] = q[j]
      BY <1>8, <3>3, Zenon
    <3> QED BY <3>4, <3>5, Zenon
  <2> QED BY <2>1, <2>2
<1> QED BY <1>5, <1>9, <1>10, <1>11, Zenon

-----------------------------------------------------------------------------
\* What the invariant says of the writer and of one sink.
LEMMA SinkFacts ==
  ASSUME SinkInv, Sinking
  PROVE  /\ SinkDefinition(scenario) /\ MaxOffset \in Nat
         /\ Len(scenario.sinks) \in Nat /\ Sinks = 1..Len(scenario.sinks)
         /\ writer \in Writer /\ writer.at \in 1..Len(scenario.sinks) + 1
         /\ sunk \in 0..MaxOffset /\ writer.next \in sunk..MaxOffset
         /\ writer.pc # "failing" => writer.start \in {NoOffset, sunk}
         /\ outbox \in [Sinks -> Outbox]
         /\ written \in [Sinks -> SUBSET Copy]
         /\ dropped \in [Sinks -> SUBSET Record] /\ overlooked \in [Sinks -> SUBSET Record]
         /\ WriterOK
         /\ \A s \in Sinks : SinkOK(s) /\ scenario.sinks[s] \in SinkKind
<1>1. SinkDefinition(scenario) /\ MaxOffset \in Nat /\ SinkTypeOK /\ WriterOK
      /\ \A s \in Sinks : SinkOK(s)
  BY DEF SinkInv
<1>2. scenario.sinks \in Seq(SinkKind)
  BY <1>1 DEF SinkDefinition
<1>3. PICK k : k = scenario.sinks
  OBVIOUS
<1>4. k \in Seq(SinkKind)
  BY <1>2, <1>3
<1>5. Len(k) \in Nat /\ DOMAIN k = 1..Len(k) /\ \A s \in 1..Len(k) : k[s] \in SinkKind
  BY <1>4, LenProperties, ElementOfSeq
<1>6. Sinks = DOMAIN k
  BY <1>3 DEF Sinks
<1> QED BY <1>1, <1>3, <1>5, <1>6 DEF SinkTypeOK

\* What there is to show of a step.
LEMMA SinkAgain ==
  ASSUME SinkInv, Sinking, UNCHANGED scenario,
         writer' \in Writer, writer'.at \in 1..Len(scenario.sinks) + 1,
         sunk' \in 0..MaxOffset, writer'.next \in sunk'..MaxOffset,
         writer'.pc # "failing" => writer'.start \in {NoOffset, sunk'},
         outbox' \in [Sinks -> Outbox], written' \in [Sinks -> SUBSET Copy],
         dropped' \in [Sinks -> SUBSET Record], overlooked' \in [Sinks -> SUBSET Record],
         WriterOK', \A s \in Sinks : SinkOK(s)'
  PROVE  SinkInv'
<1>1. /\ Sinks' = Sinks /\ MaxOffset' = MaxOffset /\ Record' = Record /\ Copy' = Copy
      /\ Outbox' = Outbox /\ Sinking' = Sinking /\ SinkDefinition(scenario)'
      /\ MaxOffset \in Nat
  BY DEF SinkInv, SinkDefinition, Sinks, Sinking, MaxOffset, Record, Copy, Outbox
<1>2. SinkTypeOK'
  BY <1>1 DEF SinkTypeOK, Writer, NoOffset
<1> QED BY <1>1, <1>2 DEF SinkInv

\* What a sink holds.
LEMMA BoxFacts ==
  ASSUME NEW b \in Outbox
  PROVE  /\ b.batch \in Seq(Record) /\ b.requests \in Seq(SUBSET Record) /\ b.kept \in BOOLEAN
         /\ Len(b.batch) \in Nat /\ DOMAIN b.batch = 1..Len(b.batch)
         /\ Range(b.batch) \subseteq Record
         /\ Len(b.requests) \in Nat /\ DOMAIN b.requests = 1..Len(b.requests)
<1>1. b.batch \in Seq(Record) /\ b.requests \in Seq(SUBSET Record) /\ b.kept \in BOOLEAN
  BY DEF Outbox
<1>2. /\ Len(b.batch) \in Nat /\ DOMAIN b.batch = 1..Len(b.batch)
      /\ b.batch \in [1..Len(b.batch) -> Record]
      /\ Len(b.requests) \in Nat /\ DOMAIN b.requests = 1..Len(b.requests)
  BY <1>1, LenProperties
<1>3. Range(b.batch) \subseteq Record
  BY <1>2 DEF Range
<1> QED BY <1>1, <1>2, <1>3

\* A sink that has nothing yet.
LEMMA EmptyBox ==
  /\ NewOutbox \in Outbox /\ NewOutbox.batch = <<>> /\ NewOutbox.requests = <<>>
  /\ ~NewOutbox.kept
<1>1. <<>> \in Seq(Record) /\ <<>> \in Seq(SUBSET Record)
  BY EmptySeq
<1> QED BY <1>1 DEF NewOutbox, Outbox

\* A step that goes on with a flush leaves a sink as it is that it does not touch.
LEMMA OtherSink ==
  ASSUME NEW r \in Sinks, SinkOK(r), UNCHANGED <<scenario, sunk>>,
         outbox'[r] = outbox[r], written'[r] = written[r], dropped'[r] = dropped[r],
         overlooked'[r] = overlooked[r],
         writer'.pc = writer.pc, writer'.next = writer.next, writer'.at = writer.at,
         r # writer.at \/ Style(r) # "kinesis" \/ writer'.attempt = writer.attempt
  PROVE  SinkOK(r)'
<1>1. FileOf(r)' = FileOf(r) /\ Style(r)' = Style(r) /\ (Batching(r)' <=> Batching(r))
  BY DEF FileOf, Style, Batching
<1>2. \A o : (Stored(r, o)' <=> Stored(r, o)) /\ (Held(outbox[r], o)' <=> Held(outbox[r], o))
             /\ (Requested(outbox[r], o)' <=> Requested(outbox[r], o))
  BY DEF Stored, Held, Requested
<1>3. (Filled(r)' <=> Filled(r)) /\ (Emptied(r)' <=> Emptied(r))
  BY DEF Filled, Emptied
<1>4. CommittedOK(r)'
  BY <1>1, <1>2 DEF SinkOK, CommittedOK, FilesOK, Replaced
<1>5. OutboxOK(r)'
  BY <1>1 DEF SinkOK, OutboxOK
<1>6. RunningOK(r)'
  BY <1>1, <1>2, <1>3 DEF SinkOK, RunningOK
<1>7. FlushingOK(r)'
  BY <1>1, <1>2, <1>3 DEF SinkOK, FlushingOK
<1> QED BY <1>4, <1>5, <1>6, <1>7 DEF SinkOK

-----------------------------------------------------------------------------
\* A batch for a file that is replaced has all that is not committed, and the file that it
\* goes to is the one named after the committed offset.
LEMMA ReplacedBatch ==
  ASSUME SinkInv, Sinking, NEW s \in Sinks, Filled(s), outbox[s].batch # <<>>
  PROVE  /\ Range(outbox[s].batch) = sunk..writer.next - 1
         /\ FileOf(s) = "replace" => File(s) = sunk
<1>1. PICK b \in Outbox : b = outbox[s]
  BY SinkFacts
<1>2. PICK q : q = b.batch
  OBVIOUS
<1>3. q \in Seq(Record) /\ Len(q) \in Nat /\ DOMAIN q = 1..Len(q) /\ q # <<>>
  BY <1>1, <1>2, BoxFacts
<1>4. PICK m \in Nat : m = Len(q)
  BY <1>3
<1>5. m # 0
  BY <1>3, <1>4, EmptySeq
<1>6. m = writer.next - sunk /\ \A k \in 1..m : q[k] = sunk + k - 1
  BY <1>1, <1>2, <1>4 DEF Filled
<1>7. PICK c \in Int, n \in Int : c = sunk /\ n = writer.next
  BY SinkFacts
<1>8. Range(q) = c..n - 1
  <2>1. ASSUME NEW k \in 1..m PROVE q[k] \in c..n - 1
    BY <1>6, <1>7
  <2>2. ASSUME NEW o \in c..n - 1 PROVE \E k \in 1..m : q[k] = o
    <3>1. PICK k \in 1..m : k = o - c + 1
      BY <1>6, <1>7
    <3>2. q[k] = o
      BY <1>6, <1>7, <3>1
    <3> QED BY <3>2
  <2> QED BY <1>3, <1>4, <2>1, <2>2 DEF Range
<1>9. FileOf(s) = "replace" => File(s) = sunk
  <2> SUFFICES ASSUME FileOf(s) = "replace" PROVE File(s) = sunk
    OBVIOUS
  <2>1. File(s) = Head(q)
    BY <1>1, <1>2 DEF File, FileOf
  <2>2. Head(q) = q[1]
    BY <1>3
  <2>3. q[1] = sunk
    BY <1>5, <1>6, <1>7
  <2> QED BY <2>1, <2>2, <2>3
<1> QED BY <1>1, <1>2, <1>7, <1>8, <1>9

\* A file is named after a record.
LEMMA FileName ==
  ASSUME SinkInv, Sinking, NEW s \in Sinks, outbox[s].batch # <<>>
  PROVE  /\ File(s) \in 0..MaxOffset
         /\ FileOf(s) = "append" => \A w \in written[s] : w.file = File(s)
<1>1. PICK b \in Outbox : b = outbox[s]
  BY SinkFacts
<1>2. Head(outbox[s].batch) \in Record
  BY <1>1, BoxFacts, HeadTailProperties
<1>3. Head(outbox[s].batch) \in 0..MaxOffset
  BY <1>2, SinkFacts DEF Record
<1>4. written[s] \subseteq Copy /\ MaxOffset \in Nat /\ SinkOK(s)
  BY SinkFacts
<1>5. PICK files : files = {w.file : w \in written[s]}
  OBVIOUS
<1>6. CASE FileOf(s) = "append" /\ files # {}
  <2>1. PICK w \in written[s] : TRUE
    BY <1>5, <1>6
  <2>2. PICK f : f = w.file
    OBVIOUS
  <2>3. f \in 0..MaxOffset
    BY <1>4, <2>1, <2>2 DEF Copy
  <2>4. \A v \in written[s] : v.file = f
    BY <1>4, <1>6, <2>1, <2>2 DEF SinkOK, CommittedOK, FilesOK
  <2>5. files = {f}
    BY <1>5, <2>1, <2>2, <2>4
  <2>6. f \in Int
    BY <1>4, <2>3
  <2>7. Max({f}) = f
    BY <2>6, MinMax, Zenon
  <2>8. File(s) = Max(files)
    BY <1>5, <1>6, Zenon DEF File, FileOf
  <2> QED BY <2>3, <2>4, <2>5, <2>7, <2>8, Zenon
<1>7. CASE FileOf(s) # "append" \/ files = {}
  <2>1. File(s) = IF FileOf(s) = "none" THEN 0 ELSE Head(outbox[s].batch)
    BY <1>5, <1>7 DEF File, FileOf
  <2>2. FileOf(s) = "append" => written[s] = {}
    BY <1>5, <1>7
  <2> QED BY <1>3, <1>4, <2>1, <2>2
<1> QED BY <1>6, <1>7

\* A request writes what it is for, and takes no record away that is committed.
LEMMA WriteKeeps ==
  ASSUME SinkInv, Sinking, UNCHANGED <<scenario, overlooked, sunk>>,
         NEW s \in Sinks, Flushing(s), outbox[s].batch # <<>>,
         NEW q, Range(q) \subseteq Range(outbox[s].batch), Write(s, q)
  PROVE  /\ written' \in [Sinks -> SUBSET Copy]
         /\ \A r \in Sinks : r # s => written'[r] = written[r]
         /\ \A o \in Range(q) : \E w \in written'[s] : w.offset = o
         /\ \A o \in 0..sunk - 1 : Stored(s, o) =>
               o \in dropped[s] \cup overlooked[s] \/ \E w \in written'[s] : w.offset = o
         /\ FileOf(s) # "replace" => written[s] \subseteq written'[s]
         /\ FileOf(s) = "append" => \A v, w \in written'[s] : v.file = w.file
         /\ FileOf(s) = "replace" =>
               /\ Filled(s) /\ Replaced(written'[s], sunk)
               /\ \A w \in written'[s] : w.offset < writer.next
<1>1. /\ written \in [Sinks -> SUBSET Copy] /\ MaxOffset \in Nat /\ SinkOK(s)
      /\ sunk \in 0..MaxOffset /\ writer.next \in sunk..MaxOffset
  BY SinkFacts
<1>2. Range(outbox[s].batch) \subseteq Record
  BY SinkFacts, BoxFacts
<1>3. PICK f \in 0..MaxOffset : f = File(s)
  BY FileName
<1>4. PICK new : new = [file : {f}, offset : Range(q)]
  OBVIOUS
<1>5. new \subseteq Copy
  BY <1>2, <1>3, <1>4 DEF Copy
<1>6. /\ \A w \in new : w.file = f /\ w.offset \in Range(q)
      /\ \A o \in Range(q) : \E w \in new : w.offset = o
      /\ \A v, w \in new : v.offset = w.offset => v = w
  <2>1. \A w \in new : w.file = f /\ w.offset \in Range(q)
    BY <1>4
  <2>2. ASSUME NEW o \in Range(q) PROVE \E w \in new : w.offset = o
    <3>1. PICK w : w = [file |-> f, offset |-> o]
      OBVIOUS
    <3> QED BY <1>4, <3>1
  <2>3. ASSUME NEW v \in new, NEW w \in new, v.offset = w.offset PROVE v = w
    BY <1>4, <2>3
  <2> QED BY <2>1, <2>2, <2>3
<1>7. PICK old : old = IF FileOf(s) = "replace" THEN {w \in written[s] : w.file # f} ELSE written[s]
  OBVIOUS
<1>8. written' = [written EXCEPT ![s] = old \cup new]
  BY <1>3, <1>4, <1>7 DEF Write, FileOf
<1>9. old \subseteq written[s]
  BY <1>7
<1>10. /\ written' \in [Sinks -> SUBSET Copy] /\ written'[s] = old \cup new
       /\ \A r \in Sinks : r # s => written'[r] = written[r]
  <2>1. old \cup new \in SUBSET Copy
    BY <1>1, <1>5, <1>9
  <2> QED BY <1>1, <1>8, <2>1
<1>11. CASE FileOf(s) # "replace"
  <2>1. old = written[s]
    BY <1>7, <1>11
  <2>2. FileOf(s) = "append" => \A v, w \in written'[s] : v.file = w.file
    BY <1>3, <1>6, <1>10, <2>1, FileName
  <2> QED BY <1>6, <1>10, <1>11, <2>1, <2>2 DEF Stored
<1>12. CASE FileOf(s) = "replace"
  <2>1. Filled(s)
    BY <1>1, <1>12 DEF SinkOK, FlushingOK, Emptied, Flushing
  <2>2. Range(outbox[s].batch) = sunk..writer.next - 1 /\ f = sunk
    BY <1>3, <1>12, <2>1, ReplacedBatch
  <2>3. Replaced(written[s], sunk)
    BY <1>1, <1>12 DEF SinkOK, CommittedOK, FilesOK
  <2>4. PICK c \in Int, n \in Int : c = sunk /\ n = writer.next /\ c <= n
    BY <1>1
  <2>5. ASSUME NEW w \in old
        PROVE  /\ w \in written[s] /\ w.file \in Int /\ w.offset \in Int
               /\ w.file <= w.offset /\ w.file < c /\ w.offset < c
    <3>1. w \in written[s] /\ w.file # c
      BY <1>7, <1>12, <2>2, <2>4, <2>5
    <3>2. w.file \in Int /\ w.offset \in Int
      BY <1>1, <3>1 DEF Copy, Record
    <3>3. w.file <= c /\ w.file <= w.offset /\ (w.file < c => w.offset < c)
      BY <2>3, <2>4, <3>1 DEF Replaced
    <3> QED BY <3>1, <3>2, <3>3
  <2>6. ASSUME NEW w \in new PROVE w.file = c /\ w.offset \in c..n - 1
    BY <1>6, <2>2, <2>4, <2>6
  <2>7. Replaced(written'[s], c)
    <3> SUFFICES ASSUME NEW w \in old \cup new
                 PROVE  /\ w.file <= c /\ w.file <= w.offset /\ (w.file < c => w.offset < c)
                        /\ \A v \in old \cup new : v.offset = w.offset => v = w
      BY <1>10 DEF Replaced
    <3>1. w.file <= c /\ w.file <= w.offset /\ (w.file < c => w.offset < c)
      BY <2>5, <2>6
    <3>2. ASSUME NEW v \in old \cup new, v.offset = w.offset PROVE v = w
      <4>1. CASE v \in old /\ w \in old
        BY <2>3, <2>5, <3>2, <4>1 DEF Replaced
      <4>2. CASE v \in new /\ w \in new
        BY <1>6, <3>2, <4>2
      <4>3. CASE v \in old /\ w \in new
        BY <2>5, <2>6, <3>2, <4>3
      <4>4. CASE v \in new /\ w \in old
        BY <2>5, <2>6, <3>2, <4>4
      <4> QED BY <4>1, <4>2, <4>3, <4>4
    <3> QED BY <3>1, <3>2
  <2>8. \A w \in written'[s] : w.offset < writer.next
    <3>1. ASSUME NEW w \in old \cup new PROVE w.offset < n
      BY <2>4, <2>5, <2>6
    <3> QED BY <1>10, <2>4, <3>1
  <2>9. ASSUME NEW o \in 0..sunk - 1, NEW w \in written[s], w.offset = o
        PROVE  w \in written'[s]
    <3>1. w.file \in Int /\ w.offset \in Int
      BY <1>1 DEF Copy, Record
    <3>2. w.file <= w.offset
      BY <2>3 DEF Replaced
    <3>3. w.file # f
      BY <1>1, <2>2, <2>9, <3>1, <3>2
    <3> QED BY <1>7, <1>10, <1>12, <3>3
  <2> QED BY <1>6, <1>10, <1>12, <2>1, <2>4, <2>7, <2>8, <2>9 DEF Stored
<1> QED BY <1>11, <1>12

\* After backpressure the partition is sought back to the committed offset, and every sink
\* has dropped the batch that it has not written; after an error the process ends.
LEMMA FlushEndsKeeps ==
  ASSUME SinkInv, Sinking, UNCHANGED <<scenario, overlooked, sunk>>,
         NEW s \in Sinks, Flushing(s), NEW end \in {"pressure", "raise"},
         NEW box \in Outbox, FlushEnds(s, end, box),
         box.batch = outbox[s].batch, box.requests = outbox[s].requests,
         box.kept => outbox[s].kept,
         written' \in [Sinks -> SUBSET Copy], dropped' \in [Sinks -> SUBSET Record],
         \A r \in Sinks : CommittedOK(r)'
  PROVE  SinkInv'
<1>1. /\ writer \in Writer /\ WriterOK /\ outbox \in [Sinks -> Outbox]
      /\ sunk \in 0..MaxOffset /\ writer.next \in sunk..MaxOffset /\ MaxOffset \in Nat
      /\ writer.at \in 1..Len(scenario.sinks) + 1
      /\ overlooked' \in [Sinks -> SUBSET Record] /\ \A r \in Sinks : SinkOK(r)
      /\ Sinks = 1..Len(scenario.sinks) /\ Len(scenario.sinks) \in Nat
  BY SinkFacts
<1>2. writer.pc = "flush" /\ writer.at = s /\ writer.start = sunk
  BY <1>1 DEF Flushing, WriterOK
<1>3. PICK old : old = [outbox EXCEPT ![s] = box]
  OBVIOUS
<1>4. /\ old \in [Sinks -> Outbox] /\ old[s] = box
      /\ \A r \in Sinks : r # s => old[r] = outbox[r]
  BY <1>1, <1>3
<1>5. PICK dropping : dropping = {s} \cup IF end = "pressure" THEN {r \in Sinks : r > s} ELSE {}
  OBVIOUS
<1>6. outbox' = [r \in Sinks |-> IF r \in dropping /\ Batching(r)
                                THEN [old[r] EXCEPT !.batch = <<>>] ELSE old[r]]
  <2>1. outbox' = [r \in Sinks |->
              LET b == IF r = s THEN box ELSE outbox[r]
              IN  IF r \in dropping /\ Batching(r) THEN [b EXCEPT !.batch = <<>>] ELSE b]
    BY <1>5, Zenon DEF FlushEnds
  <2>2. \A r \in Sinks : (IF r = s THEN box ELSE outbox[r]) = old[r]
    BY <1>4
  <2> QED BY <2>1, <2>2
<1>7. ASSUME NEW r \in Sinks
      PROVE  /\ outbox'[r] \in Outbox
             /\ outbox'[r].requests = old[r].requests /\ outbox'[r].kept = old[r].kept
             /\ outbox'[r].batch =
                   IF r \in dropping /\ Batching(r) THEN <<>> ELSE old[r].batch
  <2>1. PICK b \in Outbox : b = old[r]
    BY <1>4
  <2>2. PICK c : c = [b EXCEPT !.batch = <<>>]
    OBVIOUS
  <2>3. <<>> \in Seq(Record)
    BY EmptySeq
  <2>4. c \in Outbox /\ c.batch = <<>> /\ c.requests = b.requests /\ c.kept = b.kept
    BY <2>2, <2>3 DEF Outbox
  <2>5. outbox'[r] = IF r \in dropping /\ Batching(r) THEN c ELSE b
    BY <1>6, <2>1, <2>2
  <2> QED BY <2>1, <2>4, <2>5
<1>8. outbox' \in [Sinks -> Outbox]
  BY <1>6, <1>7
<1>9. ASSUME NEW r \in Sinks PROVE OutboxOK(r)'
  <2>1. OutboxOK(r)
    BY <1>1 DEF SinkOK
  <2>2. /\ outbox'[r].requests = outbox[r].requests /\ (outbox'[r].kept => outbox[r].kept)
        /\ outbox'[r].batch = <<>> \/ outbox'[r].batch = outbox[r].batch
    BY <1>4, <1>7
  <2> QED BY <2>1, <2>2 DEF OutboxOK, Batching, Style
<1>10. CASE end = "raise"
  <2>1. writer' = [writer EXCEPT !.pc = "failing"]
    BY <1>10 DEF FlushEnds
  <2>2. /\ writer' \in Writer /\ writer'.pc = "failing" /\ writer'.next = writer.next
        /\ writer'.at = writer.at
    BY <1>1, <2>1 DEF Writer
  <2>3. \A r \in Sinks : SinkOK(r)'
    BY <1>9, <2>2 DEF SinkOK, RunningOK, FlushingOK
  <2>4. WriterOK'
    BY <2>2 DEF WriterOK
  <2> QED BY <1>1, <1>8, <2>2, <2>3, <2>4, SinkAgain
<1>11. CASE end = "pressure"
  <2>1. writer' = [writer EXCEPT !.pc = "run", !.next = writer.start, !.start = NoOffset]
    BY <1>11 DEF FlushEnds, SeekBack
  <2>2. writer.start \in Nat /\ NoOffset \in Int
    BY <1>1, <1>2 DEF NoOffset
  <2>3. /\ writer' \in Writer /\ writer'.pc = "run" /\ writer'.next = sunk
        /\ writer'.start = NoOffset /\ writer'.at = writer.at
    BY <1>1, <1>2, <2>1, <2>2 DEF Writer
  <2>4. WriterOK'
    BY <2>3 DEF WriterOK, NoOffset
  <2>5. ASSUME NEW r \in Sinks PROVE RunningOK(r)'
    <3>1. \A o \in 0..writer'.next - 1 : Stored(r, o)'
      BY <2>3 DEF CommittedOK
    <3>2. FileOf(r) = "replace" => Filled(r)'
      <4> SUFFICES ASSUME FileOf(r) = "replace" PROVE Filled(r)'
        OBVIOUS
      <4>1. Batching(r)
        BY SinkFacts DEF FileOf, Batching, Style, SinkDefinition, Sinks
      <4>2. outbox'[r].batch = <<>>
        <5>1. CASE r < s
          <6>1. outbox[r].batch = <<>>
            BY <1>1, <1>2, <5>1 DEF SinkOK, FlushingOK, Emptied
          <6>2. r \notin dropping
            BY <1>1, <1>5, <5>1
          <6>3. old[r] = outbox[r]
            BY <1>1, <1>4, <5>1
          <6> QED BY <1>7, <6>1, <6>2, <6>3
        <5>2. CASE r >= s
          <6>1. r = s \/ r > s
            BY <1>1, <5>2
          <6>2. r \in dropping
            BY <1>5, <1>11, <6>1
          <6> QED BY <1>7, <4>1, <6>2
        <5> QED BY <1>1, <5>1, <5>2
      <4>3. Len(<<>>) = 0
        BY EmptySeq
      <4>4. writer'.next - sunk' = 0
        BY <1>1, <2>3
      <4>5. Len(outbox'[r].batch) = 0
        BY <4>2, <4>3
      <4> QED BY <4>4, <4>5 DEF Filled
    <3> QED BY <3>1, <3>2 DEF RunningOK, FileOf
  <2>6. \A r \in Sinks : SinkOK(r)'
    BY <1>9, <2>3, <2>5 DEF SinkOK, FlushingOK
  <2>7. sunk' \in 0..MaxOffset /\ writer'.next \in sunk'..MaxOffset
        /\ writer'.at \in 1..Len(scenario.sinks) + 1
    BY <1>1, <2>3
  <2> QED BY <1>1, <1>8, <2>3, <2>4, <2>6, <2>7, SinkAgain
<1> QED BY <1>10, <1>11

-----------------------------------------------------------------------------
\* A process that starts or ends has nothing on its way, and goes on at the committed offset.
LEMMA NewWriterKeeps ==
  ASSUME SinkInv, Sinking, UNCHANGED <<scenario, written, dropped, overlooked, sunk>>,
         outbox' = [s \in Sinks |-> NewOutbox],
         NEW to \in {"down", "run", "failing"}, writer' = [NewWriter EXCEPT !.pc = to]
  PROVE  SinkInv'
<1>1. /\ sunk \in 0..MaxOffset /\ MaxOffset \in Nat /\ Len(scenario.sinks) \in Nat
      /\ written \in [Sinks -> SUBSET Copy]
      /\ dropped \in [Sinks -> SUBSET Record] /\ overlooked \in [Sinks -> SUBSET Record]
      /\ \A s \in Sinks : SinkOK(s)
  BY SinkFacts
<1>2. /\ writer' \in Writer /\ writer'.pc = to /\ writer'.next = sunk /\ writer'.start = NoOffset
      /\ writer'.at = 1
  BY <1>1 DEF NewWriter, Writer, NoOffset
<1>3. \A s \in Sinks : outbox'[s] = NewOutbox
  OBVIOUS
<1>4. outbox' \in [Sinks -> Outbox]
  BY EmptyBox
<1>5. WriterOK'
  BY <1>2 DEF WriterOK
<1>6. ASSUME NEW s \in Sinks PROVE SinkOK(s)'
  <2>1. CommittedOK(s)'
    BY <1>1 DEF SinkOK, CommittedOK, FilesOK, FileOf, Stored, Replaced
  <2>2. OutboxOK(s)'
    BY <1>1, <1>3, EmptyBox DEF SinkOK, OutboxOK, Batching, Style
  <2>3. RunningOK(s)'
    <3>1. \A o \in 0..writer'.next - 1 : Stored(s, o)'
      BY <1>2, <2>1 DEF CommittedOK
    <3>2. Len(outbox'[s].batch) = 0
      BY <1>3, EmptyBox, EmptySeq
    <3>3. writer'.next - sunk' = 0
      BY <1>1, <1>2
    <3>4. Filled(s)'
      BY <3>2, <3>3 DEF Filled
    <3> QED BY <3>1, <3>4 DEF RunningOK
  <2> QED BY <1>2, <2>1, <2>2, <2>3 DEF SinkOK, FlushingOK
<1>7. sunk' \in 0..MaxOffset /\ writer'.next \in sunk'..MaxOffset
      /\ writer'.at \in 1..Len(scenario.sinks) + 1
  BY <1>1, <1>2
<1> QED BY <1>1, <1>2, <1>4, <1>5, <1>6, <1>7, SinkAgain

\* SinkManager.start_sinks()
LEMMA StartSinksKeeps ==
  ASSUME SinkInv, Sinking, UNCHANGED scenario, StartSinks
  PROVE  SinkInv'
<1>1. PICK to \in {"run", "failing"} : writer' = [NewWriter EXCEPT !.pc = to]
  BY DEF StartSinks
<1> QED BY <1>1, NewWriterKeeps DEF StartSinks

\* The process of the application ends.
LEMMA EndWriterKeeps ==
  ASSUME SinkInv, Sinking, UNCHANGED scenario, EndWriter
  PROVE  SinkInv'
<1>1. [NewWriter EXCEPT !.next = sunk] = [NewWriter EXCEPT !.pc = "down"]
  BY DEF NewWriter
<1>2. writer' = [NewWriter EXCEPT !.pc = "down"]
  BY <1>1 DEF EndWriter
<1> QED BY <1>2, NewWriterKeeps DEF EndWriter

\* A sink is given one more record.
LEMMA AddedHolds ==
  ASSUME SinkInv, Sinking, NEW s \in Sinks, NEW o \in Record, NEW c, c = Added(s, o)
  PROVE  /\ c \in Outbox /\ Held(c, o)
         /\ \A p : Held(outbox[s], p) => Held(c, p)
         /\ c.kept = outbox[s].kept
         /\ Batching(s) => c.batch = Append(outbox[s].batch, o) /\ c.requests = outbox[s].requests
         /\ ~Batching(s) /\ Style(s) # "kinesis" => c.batch = outbox[s].batch
<1>1. PICK b \in Outbox : b = outbox[s]
  BY SinkFacts
<1>2. PICK q \in Seq(Record), t \in Seq(SUBSET Record), late \in BOOLEAN :
         q = b.batch /\ t = b.requests /\ late = b.kept
  BY BoxFacts
<1>3. PICK n \in Nat, m \in Nat : n = Len(q) /\ m = Len(t)
  BY LenProperties
<1>4. PICK q2 : q2 = Append(q, o)
  OBVIOUS
<1>5. /\ q2 \in Seq(Record) /\ Len(q2) = n + 1 /\ q2[n + 1] = o
      /\ \A k \in 1..n : q2[k] = q[k]
  BY <1>3, <1>4, AppendProperties
<1>6. DOMAIN q = 1..n /\ DOMAIN q2 = 1..n + 1
  BY <1>3, <1>5, LenProperties
<1>7. Range(q) \subseteq Range(q2) /\ o \in Range(q2) /\ Range(q2) \subseteq Record
  <2>1. Range(q) \subseteq Range(q2) /\ o \in Range(q2)
    BY <1>3, <1>5, <1>6 DEF Range
  <2>2. q2 \in [1..n + 1 -> Record]
    BY <1>5, LenProperties
  <2> QED BY <2>1, <2>2 DEF Range
<1>8. ASSUME NEW e \in SUBSET Record
      PROVE  /\ Append(t, e) \in Seq(SUBSET Record) /\ Len(Append(t, e)) = m + 1
             /\ Append(t, e)[m + 1] = e /\ \A k \in 1..m : Append(t, e)[k] = t[k]
  BY <1>3, AppendProperties
<1>9. CASE Batching(s) \/ (Style(s) = "kinesis" /\ Len(q2) # RequestSize)
  <2>1. c = [b EXCEPT !.batch = q2]
    BY <1>1, <1>2, <1>4, <1>9 DEF Added, Batching
  <2>2. c \in Outbox /\ c.batch = q2 /\ c.requests = t /\ c.kept = late
    BY <1>2, <1>5, <2>1 DEF Outbox
  <2>3. Held(c, o) /\ \A p : Held(b, p) => Held(c, p)
    BY <1>2, <1>7, <2>2 DEF Held, Requested
  <2> QED BY <1>1, <1>2, <1>4, <1>9, <2>2, <2>3 DEF Batching
<1>10. CASE Style(s) = "kinesis" /\ Len(q2) = RequestSize
  <2>1. PICK t2 : t2 = Append(t, Range(q2))
    OBVIOUS
  <2>2. PICK d : d = [b EXCEPT !.batch = <<>>]
    OBVIOUS
  <2>3. <<>> \in Seq(Record)
    BY EmptySeq
  <2>4. d \in Outbox /\ d.requests = t /\ d.kept = late
    BY <1>2, <2>2, <2>3 DEF Outbox
  <2>5. t2 \in Seq(SUBSET Record) /\ Len(t2) = m + 1 /\ t2[m + 1] = Range(q2)
        /\ \A k \in 1..m : t2[k] = t[k]
    BY <1>7, <1>8, <2>1
  <2>6. c = [b EXCEPT !.batch = <<>>, !.requests = t2]
    <3>1. Append(outbox[s].batch, o) = q2 /\ Append(outbox[s].requests, Range(q2)) = t2
      BY <1>1, <1>2, <1>4, <2>1
    <3>2. ~Batching(s)
      BY <1>10 DEF Batching
    <3>3. Len(Append(outbox[s].batch, o)) = RequestSize
      BY <1>10, <3>1
    <3>4. c = [outbox[s] EXCEPT !.batch = <<>>,
                                !.requests = Append(@, Range(Append(outbox[s].batch, o)))]
      BY <1>10, <3>2, <3>3 DEF Added
    <3>5. c = [outbox[s] EXCEPT !.batch = <<>>,
                                !.requests = Append(outbox[s].requests, Range(q2))]
      BY <3>1, <3>4
    <3> QED BY <1>1, <3>1, <3>5, Zenon
  <2>7. c = [d EXCEPT !.requests = t2]
    BY <2>2, <2>6 DEF Outbox
  <2>8. c \in Outbox /\ c.requests = t2 /\ c.kept = late
    BY <2>4, <2>5, <2>7 DEF Outbox
  <2>9. Held(c, o)
    BY <1>7, <2>5, <2>8 DEF Held, Requested
  <2>10. ASSUME NEW p, Held(b, p) PROVE Held(c, p)
    <3>1. CASE p \in Range(q)
      BY <1>7, <2>5, <2>8, <3>1 DEF Held, Requested
    <3>2. CASE late
      BY <2>8, <3>2 DEF Held, Requested
    <3>3. ASSUME NEW k \in 1..m, p \in t[k] PROVE Held(c, p)
      BY <2>5, <2>8, <3>3 DEF Held, Requested
    <3> QED BY <1>2, <1>3, <2>10, <3>1, <3>2, <3>3 DEF Held, Requested
  <2> QED BY <1>1, <1>2, <1>10, <2>8, <2>9, <2>10 DEF Batching
<1>11. CASE ~Batching(s) /\ Style(s) # "kinesis"
  <2>1. PICK t2 : t2 = Append(t, {o})
    OBVIOUS
  <2>2. t2 \in Seq(SUBSET Record) /\ Len(t2) = m + 1 /\ t2[m + 1] = {o}
        /\ \A k \in 1..m : t2[k] = t[k]
    BY <1>8, <2>1
  <2>3. c = [b EXCEPT !.requests = t2]
    BY <1>1, <1>2, <1>11, <2>1 DEF Added
  <2>4. c \in Outbox /\ c.requests = t2 /\ c.kept = late /\ c.batch = q
    BY <1>2, <2>2, <2>3 DEF Outbox
  <2>5. Held(c, o)
    BY <2>2, <2>4 DEF Held, Requested
  <2>6. ASSUME NEW p, Held(b, p) PROVE Held(c, p)
    <3>1. ASSUME NEW k \in 1..m, p \in t[k] PROVE Held(c, p)
      BY <2>2, <2>4, <3>1 DEF Held, Requested
    <3> QED BY <1>2, <1>3, <2>4, <2>6, <3>1 DEF Held, Requested
  <2> QED BY <1>1, <1>2, <1>11, <2>4, <2>5, <2>6
<1> QED BY <1>9, <1>10, <1>11 DEF Batching

\* The process of the application fails in the middle of its work, and sinks keep theirs.
LEMMA WriterFails ==
  ASSUME SinkInv, Sinking, UNCHANGED <<scenario, outbox, written, dropped, overlooked, sunk>>,
         writer' = [writer EXCEPT !.pc = "failing"]
  PROVE  SinkInv'
<1>1. /\ writer \in Writer /\ writer.at \in 1..Len(scenario.sinks) + 1
      /\ sunk \in 0..MaxOffset /\ writer.next \in sunk..MaxOffset
      /\ outbox \in [Sinks -> Outbox] /\ written \in [Sinks -> SUBSET Copy]
      /\ dropped \in [Sinks -> SUBSET Record] /\ overlooked \in [Sinks -> SUBSET Record]
      /\ \A s \in Sinks : SinkOK(s)
  BY SinkFacts
<1>2. /\ writer' \in Writer /\ writer'.pc = "failing" /\ writer'.next = writer.next
      /\ writer'.at = writer.at
  BY <1>1 DEF Writer
<1>3. WriterOK'
  BY <1>2 DEF WriterOK
<1>4. ASSUME NEW s \in Sinks PROVE SinkOK(s)'
  <2>1. CommittedOK(s)' /\ OutboxOK(s)'
    BY <1>1 DEF SinkOK, CommittedOK, FilesOK, FileOf, Stored, Replaced, OutboxOK, Batching, Style
  <2> QED BY <1>2, <2>1 DEF SinkOK, RunningOK, FlushingOK
<1> QED BY <1>1, <1>2, <1>3, <1>4, SinkAgain

\* A record is given to all sinks.
LEMMA SinkRecordKeeps ==
  ASSUME SinkInv, Sinking, UNCHANGED scenario, SinkRecord
  PROVE  SinkInv'
<1>1. /\ writer.pc = "run" /\ writer.next < MaxOffset
      /\ UNCHANGED <<written, dropped, overlooked, sunk>>
      /\ \/ /\ outbox' = [s \in Sinks |-> Added(s, writer.next)]
            /\ writer' = [writer EXCEPT !.next = @ + 1,
                                        !.start = IF @ = NoOffset THEN writer.next ELSE @]
         \/ writer' = [writer EXCEPT !.pc = "failing"] /\ UNCHANGED outbox
  BY DEF SinkRecord
<1>2. CASE writer' = [writer EXCEPT !.pc = "failing"] /\ UNCHANGED outbox
  BY <1>1, <1>2, WriterFails
<1>3. CASE /\ outbox' = [s \in Sinks |-> Added(s, writer.next)]
           /\ writer' = [writer EXCEPT !.next = @ + 1,
                                       !.start = IF @ = NoOffset THEN writer.next ELSE @]
  <2>1. /\ writer \in Writer /\ writer.at \in 1..Len(scenario.sinks) + 1 /\ MaxOffset \in Nat
        /\ sunk \in 0..MaxOffset /\ writer.next \in sunk..MaxOffset
        /\ writer.start \in {NoOffset, sunk} /\ WriterOK
        /\ outbox \in [Sinks -> Outbox] /\ written \in [Sinks -> SUBSET Copy]
        /\ dropped \in [Sinks -> SUBSET Record] /\ overlooked \in [Sinks -> SUBSET Record]
        /\ \A s \in Sinks : SinkOK(s)
    BY <1>1, SinkFacts
  <2>2. PICK n \in Nat, c \in Nat : n = writer.next /\ c = sunk /\ c <= n /\ n < MaxOffset
    BY <1>1, <2>1
  <2>3. PICK w : w = [writer EXCEPT !.next = n + 1]
    OBVIOUS
  <2>4. w \in Writer /\ w.next = n + 1 /\ w.pc = "run" /\ w.at = writer.at /\ w.start = writer.start
    BY <1>1, <2>1, <2>2, <2>3 DEF Writer
  <2>5. PICK t : t = IF w.start = NoOffset THEN n ELSE w.start
    OBVIOUS
  <2>6. t \in Int /\ t = c
    BY <1>1, <2>1, <2>2, <2>4, <2>5 DEF WriterOK
  <2>7. writer' = [w EXCEPT !.start = t]
    BY <1>3, <2>1, <2>2, <2>3, <2>5 DEF Writer
  <2>8. /\ writer' \in Writer /\ writer'.next = n + 1 /\ writer'.pc = "run"
        /\ writer'.at = writer.at /\ writer'.start = sunk
    BY <2>2, <2>4, <2>6, <2>7 DEF Writer
  <2>9. n \in Record
    BY <2>1, <2>2 DEF Record
  <2>10. ASSUME NEW s \in Sinks
         PROVE  /\ outbox'[s] \in Outbox /\ Held(outbox'[s], n)
                /\ \A p : Held(outbox[s], p) => Held(outbox'[s], p)
                /\ outbox'[s].kept = outbox[s].kept
                /\ Batching(s) => /\ outbox'[s].batch = Append(outbox[s].batch, n)
                                  /\ outbox'[s].requests = outbox[s].requests
                /\ ~Batching(s) /\ Style(s) # "kinesis" => outbox'[s].batch = outbox[s].batch
    <3>1. outbox'[s] = Added(s, n)
      BY <1>3, <2>2
    <3> QED BY <2>9, <3>1, AddedHolds
  <2>11. outbox' \in [Sinks -> Outbox]
    BY <1>3, <2>10
  <2>12. WriterOK'
    <3>1. sunk # NoOffset
      BY <2>2 DEF NoOffset
    <3> QED BY <1>1, <2>2, <2>8, <3>1 DEF WriterOK
  <2>13. ASSUME NEW s \in Sinks PROVE SinkOK(s)'
    <3>1. SinkOK(s)
      BY <2>1
    <3>2. CommittedOK(s)'
      BY <1>1, <3>1 DEF SinkOK, CommittedOK, FilesOK, FileOf, Stored, Replaced
    <3>3. OutboxOK(s)'
      BY <1>1, <2>10, <3>1 DEF SinkOK, OutboxOK, Batching, Style
    <3>4. ASSUME NEW o \in 0..n PROVE Stored(s, o)' \/ Held(outbox'[s], o)
      <4>1. CASE o = n
        BY <2>10, <4>1
      <4>2. CASE o # n
        <5>1. o \in 0..writer.next - 1
          BY <2>2, <4>2
        <5>2. Stored(s, o) \/ Held(outbox[s], o)
          BY <1>1, <3>1, <5>1 DEF SinkOK, RunningOK
        <5> QED BY <1>1, <2>10, <5>2 DEF Stored
      <4> QED BY <4>1, <4>2
    <3>5. ASSUME FileOf(s) = "replace" PROVE Filled(s)'
      <4>1. Batching(s)
        BY <3>5, SinkFacts DEF FileOf, Batching, Style, SinkDefinition, Sinks
      <4>2. PICK q \in Seq(Record) : q = outbox[s].batch
        BY <2>1, BoxFacts
      <4>3. PICK m \in Nat : m = Len(q)
        BY LenProperties
      <4>4. m = n - c /\ \A k \in 1..m : q[k] = c + k - 1
        BY <1>1, <2>2, <3>1, <3>5, <4>2, <4>3 DEF SinkOK, RunningOK, Filled
      <4>5. PICK q2 : q2 = Append(q, n)
        OBVIOUS
      <4>6. outbox'[s].batch = q2
        BY <2>10, <4>1, <4>2, <4>5
      <4>7. /\ Len(q2) = m + 1 /\ q2[m + 1] = n
            /\ \A k \in 1..m : q2[k] = q[k]
        BY <2>9, <4>3, <4>5, AppendProperties
      <4>8. \A k \in 1..m + 1 : q2[k] = c + k - 1
        <5> SUFFICES ASSUME NEW k \in 1..m + 1 PROVE q2[k] = c + k - 1
          OBVIOUS
        <5>1. CASE k = m + 1
          BY <2>2, <4>4, <4>7, <5>1
        <5>2. CASE k # m + 1
          <6>1. k \in 1..m
            BY <4>3, <5>2
          <6> QED BY <4>4, <4>7, <6>1
        <5> QED BY <5>1, <5>2
      <4>9. Len(q2) = (n + 1) - c
        BY <2>2, <4>4, <4>7
      <4>10. sunk' = c /\ writer'.next = n + 1
        BY <1>1, <2>2, <2>8
      <4> QED BY <4>6, <4>7, <4>8, <4>9, <4>10 DEF Filled
    <3>6. RunningOK(s)'
      <4>1. \A o \in 0..writer'.next - 1 : o \in 0..n
        BY <2>2, <2>8
      <4> QED BY <3>4, <3>5, <4>1 DEF RunningOK, FileOf
    <3> QED BY <2>8, <3>2, <3>3, <3>6 DEF SinkOK, FlushingOK
  <2>14. sunk' \in 0..MaxOffset /\ writer'.next \in sunk'..MaxOffset
         /\ writer'.at \in 1..Len(scenario.sinks) + 1 /\ writer'.start \in {NoOffset, sunk'}
    BY <1>1, <2>1, <2>2, <2>8
  <2> QED BY <1>1, <2>1, <2>8, <2>11, <2>12, <2>13, <2>14, SinkAgain
<1> QED BY <1>1, <1>2, <1>3

-----------------------------------------------------------------------------
\* The flush begins with the first sink.
LEMMA BeginSinkFlushKeeps ==
  ASSUME SinkInv, Sinking, UNCHANGED scenario, BeginSinkFlush
  PROVE  SinkInv'
<1>1. /\ writer.pc = "run" /\ writer.start # NoOffset
      /\ writer' = [writer EXCEPT !.pc = "flush", !.at = 1, !.attempt = 0]
      /\ UNCHANGED <<outbox, written, dropped, overlooked, sunk>>
  BY DEF BeginSinkFlush
<1>2. /\ writer \in Writer /\ writer.at \in 1..Len(scenario.sinks) + 1 /\ WriterOK
      /\ Len(scenario.sinks) \in Nat
      /\ sunk \in 0..MaxOffset /\ writer.next \in sunk..MaxOffset
      /\ writer.start \in {NoOffset, sunk}
      /\ outbox \in [Sinks -> Outbox] /\ written \in [Sinks -> SUBSET Copy]
      /\ dropped \in [Sinks -> SUBSET Record] /\ overlooked \in [Sinks -> SUBSET Record]
      /\ \A s \in Sinks : SinkOK(s)
      /\ Sinks = 1..Len(scenario.sinks)
  BY <1>1, SinkFacts
<1>3. /\ writer' \in Writer /\ writer'.pc = "flush" /\ writer'.next = writer.next
      /\ writer'.at = 1 /\ writer'.start = writer.start /\ writer'.attempt = 0
  BY <1>1, <1>2 DEF Writer
<1>4. WriterOK'
  BY <1>1, <1>2, <1>3 DEF WriterOK
<1>5. ASSUME NEW s \in Sinks PROVE SinkOK(s)'
  <2>1. CommittedOK(s)' /\ OutboxOK(s)'
    BY <1>1, <1>2 DEF SinkOK, CommittedOK, FilesOK, FileOf, Stored, Replaced, OutboxOK,
       Batching, Style
  <2>2. /\ \A o \in 0..writer.next - 1 : Stored(s, o) \/ Held(outbox[s], o)
        /\ FileOf(s) = "replace" => Filled(s)
    BY <1>1, <1>2 DEF SinkOK, RunningOK
  <2>3. s >= 1 /\ ~(s < 1)
    BY <1>2
  <2>4. FlushingOK(s)'
    BY <1>1, <1>3, <2>2, <2>3 DEF FlushingOK, Stored, Held, Requested, Filled, FileOf
  <2> QED BY <1>3, <2>1, <2>4 DEF SinkOK, RunningOK
<1>6. writer'.at \in 1..Len(scenario.sinks) + 1
  BY <1>2, <1>3
<1> QED BY <1>1, <1>2, <1>3, <1>4, <1>5, <1>6, SinkAgain

\* The flush of a sink goes on, and touches no other sink.
LEMMA FlushGoesOn ==
  ASSUME SinkInv, Sinking, UNCHANGED <<scenario, overlooked, sunk>>, NEW s \in Sinks, Flushing(s),
         writer' \in Writer, writer'.pc = writer.pc, writer'.next = writer.next,
         writer'.at = writer.at, writer'.start = writer.start,
         outbox' \in [Sinks -> Outbox], written' \in [Sinks -> SUBSET Copy],
         dropped' \in [Sinks -> SUBSET Record],
         \A r \in Sinks : r # s => /\ outbox'[r] = outbox[r] /\ written'[r] = written[r]
                                   /\ dropped'[r] = dropped[r],
         SinkOK(s)'
  PROVE  SinkInv'
<1>1. /\ writer.at \in 1..Len(scenario.sinks) + 1 /\ WriterOK
      /\ sunk \in 0..MaxOffset /\ writer.next \in sunk..MaxOffset
      /\ (writer.pc # "failing" => writer.start \in {NoOffset, sunk})
      /\ overlooked' \in [Sinks -> SUBSET Record] /\ \A r \in Sinks : SinkOK(r)
  BY SinkFacts
<1>2. WriterOK'
  BY <1>1 DEF WriterOK
<1>3. ASSUME NEW r \in Sinks PROVE SinkOK(r)'
  <2>1. CASE r = s
    BY <2>1
  <2>2. CASE r # s
    <3>1. r # writer.at
      BY <2>2 DEF Flushing
    <3> QED BY <1>1, <2>2, <3>1, OtherSink
  <2> QED BY <2>1, <2>2
<1> QED BY <1>1, <1>2, <1>3, SinkAgain

\* The offset is committed, or the commit fails, when no sink holds anything back.
LEMMA CommitSunkKeeps ==
  ASSUME SinkInv, Sinking, UNCHANGED scenario, CommitSunk
  PROVE  SinkInv'
<1>1. /\ writer.pc = "flush" /\ writer.at > Len(scenario.sinks)
      /\ UNCHANGED <<outbox, written, dropped, overlooked>>
      /\ \/ /\ sunk' = writer.next
            /\ writer' = [writer EXCEPT !.pc = "run", !.start = NoOffset]
         \/ /\ sunk' \in {sunk, writer.next}
            /\ writer' = [writer EXCEPT !.pc = "failing"]
  BY DEF CommitSunk
<1>2. /\ writer \in Writer /\ writer.at \in 1..Len(scenario.sinks) + 1 /\ WriterOK
      /\ Len(scenario.sinks) \in Nat /\ MaxOffset \in Nat
      /\ sunk \in 0..MaxOffset /\ writer.next \in sunk..MaxOffset
      /\ outbox \in [Sinks -> Outbox] /\ written \in [Sinks -> SUBSET Copy]
      /\ dropped \in [Sinks -> SUBSET Record] /\ overlooked \in [Sinks -> SUBSET Record]
      /\ \A s \in Sinks : SinkOK(s)
      /\ Sinks = 1..Len(scenario.sinks)
  BY SinkFacts
<1>3. PICK n \in Nat, c \in Nat : n = writer.next /\ c = sunk /\ c <= n /\ n <= MaxOffset
  BY <1>2
<1>4. /\ writer' \in Writer /\ writer'.next = n /\ writer'.at = writer.at
      /\ \/ sunk' = n /\ writer'.pc = "run" /\ writer'.start = NoOffset
         \/ sunk' \in {c, n} /\ writer'.pc = "failing"
  <2>1. NoOffset \in Int
    BY DEF NoOffset
  <2>2. CASE sunk' = writer.next /\ writer' = [writer EXCEPT !.pc = "run", !.start = NoOffset]
    BY <1>2, <1>3, <2>1, <2>2 DEF Writer
  <2>3. CASE sunk' \in {sunk, writer.next} /\ writer' = [writer EXCEPT !.pc = "failing"]
    BY <1>2, <1>3, <2>3 DEF Writer
  <2> QED BY <1>1, <2>2, <2>3
<1>5. PICK d \in Nat : d = sunk' /\ c <= d /\ d <= n
  BY <1>3, <1>4
<1>6. WriterOK'
  BY <1>4 DEF WriterOK
<1>7. ASSUME NEW s \in Sinks PROVE SinkOK(s)'
  <2>1. s < writer.at
    BY <1>1, <1>2
  <2>2. /\ \A o \in 0..n - 1 : Stored(s, o)
        /\ FileOf(s) = "replace" => Emptied(s)
    <3>1. ~(s >= writer.at)
      BY <1>2, <2>1
    <3> QED BY <1>1, <1>2, <1>3, <2>1, <3>1 DEF SinkOK, FlushingOK
  <2>3. OutboxOK(s)'
    BY <1>1, <1>2 DEF SinkOK, OutboxOK, Batching, Style
  <2>4. FileOf(s) = "replace" => Replaced(written[s], d)
    <3> SUFFICES ASSUME FileOf(s) = "replace", NEW w \in written[s]
                 PROVE  /\ w.file <= d /\ w.file <= w.offset /\ (w.file < d => w.offset < d)
                        /\ \A v \in written[s] : v.offset = w.offset => v = w
      BY DEF Replaced
    <3>1. Replaced(written[s], c)
      BY <1>2, <1>3 DEF SinkOK, CommittedOK, FilesOK
    <3>2. w.file \in Int /\ w.offset \in Int
      BY <1>2 DEF Copy, Record
    <3>3. w.file <= c /\ w.file <= w.offset /\ (w.file < c => w.offset < c)
      BY <3>1 DEF Replaced
    <3>4. \A v \in written[s] : v.offset = w.offset => v = w
      BY <3>1 DEF Replaced
    <3>5. w.offset < n
      BY <1>3, <2>2 DEF Emptied
    <3>6. w.file < d => w.offset < d
      <4>1. d = c \/ d = n
        BY <1>4, <1>5
      <4> QED BY <1>3, <3>2, <3>3, <3>5, <4>1
    <3>7. w.file <= d
      BY <1>5, <3>2, <3>3
    <3> QED BY <3>3, <3>4, <3>6, <3>7
  <2>5. FilesOK(s)'
    <3>1. /\ FileOf(s) # "none" => dropped[s] = {} /\ overlooked[s] = {}
          /\ FileOf(s) = "append" => \A v, w \in written[s] : v.file = w.file
      BY <1>2 DEF SinkOK, CommittedOK, FilesOK
    <3> QED BY <1>1, <1>5, <2>4, <3>1 DEF FilesOK, FileOf
  <2>6. CommittedOK(s)'
    <3>1. ASSUME NEW o \in 0..d - 1 PROVE Stored(s, o)'
      <4>1. d <= n
        BY <1>5
      <4>2. o \in 0..n - 1
        BY <4>1
      <4> QED BY <1>1, <2>2, <4>2 DEF Stored
    <3> QED BY <1>5, <2>5, <3>1 DEF CommittedOK
  <2>7. RunningOK(s)'
    <3> SUFFICES ASSUME writer'.pc = "run" PROVE RunningOK(s)'
      BY DEF RunningOK
    <3>1. d = n /\ writer'.next = d
      BY <1>4, <1>5
    <3>2. \A o \in 0..writer'.next - 1 : Stored(s, o)'
      BY <1>5, <2>6, <3>1 DEF CommittedOK
    <3>3. FileOf(s) = "replace" => Filled(s)'
      <4> SUFFICES ASSUME FileOf(s) = "replace" PROVE Filled(s)'
        OBVIOUS
      <4>1. Len(outbox'[s].batch) = 0
        BY <1>1, <2>2, EmptySeq DEF Emptied
      <4>2. writer'.next - sunk' = 0
        BY <1>5, <3>1
      <4> QED BY <4>1, <4>2 DEF Filled
    <3> QED BY <3>2, <3>3 DEF RunningOK, FileOf
  <2> QED BY <1>4, <2>3, <2>6, <2>7 DEF SinkOK, FlushingOK
<1>8. /\ sunk' \in 0..MaxOffset /\ writer'.next \in sunk'..MaxOffset
      /\ writer'.at \in 1..Len(scenario.sinks) + 1
      /\ writer'.pc # "failing" => writer'.start \in {NoOffset, sunk'}
  BY <1>2, <1>3, <1>4, <1>5
<1> QED BY <1>1, <1>2, <1>4, <1>6, <1>7, <1>8, SinkAgain

\* The requests of a batch: what a request writes, what it leaves, and how much it is for.
LEMMA ChunkFacts ==
  ASSUME SinkInv, Sinking, NEW s \in Sinks
  PROVE  /\ Chunk(s) \in Seq(Record) /\ Rest(s) \in Seq(Record)
         /\ Range(Chunk(s)) \subseteq Range(outbox[s].batch)
         /\ Range(Rest(s)) \subseteq Range(outbox[s].batch)
         /\ Range(outbox[s].batch) \subseteq Range(Chunk(s)) \cup Range(Rest(s))
         /\ Filled(s) /\ FileOf(s) # "none" => Chunk(s) = outbox[s].batch /\ Rest(s) = <<>>
<1>1. PICK b \in Outbox : b = outbox[s]
  BY SinkFacts
<1>2. PICK q \in Seq(Record) : q = b.batch
  BY BoxFacts
<1>3. PICK m \in Nat : m = Len(q)
  BY LenProperties
<1>4. PICK n \in Nat \ {0} : n = scenario.sinks[s].chunk
  BY SinkFacts DEF SinkKind
<1>5. PICK l : l = Min({n, m})
  OBVIOUS
<1>6. l \in 0..m /\ (n >= m => l = m)
  <2>1. n \in Int /\ m \in Int
    OBVIOUS
  <2>2. l = IF n <= m THEN n ELSE m
    BY <1>5, <2>1, MinMax, Zenon
  <2> QED BY <2>1, <2>2
<1>7. Chunk(s) = SubSeq(q, 1, l)
  BY <1>1, <1>2, <1>3, <1>4, <1>5, Zenon DEF Chunk
<1>8. PICK c : c = Chunk(s)
  OBVIOUS
<1>9. c \in Seq(Record) /\ Len(c) = l
  <2>1. SubSeq(q, 1, l) \in Seq(Record) /\ Len(SubSeq(q, 1, l)) = l
    BY <1>3, <1>6, FirstPart
  <2> QED BY <1>7, <1>8, <2>1, Zenon
<1>10. Rest(s) = SubSeq(q, l + 1, m)
  BY <1>1, <1>2, <1>3, <1>8, <1>9, Zenon DEF Rest
<1>11. PICK r : r = Rest(s)
  OBVIOUS
<1>12. /\ c \in Seq(Record) /\ r \in Seq(Record)
       /\ Range(c) \subseteq Range(q) /\ Range(r) \subseteq Range(q)
       /\ Range(q) \subseteq Range(c) \cup Range(r)
       /\ l = m => c = q /\ r = <<>>
  <2>1. c = SubSeq(q, 1, l) /\ r = SubSeq(q, l + 1, m)
    BY <1>7, <1>8, <1>10, <1>11, Zenon
  <2>2. l \in 0..m
    BY <1>6
  <2>3. /\ SubSeq(q, 1, l) \in Seq(Record) /\ SubSeq(q, l + 1, m) \in Seq(Record)
        /\ Range(SubSeq(q, 1, l)) \subseteq Range(q)
        /\ Range(SubSeq(q, l + 1, m)) \subseteq Range(q)
        /\ Range(q) \subseteq Range(SubSeq(q, 1, l)) \cup Range(SubSeq(q, l + 1, m))
        /\ l = m => SubSeq(q, 1, l) = q /\ SubSeq(q, l + 1, m) = <<>>
    BY <1>3, <2>2, TwoParts
  <2> QED BY <2>1, <2>3, Zenon
<1>13. Filled(s) /\ FileOf(s) # "none" => l = m
  <2> SUFFICES ASSUME Filled(s), FileOf(s) # "none" PROVE l = m
    OBVIOUS
  <2>1. PICK M \in Nat : M = scenario.messages
    BY SinkFacts DEF MaxOffset
  <2>2. n >= M
    BY <1>4, <2>1, SinkFacts DEF SinkDefinition, FileOf, Sinks
  <2>3. sunk \in 0..M /\ writer.next \in sunk..M
    BY <2>1, SinkFacts DEF MaxOffset
  <2>4. m = writer.next - sunk
    BY <1>1, <1>2, <1>3 DEF Filled
  <2>5. n >= m
    BY <2>2, <2>3, <2>4
  <2> QED BY <1>6, <2>5
<1> QED BY <1>1, <1>2, <1>8, <1>11, <1>12, <1>13, Zenon

\* A sink that is flushed and has a batch yet.
LEMMA AtFlush ==
  ASSUME SinkInv, Sinking, NEW s \in Sinks, Flushing(s)
  PROVE  /\ \A o \in 0..writer.next - 1 : Stored(s, o) \/ Held(outbox[s], o)
         /\ FileOf(s) = "replace" /\ outbox[s].batch # <<>> => Filled(s)
         /\ CommittedOK(s) /\ OutboxOK(s)
<1>1. SinkOK(s) /\ s >= writer.at
  BY SinkFacts DEF Flushing
<1> QED BY <1>1 DEF SinkOK, FlushingOK, Flushing, Emptied

\* A write leaves what is committed, and what has been stored is stored or still in the batch.
LEMMA WriteLeaves ==
  ASSUME SinkInv, Sinking, UNCHANGED <<scenario, overlooked, sunk>>,
         NEW s \in Sinks, Flushing(s), outbox[s].batch # <<>>,
         NEW q, Range(q) \subseteq Range(outbox[s].batch), Write(s, q),
         dropped[s] \subseteq dropped'[s],
         FileOf(s) # "none" => dropped'[s] = {} /\ overlooked[s] = {}
  PROVE  /\ CommittedOK(s)'
         /\ \A o \in 0..writer.next - 1 : Stored(s, o)' \/ Held(outbox[s], o)
<1>1. /\ \A o \in 0..sunk - 1 : Stored(s, o) =>
            o \in dropped[s] \cup overlooked[s] \/ \E w \in written'[s] : w.offset = o
      /\ FileOf(s) # "replace" => written[s] \subseteq written'[s]
      /\ FileOf(s) = "append" => \A v, w \in written'[s] : v.file = w.file
      /\ FileOf(s) = "replace" => Filled(s) /\ Replaced(written'[s], sunk)
  BY WriteKeeps
<1>2. CommittedOK(s)'
  <2>1. \A o \in 0..sunk - 1 : Stored(s, o)'
    BY <1>1, AtFlush DEF CommittedOK, Stored
  <2>2. FilesOK(s)'
    BY <1>1 DEF FilesOK, FileOf
  <2> QED BY <2>1, <2>2 DEF CommittedOK
<1>3. ASSUME NEW o \in 0..writer.next - 1 PROVE Stored(s, o)' \/ Held(outbox[s], o)
  <2>1. CASE Stored(s, o) /\ FileOf(s) # "replace"
    BY <1>1, <2>1 DEF Stored
  <2>2. CASE o \in 0..sunk - 1
    BY <1>2, <2>2 DEF CommittedOK
  <2>3. CASE FileOf(s) = "replace" /\ o \notin 0..sunk - 1
    <3>1. sunk \in 0..MaxOffset /\ writer.next \in sunk..MaxOffset /\ MaxOffset \in Nat
      BY SinkFacts
    <3>2. o \in sunk..writer.next - 1
      BY <2>3, <3>1
    <3> QED BY <1>1, <2>3, <3>2, ReplacedBatch DEF Held
  <2> QED BY <2>1, <2>2, <2>3, AtFlush
<1> QED BY <1>2, <1>3

\* The batch of a sink is replaced by what is left of it.
LEMMA RestOfBatch ==
  ASSUME SinkInv, Sinking, NEW s \in Sinks, outbox' = [outbox EXCEPT ![s].batch = Rest(s)]
  PROVE  /\ outbox' \in [Sinks -> Outbox] /\ outbox'[s].batch = Rest(s)
         /\ outbox'[s].requests = outbox[s].requests /\ outbox'[s].kept = outbox[s].kept
         /\ \A r \in Sinks : r # s => outbox'[r] = outbox[r]
<1>1. PICK rest \in Seq(Record) : rest = Rest(s)
  BY ChunkFacts
<1>2. outbox \in [Sinks -> Outbox]
  BY SinkFacts
<1>3. PICK b \in Outbox : b = [outbox[s] EXCEPT !.batch = rest]
  BY <1>2 DEF Outbox
<1>4. b.batch = rest /\ b.requests = outbox[s].requests /\ b.kept = outbox[s].kept
  BY <1>2, <1>3 DEF Outbox
<1>5. outbox' = [outbox EXCEPT ![s] = b]
  BY <1>1, <1>3
<1> QED BY <1>1, <1>2, <1>4, <1>5

\* The flush of a batch goes on after a write, with what the write has left.
LEMMA BatchGoesOn ==
  ASSUME SinkInv, Sinking, UNCHANGED <<scenario, overlooked, sunk>>, NEW s \in Sinks, Flushing(s),
         Batching(s), writer' \in Writer, writer'.pc = writer.pc, writer'.next = writer.next,
         writer'.at = writer.at, writer'.start = writer.start,
         outbox' \in [Sinks -> Outbox], written' \in [Sinks -> SUBSET Copy],
         dropped' \in [Sinks -> SUBSET Record],
         \A r \in Sinks : r # s => /\ outbox'[r] = outbox[r] /\ written'[r] = written[r]
                                   /\ dropped'[r] = dropped[r],
         outbox'[s].requests = outbox[s].requests, outbox'[s].kept = outbox[s].kept,
         CommittedOK(s)',
         \A o \in 0..writer.next - 1 : Stored(s, o)' \/ Held(outbox'[s], o),
         FileOf(s) = "replace" => Filled(s)' \/ Emptied(s)'
  PROVE  SinkInv'
<1>1. writer'.pc = "flush" /\ writer'.at = s /\ s <= s /\ ~(s < s)
  BY SinkFacts DEF Flushing
<1>2. OutboxOK(s)'
  BY AtFlush DEF OutboxOK, Batching, Style
<1>3. FlushingOK(s)'
  BY <1>1 DEF FlushingOK, FileOf, Style, Batching
<1>4. SinkOK(s)'
  BY <1>1, <1>2, <1>3 DEF SinkOK, RunningOK
<1> QED BY <1>4, FlushGoesOn

\* A request of a batch is carried out.
LEMMA WriteChunkKeeps ==
  ASSUME SinkInv, Sinking, UNCHANGED scenario, NEW s \in Sinks, WriteChunk(s)
  PROVE  SinkInv'
<1>1. /\ Flushing(s) /\ Batching(s) /\ outbox[s].batch # <<>> /\ Write(s, Chunk(s))
      /\ outbox' = [outbox EXCEPT ![s].batch = Rest(s)]
      /\ writer' = [writer EXCEPT !.attempt = 0]
      /\ UNCHANGED <<dropped, overlooked, sunk>>
  BY DEF WriteChunk
<1>2. /\ writer \in Writer /\ dropped \in [Sinks -> SUBSET Record]
      /\ overlooked \in [Sinks -> SUBSET Record]
  BY SinkFacts
<1>3. /\ writer' \in Writer /\ writer'.pc = writer.pc /\ writer'.next = writer.next
      /\ writer'.at = writer.at /\ writer'.start = writer.start
  BY <1>1, <1>2 DEF Writer
<1>4. /\ outbox' \in [Sinks -> Outbox] /\ outbox'[s].batch = Rest(s)
      /\ outbox'[s].requests = outbox[s].requests /\ outbox'[s].kept = outbox[s].kept
      /\ \A r \in Sinks : r # s => outbox'[r] = outbox[r]
  BY <1>1, RestOfBatch
<1>5. Range(Chunk(s)) \subseteq Range(outbox[s].batch)
  BY ChunkFacts
<1>6. /\ written' \in [Sinks -> SUBSET Copy]
      /\ \A r \in Sinks : r # s => written'[r] = written[r]
      /\ \A o \in Range(Chunk(s)) : \E w \in written'[s] : w.offset = o
      /\ FileOf(s) = "replace" => Filled(s) /\ \A w \in written'[s] : w.offset < writer.next
  BY <1>1, <1>5, WriteKeeps
<1>7. dropped' = dropped /\ (FileOf(s) # "none" => dropped[s] = {} /\ overlooked[s] = {})
  BY <1>1, AtFlush DEF CommittedOK, FilesOK
<1>8. /\ CommittedOK(s)'
      /\ \A o \in 0..writer.next - 1 : Stored(s, o)' \/ Held(outbox[s], o)
  BY <1>1, <1>5, <1>7, WriteLeaves
<1>9. ASSUME NEW o \in 0..writer.next - 1 PROVE Stored(s, o)' \/ Held(outbox'[s], o)
  <2>1. CASE o \in Range(outbox[s].batch)
    <3>1. o \in Range(Chunk(s)) \/ o \in Range(Rest(s))
      BY <2>1, ChunkFacts
    <3> QED BY <1>4, <1>6, <3>1 DEF Stored, Held
  <2>2. CASE Requested(outbox[s], o)
    BY <1>4, <2>2 DEF Held, Requested
  <2> QED BY <1>8, <2>1, <2>2 DEF Held
<1>10. FileOf(s) = "replace" => Emptied(s)'
  BY <1>3, <1>4, <1>6, ChunkFacts DEF Emptied
<1> QED BY <1>1, <1>2, <1>3, <1>4, <1>6, <1>8, <1>9, <1>10, BatchGoesOn

\* What is written and skipped stays as it is.
LEMMA CommittedStays ==
  ASSUME NEW r \in Sinks, CommittedOK(r), UNCHANGED <<scenario, overlooked, sunk>>,
         written'[r] = written[r], dropped'[r] = dropped[r]
  PROVE  CommittedOK(r)'
  BY DEF CommittedOK, FilesOK, FileOf, Stored, Replaced

\* A blob that exists is an error.
LEMMA BlobExistsKeeps ==
  ASSUME SinkInv, Sinking, UNCHANGED scenario, NEW s \in Sinks, BlobExists(s)
  PROVE  SinkInv'
<1>1. /\ Flushing(s) /\ FlushEnds(s, "raise", outbox[s])
      /\ UNCHANGED <<written, dropped, overlooked, sunk>>
  BY DEF BlobExists
<1>2. /\ outbox[s] \in Outbox /\ written \in [Sinks -> SUBSET Copy]
      /\ dropped \in [Sinks -> SUBSET Record] /\ overlooked \in [Sinks -> SUBSET Record]
      /\ \A r \in Sinks : CommittedOK(r)
  BY SinkFacts DEF SinkOK
<1>3. \A r \in Sinks : CommittedOK(r)'
  BY <1>1, <1>2, CommittedStays
<1> QED BY <1>1, <1>2, <1>3, FlushEndsKeeps

\* A request of a batch fails, after a part of it: it is tried again, skipped, or the end
\* of the flush.
LEMMA WriteFailsKeeps ==
  ASSUME SinkInv, Sinking, UNCHANGED scenario, NEW s \in Sinks, WriteFails(s)
  PROVE  SinkInv'
<1>1. /\ Flushing(s) /\ Batching(s) /\ outbox[s].batch # <<>>
      /\ UNCHANGED <<overlooked, sunk>>
      /\ \E part \in 0..Len(Chunk(s)) : Write(s, SubSeq(Chunk(s), 1, part))
      /\ \/ /\ writer' = [writer EXCEPT !.attempt = @ + 1] /\ UNCHANGED <<outbox, dropped>>
         \/ /\ "skip" \in scenario.sinks[s].refused \cup {scenario.sinks[s].exhausted}
            /\ dropped' = [dropped EXCEPT ![s] = @ \cup Range(Chunk(s))]
            /\ outbox' = [outbox EXCEPT ![s].batch = Rest(s)]
            /\ writer' = [writer EXCEPT !.attempt = 0]
         \/ /\ \E end \in {"pressure", "raise"} : FlushEnds(s, end, outbox[s])
            /\ UNCHANGED dropped
  <2>1. scenario.sinks[s].refused \subseteq Outcomes /\ scenario.sinks[s].exhausted \in Outcomes
    BY SinkFacts DEF SinkKind
  <2> QED BY <2>1 DEF WriteFails, Outcomes
<1>2. PICK q : Range(q) \subseteq Range(outbox[s].batch) /\ Write(s, q)
  <2>1. PICK chunk \in Seq(Record) :
           chunk = Chunk(s) /\ Range(chunk) \subseteq Range(outbox[s].batch)
    BY ChunkFacts
  <2>2. PICK m \in Nat : m = Len(chunk)
    BY LenProperties
  <2>3. PICK part \in 0..m : Write(s, SubSeq(chunk, 1, part))
    BY <1>1, <2>1, <2>2
  <2>4. Range(SubSeq(chunk, 1, part)) \subseteq Range(chunk)
    BY <2>2, TwoParts
  <2> QED BY <2>1, <2>3, <2>4
<1>3. /\ writer \in Writer /\ outbox \in [Sinks -> Outbox]
      /\ dropped \in [Sinks -> SUBSET Record] /\ overlooked \in [Sinks -> SUBSET Record]
      /\ \A r \in Sinks : CommittedOK(r)
  BY SinkFacts DEF SinkOK
<1>4. /\ written' \in [Sinks -> SUBSET Copy]
      /\ \A r \in Sinks : r # s => written'[r] = written[r]
      /\ FileOf(s) = "replace" => Filled(s)
  BY <1>1, <1>2, WriteKeeps
<1>5. FileOf(s) # "none" => dropped[s] = {} /\ overlooked[s] = {}
  BY <1>3 DEF CommittedOK, FilesOK
<1>6. UNCHANGED dropped => /\ CommittedOK(s)'
                           /\ \A o \in 0..writer.next - 1 : Stored(s, o)' \/ Held(outbox[s], o)
  BY <1>1, <1>2, <1>5, WriteLeaves
<1>7. CASE writer' = [writer EXCEPT !.attempt = @ + 1] /\ UNCHANGED <<outbox, dropped>>
  <2>1. writer.attempt + 1 \in Nat
    BY <1>3 DEF Writer
  <2>2. /\ writer' \in Writer /\ writer'.pc = writer.pc /\ writer'.next = writer.next
        /\ writer'.at = writer.at /\ writer'.start = writer.start
    BY <1>3, <1>7, <2>1 DEF Writer
  <2>3. FileOf(s) = "replace" => Filled(s)'
    BY <1>1, <1>4, <1>7, <2>2 DEF Filled
  <2> QED BY <1>1, <1>3, <1>4, <1>6, <1>7, <2>2, <2>3, BatchGoesOn
<1>8. CASE /\ "skip" \in scenario.sinks[s].refused \cup {scenario.sinks[s].exhausted}
           /\ dropped' = [dropped EXCEPT ![s] = @ \cup Range(Chunk(s))]
           /\ outbox' = [outbox EXCEPT ![s].batch = Rest(s)]
           /\ writer' = [writer EXCEPT !.attempt = 0]
  <2>1. FileOf(s) = "none"
    BY <1>8, SinkFacts DEF SinkDefinition, FileOf, Sinks
  <2>2. /\ writer' \in Writer /\ writer'.pc = writer.pc /\ writer'.next = writer.next
        /\ writer'.at = writer.at /\ writer'.start = writer.start
    BY <1>3, <1>8 DEF Writer
  <2>3. /\ outbox' \in [Sinks -> Outbox] /\ outbox'[s].batch = Rest(s)
        /\ outbox'[s].requests = outbox[s].requests /\ outbox'[s].kept = outbox[s].kept
        /\ \A r \in Sinks : r # s => outbox'[r] = outbox[r]
    BY <1>8, RestOfBatch
  <2>4. Range(Chunk(s)) \subseteq Record
    BY <1>3, BoxFacts, ChunkFacts
  <2>5. /\ dropped' \in [Sinks -> SUBSET Record] /\ dropped[s] \subseteq dropped'[s]
        /\ Range(Chunk(s)) \subseteq dropped'[s]
        /\ \A r \in Sinks : r # s => dropped'[r] = dropped[r]
    BY <1>3, <1>8, <2>4
  <2>6. /\ CommittedOK(s)'
        /\ \A o \in 0..writer.next - 1 : Stored(s, o)' \/ Held(outbox[s], o)
    BY <1>1, <1>2, <2>1, <2>5, WriteLeaves
  <2>7. ASSUME NEW o \in 0..writer.next - 1 PROVE Stored(s, o)' \/ Held(outbox'[s], o)
    <3>1. CASE o \in Range(outbox[s].batch)
      <4>1. o \in Range(Chunk(s)) \/ o \in Range(Rest(s))
        BY <3>1, ChunkFacts
      <4> QED BY <2>3, <2>5, <4>1 DEF Stored, Held
    <3>2. CASE Requested(outbox[s], o)
      BY <2>3, <3>2 DEF Held, Requested
    <3> QED BY <2>6, <3>1, <3>2 DEF Held
  <2> QED BY <1>1, <1>4, <2>1, <2>2, <2>3, <2>5, <2>6, <2>7, BatchGoesOn
<1>9. CASE /\ \E end \in {"pressure", "raise"} : FlushEnds(s, end, outbox[s])
           /\ UNCHANGED dropped
  <2>1. \A r \in Sinks : CommittedOK(r)'
    BY <1>1, <1>3, <1>4, <1>6, <1>9, CommittedStays
  <2> QED BY <1>1, <1>3, <1>4, <1>9, <2>1, FlushEndsKeeps
<1> QED BY <1>1, <1>7, <1>8, <1>9

\* flush() of KinesisSink submits what it has not submitted.
LEMMA SubmitRestKeeps ==
  ASSUME SinkInv, Sinking, UNCHANGED scenario, NEW s \in Sinks, SubmitRest(s)
  PROVE  SinkInv'
<1>1. /\ Flushing(s) /\ Style(s) = "kinesis" /\ writer' = [writer EXCEPT !.attempt = 1]
      /\ outbox' = IF outbox[s].batch = <<>> THEN outbox
                   ELSE [outbox EXCEPT ![s].requests = Append(@, Range(outbox[s].batch))]
      /\ UNCHANGED <<written, dropped, overlooked, sunk>>
  BY DEF SubmitRest
<1>2. /\ writer \in Writer /\ outbox \in [Sinks -> Outbox] /\ SinkOK(s)
      /\ written \in [Sinks -> SUBSET Copy]
      /\ dropped \in [Sinks -> SUBSET Record] /\ overlooked \in [Sinks -> SUBSET Record]
  BY SinkFacts
<1>3. /\ writer' \in Writer /\ writer'.pc = writer.pc /\ writer'.next = writer.next
      /\ writer'.at = writer.at /\ writer'.start = writer.start
  BY <1>1, <1>2 DEF Writer
<1>4. PICK b \in Outbox : b = outbox[s]
  BY <1>2
<1>5. PICK e \in SUBSET Record, t \in Seq(SUBSET Record) : e = Range(b.batch) /\ t = b.requests
  BY <1>4, BoxFacts
<1>6. PICK m \in Nat : m = Len(t)
  BY LenProperties
<1>7. PICK t2 : t2 = Append(t, e)
  OBVIOUS
<1>8. /\ t2 \in Seq(SUBSET Record) /\ Len(t2) = m + 1 /\ t2[m + 1] = e
      /\ \A k \in 1..m : t2[k] = t[k]
  BY <1>5, <1>6, <1>7, AppendProperties
<1>9. PICK c : c = [b EXCEPT !.requests = t2]
  OBVIOUS
<1>10. c \in Outbox /\ c.batch = b.batch /\ c.requests = t2 /\ c.kept = b.kept
  BY <1>8, <1>9 DEF Outbox
<1>11. outbox' = IF b.batch = <<>> THEN outbox ELSE [outbox EXCEPT ![s] = c]
  BY <1>1, <1>4, <1>5, <1>7, <1>9
<1>12. /\ outbox' \in [Sinks -> Outbox] /\ \A r \in Sinks : r # s => outbox'[r] = outbox[r]
       /\ outbox'[s] = IF b.batch = <<>> THEN b ELSE c
  BY <1>2, <1>4, <1>10, <1>11
<1>13. ASSUME NEW o, Held(b, o) PROVE Requested(outbox'[s], o)
  <2>1. CASE b.batch = <<>>
    <3>1. o \notin Range(b.batch)
      BY <2>1, EmptySeq, LenProperties DEF Range
    <3> QED BY <1>12, <1>13, <2>1, <3>1 DEF Held
  <2>2. CASE b.batch # <<>> /\ o \in e
    BY <1>8, <1>10, <1>12, <2>2 DEF Requested
  <2>3. CASE b.batch # <<>> /\ o \notin e
    BY <1>5, <1>6, <1>8, <1>10, <1>12, <1>13, <2>3 DEF Held, Requested
  <2> QED BY <2>1, <2>2, <2>3
<1>14. CommittedOK(s)'
  BY <1>1, <1>2, CommittedStays DEF SinkOK
<1>15. OutboxOK(s)'
  BY <1>1 DEF OutboxOK, Batching, Style
<1>16. FlushingOK(s)'
  <2>1. \A o \in 0..writer.next - 1 : Stored(s, o)' \/ Requested(outbox'[s], o)
    BY <1>1, <1>4, <1>13, AtFlush DEF Stored
  <2>2. FileOf(s) # "replace"
    BY <1>1, SinkFacts DEF SinkDefinition, FileOf, Style, Sinks
  <2>3. writer'.at = s /\ ~(s < s)
    BY <1>1, <1>3, SinkFacts DEF Flushing
  <2> QED BY <1>3, <2>1, <2>2, <2>3 DEF FlushingOK, FileOf, Held
<1>17. SinkOK(s)'
  <2>1. writer'.pc = "flush"
    BY <1>1, <1>3 DEF Flushing
  <2> QED BY <1>14, <1>15, <1>16, <2>1 DEF SinkOK, RunningOK
<1> QED BY <1>1, <1>2, <1>3, <1>12, <1>17, FlushGoesOn

\* A sink whose flush returns has nothing left, so all its records are stored.
LEMMA SinkFlushReturnsKeeps ==
  ASSUME SinkInv, Sinking, UNCHANGED scenario, NEW s \in Sinks, SinkFlushReturns(s)
  PROVE  SinkInv'
<1>1. /\ Flushing(s) /\ writer' = [writer EXCEPT !.at = @ + 1, !.attempt = 0]
      /\ IF Batching(s) THEN outbox[s].batch = <<>>
         ELSE /\ outbox[s].requests = <<>> /\ ~outbox[s].kept
              /\ Style(s) = "kinesis" => writer.attempt = 1
      /\ UNCHANGED <<outbox, written, dropped, overlooked, sunk>>
  BY DEF SinkFlushReturns, AllDelivered, NextSink
<1>2. /\ writer \in Writer /\ outbox \in [Sinks -> Outbox] /\ WriterOK
      /\ written \in [Sinks -> SUBSET Copy]
      /\ dropped \in [Sinks -> SUBSET Record] /\ overlooked \in [Sinks -> SUBSET Record]
      /\ sunk \in 0..MaxOffset /\ writer.next \in sunk..MaxOffset /\ MaxOffset \in Nat
      /\ writer.start \in {NoOffset, sunk} /\ writer.pc = "flush" /\ writer.at = s
      /\ Len(scenario.sinks) \in Nat /\ Sinks = 1..Len(scenario.sinks)
      /\ \A r \in Sinks : SinkOK(r)
  BY <1>1, SinkFacts DEF Flushing
<1>3. writer.at + 1 \in Nat
  BY <1>2
<1>4. /\ writer' \in Writer /\ writer'.pc = "flush" /\ writer'.next = writer.next
      /\ writer'.at = s + 1 /\ writer'.start = writer.start /\ writer'.attempt = 0
  BY <1>1, <1>2, <1>3 DEF Writer
<1>5. WriterOK'
  BY <1>1, <1>2, <1>4 DEF WriterOK
<1>6. Len(<<>>) = 0 /\ \A o : o \notin Range(<<>>)
  <2>1. <<>> \in Seq(Record) /\ Len(<<>>) = 0
    BY EmptySeq
  <2>2. DOMAIN <<>> = 1..0
    BY <2>1, LenProperties
  <2> QED BY <2>1, <2>2 DEF Range
<1>7. \A o \in 0..writer.next - 1 : Stored(s, o)
  <2>1. CASE Batching(s)
    <3>1. outbox[s].batch = <<>> /\ outbox[s].requests = <<>> /\ ~outbox[s].kept
      BY <1>1, <2>1, AtFlush DEF OutboxOK
    <3>2. \A o : ~Held(outbox[s], o)
      BY <1>6, <3>1 DEF Held, Requested
    <3> QED BY <1>1, <3>2, AtFlush
  <2>2. CASE ~Batching(s) /\ Style(s) = "kinesis"
    <3>1. \A o \in 0..writer.next - 1 : Stored(s, o) \/ Requested(outbox[s], o)
      BY <1>1, <1>2, <2>2 DEF SinkOK, FlushingOK
    <3>2. \A o : ~Requested(outbox[s], o)
      BY <1>1, <1>6, <2>2 DEF Requested
    <3> QED BY <3>1, <3>2
  <2>3. CASE ~Batching(s) /\ Style(s) # "kinesis"
    <3>1. outbox[s].batch = <<>> /\ outbox[s].requests = <<>> /\ ~outbox[s].kept
      BY <1>1, <2>3, AtFlush DEF OutboxOK
    <3>2. \A o : ~Held(outbox[s], o)
      BY <1>6, <3>1 DEF Held, Requested
    <3> QED BY <1>1, <3>2, AtFlush
  <2> QED BY <2>1, <2>2, <2>3
<1>8. FileOf(s) = "replace" => Emptied(s)
  <2> SUFFICES ASSUME FileOf(s) = "replace" PROVE Emptied(s)
    OBVIOUS
  <2>1. Batching(s)
    BY SinkFacts DEF SinkDefinition, FileOf, Style, Batching, Sinks
  <2>2. Len(outbox[s].batch) = 0
    BY <1>1, <1>6, <2>1
  <2>3. writer.next - sunk # 0
    BY <1>2 DEF WriterOK
  <2> QED BY <1>2, <2>2, <2>3 DEF SinkOK, FlushingOK, Filled
<1>9. ASSUME NEW r \in Sinks PROVE SinkOK(r)'
  <2>1. CommittedOK(r)' /\ OutboxOK(r)'
    BY <1>1, <1>2, CommittedStays DEF SinkOK, OutboxOK, Batching, Style
  <2>2. FlushingOK(r)'
    <3>1. CASE r = s
      <4>1. s < s + 1 /\ ~(s >= s + 1) /\ s <= s + 1 /\ s # s + 1
        BY <1>2
      <4> QED BY <1>1, <1>4, <1>7, <1>8, <3>1, <4>1 DEF FlushingOK, Stored, Emptied, FileOf
    <3>2. CASE r < s
      <4>1. r < s + 1 /\ ~(r >= s + 1) /\ r <= s + 1 /\ r # s + 1 /\ ~(r >= s)
        BY <1>2, <3>2
      <4>2. /\ \A o \in 0..writer.next - 1 : Stored(r, o)
            /\ FileOf(r) = "replace" => Emptied(r)
        BY <1>2, <3>2, <4>1 DEF SinkOK, FlushingOK
      <4> QED BY <1>1, <1>4, <4>1, <4>2 DEF FlushingOK, Stored, Emptied, FileOf
    <3>3. CASE r > s
      <4>1. ~(r < s + 1) /\ r >= s + 1 /\ ~(r <= s) /\ r >= s
        BY <1>2, <3>3
      <4>2. /\ \A o \in 0..writer.next - 1 : Stored(r, o) \/ Held(outbox[r], o)
            /\ FileOf(r) = "replace" => Filled(r)
        BY <1>2, <4>1 DEF SinkOK, FlushingOK
      <4> QED BY <1>1, <1>4, <4>1, <4>2 DEF FlushingOK, Stored, Held, Requested, Filled, FileOf
    <3> QED BY <1>2, <3>1, <3>2, <3>3
  <2> QED BY <1>4, <2>1, <2>2 DEF SinkOK, RunningOK
<1>10. /\ writer'.at \in 1..Len(scenario.sinks) + 1
       /\ sunk' \in 0..MaxOffset /\ writer'.next \in sunk'..MaxOffset
       /\ writer'.start \in {NoOffset, sunk'}
  BY <1>1, <1>2, <1>4
<1> QED BY <1>1, <1>2, <1>4, <1>5, <1>9, <1>10, SinkAgain

\* The flush ends because of a request that has failed.
LEMMA RequestHasFailedKeeps ==
  ASSUME SinkInv, Sinking, UNCHANGED scenario, NEW s \in Sinks, RequestHasFailed(s)
  PROVE  SinkInv'
<1>1. /\ Flushing(s) /\ UNCHANGED <<written, dropped, overlooked, sunk>>
      /\ \/ FlushEnds(s, "pressure", outbox[s])
         \/ FlushEnds(s, "raise", [outbox[s] EXCEPT !.kept = FALSE])
  BY DEF RequestHasFailed
<1>2. /\ outbox[s] \in Outbox /\ written \in [Sinks -> SUBSET Copy]
      /\ dropped \in [Sinks -> SUBSET Record] /\ overlooked \in [Sinks -> SUBSET Record]
      /\ \A r \in Sinks : CommittedOK(r)
  BY SinkFacts DEF SinkOK
<1>3. \A r \in Sinks : CommittedOK(r)'
  BY <1>1, <1>2, CommittedStays
<1>4. CASE FlushEnds(s, "pressure", outbox[s])
  BY <1>1, <1>2, <1>3, <1>4, FlushEndsKeeps
<1>5. CASE FlushEnds(s, "raise", [outbox[s] EXCEPT !.kept = FALSE])
  <2>1. PICK b : b = [outbox[s] EXCEPT !.kept = FALSE]
    OBVIOUS
  <2>2. /\ b \in Outbox /\ b.batch = outbox[s].batch /\ b.requests = outbox[s].requests
        /\ ~b.kept
    BY <1>2, <2>1 DEF Outbox
  <2>3. FlushEnds(s, "raise", b)
    BY <1>5, <2>1
  <2> QED BY <1>1, <1>2, <1>3, <2>2, <2>3, FlushEndsKeeps
<1> QED BY <1>1, <1>4, <1>5

\* The flush ends without an answer, and the requests stay under way.
LEMMA FlushTimesOutKeeps ==
  ASSUME SinkInv, Sinking, UNCHANGED scenario, NEW s \in Sinks, FlushTimesOut(s)
  PROVE  SinkInv'
<1>1. /\ Flushing(s) /\ FlushEnds(s, "pressure", outbox[s])
      /\ UNCHANGED <<written, dropped, overlooked, sunk>>
  BY DEF FlushTimesOut
<1>2. /\ outbox[s] \in Outbox /\ written \in [Sinks -> SUBSET Copy]
      /\ dropped \in [Sinks -> SUBSET Record] /\ overlooked \in [Sinks -> SUBSET Record]
      /\ \A r \in Sinks : CommittedOK(r)
  BY SinkFacts DEF SinkOK
<1>3. \A r \in Sinks : CommittedOK(r)'
  BY <1>1, <1>2, CommittedStays
<1> QED BY <1>1, <1>2, <1>3, FlushEndsKeeps

-----------------------------------------------------------------------------
\* An answer to a request comes at any time: the records of the request are stored, the sink
\* knows that one has failed, or it does not look.
LEMMA AnswerKeeps ==
  ASSUME SinkInv, Sinking, UNCHANGED <<scenario, writer, dropped, sunk>>,
         NEW s \in Sinks, outbox[s].requests # <<>>,
         outbox' \in [Sinks -> Outbox], written' \in [Sinks -> SUBSET Copy],
         overlooked' \in [Sinks -> SUBSET Record],
         \A r \in Sinks : r # s => /\ outbox'[r] = outbox[r] /\ written'[r] = written[r]
                                   /\ overlooked'[r] = overlooked[r],
         outbox'[s].batch = outbox[s].batch, written[s] \subseteq written'[s],
         overlooked[s] \subseteq overlooked'[s],
         Style(s) # "kinesis" => overlooked'[s] = overlooked[s],
         \A o : Requested(outbox[s], o) => Stored(s, o)' \/ Requested(outbox'[s], o)
  PROVE  SinkInv'
<1>1. /\ writer \in Writer /\ writer.at \in 1..Len(scenario.sinks) + 1 /\ WriterOK
      /\ sunk \in 0..MaxOffset /\ writer.next \in sunk..MaxOffset
      /\ writer.pc # "failing" => writer.start \in {NoOffset, sunk}
      /\ dropped \in [Sinks -> SUBSET Record] /\ overlooked \in [Sinks -> SUBSET Record]
      /\ \A r \in Sinks : SinkOK(r)
  BY SinkFacts
<1>2. WriterOK'
  BY <1>1 DEF WriterOK
<1>3. SinkOK(s)'
  <2>1. ~Batching(s)
    BY <1>1 DEF SinkOK, OutboxOK
  <2>2. FileOf(s) = "none"
    BY <2>1, SinkFacts DEF SinkDefinition, FileOf, Style, Batching, Sinks
  <2>3. \A o : Stored(s, o) => Stored(s, o)'
    BY DEF Stored
  <2>4. CommittedOK(s)'
    BY <1>1, <2>2, <2>3 DEF SinkOK, CommittedOK, FilesOK, FileOf
  <2>5. OutboxOK(s)'
    BY <1>1, <2>1 DEF SinkOK, OutboxOK, Batching, Style
  <2>6. \A o : Held(outbox[s], o) => Stored(s, o)' \/ Held(outbox'[s], o)
    BY DEF Held
  <2>7. RunningOK(s)'
    BY <1>1, <2>2, <2>3, <2>6 DEF SinkOK, RunningOK, FileOf
  <2>8. FlushingOK(s)'
    BY <1>1, <2>2, <2>3, <2>6 DEF SinkOK, FlushingOK, FileOf, Style
  <2> QED BY <2>4, <2>5, <2>7, <2>8 DEF SinkOK
<1>4. ASSUME NEW r \in Sinks PROVE SinkOK(r)'
  BY <1>1, <1>3, OtherSink
<1> QED BY <1>1, <1>2, <1>4, SinkAgain

\* A request is taken out of those without an answer.
LEMMA RequestTaken ==
  ASSUME SinkInv, Sinking, NEW s \in Sinks, NEW k \in Requests(s)
  PROVE  /\ outbox[s].requests # <<>> /\ outbox[s].requests[k] \in SUBSET Record
         /\ RemoveAt(outbox[s].requests, k) \in Seq(SUBSET Record)
         /\ \A o : Requested(outbox[s], o) =>
               \/ outbox[s].kept \/ o \in outbox[s].requests[k]
               \/ \E j \in 1..Len(RemoveAt(outbox[s].requests, k)) :
                     o \in RemoveAt(outbox[s].requests, k)[j]
<1>1. PICK b \in Outbox : b = outbox[s]
  BY SinkFacts
<1>2. PICK t \in Seq(SUBSET Record) : t = b.requests
  BY BoxFacts
<1>3. PICK m \in Nat : m = Len(t)
  BY LenProperties
<1>4. t # <<>>
  BY <1>1, <1>2 DEF Requests
<1>5. m # 0
  BY <1>3, <1>4, EmptySeq
<1>6. DOMAIN t = 1..m
  BY <1>3, LenProperties
<1>7. k \in 1..m
  BY <1>1, <1>2, <1>4, <1>5, <1>6 DEF Requests
<1>8. t[k] \in SUBSET Record
  BY <1>3, <1>7, ElementOfSeq
<1>9. /\ RemoveAt(t, k) \in Seq(SUBSET Record)
      /\ \A j \in 1..m : j # k => \E i \in 1..Len(RemoveAt(t, k)) : RemoveAt(t, k)[i] = t[j]
  BY <1>3, <1>7, RemoveAtKeeps
<1>10. ASSUME NEW o, Requested(b, o)
       PROVE  \/ b.kept \/ o \in t[k]
              \/ \E j \in 1..Len(RemoveAt(t, k)) : o \in RemoveAt(t, k)[j]
  <2>1. b.kept \/ \E j \in 1..m : o \in t[j]
    BY <1>2, <1>3, <1>10 DEF Requested
  <2> QED BY <1>9, <2>1
<1> QED BY <1>1, <1>2, <1>4, <1>8, <1>9, <1>10

\* The records of a request are added to what the system of the sink has.
LEMMA RequestStored ==
  ASSUME SinkInv, Sinking, NEW s \in Sinks, NEW e \in SUBSET Record,
         written' = [written EXCEPT ![s] = @ \cup [file : {0}, offset : e]]
  PROVE  /\ written' \in [Sinks -> SUBSET Copy] /\ written[s] \subseteq written'[s]
         /\ \A r \in Sinks : r # s => written'[r] = written[r]
         /\ \A o \in e : \E w \in written'[s] : w.offset = o
<1>1. written \in [Sinks -> SUBSET Copy] /\ MaxOffset \in Nat
  BY SinkFacts
<1>2. PICK new : new = [file : {0}, offset : e]
  OBVIOUS
<1>3. new \in SUBSET Copy
  BY <1>1, <1>2 DEF Copy
<1>4. ASSUME NEW o \in e PROVE \E w \in new : w.offset = o
  <2>1. PICK w : w = [file |-> 0, offset |-> o]
    OBVIOUS
  <2> QED BY <1>2, <2>1
<1>5. written' = [written EXCEPT ![s] = written[s] \cup new]
  BY <1>2
<1>6. written'[s] = written[s] \cup new
  BY <1>1, <1>5
<1>7. written[s] \cup new \in SUBSET Copy
  BY <1>1, <1>3
<1> QED BY <1>1, <1>4, <1>5, <1>6, <1>7

\* A request is carried out.
LEMMA RequestDoneKeeps ==
  ASSUME SinkInv, Sinking, UNCHANGED scenario, NEW s \in Sinks, RequestDone(s)
  PROVE  SinkInv'
<1>1. PICK k \in Requests(s) :
         /\ written' = [written EXCEPT ![s] = @ \cup [file : {0}, offset : outbox[s].requests[k]]]
         /\ outbox' = [outbox EXCEPT ![s].requests = RemoveAt(@, k)]
  BY DEF RequestDone
<1>2. /\ UNCHANGED <<writer, dropped, overlooked, sunk>>
      /\ overlooked' \in [Sinks -> SUBSET Record]
  BY SinkFacts DEF RequestDone
<1>3. PICK e \in SUBSET Record, t \in Seq(SUBSET Record) :
         e = outbox[s].requests[k] /\ t = RemoveAt(outbox[s].requests, k)
  BY RequestTaken
<1>4. /\ written' \in [Sinks -> SUBSET Copy] /\ written[s] \subseteq written'[s]
      /\ \A r \in Sinks : r # s => written'[r] = written[r]
      /\ \A o \in e : Stored(s, o)'
  <2>1. written' = [written EXCEPT ![s] = @ \cup [file : {0}, offset : e]]
    BY <1>1, <1>3
  <2>2. /\ written' \in [Sinks -> SUBSET Copy] /\ written[s] \subseteq written'[s]
        /\ \A r \in Sinks : r # s => written'[r] = written[r]
        /\ \A o \in e : \E w \in written'[s] : w.offset = o
    BY <2>1, RequestStored
  <2> QED BY <2>2 DEF Stored
<1>5. PICK b : b = [outbox[s] EXCEPT !.requests = t]
  OBVIOUS
<1>6. outbox \in [Sinks -> Outbox]
  BY SinkFacts
<1>7. /\ b \in Outbox /\ b.batch = outbox[s].batch /\ b.requests = t
      /\ b.kept = outbox[s].kept
  BY <1>5, <1>6 DEF Outbox
<1>8. outbox' = [outbox EXCEPT ![s] = b]
  BY <1>1, <1>3, <1>5
<1>9. /\ outbox' \in [Sinks -> Outbox] /\ outbox'[s] = b
      /\ \A r \in Sinks : r # s => outbox'[r] = outbox[r]
  BY <1>6, <1>7, <1>8
<1>10. ASSUME NEW o, Requested(outbox[s], o) PROVE Stored(s, o)' \/ Requested(outbox'[s], o)
  BY <1>3, <1>4, <1>7, <1>9, <1>10, RequestTaken DEF Requested
<1>11. outbox[s].requests # <<>>
  BY RequestTaken
<1> QED BY <1>2, <1>4, <1>7, <1>9, <1>10, <1>11, AnswerKeeps

\* Records of a request are refused in an answer that the sink does not read.
LEMMA RecordsRefusedKeeps ==
  ASSUME SinkInv, Sinking, UNCHANGED scenario, NEW s \in Sinks, RecordsRefused(s)
  PROVE  SinkInv'
<1>1. PICK k \in Requests(s) : \E refused \in SUBSET outbox[s].requests[k] :
         /\ written' = [written EXCEPT ![s] = @ \cup
                [file : {0}, offset : outbox[s].requests[k] \ refused]]
         /\ overlooked' = [overlooked EXCEPT ![s] = @ \cup refused]
         /\ outbox' = [outbox EXCEPT ![s].requests = RemoveAt(@, k)]
  BY DEF RecordsRefused
<1>2. UNCHANGED <<writer, dropped, sunk>> /\ Style(s) = "kinesis"
  BY DEF RecordsRefused, Overlooks
<1>3. PICK e \in SUBSET Record, t \in Seq(SUBSET Record) :
         e = outbox[s].requests[k] /\ t = RemoveAt(outbox[s].requests, k)
  BY RequestTaken
<1>4. outbox \in [Sinks -> Outbox] /\ overlooked \in [Sinks -> SUBSET Record]
  BY SinkFacts
<1>5. PICK refused \in SUBSET e :
         /\ written' = [written EXCEPT ![s] = @ \cup [file : {0}, offset : e \ refused]]
         /\ overlooked' = [overlooked EXCEPT ![s] = @ \cup refused]
  BY <1>1, <1>3
<1>6. /\ written' \in [Sinks -> SUBSET Copy] /\ written[s] \subseteq written'[s]
      /\ \A r \in Sinks : r # s => written'[r] = written[r]
      /\ \A o \in e \ refused : \E w \in written'[s] : w.offset = o
  <2>1. e \ refused \in SUBSET Record
    BY <1>3
  <2> QED BY <1>5, <2>1, RequestStored
<1>7. /\ overlooked' \in [Sinks -> SUBSET Record] /\ overlooked'[s] = overlooked[s] \cup refused
      /\ \A r \in Sinks : r # s => overlooked'[r] = overlooked[r]
  BY <1>3, <1>4, <1>5
<1>8. \A o \in e : Stored(s, o)'
  BY <1>5, <1>6, <1>7 DEF Stored
<1>9. PICK b : b = [outbox[s] EXCEPT !.requests = t]
  OBVIOUS
<1>10. /\ b \in Outbox /\ b.batch = outbox[s].batch /\ b.requests = t
       /\ b.kept = outbox[s].kept
  BY <1>4, <1>9 DEF Outbox
<1>11. outbox' = [outbox EXCEPT ![s] = b]
  BY <1>1, <1>3, <1>9
<1>12. /\ outbox' \in [Sinks -> Outbox] /\ outbox'[s] = b
       /\ \A r \in Sinks : r # s => outbox'[r] = outbox[r]
  BY <1>4, <1>10, <1>11
<1>13. ASSUME NEW o, Requested(outbox[s], o) PROVE Stored(s, o)' \/ Requested(outbox'[s], o)
  BY <1>3, <1>8, <1>10, <1>12, <1>13, RequestTaken DEF Requested
<1>14. outbox[s].requests # <<>>
  BY RequestTaken
<1> QED BY <1>2, <1>6, <1>7, <1>10, <1>12, <1>13, <1>14, AnswerKeeps

\* A request fails, whatever was carried out of it.
LEMMA RequestFailsKeeps ==
  ASSUME SinkInv, Sinking, UNCHANGED scenario, NEW s \in Sinks, RequestFails(s)
  PROVE  SinkInv'
<1>1. PICK k \in Requests(s) : \E stored \in SUBSET outbox[s].requests[k] :
         /\ written' = [written EXCEPT ![s] = @ \cup [file : {0}, offset : stored]]
         /\ outbox' = [outbox EXCEPT ![s].requests = RemoveAt(@, k), ![s].kept = TRUE]
  BY DEF RequestFails
<1>2. UNCHANGED <<writer, dropped, overlooked, sunk>>
  BY DEF RequestFails
<1>3. PICK e \in SUBSET Record, t \in Seq(SUBSET Record) :
         e = outbox[s].requests[k] /\ t = RemoveAt(outbox[s].requests, k)
  BY RequestTaken
<1>4. outbox \in [Sinks -> Outbox] /\ overlooked \in [Sinks -> SUBSET Record]
  BY SinkFacts
<1>5. /\ written' \in [Sinks -> SUBSET Copy] /\ written[s] \subseteq written'[s]
      /\ \A r \in Sinks : r # s => written'[r] = written[r]
  <2>1. PICK stored \in SUBSET Record :
           written' = [written EXCEPT ![s] = @ \cup [file : {0}, offset : stored]]
    BY <1>1, <1>3
  <2> QED BY <2>1, RequestStored
<1>6. PICK b : b = [outbox[s] EXCEPT !.requests = t]
  OBVIOUS
<1>7. b \in Outbox /\ b.batch = outbox[s].batch
  BY <1>4, <1>6 DEF Outbox
<1>8. PICK c : c = [b EXCEPT !.kept = TRUE]
  OBVIOUS
<1>9. c \in Outbox /\ c.batch = outbox[s].batch /\ c.kept
  BY <1>7, <1>8 DEF Outbox
<1>10. outbox' = [outbox EXCEPT ![s] = c]
  <2>1. PICK mid : mid = [outbox EXCEPT ![s].requests = t]
    OBVIOUS
  <2>2. mid \in [Sinks -> Outbox] /\ mid = [outbox EXCEPT ![s] = b]
    BY <1>4, <1>6, <1>7, <2>1
  <2>3. outbox' = [mid EXCEPT ![s].kept = TRUE]
    BY <1>1, <1>3, <2>1
  <2>4. mid[s] = b
    BY <1>4, <2>2
  <2>5. outbox' = [mid EXCEPT ![s] = c]
    BY <1>8, <2>3, <2>4
  <2> QED BY <1>4, <2>2, <2>5
<1>11. /\ outbox' \in [Sinks -> Outbox] /\ outbox'[s] = c
       /\ \A r \in Sinks : r # s => outbox'[r] = outbox[r]
  BY <1>4, <1>9, <1>10
<1>12. \A o : Requested(outbox'[s], o)
  BY <1>9, <1>11 DEF Requested
<1>13. outbox[s].requests # <<>>
  BY RequestTaken
<1> QED BY <1>2, <1>4, <1>5, <1>9, <1>11, <1>12, <1>13, AnswerKeeps

-----------------------------------------------------------------------------
\* No step of the sinks breaks the invariant, nor any step of another part.
LEMMA SinkStep ==
  ASSUME SinkInv, UNCHANGED scenario, (Sinking /\ SinkNext) \/ UNCHANGED sinkVars
  PROVE  SinkInv'
<1>1. CASE ~Sinking
  BY <1>1 DEF SinkInv, Sinking
<1>2. CASE Sinking /\ UNCHANGED sinkVars
  <2>1. UNCHANGED <<writer, outbox, written, dropped, overlooked, sunk>>
    BY <1>2 DEF sinkVars
  <2>2. WriterOK'
    BY <1>2, <2>1, SinkFacts DEF WriterOK
  <2>3. \A s \in Sinks : SinkOK(s)'
    BY <1>2, <2>1, SinkFacts, OtherSink
  <2> QED BY <1>2, <2>1, <2>2, <2>3, SinkFacts, SinkAgain
<1>3. CASE Sinking /\ SinkNext
  BY <1>3, StartSinksKeeps, SinkRecordKeeps, BeginSinkFlushKeeps, CommitSunkKeeps, EndWriterKeeps,
     WriteChunkKeeps, BlobExistsKeeps, SubmitRestKeeps, SinkFlushReturnsKeeps,
     RequestHasFailedKeeps, RequestDoneKeeps, WriteFailsKeeps, FlushTimesOutKeeps,
     RequestFailsKeeps, RecordsRefusedKeeps
     DEF SinkNext, WriterStep
<1> QED BY <1>1, <1>2, <1>3

\* At first nothing is committed, and nothing is in the system of a sink.
LEMMA SinkStart == Init => SinkInv
<1> SUFFICES ASSUME Init, Sinking PROVE SinkInv
  BY DEF SinkInv
<1>1. SinkDefinition(scenario) /\ scenario.messages \in Nat
  BY ScenariosAssumption DEF Init, Sinking, TrackerDefinition, BrokerDefinition,
     ExactlyOnceDefinition, ReplicatorDefinition, ProcessDefinition, ConnectorDefinition,
     SinkDefinition, GraphDefinition, TopicsDefinition
<1>2. MaxOffset \in Nat
  BY <1>1 DEF MaxOffset
<1>3. scenario.sinks \in Seq(SinkKind)
  BY <1>1 DEF SinkDefinition
<1>4. PICK l \in Nat : l = Len(scenario.sinks)
  BY <1>3, LenProperties
<1>5. /\ sunk = 0 /\ writer = NewWriter /\ outbox = [s \in Sinks |-> NewOutbox]
      /\ written = [s \in Sinks |-> {}] /\ dropped = [s \in Sinks |-> {}]
      /\ overlooked = [s \in Sinks |-> {}]
  BY DEF Init, SinkInit
<1>6. /\ writer \in Writer /\ writer.pc = "down" /\ writer.next = 0 /\ writer.start = NoOffset
      /\ writer.at = 1
  BY <1>5 DEF NewWriter, Writer, NoOffset
<1>7. outbox \in [Sinks -> Outbox] /\ \A s \in Sinks : outbox[s] = NewOutbox
  BY <1>5, EmptyBox
<1>8. SinkTypeOK
  BY <1>2, <1>4, <1>5, <1>6, <1>7 DEF SinkTypeOK
<1>9. ASSUME NEW s \in Sinks PROVE SinkOK(s)
  <2>1. written[s] = {} /\ dropped[s] = {} /\ overlooked[s] = {}
    BY <1>5
  <2>2. CommittedOK(s)
    BY <1>5, <2>1 DEF CommittedOK, FilesOK, Replaced
  <2>3. OutboxOK(s)
    BY <1>7, <2>1, EmptyBox DEF OutboxOK
  <2> QED BY <1>6, <2>2, <2>3 DEF SinkOK, RunningOK, FlushingOK
<1> QED BY <1>1, <1>2, <1>6, <1>8, <1>9 DEF SinkInv, WriterOK

\* What is committed is in the system of every sink, whatever requests and processes have
\* failed, but for what the sink has skipped on purpose and what Kinesis has refused in an
\* answer without an error, which KinesisSink does not read; in files that are replaced it
\* is there once.
THEOREM SinksAtLeastOnceHolds == Spec => [](SinkTypeOK /\ SinksAtLeastOnce)
<1>1. SinkInv /\ [Next]_applicationVars => SinkInv'
  <2> SUFFICES ASSUME SinkInv, [Next]_applicationVars PROVE SinkInv'
    OBVIOUS
  <2>1. UNCHANGED scenario /\ ((Sinking /\ SinkNext) \/ UNCHANGED sinkVars)
    BY Zenon DEF Next, applicationVars, BesidesExactlyOnce, BesidesReplicator, BesidesProcesses,
       BesidesConnector, BesidesTracker, BesidesBroker, BesidesSink, BesidesGraph, BesidesTopics
  <2> QED BY <2>1, SinkStep
<1>2. SinkInv => SinkTypeOK /\ SinksAtLeastOnce
  <2> SUFFICES ASSUME SinkInv, Sinking PROVE SinkTypeOK /\ SinksAtLeastOnce
    BY DEF SinkTypeOK, SinksAtLeastOnce
  <2>1. SinkTypeOK
    BY DEF SinkInv
  <2>2. ASSUME NEW s \in Sinks, NEW o \in 0..sunk - 1
        PROVE  /\ \/ Copies(s, o) # {} \/ o \in dropped[s]
                  \/ Overlooks(s) /\ o \in overlooked[s]
               /\ FileOf(s) = "replace" => Cardinality(Copies(s, o)) = 1
    <3>1. CommittedOK(s) /\ OutboxOK(s)
      BY SinkFacts DEF SinkOK
    <3>2. Stored(s, o)
      BY <3>1 DEF CommittedOK
    <3>3. o \in overlooked[s] => Overlooks(s)
      BY <3>1 DEF OutboxOK, Overlooks
    <3>4. FileOf(s) = "replace" => Cardinality(Copies(s, o)) = 1
      <4> SUFFICES ASSUME FileOf(s) = "replace" PROVE Cardinality(Copies(s, o)) = 1
        OBVIOUS
      <4>1. dropped[s] = {} /\ overlooked[s] = {} /\ Replaced(written[s], sunk)
        BY <3>1 DEF CommittedOK, FilesOK
      <4>2. PICK w \in written[s] : w.offset = o
        BY <3>2, <4>1 DEF Stored
      <4>3. Copies(s, o) = {w}
        BY <4>1, <4>2 DEF Replaced, Copies
      <4> QED BY <4>3, FS_Singleton
    <3> QED BY <3>2, <3>3, <3>4 DEF Stored, Copies
  <2> QED BY <2>1, <2>2 DEF SinksAtLeastOnce, FileOf
<1> QED BY <1>1, <1>2, SinkStart, PTL DEF Spec

-----------------------------------------------------------------------------
(***************************************************************************)
(* When the application ends by itself.  The timeout never starts before   *)
(* what last happened, so what has run out has run out since then.  A      *)
(* client that does not probe again has probed when the brokers were out   *)
(* of reach, and that is less than a probe interval ago.                   *)
(***************************************************************************)

\* The state of a RunTracker.
Tracker == [start : Int, consumed : BOOLEAN, count : Nat]

\* The timeout counts from what last happened, or from later.
TrackerInv ==
    /\ tracker \in Tracker /\ clock \in Nat /\ liveAt \in Nat /\ looping \in BOOLEAN
    /\ liveAt <= clock
    /\ Tracking => TrackerDefinition(scenario)
    /\ Tracking /\ scenario.timeout > 0 => tracker.start >= liveAt
    /\ StopsWhenDue

\* The end of an iteration, update_status(), that begins with a tracker t: it decides on
\* a start that is no earlier than what last happened, unless a message was consumed.
LEMMA UpdateKeeps ==
  ASSUME TrackerInv, Tracking, looping, UNCHANGED <<scenario, clock>>, NEW t \in Tracker,
         UpdateStatus(t), liveAt' \in Nat, liveAt' <= clock,
         scenario.timeout > 0 => (t.consumed \/ t.start >= liveAt')
  PROVE  TrackerInv'
<1>1. /\ scenario.timeout \in Nat /\ scenario.count \in Nat /\ clock \in Nat
      /\ TrackerDefinition(scenario)
  BY DEF TrackerInv, TrackerDefinition
<1>2. t.start \in Int /\ t.consumed \in BOOLEAN /\ t.count \in Nat
  BY DEF Tracker
<1>3. PICK n : n = [t EXCEPT !.start = clock]
  OBVIOUS
<1>4. n \in Tracker /\ n.start = clock /\ n.count = t.count
  BY <1>1, <1>3 DEF Tracker
<1>5. /\ tracker' = IF scenario.timeout > 0 /\ t.consumed THEN n ELSE t
      /\ looping' = ~(AtTimeout(t) \/ AtCount(t))
  BY <1>3 DEF UpdateStatus
<1>6. tracker' \in Tracker /\ tracker'.count = t.count
  BY <1>4, <1>5
<1>7. scenario.timeout > 0 => tracker'.start >= liveAt'
  BY <1>1, <1>2, <1>4, <1>5
<1>8. StopsWhenDue'
  <2>1. AtCount(t) <=> scenario.count > 0 /\ tracker'.count >= scenario.count
    BY <1>6 DEF AtCount
  <2>2. AtTimeout(t) => scenario.timeout > 0 /\ clock - liveAt' >= scenario.timeout
    BY <1>1, <1>2 DEF AtTimeout
  <2>3. tracker'.count \in Nat
    BY <1>6 DEF Tracker
  <2>4. looping' => (scenario.count > 0 => tracker'.count < scenario.count)
    <3>1. looping' => ~AtCount(t)
      BY <1>5, Zenon
    <3> QED BY <1>1, <2>1, <2>3, <3>1
  <2>5. ~looping' => \/ scenario.timeout > 0 /\ clock - liveAt' >= scenario.timeout
                     \/ scenario.count > 0 /\ tracker'.count >= scenario.count
    <3>1. ~looping' => AtTimeout(t) \/ AtCount(t)
      BY <1>5, Zenon
    <3> QED BY <2>1, <2>2, <3>1
  <2> QED BY <2>4, <2>5 DEF StopsWhenDue, Tracking
<1>9. looping' \in BOOLEAN
  BY <1>5
<1> QED BY <1>1, <1>6, <1>7, <1>8, <1>9 DEF TrackerInv, Tracking

\* Iterations, recoveries and the passing of time keep the invariant of the tracker.
LEMMA TrackerStep ==
  ASSUME TrackerInv, UNCHANGED scenario, (Tracking /\ TrackerNext) \/ UNCHANGED trackerVars
  PROVE  TrackerInv'
<1>1. CASE UNCHANGED trackerVars
  BY <1>1 DEF TrackerInv, trackerVars, StopsWhenDue, Tracking
<1> SUFFICES ASSUME Tracking, TrackerNext PROVE TrackerInv'
  BY <1>1
<1>2. /\ tracker \in Tracker /\ clock \in Nat /\ liveAt \in Nat /\ liveAt <= clock
      /\ scenario.timeout \in Nat /\ scenario.count \in Nat
      /\ scenario.timeout > 0 => tracker.start >= liveAt
      /\ TrackerDefinition(scenario)
  BY DEF TrackerInv, TrackerDefinition
<1>3. tracker.start \in Int /\ tracker.consumed \in BOOLEAN /\ tracker.count \in Nat
  BY <1>2 DEF Tracker
<1>4. PICK r : r = Refresh(tracker)
  OBVIOUS
<1>5. r \in Tracker /\ r.start = clock /\ r.count = tracker.count
  BY <1>2, <1>4 DEF Refresh, Tracker
<1>6. CASE PollNothing
  <2>1. PICK assigned \in BOOLEAN :
           /\ UpdateStatus([(IF assigned THEN Refresh(tracker) ELSE tracker)
                              EXCEPT !.consumed = FALSE])
           /\ liveAt' = IF assigned THEN clock ELSE liveAt
    BY <1>6 DEF PollNothing
  <2>2. PICK b : b = IF assigned THEN r ELSE tracker
    OBVIOUS
  <2>3. b \in Tracker
    BY <1>2, <1>5, <2>2
  <2>4. PICK t : t = [b EXCEPT !.consumed = FALSE]
    OBVIOUS
  <2>5. t \in Tracker /\ t.start = b.start
    BY <2>3, <2>4 DEF Tracker
  <2>6. UpdateStatus(t)
    BY <1>4, <2>1, <2>2, <2>4
  <2>7. liveAt' \in Nat /\ liveAt' <= clock
    BY <1>2, <2>1
  <2>8. scenario.timeout > 0 => t.start >= liveAt'
    BY <1>2, <1>5, <2>1, <2>2, <2>5
  <2>9. looping /\ clock' = clock
    BY <1>6 DEF PollNothing
  <2> QED BY <2>5, <2>6, <2>7, <2>8, <2>9, UpdateKeeps
<1>7. CASE PollMessage
  <2>1. PICK outputs \in 0..2 :
           UpdateStatus([tracker EXCEPT !.consumed = TRUE, !.count = @ + outputs])
    BY <1>7 DEF PollMessage
  <2>2. looping /\ clock' = clock /\ liveAt' = clock
    BY <1>7 DEF PollMessage
  <2>3. PICK k \in Nat : k = tracker.count + outputs
    BY <1>3
  <2>4. PICK b : b = [tracker EXCEPT !.consumed = TRUE]
    OBVIOUS
  <2>5. b \in Tracker /\ b.consumed = TRUE /\ b.count = tracker.count
    BY <1>2, <2>4 DEF Tracker
  <2>6. PICK t : t = [b EXCEPT !.count = k]
    OBVIOUS
  <2>7. t \in Tracker /\ t.consumed = TRUE
    BY <2>5, <2>6 DEF Tracker
  <2>8. t = [tracker EXCEPT !.consumed = TRUE, !.count = @ + outputs]
    BY <1>2, <2>3, <2>4, <2>6 DEF Tracker
  <2>9. UpdateStatus(t)
    BY <2>1, <2>8
  <2>10. liveAt' \in Nat /\ liveAt' <= clock
    BY <1>2, <2>2
  <2> QED BY <2>2, <2>7, <2>9, <2>10, UpdateKeeps
<1>8. CASE PollEmpty
  <2>1. looping /\ clock' = clock /\ liveAt' = liveAt /\ UpdateStatus(tracker)
    BY <1>8 DEF PollEmpty
  <2>2. liveAt' \in Nat /\ liveAt' <= clock
    BY <1>2, <2>1
  <2>3. scenario.timeout > 0 => tracker.start >= liveAt'
    BY <1>2, <2>1
  <2>4. PICK t \in Tracker : t = tracker
    BY <1>2
  <2>5. UpdateStatus(t) /\ (scenario.timeout > 0 => t.start >= liveAt')
    BY <2>1, <2>3, <2>4
  <2> QED BY <2>1, <2>2, <2>5, UpdateKeeps
<1>9. CASE Recover
  <2>1. looping /\ clock' = clock /\ liveAt' = clock /\ tracker' = r /\ looping' = looping
    BY <1>4, <1>9 DEF Recover
  <2>2. scenario.count > 0 => tracker.count < scenario.count
    BY <2>1 DEF TrackerInv, StopsWhenDue
  <2> QED BY <1>2, <1>5, <2>1, <2>2 DEF TrackerInv, StopsWhenDue, Tracking
<1>10. CASE TimePasses
  <2>1. looping /\ clock' = clock + 1 /\ UNCHANGED <<tracker, looping, liveAt>>
    BY <1>10 DEF TimePasses
  <2> QED BY <1>2, <2>1 DEF TrackerInv, StopsWhenDue, Tracking
<1> QED BY <1>6, <1>7, <1>8, <1>9, <1>10 DEF TrackerNext

-----------------------------------------------------------------------------
\* A client has probed in vain, so the brokers could not be reached then.
BrokerInv ==
    /\ seconds \in Nat /\ reachable \in BOOLEAN /\ lastDown \in Int
    /\ probed \in [Instance -> Int] /\ since \in [Instance -> Int]
    /\ Probing => BrokerDefinition(scenario)
    /\ lastDown \in -1..seconds
    /\ ~reachable => lastDown = seconds
    /\ \A c \in Instance : probed[c] # Never => probed[c] \in 0..lastDown
    /\ GivesUpWhenUnreachable

\* Neither the brokers nor the clients break it: without a probe that is due, the last one
\* is less than an interval ago.
LEMMA BrokerStep ==
  ASSUME BrokerInv, UNCHANGED scenario, (Probing /\ BrokerNext) \/ UNCHANGED brokerVars
  PROVE  BrokerInv'
<1>1. CASE UNCHANGED brokerVars
  BY <1>1 DEF BrokerInv, brokerVars, GivesUpWhenUnreachable, Probing
<1> SUFFICES ASSUME Probing, BrokerNext PROVE BrokerInv'
  BY <1>1
<1>2. /\ seconds \in Nat /\ reachable \in BOOLEAN /\ lastDown \in Int
      /\ probed \in [Instance -> Int] /\ since \in [Instance -> Int]
      /\ lastDown \in -1..seconds /\ (~reachable => lastDown = seconds)
      /\ \A c \in Instance : probed[c] # Never => probed[c] \in 0..lastDown
  BY DEF BrokerInv
<1>3. scenario.probe \in Nat \ {0} /\ BrokerDefinition(scenario)
  BY DEF BrokerInv, BrokerDefinition
<1>4. CASE BrokersChange
  <2>1. /\ UNCHANGED <<seconds, since, probed, unavailable>> /\ unavailable = NoInstance
        /\ reachable' = ~reachable /\ lastDown' = IF reachable THEN seconds ELSE lastDown
    BY <1>4 DEF BrokersChange
  <2> QED BY <1>2, <1>3, <2>1 DEF BrokerInv, GivesUpWhenUnreachable, Probing
<1>5. CASE SecondsPass
  <2>1. /\ UNCHANGED <<reachable, since, probed, unavailable>> /\ unavailable = NoInstance
        /\ seconds' = seconds + 1 /\ lastDown' = IF reachable THEN lastDown ELSE seconds + 1
    BY <1>5 DEF SecondsPass
  <2>2. \A c \in Instance : probed[c] # Never => probed[c] \in 0..lastDown'
    BY <1>2, <2>1
  <2> QED BY <1>2, <1>3, <2>1, <2>2 DEF BrokerInv, GivesUpWhenUnreachable, Probing
<1>6. CASE Contact
  <2>1. UNCHANGED <<reachable, seconds, unavailable, lastDown>>
    BY <1>6 DEF Contact
  <2>2. PICK clients : Available(clients)
    BY <1>6 DEF Contact
  <2>3. /\ probed' \in [Instance -> Int] /\ since' \in [Instance -> Int]
        /\ \A c \in Instance : probed'[c] \in {Never, probed[c]}
    BY <1>2, <2>2 DEF Available, Never
  <2> QED BY <1>2, <1>3, <2>1, <2>3 DEF BrokerInv, GivesUpWhenUnreachable, Probing
<1>7. ASSUME NEW c \in Instance, AllBrokersDown(c) PROVE BrokerInv'
  <2>1. UNCHANGED <<reachable, seconds, probed, unavailable, lastDown>>
    BY <1>7 DEF AllBrokersDown
  <2>2. since' \in [Instance -> Int]
    BY <1>2, <1>7 DEF AllBrokersDown
  <2> QED BY <1>2, <1>3, <2>1, <2>2 DEF BrokerInv, GivesUpWhenUnreachable, Probing
<1>8. ASSUME NEW c \in Instance, CheckBrokers(c) PROVE BrokerInv'
  <2>1. UNCHANGED <<reachable, seconds, lastDown>> /\ unavailable = NoInstance
    BY <1>8 DEF CheckBrokers
  <2>2. CASE ProbeDue(c) /\ reachable
    <3>1. Available({c}) /\ unavailable' = unavailable
      BY <1>8, <2>2 DEF CheckBrokers
    <3>2. /\ probed' \in [Instance -> Int] /\ since' \in [Instance -> Int]
          /\ \A d \in Instance : probed'[d] \in {Never, probed[d]}
      BY <1>2, <3>1 DEF Available, Never
    <3> QED BY <1>2, <1>3, <2>1, <3>1, <3>2 DEF BrokerInv, GivesUpWhenUnreachable, Probing
  <2>3. CASE ~(ProbeDue(c) /\ reachable)
    <3>1. /\ probed' = IF ProbeDue(c) THEN [probed EXCEPT ![c] = seconds] ELSE probed
          /\ since' = since
      BY <1>8, <2>3 DEF CheckBrokers
    <3>2. /\ probed' \in [Instance -> Int]
          /\ \A d \in Instance : probed'[d] # Never => probed'[d] \in 0..lastDown
      BY <1>2, <2>3, <3>1
    <3>3. lastDown # Never /\ seconds - lastDown < scenario.probe
      <4>1. CASE ~reachable
        BY <1>2, <1>3, <4>1 DEF Never
      <4>2. CASE ~ProbeDue(c)
        <5>1. probed[c] # Never /\ ~(seconds - probed[c] >= scenario.probe)
          BY <4>2 DEF ProbeDue
        <5>2. probed[c] \in Int /\ probed[c] \in 0..lastDown
          BY <1>2, <5>1
        <5> QED BY <1>2, <1>3, <5>1, <5>2 DEF Never
      <4> QED BY <2>3, <4>1, <4>2
    <3> QED BY <1>2, <1>3, <2>1, <3>1, <3>2, <3>3 DEF BrokerInv, GivesUpWhenUnreachable, Probing
  <2> QED BY <2>2, <2>3
<1> QED BY <1>4, <1>5, <1>6, <1>7, <1>8 DEF BrokerNext

-----------------------------------------------------------------------------
\* The tracker and the clients keep their invariants.
LEMMA EndsInvariant == Spec => [](TrackerInv /\ BrokerInv)
<1>1. Init => TrackerInv /\ BrokerInv
  <2> SUFFICES ASSUME Init PROVE TrackerInv /\ BrokerInv
    OBVIOUS
  <2>1. /\ Tracking => TrackerDefinition(scenario)
        /\ Probing => BrokerDefinition(scenario)
    BY ScenariosAssumption DEF Init, Tracking, Probing, TrackerDefinition, BrokerDefinition,
       ExactlyOnceDefinition, ReplicatorDefinition, ProcessDefinition, ConnectorDefinition,
       SinkDefinition, GraphDefinition, TopicsDefinition
  <2>2. TrackerInv
    <3>1. /\ tracker = [start |-> 2, consumed |-> FALSE, count |-> 0] /\ clock = 0
          /\ looping = TRUE /\ liveAt = 0
      BY DEF Init, TrackerInit, Allowance
    <3>2. tracker \in Tracker /\ tracker.start = 2 /\ tracker.count = 0
      BY <3>1 DEF Tracker
    <3> QED BY <2>1, <3>1, <3>2 DEF TrackerInv, StopsWhenDue
  <2>3. BrokerInv
    BY <2>1 DEF Init, BrokerInit, BrokerInv, GivesUpWhenUnreachable, Never
  <2> QED BY <2>2, <2>3
<1>2. TrackerInv /\ BrokerInv /\ [Next]_applicationVars => (TrackerInv /\ BrokerInv)'
  <2> SUFFICES ASSUME TrackerInv, BrokerInv, [Next]_applicationVars
               PROVE  (TrackerInv /\ BrokerInv)'
    OBVIOUS
  <2>1. /\ UNCHANGED scenario
        /\ (Tracking /\ TrackerNext) \/ UNCHANGED trackerVars
        /\ (Probing /\ BrokerNext) \/ UNCHANGED brokerVars
    BY Zenon DEF Next, applicationVars, BesidesExactlyOnce, BesidesReplicator, BesidesProcesses,
       BesidesConnector, BesidesTracker, BesidesBroker, BesidesSink, BesidesGraph, BesidesTopics
  <2> QED BY <2>1, TrackerStep, BrokerStep
<1> QED BY <1>1, <1>2, PTL DEF Spec

\* An application stops when its timeout or its count is reached, and not before, and
\* gives up on the brokers only if they were out of reach within the last probe interval.
THEOREM EndsWhenDueHolds == Spec => []EndsWhenDue
<1>1. TrackerInv /\ BrokerInv => EndsWhenDue
  BY DEF TrackerInv, BrokerInv, EndsWhenDue
<1> QED BY <1>1, EndsInvariant, PTL

-----------------------------------------------------------------------------
(* Greatest elements. *)

\* A finite set of integers has a greatest one.
LEMMA FiniteMax ==
  ASSUME NEW B, B \subseteq Int, IsFiniteSet(B), B # {}
  PROVE  Max(B) \in B /\ \A m \in B : m <= Max(B)
<1> DEFINE above(n) == {x \in B : x > n}
<1> DEFINE C == {above(n) : n \in B}
<1>1. C \subseteq FiniteSubsetsOf(B) /\ C # {}
  <2>1. \A n \in B : above(n) \in SUBSET B
    OBVIOUS
  <2>2. C \subseteq SUBSET B /\ C # {}
    BY <2>1
  <2> QED BY <2>2, FS_FiniteSubsetsOfFinite
<1>2. IsWellFoundedOn(StrictSubsetOrdering(B), FiniteSubsetsOf(B))
  BY FS_StrictSubsetOrderingWellFounded
<1>3. PICK T \in C : \A U \in C : ~ (<<U, T>> \in StrictSubsetOrdering(B))
  <2> HIDE DEF C
  <2> QED BY <1>1, <1>2, WFMin, Zenon
<1>4. PICK n \in B : T = above(n)
  BY <1>3
<1>5. \A m \in B : m <= n
  <2> SUFFICES ASSUME NEW m \in B, m > n PROVE FALSE
    OBVIOUS
  <2>3. m \in Int /\ n \in Int /\ \A x \in B : x \in Int
    OBVIOUS
  <2>4. above(m) \in C
    OBVIOUS
  <2>5. above(m) \subseteq above(n)
    <3> SUFFICES ASSUME NEW x \in B, x > m PROVE x > n
      OBVIOUS
    <3> QED BY <2>3
  <2>6. m \in above(n) /\ m \notin above(m)
    BY <2>3
  <2>1. above(m) \in C /\ above(m) \subseteq above(n) /\ above(m) # above(n)
    BY <2>4, <2>5, <2>6
  <2>2. above(m) \in SUBSET B /\ above(n) \in SUBSET B
    OBVIOUS
  <2> HIDE DEF above
  <2>7. <<above(m), above(n)>> \in StrictSubsetOrdering(B)
    BY <2>1, <2>2 DEF StrictSubsetOrdering
  <2> QED BY <1>3, <1>4, <2>1, <2>7, Zenon
<1>6. \A m \in B : n >= m
  BY <1>5
<1>7. Max(B) \in B /\ \A m \in B : Max(B) >= m
  BY <1>6, Zenon DEF Max
<1> QED BY <1>7

-----------------------------------------------------------------------------
(* The plan *)

\* What a topic keeps: -1 and more.
Retention == {n \in Int : n >= Infinite}

\* The topics that the calls before this one define.
Before(s, k) == {s.plan[j].name : j \in 1..k - 1}

\* Only topics that the program names are there before the first instance runs.
NewInternals(s) == \A k \in DOMAIN s.plan : s.plan[k].name \in DOMAIN s.given =>
   s.plan[k].op = "topic"

\* The changelog of a store has the partitions of the topics that the store is for, as
\* its instance knows them.
StoreFits(s, topics, known, store) ==
    /\ \E k \in DOMAIN s.plan : s.plan[k].op = "changelog" /\ s.plan[k].name = store.changelog
    /\ store.changelog \in DOMAIN topics
    /\ store.topics \subseteq DOMAIN known
    /\ \A t \in store.topics : topics[store.changelog].partitions = known[t].partitions

\* A changelog is asked for only for topics that have the same partitions.
AsksOK(s, u) ==
    s.plan[u.at].op = "changelog" => Copartitioned({u.known[t] : t \in s.plan[u.at].topics})

\* What an instance knows is what the calls before have given it, and it asks only for
\* changelogs of topics that have the same partitions.
SetupOK(s, topics, u) ==
    /\ u = [pc |-> u.pc, at |-> u.at, known |-> u.known, stores |-> u.stores]
    /\ u.pc \in {"define", "create", "asked", "fetch", "failed", "runs"}
    /\ u.at \in 1..Len(s.plan) + 1
    /\ u.pc # "runs" => u.at <= Len(s.plan)
    /\ u.known \in [Before(s, u.at) -> TopicConfig]
    /\ u.pc \in {"create", "asked", "fetch"} => AsksOK(s, u)
    /\ u.pc = "fetch" => s.plan[u.at].name \in DOMAIN topics
    /\ \A store \in u.stores : StoreFits(s, topics, u.known, store)

\* A retention for each topic that has been thought of.
Assigned(s, ret) ==
    /\ ret \in [DOMAIN ret -> Retention]
    /\ \A k \in DOMAIN s.plan : s.plan[k].name \in DOMAIN ret =>
          IF s.plan[k].op = "topic"
          THEN ret[s.plan[k].name] = IF s.plan[k].name \in DOMAIN s.given
                                     THEN s.given[s.plan[k].name].retention
                                     ELSE s.plan[k].config.retention
          ELSE /\ s.plan[k].topics \subseteq DOMAIN ret
               /\ ret[s.plan[k].name] = MaxRetention({ret[t] : t \in s.plan[k].topics})

\* Topics have that retention, at the broker and as an instance knows them.
Retained(topics, ret) == \A t \in DOMAIN topics : t \in DOMAIN ret /\ topics[t].retention = ret[t]

\* There are such retentions of what the broker has and what the instances know.
Retentions(s, topics, all) ==
    \E ret : Assigned(s, ret) /\ Retained(topics, ret) /\ \A i \in Instance :
       Retained(all[i].known, ret)

\* The same with what an instance comes to know.
RetentionsWith(s, topics, all, u) ==
    \E ret : /\ Assigned(s, ret) /\ Retained(topics, ret) /\ Retained(u.known, ret)
            /\ \A i \in Instance : Retained(all[i].known, ret)

\* What the broker has and what the instances know fit; their retentions do when no
\* internal topic was there before.
TopicsRight(s, topics, all) ==
    /\ topics \in [DOMAIN topics -> TopicConfig]
    /\ DOMAIN s.given \subseteq DOMAIN topics
    /\ DOMAIN all = Instance
    /\ \A i \in Instance : SetupOK(s, topics, all[i])
    /\ NewInternals(s) => Retentions(s, topics, all)

\* That is so while instances prepare their topics.
TopicsInv == Preparing => TopicsDefinition(scenario) /\ TopicsRight(scenario, broker, setups)

\* The values of a field in a finite set of records are finitely many.
LEMMA FiniteImage ==
  ASSUME NEW T, IsFiniteSet(T), NEW f, T \subseteq DOMAIN f
  PROVE  IsFiniteSet({f[t] : t \in T})
<1>1. [t \in T |-> f[t]] \in Surjection(T, {f[t] : t \in T})
  BY DEF Surjection
<1> QED BY <1>1, FS_Surjection

\* The topics of a call are finitely many, and defined before.
LEMMA TopicsBefore ==
  ASSUME NEW s, TopicsDefinition(s), NEW k \in 1..Len(s.plan)
  PROVE  s.plan[k].topics \subseteq Before(s, k) /\ IsFiniteSet(s.plan[k].topics)
<1>1. s.plan[k].topics \subseteq Before(s, k)
  BY DEF TopicsDefinition, Before
<1>2. k - 1 \in Int /\ 1 \in Int
  BY DEF TopicsDefinition
<1>3. IsFiniteSet(1..k - 1)
  BY <1>2, FS_Interval
<1>4. PICK I : I = 1..k - 1
  OBVIOUS
<1> DEFINE f == [j \in I |-> s.plan[j].name]
<1>5. I \subseteq DOMAIN f
  OBVIOUS
<1>6. IsFiniteSet({f[j] : j \in I})
  <2> HIDE DEF f
  <2> QED BY <1>3, <1>4, <1>5, FiniteImage
<1>7. {f[j] : j \in I} = Before(s, k)
  BY <1>4 DEF Before
<1> QED BY <1>1, <1>6, <1>7, FS_Subset, Zenon

\* What is written for a topic, and what is left.
LEMMA WithTopicIs ==
  ASSUME NEW topics, NEW name, NEW config
  PROVE  /\ DOMAIN WithTopic(topics, name, config) = DOMAIN topics \cup {name}
         /\ WithTopic(topics, name, config)[name] = config
         /\ \A t \in DOMAIN topics \ {name} : WithTopic(topics, name, config)[t] = topics[t]
BY DEF WithTopic

\* The largest partition count, and retention, of topics.
LEMMA DerivedIs ==
  ASSUME NEW T, IsFiniteSet(T), T # {}, NEW known, T \subseteq DOMAIN known,
         \A t \in T : known[t] \in TopicConfig
  PROVE  /\ DerivedConfig({known[t] : t \in T}) \in TopicConfig
         /\ DerivedConfig({known[t] : t \in T}).retention = MaxRetention({known[t].retention :
               t \in T})
         /\ Copartitioned({known[t] : t \in T}) =>
               \A e \in T : known[e].partitions = DerivedConfig({known[t] : t \in T}).partitions
<1> DEFINE P == {known[t].partitions : t \in T}
<1> DEFINE R == {known[t].retention : t \in T}
<1> DEFINE c == DerivedConfig({known[t] : t \in T})
<1>1. /\ {e.partitions : e \in {known[t] : t \in T}} = P
      /\ {e.retention : e \in {known[t] : t \in T}} = R
  OBVIOUS
<1>2. IsFiniteSet(P) /\ IsFiniteSet(R)
  <2> DEFINE p == [t \in T |-> known[t].partitions]
  <2> DEFINE q == [t \in T |-> known[t].retention]
  <2>1. DOMAIN p = T /\ DOMAIN q = T
    OBVIOUS
  <2>2. P = {p[t] : t \in T} /\ R = {q[t] : t \in T}
    OBVIOUS
  <2> HIDE DEF p, q, P, R
  <2>3. IsFiniteSet({p[t] : t \in T}) /\ IsFiniteSet({q[t] : t \in T})
    BY <2>1, FiniteImage
  <2> QED BY <2>2, <2>3
<1>3. P \subseteq 1..MaxPartitions /\ P # {} /\ R \subseteq Retention /\ R # {}
  BY DEF TopicConfig, Retention
<1>4. /\ c.partitions = Max(P) /\ c.retention = MaxRetention(R)
      /\ c = [partitions |-> Max(P), retention |-> MaxRetention(R)]
  BY <1>1, Zenon DEF DerivedConfig
<1>5. Max(P) \in 1..MaxPartitions
  <2> HIDE DEF P
  <2>1. P \subseteq Int
    BY <1>3 DEF MaxPartitions
  <2> QED BY <1>2, <1>3, <2>1, FiniteMax
<1>6. MaxRetention(R) \in Retention
  <2> HIDE DEF R
  <2>1. R \subseteq Int
    BY <1>3 DEF Retention
  <2>2. Max(R) \in R
    BY <1>2, <1>3, <2>1, FiniteMax
  <2> QED BY <1>3, <2>2 DEF MaxRetention, Retention
<1>7. c \in TopicConfig
  BY <1>4, <1>5, <1>6 DEF TopicConfig, Retention
<1>8. ASSUME Copartitioned({known[t] : t \in T}), NEW e \in T
      PROVE  known[e].partitions = c.partitions
  <2>1. Cardinality(P) = 1
    BY <1>1, <1>8, Zenon DEF Copartitioned
  <2>2. known[e].partitions \in P
    OBVIOUS
  <2> HIDE DEF P
  <2>3. P \subseteq Int
    BY <1>3 DEF MaxPartitions
  <2>4. Max(P) \in P
    BY <1>2, <1>3, <2>3, FiniteMax
  <2>5. PICK n : P = {n}
    BY <1>2, <2>1, FS_Singleton
  <2> QED BY <1>4, <2>2, <2>4, <2>5
<1> QED BY <1>4, <1>7, <1>8

-----------------------------------------------------------------------------
(* Steps *)

\* What the call of an instance names, and what it creates.
LEMMA CallOK ==
  ASSUME TopicsInv, Preparing, NEW i \in Instance, setups[i].pc # "runs"
  PROVE  /\ setups[i].at \in 1..Len(scenario.plan)
         /\ Step(i).topics \subseteq DOMAIN setups[i].known
         /\ CreateConfig(i) \in TopicConfig
         /\ Step(i).op = "topic" => CreateConfig(i).retention = Step(i).config.retention
         /\ Step(i).op # "topic" =>
               /\ CreateConfig(i).retention = MaxRetention({setups[i].known[t].retention :
                     t \in Step(i).topics})
               /\ Copartitioned(Known(i, Step(i).topics)) =>
                     \A t \in Step(i).topics :
                        setups[i].known[t].partitions = CreateConfig(i).partitions
<1>1. TopicsDefinition(scenario) /\ SetupOK(scenario, broker, setups[i])
  BY DEF TopicsInv, TopicsRight
<1>2. PICK k \in 1..Len(scenario.plan) : k = setups[i].at
  <2>1. setups[i].at \in 1..Len(scenario.plan) + 1 /\ setups[i].at <= Len(scenario.plan)
    BY <1>1 DEF SetupOK
  <2> QED BY <1>1, <2>1 DEF TopicsDefinition
<1>3. PICK known : known = setups[i].known
  OBVIOUS
<1>4. known \in [Before(scenario, k) -> TopicConfig]
  BY <1>1, <1>2, <1>3 DEF SetupOK
<1>5. PICK T : T = scenario.plan[k].topics
  OBVIOUS
<1>6. Step(i) = scenario.plan[k] /\ Step(i).topics = T
  BY <1>2, <1>5 DEF Step
<1>7. T \subseteq DOMAIN known /\ IsFiniteSet(T)
  BY <1>1, <1>4, <1>5, TopicsBefore
<1>8. Known(i, T) = {known[t] : t \in T}
  BY <1>3 DEF Known
<1>9. /\ Step(i).config \in TopicConfig
      /\ Step(i).op # "topic" => T # {}
  BY <1>1, <1>5, <1>6 DEF TopicsDefinition
<1>10. CASE Step(i).op = "topic"
  <2>1. CreateConfig(i) = Step(i).config
    BY <1>10, Zenon DEF CreateConfig
  <2> QED BY <1>2, <1>3, <1>6, <1>7, <1>9, <1>10, <2>1
<1>11. CASE Step(i).op # "topic"
  <2>1. CreateConfig(i) = DerivedConfig({known[t] : t \in T})
    BY <1>6, <1>8, <1>11, Zenon DEF CreateConfig
  <2>2. \A t \in T : known[t] \in TopicConfig
    BY <1>4, <1>7
  <2>3. /\ DerivedConfig({known[t] : t \in T}) \in TopicConfig
        /\ DerivedConfig({known[t] : t \in T}).retention = MaxRetention({known[t].retention :
              t \in T})
        /\ Copartitioned({known[t] : t \in T}) =>
              \A e \in T : known[e].partitions = DerivedConfig({known[t] : t \in T}).partitions
    BY <1>7, <1>9, <1>11, <2>2, DerivedIs
  <2> QED BY <1>2, <1>3, <1>6, <1>7, <1>8, <1>11, <2>1, <2>3, Zenon
<1> QED BY <1>10, <1>11

\* One more topic, and the retention that a topic has that is created.
Adds(ret, all, name) == DOMAIN all = DOMAIN ret \cup {name} /\ \A t \in DOMAIN ret : all[t] = ret[t]

\* What the call of an instance creates has the retention that is assigned.
CreatedWith(i, all) ==
    Step(i).op # "topic" \/ Step(i).name \notin DOMAIN broker =>
        all[Step(i).name] = CreateConfig(i).retention

\* The topic of a call has a retention, with which it is created.
LEMMA RetentionThere ==
  ASSUME TopicsInv, NewInternals(scenario), Preparing, NEW i \in Instance, setups[i].pc # "runs",
         NEW ret, Assigned(scenario, ret), Retained(broker, ret), Retained(setups[i].known, ret)
  PROVE  \E all : Assigned(scenario, all) /\ Adds(ret, all, Step(i).name) /\ CreatedWith(i, all)
<1>1. PICK k \in 1..Len(scenario.plan) : k = setups[i].at
  BY CallOK
<1>2. TopicsDefinition(scenario) /\ DOMAIN scenario.given \subseteq DOMAIN broker
  BY DEF TopicsInv, TopicsRight
<1>3. PICK name, T, known : name = Step(i).name /\ T = Step(i).topics /\ known = setups[i].known
  OBVIOUS
<1>4. Step(i) = scenario.plan[k] /\ k \in DOMAIN scenario.plan
  BY <1>1, <1>2 DEF Step, TopicsDefinition
<1>5. \A t \in DOMAIN known : t \in DOMAIN ret /\ known[t].retention = ret[t]
  BY <1>3 DEF Retained
<1>6. T \subseteq DOMAIN known /\ T \subseteq DOMAIN ret
  BY <1>3, <1>5, CallOK
<1>7. {known[t].retention : t \in T} = {ret[t] : t \in T}
  BY <1>5, <1>6
<1>8. Step(i).op # "topic" => CreateConfig(i).retention = MaxRetention({ret[t] : t \in T})
  <2>1. {setups[i].known[t].retention : t \in Step(i).topics} = {ret[t] : t \in T}
    BY <1>3, <1>7
  <2>2. Step(i).op # "topic" =>
           CreateConfig(i).retention = MaxRetention({setups[i].known[t].retention :
              t \in Step(i).topics})
    BY CallOK
  <2> QED BY <2>1, <2>2
<1>9. name \in DOMAIN scenario.given => name \in DOMAIN broker
  BY <1>2
<1>10. name \in DOMAIN broker => name \in DOMAIN ret
  BY DEF Retained
<1>11. CASE name \in DOMAIN ret
  <2>1. Step(i).op # "topic" => ret[name] = MaxRetention({ret[t] : t \in T})
    BY <1>3, <1>4, <1>11, Zenon DEF Assigned
  <2>2. Step(i).op = "topic" /\ name \notin DOMAIN broker => ret[name] = Step(i).config.retention
    BY <1>3, <1>4, <1>9, <1>11, Zenon DEF Assigned
  <2>3. Step(i).op # "topic" \/ name \notin DOMAIN broker => ret[name] = CreateConfig(i).retention
    BY <1>8, <2>1, <2>2, CallOK, Zenon
  <2>4. DOMAIN ret = DOMAIN ret \cup {name}
    BY <1>11
  <2> QED BY <1>3, <2>3, <2>4, Zenon DEF Adds, CreatedWith
<1>12. CASE name \notin DOMAIN ret
  <2>1. PICK v : v = CreateConfig(i).retention
    OBVIOUS
  <2>2. v \in Retention
    BY <2>1, CallOK DEF TopicConfig, Retention
  <2>3. PICK all : all = WithTopic(ret, name, v)
    OBVIOUS
  <2>4. /\ DOMAIN all = DOMAIN ret \cup {name} /\ all[name] = v
        /\ \A t \in DOMAIN ret : all[t] = ret[t]
    <3>1. /\ DOMAIN WithTopic(ret, name, v) = DOMAIN ret \cup {name}
          /\ WithTopic(ret, name, v)[name] = v
          /\ \A t \in DOMAIN ret \ {name} : WithTopic(ret, name, v)[t] = ret[t]
      BY DEF WithTopic
    <3>2. DOMAIN ret \ {name} = DOMAIN ret
      BY <1>12
    <3> QED BY <2>3, <3>1, <3>2
  <2>5. all \in [DOMAIN all -> Retention]
    <3>1. \A t \in DOMAIN all : all[t] \in Retention
      BY <2>2, <2>4 DEF Assigned
    <3>2. all = [t \in DOMAIN all |-> all[t]]
      BY <2>3 DEF WithTopic
    <3> QED BY <3>1, <3>2
  <2>6. ASSUME NEW j \in DOMAIN scenario.plan, scenario.plan[j].name \in DOMAIN all
        PROVE  IF scenario.plan[j].op = "topic"
               THEN all[scenario.plan[j].name] = IF scenario.plan[j].name \in DOMAIN scenario.given
                                                 THEN scenario.given[scenario.plan[j].name].retention
                                                 ELSE scenario.plan[j].config.retention
               ELSE /\ scenario.plan[j].topics \subseteq DOMAIN all
                    /\ all[scenario.plan[j].name] = MaxRetention({all[t] :
                          t \in scenario.plan[j].topics})
    <3>1. CASE scenario.plan[j].name = name
      <4>1. j = k
        BY <1>2, <1>3, <1>4, <3>1 DEF TopicsDefinition
      <4>2. name \notin DOMAIN scenario.given
        BY <1>9, <1>10, <1>12
      <4>3. {all[t] : t \in T} = {ret[t] : t \in T}
        BY <1>6, <2>4
      <4>4. Step(i).op = "topic" => all[name] = Step(i).config.retention
        BY <2>1, <2>4, CallOK
      <4>5. Step(i).op # "topic" => all[name] = MaxRetention({all[t] : t \in T})
        BY <1>8, <2>1, <2>4, <4>3, Zenon
      <4>6. T \subseteq DOMAIN all
        BY <1>6, <2>4
      <4> QED BY <1>3, <1>4, <4>1, <4>2, <4>4, <4>5, <4>6, Zenon
    <3>2. CASE scenario.plan[j].name # name
      <4>1. PICK n, U : n = scenario.plan[j].name /\ U = scenario.plan[j].topics
        OBVIOUS
      <4>2. n \in DOMAIN ret /\ all[n] = ret[n]
        BY <2>4, <2>6, <3>2, <4>1
      <4>3. IF scenario.plan[j].op = "topic"
            THEN ret[n] = IF n \in DOMAIN scenario.given THEN scenario.given[n].retention
                          ELSE scenario.plan[j].config.retention
            ELSE U \subseteq DOMAIN ret /\ ret[n] = MaxRetention({ret[t] : t \in U})
        BY <4>1, <4>2, Zenon DEF Assigned
      <4>4. U \subseteq DOMAIN ret =>
               {all[t] : t \in U} = {ret[t] : t \in U} /\ U \subseteq DOMAIN all
        BY <2>4
      <4> QED BY <4>1, <4>2, <4>3, <4>4, Zenon
    <3> QED BY <3>1, <3>2
  <2>7. Assigned(scenario, all)
    BY <2>5, <2>6, Zenon DEF Assigned
  <2> QED BY <1>3, <2>1, <2>4, <2>7, Zenon DEF Adds, CreatedWith
<1> QED BY <1>11, <1>12

\* Topics are added, and the partitions of changelogs stay.
Grows(s, topics, more) ==
    /\ DOMAIN topics \subseteq DOMAIN more
    /\ \A k \in DOMAIN s.plan : s.plan[k].op = "changelog" /\ s.plan[k].name \in DOMAIN topics =>
          more[s.plan[k].name].partitions = topics[s.plan[k].name].partitions

\* An instance keeps what it knows when topics are added.
LEMMA SetupKept ==
  ASSUME NEW s, NEW topics, NEW more, NEW u, SetupOK(s, topics, u), Grows(s, topics, more)
  PROVE  SetupOK(s, more, u)
<1>1. ASSUME NEW store \in u.stores
      PROVE  StoreFits(s, more, u.known, store)
  <2>1. StoreFits(s, topics, u.known, store)
    BY DEF SetupOK
  <2>2. more[store.changelog].partitions = topics[store.changelog].partitions
    BY <2>1 DEF StoreFits, Grows
  <2> QED BY <2>1, <2>2 DEF StoreFits, Grows
<1> QED BY <1>1 DEF SetupOK, Grows

\* An instance goes on with its call.
LEMMA GoesOK ==
  ASSUME NEW s, NEW topics, NEW u, SetupOK(s, topics, u), u.pc # "runs",
         NEW goal \in {"define", "create", "asked", "fetch", "failed"},
         goal \in {"create", "asked", "fetch"} => AsksOK(s, u),
         goal = "fetch" => s.plan[u.at].name \in DOMAIN topics,
         NEW v, v = [u EXCEPT !.pc = goal]
  PROVE  SetupOK(s, topics, v) /\ v.known = u.known
<1>2. /\ v.pc = goal /\ v.at = u.at /\ v.known = u.known /\ v.stores = u.stores
      /\ v = [pc |-> v.pc, at |-> v.at, known |-> v.known, stores |-> v.stores]
  BY DEF SetupOK
<1>3. SetupOK(s, topics, v)
  BY <1>2 DEF SetupOK, AsksOK
<1> QED BY <1>2, <1>3

\* An instance takes its next call, or runs.
LEMMA ConfiguredOK ==
  ASSUME NEW s, TopicsDefinition(s), NEW topics, NEW u, SetupOK(s, topics, u), u.pc # "runs",
         NEW call, call = s.plan[u.at], NEW config \in TopicConfig,
         call.op = "changelog" =>
            /\ call.name \in DOMAIN topics /\ topics[call.name].partitions = config.partitions
            /\ \A t \in call.topics : u.known[t].partitions = config.partitions,
         NEW v, v = [pc |-> IF u.at = Len(s.plan) THEN "runs" ELSE "define", at |-> u.at + 1,
                     known |-> WithTopic(u.known, call.name, config),
                     stores |-> u.stores \cup
                                (IF call.op = "changelog"
                                 THEN {[topics |-> call.topics, changelog |-> call.name]} ELSE {})]
  PROVE  SetupOK(s, topics, v)
<1>1. PICK l \in Nat \ {0} : l = Len(s.plan)
  BY DEF TopicsDefinition
<1>2. PICK k \in 1..l : k = u.at /\ call = s.plan[k] /\ k \in DOMAIN s.plan
  <2>1. u.at \in 1..l + 1 /\ u.at <= l
    BY <1>1 DEF SetupOK
  <2>2. DOMAIN s.plan = 1..l
    BY <1>1 DEF TopicsDefinition
  <2> QED BY <1>1, <2>1, <2>2
<1>3. PICK name, old, known :
              name = call.name /\ old = u.known /\ known = WithTopic(old, name, config)
  OBVIOUS
<1>4. old \in [Before(s, k) -> TopicConfig]
  BY <1>2, <1>3 DEF SetupOK
<1>5. name \notin Before(s, k)
  <2> SUFFICES ASSUME NEW j \in 1..k - 1, s.plan[j].name = name PROVE FALSE
    BY DEF Before
  <2>1. j \in DOMAIN s.plan /\ j # k
    BY <1>1, <1>2 DEF TopicsDefinition
  <2> QED BY <1>2, <1>3, <2>1 DEF TopicsDefinition
<1>6. Before(s, k + 1) = Before(s, k) \cup {name}
  <2>1. 1..(k + 1) - 1 = (1..k - 1) \cup {k}
    OBVIOUS
  <2> QED BY <1>2, <1>3, <2>1 DEF Before
<1>7. known \in [Before(s, k + 1) -> TopicConfig] /\ \A t \in DOMAIN old : known[t] = old[t]
  BY <1>3, <1>4, <1>5, <1>6 DEF WithTopic
<1>8. ASSUME NEW store \in v.stores
      PROVE  StoreFits(s, topics, known, store)
  <2>1. CASE store \in u.stores
    <3>1. StoreFits(s, topics, old, store)
      BY <1>3, <2>1 DEF SetupOK
    <3> QED BY <1>4, <1>6, <1>7, <3>1 DEF StoreFits
  <2>2. CASE store \notin u.stores
    <3>1. call.op = "changelog" /\ store = [topics |-> call.topics, changelog |-> call.name]
      BY <1>8, <2>2
    <3>2. store.topics = call.topics /\ store.changelog = name
      BY <1>3, <3>1
    <3>3. call.topics \subseteq DOMAIN old
      BY <1>1, <1>2, <1>4, TopicsBefore
    <3>4. \A t \in call.topics : known[t].partitions = config.partitions
      BY <1>3, <1>7, <3>1, <3>3
    <3>5. call.topics \subseteq DOMAIN known
      BY <1>4, <1>6, <1>7, <3>3
    <3>6. name \in DOMAIN topics /\ topics[name].partitions = config.partitions
      BY <1>3, <3>1
    <3> QED BY <1>2, <1>3, <3>1, <3>2, <3>4, <3>5, <3>6 DEF StoreFits
  <2> QED BY <2>1, <2>2
<1>9. v.pc \in {"define", "runs"} /\ v.at = k + 1 /\ v.known = known
  BY <1>2, <1>3
<1>10. v.at \in 1..l + 1 /\ (v.pc # "runs" => v.at <= l)
  BY <1>1, <1>2, <1>9
<1>11. v = [pc |-> v.pc, at |-> v.at, known |-> v.known, stores |-> v.stores]
  OBVIOUS
<1> QED BY <1>1, <1>7, <1>8, <1>9, <1>10, <1>11 DEF SetupOK

\* A step of an instance keeps the topics right.
LEMMA InstanceKeeps ==
  ASSUME TopicsInv, Preparing, scenario' = scenario, NEW i \in Instance, NEW v,
         setups' = [setups EXCEPT ![i] = v], broker' \in [DOMAIN broker' -> TopicConfig],
         Grows(scenario, broker, broker'), SetupOK(scenario, broker', v),
         NewInternals(scenario) => RetentionsWith(scenario, broker', setups, v)
  PROVE  TopicsInv'
<1>1. /\ TopicsDefinition(scenario) /\ DOMAIN setups = Instance
      /\ DOMAIN scenario.given \subseteq DOMAIN broker
      /\ \A j \in Instance : SetupOK(scenario, broker, setups[j])
  BY DEF TopicsInv, TopicsRight
<1>2. /\ DOMAIN setups' = Instance /\ setups'[i] = v
      /\ \A j \in Instance : j # i => setups'[j] = setups[j]
  BY <1>1
<1>3. \A j \in Instance : SetupOK(scenario, broker', setups'[j])
  <2> TAKE j \in Instance
  <2>1. SetupOK(scenario, broker', setups[j])
    BY <1>1, SetupKept
  <2> QED BY <1>2, <2>1
<1>4. ASSUME NewInternals(scenario) PROVE Retentions(scenario, broker', setups')
  <2>1. PICK ret : /\ Assigned(scenario, ret) /\ Retained(broker', ret) /\ Retained(v.known, ret)
                   /\ \A j \in Instance : Retained(setups[j].known, ret)
    BY <1>4 DEF RetentionsWith
  <2>2. \A j \in Instance : Retained(setups'[j].known, ret)
    BY <1>2, <2>1
  <2> QED BY <2>1, <2>2 DEF Retentions
<1>5. DOMAIN scenario.given \subseteq DOMAIN broker'
  BY <1>1 DEF Grows
<1>6. TopicsRight(scenario, broker', setups')
  BY <1>2, <1>3, <1>4, <1>5, Zenon DEF TopicsRight
<1> QED BY <1>1, <1>6 DEF TopicsInv

\* The parts of the invariant that are about one instance.
LEMMA SetupIs ==
  ASSUME TopicsInv, Preparing, NEW i \in Instance
  PROVE  /\ TopicsDefinition(scenario) /\ SetupOK(scenario, broker, setups[i])
         /\ DOMAIN setups = Instance
         /\ broker \in [DOMAIN broker -> TopicConfig]
         /\ Grows(scenario, broker, broker)
BY DEF TopicsInv, TopicsRight, Grows

\* A step within the call.
LEMMA GoesKeeps ==
  ASSUME TopicsInv, Preparing, scenario' = scenario, broker' = broker, NEW i \in Instance,
         setups[i].pc # "runs", NEW goal \in {"define", "create", "asked", "fetch", "failed"},
         Goes(i, goal),
         goal \in {"create", "asked", "fetch"} => AsksOK(scenario, setups[i]),
         goal = "fetch" => Step(i).name \in DOMAIN broker
  PROVE  TopicsInv'
<1>1. PICK u : u = setups[i]
  OBVIOUS
<1>2. PICK v : v = [u EXCEPT !.pc = goal]
  OBVIOUS
<1>3. SetupOK(scenario, broker, u) /\ DOMAIN setups = Instance
  BY <1>1, SetupIs
<1>4. /\ Step(i) = scenario.plan[u.at]
      /\ Known(i, Step(i).topics) = {u.known[t] : t \in Step(i).topics}
  BY <1>1 DEF Step, Known
<1>5. SetupOK(scenario, broker, v) /\ v.known = u.known
  <2>1. goal \in {"create", "asked", "fetch"} => AsksOK(scenario, u)
    BY <1>1
  <2>2. goal = "fetch" => scenario.plan[u.at].name \in DOMAIN broker
    BY <1>4
  <2>3. u.pc # "runs"
    BY <1>1
  <2> QED BY <1>2, <1>3, <2>1, <2>2, <2>3, GoesOK
<1>6. setups' = [setups EXCEPT ![i] = v]
  BY <1>1, <1>2 DEF Goes
<1>7. ASSUME NewInternals(scenario) PROVE RetentionsWith(scenario, broker', setups, v)
  <2>1. PICK ret : /\ Assigned(scenario, ret) /\ Retained(broker, ret)
                   /\ \A j \in Instance : Retained(setups[j].known, ret)
    BY <1>7 DEF TopicsInv, TopicsRight, Retentions
  <2>2. Retained(v.known, ret)
    BY <1>1, <1>5, <2>1
  <2> QED BY <2>1, <2>2 DEF RetentionsWith
<1>8. Grows(scenario, broker, broker') /\ broker' \in [DOMAIN broker' -> TopicConfig]
  BY SetupIs
<1> QED BY <1>5, <1>6, <1>7, <1>8, InstanceKeeps

\* What is retained stays so when there are more retentions.
LEMMA RetainedKept ==
  ASSUME NEW topics, NEW ret, Retained(topics, ret), NEW all, NEW name, Adds(ret, all, name)
  PROVE  Retained(topics, all)
BY DEF Retained, Adds

\* The instance goes on when its topic has been created.
LEMMA CreatedKeeps ==
  ASSUME TopicsInv, Preparing, scenario' = scenario, NEW i \in Instance,
         setups[i].pc = "asked", Step(i).name \notin DOMAIN broker, Created(i),
         NEW goal \in {"fetch", "failed"}, Goes(i, goal)
  PROVE  TopicsInv'
<1>1. PICK u : u = setups[i]
  OBVIOUS
<1>2. PICK v : v = [u EXCEPT !.pc = goal]
  OBVIOUS
<1>3. PICK name, config : name = Step(i).name /\ config = CreateConfig(i)
  OBVIOUS
<1>4. /\ TopicsDefinition(scenario) /\ SetupOK(scenario, broker, u) /\ DOMAIN setups = Instance
      /\ broker \in [DOMAIN broker -> TopicConfig]
  BY <1>1, SetupIs
<1>5. /\ broker' = WithTopic(broker, name, config) /\ name \notin DOMAIN broker
      /\ config \in TopicConfig
  BY <1>3, CallOK DEF Created
<1>6. /\ DOMAIN broker' = DOMAIN broker \cup {name} /\ broker'[name] = config
      /\ \A t \in DOMAIN broker : broker'[t] = broker[t]
      /\ broker' \in [DOMAIN broker' -> TopicConfig]
  BY <1>4, <1>5 DEF WithTopic
<1>7. Grows(scenario, broker, broker')
  BY <1>6 DEF Grows
<1>8. /\ Step(i) = scenario.plan[u.at]
      /\ Known(i, Step(i).topics) = {u.known[t] : t \in Step(i).topics}
  BY <1>1 DEF Step, Known
<1>9. AsksOK(scenario, u)
  BY <1>1, <1>4 DEF SetupOK
<1>10. SetupOK(scenario, broker', u)
  BY <1>4, <1>7, SetupKept
<1>11. SetupOK(scenario, broker', v) /\ v.known = u.known
  <2>1. goal \in {"create", "asked", "fetch"} => AsksOK(scenario, u)
    BY <1>9
  <2>2. goal = "fetch" => scenario.plan[u.at].name \in DOMAIN broker'
    BY <1>3, <1>6, <1>8
  <2>3. goal \in {"define", "create", "asked", "fetch", "failed"} /\ u.pc # "runs"
    BY <1>1
  <2> QED BY <1>2, <1>10, <2>1, <2>2, <2>3, GoesOK
<1>12. setups' = [setups EXCEPT ![i] = v]
  BY <1>1, <1>2 DEF Goes
<1>13. ASSUME NewInternals(scenario) PROVE RetentionsWith(scenario, broker', setups, v)
  <2>1. PICK ret : /\ Assigned(scenario, ret) /\ Retained(broker, ret)
                   /\ \A j \in Instance : Retained(setups[j].known, ret)
    BY <1>13 DEF TopicsInv, TopicsRight, Retentions
  <2>2. PICK all : Assigned(scenario, all) /\ Adds(ret, all, Step(i).name) /\ CreatedWith(i, all)
    <3>1. Retained(setups[i].known, ret) /\ setups[i].pc # "runs"
      BY <2>1
    <3> QED BY <1>13, <2>1, <3>1, RetentionThere
  <2>3. Retained(broker', all)
    BY <1>3, <1>5, <1>6, <2>1, <2>2 DEF Retained, Adds, CreatedWith
  <2>4. \A j \in Instance : Retained(setups[j].known, all)
    BY <2>1, <2>2, RetainedKept
  <2>5. Retained(v.known, all)
    BY <1>1, <1>11, <2>4
  <2> QED BY <2>2, <2>3, <2>4, <2>5 DEF RetentionsWith
<1> QED BY <1>6, <1>7, <1>11, <1>12, <1>13, InstanceKeeps

\* The instance takes its next call with what it has got for this one.
LEMMA ConfiguredKeeps ==
  ASSUME TopicsInv, Preparing, scenario' = scenario, broker' = broker, NEW i \in Instance,
         setups[i].pc # "runs", NEW config \in TopicConfig, Configured(i, config),
         \/ Step(i).name \in DOMAIN broker /\ config = broker[Step(i).name] /\ Fits(i, config)
         \/ Step(i).op = "repartition" /\ config = CreateConfig(i),
         Step(i).op = "changelog" => Copartitioned(Known(i, Step(i).topics))
  PROVE  TopicsInv'
<1>1. PICK u, call : u = setups[i] /\ call = Step(i)
  OBVIOUS
<1>2. PICK v : v = [pc |-> IF u.at = Len(scenario.plan) THEN "runs" ELSE "define", at |-> u.at + 1,
                    known |-> WithTopic(u.known, call.name, config),
                    stores |-> u.stores \cup (IF call.op = "changelog"
                                THEN {[topics |-> call.topics, changelog |-> call.name]} ELSE {})]
  OBVIOUS
<1>3. /\ TopicsDefinition(scenario) /\ SetupOK(scenario, broker, u) /\ DOMAIN setups = Instance
      /\ broker \in [DOMAIN broker -> TopicConfig]
      /\ Grows(scenario, broker, broker') /\ broker' \in [DOMAIN broker' -> TopicConfig]
  BY <1>1, SetupIs
<1>4. setups' = [setups EXCEPT ![i] = v]
  <2>1. u = [pc |-> u.pc, at |-> u.at, known |-> u.known, stores |-> u.stores]
    BY <1>3 DEF SetupOK
  <2>2. PICK next, stores : /\ next = IF u.at = Len(scenario.plan) THEN "runs" ELSE "define"
                            /\ stores = u.stores \cup (IF call.op = "changelog"
                                  THEN {[topics |-> call.topics, changelog |-> call.name]} ELSE {})
    OBVIOUS
  <2>3. PICK known, at : known = WithTopic(u.known, call.name, config) /\ at = u.at + 1
    OBVIOUS
  <2>4. v = [pc |-> next, at |-> at, known |-> known, stores |-> stores]
    BY <1>2, <2>2, <2>3, Zenon
  <2>5. [u EXCEPT !.pc = next, !.at = at, !.known = known, !.stores = stores] = v
    <3>1. PICK w : w = [u EXCEPT !.pc = next, !.at = at, !.known = known, !.stores = stores]
      OBVIOUS
    <3>2. /\ w.pc = next /\ w.at = at /\ w.known = known /\ w.stores = stores
          /\ w = [pc |-> w.pc, at |-> w.at, known |-> w.known, stores |-> w.stores]
      BY <2>1, <3>1
    <3> QED BY <2>4, <3>1, <3>2
  <2>6. setups' = [setups EXCEPT ![i] =
            [u EXCEPT !.pc = next, !.at = at, !.known = known, !.stores = stores]]
    BY <1>1, <1>3, <2>2, <2>3 DEF Configured
  <2> QED BY <2>5, <2>6
<1>5. call = scenario.plan[u.at] /\ Known(i, call.topics) = {u.known[t] : t \in call.topics}
  BY <1>1 DEF Step, Known
<1>6. call.op = "changelog" =>
         /\ call.name \in DOMAIN broker /\ broker[call.name].partitions = config.partitions
         /\ \A t \in call.topics : u.known[t].partitions = config.partitions
  BY <1>1, <1>5, CallOK DEF Fits
<1>7. SetupOK(scenario, broker, v)
  BY <1>1, <1>2, <1>3, <1>5, <1>6, ConfiguredOK
<1>8. ASSUME NewInternals(scenario) PROVE RetentionsWith(scenario, broker', setups, v)
  <2>1. PICK ret : /\ Assigned(scenario, ret) /\ Retained(broker, ret)
                   /\ \A j \in Instance : Retained(setups[j].known, ret)
    BY <1>8 DEF TopicsInv, TopicsRight, Retentions
  <2>2. PICK all : Assigned(scenario, all) /\ Adds(ret, all, Step(i).name) /\ CreatedWith(i, all)
    <3>1. Retained(setups[i].known, ret)
      BY <2>1
    <3> QED BY <1>8, <2>1, <3>1, RetentionThere
  <2>3. \A j \in Instance : Retained(setups[j].known, all)
    BY <2>1, <2>2, RetainedKept
  <2>4. Retained(broker, all)
    BY <2>1, <2>2, RetainedKept
  <2>5. call.name \in DOMAIN all /\ all[call.name] = config.retention
    BY <1>1, <2>2, <2>4 DEF Retained, Adds, CreatedWith
  <2>6. Retained(v.known, all)
    <3>1. v.known = WithTopic(u.known, call.name, config)
      BY <1>2
    <3>2. Retained(u.known, all)
      BY <1>1, <2>3
    <3> QED BY <2>5, <3>1, <3>2 DEF Retained, WithTopic
  <2> QED BY <2>2, <2>3, <2>4, <2>6 DEF RetentionsWith
<1> QED BY <1>3, <1>4, <1>7, <1>8, InstanceKeeps

\* An instance looks at the topic that is there.
LEMMA FoundKeeps ==
  ASSUME TopicsInv, Preparing, scenario' = scenario, broker' = broker, NEW i \in Instance,
         setups[i].pc # "runs", Step(i).name \in DOMAIN broker, Found(i), AsksOK(scenario, setups[i])
  PROVE  TopicsInv'
<1>1. PICK config : config = broker[Step(i).name]
  OBVIOUS
<1>2. config \in TopicConfig
  BY <1>1, SetupIs
<1>3. CASE Fits(i, config)
  <2>1. Configured(i, config)
    BY <1>1, <1>3 DEF Found
  <2>2. Step(i).op = "changelog" => Copartitioned(Known(i, Step(i).topics))
    BY DEF AsksOK, Step, Known
  <2> QED BY <1>1, <1>2, <1>3, <2>1, <2>2, ConfiguredKeeps
<1>4. CASE ~Fits(i, config)
  <2>1. Goes(i, "failed")
    BY <1>1, <1>4 DEF Found
  <2> QED BY <2>1, GoesKeeps
<1> QED BY <1>3, <1>4

\* A call that defines its topic keeps the invariant.
LEMMA DefineKeeps ==
  ASSUME TopicsInv, Preparing, scenario' = scenario, NEW i \in Instance, Define(i)
  PROVE  TopicsInv'
<1>1. setups[i].pc = "define" /\ setups[i].pc # "runs" /\ broker' = broker
  BY DEF Define
<1>2. CASE Step(i).op = "changelog" /\ ~Copartitioned(Known(i, Step(i).topics))
  <2>1. Goes(i, "failed")
    BY <1>2 DEF Define
  <2> QED BY <1>1, <2>1, GoesKeeps
<1>3. CASE ~(Step(i).op = "changelog" /\ ~Copartitioned(Known(i, Step(i).topics)))
  <2>1. AsksOK(scenario, setups[i])
    BY <1>3 DEF AsksOK, Step, Known
  <2>2. CASE NeedsNoTopic(i)
    <3>1. Configured(i, CreateConfig(i)) /\ Step(i).op = "repartition"
      BY <1>3, <2>2, Zenon DEF Define, NeedsNoTopic
    <3>2. CreateConfig(i) \in TopicConfig
      BY <1>1, CallOK
    <3> QED BY <1>1, <1>3, <3>1, <3>2, ConfiguredKeeps
  <2>3. CASE ~NeedsNoTopic(i) /\ Step(i).name \in DOMAIN broker
    <3>1. Found(i)
      BY <1>3, <2>3, Zenon DEF Define
    <3> QED BY <1>1, <2>1, <2>3, <3>1, FoundKeeps
  <2>4. CASE ~NeedsNoTopic(i) /\ Step(i).name \notin DOMAIN broker
    <3>1. Goes(i, "create") \/ Goes(i, "failed")
      BY <1>3, <2>4 DEF Define
    <3> QED BY <1>1, <2>1, <3>1, GoesKeeps
  <2> QED BY <2>2, <2>3, <2>4
<1> QED BY <1>2, <1>3

\* A request to create the topic does, its answer, and the look at what there is.
LEMMA CreateKeeps ==
  ASSUME TopicsInv, Preparing, scenario' = scenario, NEW i \in Instance,
         Create(i) \/ Answered(i) \/ Refused(i) \/ Fetch(i)
  PROVE  TopicsInv'
<1>1. setups[i].pc \in {"create", "asked", "fetch"} /\ setups[i].pc # "runs"
  BY DEF Create, Answered, Refused, Fetch
<1>2. AsksOK(scenario, setups[i]) /\ (setups[i].pc = "fetch" => Step(i).name \in DOMAIN broker)
  BY <1>1, SetupIs DEF SetupOK, Step
<1>3. CASE Create(i)
  <2>1. /\ broker' = broker
        /\ Goes(i, IF Step(i).name \in DOMAIN broker THEN "fetch" ELSE "asked")
    BY <1>3 DEF Create
  <2> QED BY <1>1, <1>2, <2>1, GoesKeeps
<1>4. CASE Answered(i)
  <2>1. Goes(i, "fetch") /\ setups[i].pc = "asked"
    BY <1>4 DEF Answered
  <2>2. CASE Step(i).name \in DOMAIN broker
    <3>1. broker' = broker
      BY <1>4, <2>2 DEF Answered
    <3> QED BY <1>1, <1>2, <2>1, <2>2, <3>1, GoesKeeps
  <2>3. CASE Step(i).name \notin DOMAIN broker
    <3>1. Created(i)
      BY <1>4, <2>3 DEF Answered
    <3> QED BY <2>1, <2>3, <3>1, CreatedKeeps
  <2> QED BY <2>2, <2>3
<1>5. CASE Refused(i)
  <2>1. Goes(i, "failed") /\ setups[i].pc = "asked"
    BY <1>5 DEF Refused
  <2>2. CASE broker' = broker
    BY <1>1, <2>1, <2>2, GoesKeeps
  <2>3. CASE Step(i).name \notin DOMAIN broker /\ Created(i)
    BY <2>1, <2>3, CreatedKeeps
  <2> QED BY <1>5, <2>2, <2>3 DEF Refused
<1>6. CASE Fetch(i)
  <2>1. broker' = broker /\ setups[i].pc = "fetch" /\ (Found(i) \/ Goes(i, "failed"))
    BY <1>6 DEF Fetch
  <2> QED BY <1>1, <1>2, <2>1, FoundKeeps, GoesKeeps
<1> QED BY <1>3, <1>4, <1>5, <1>6

\* An instance that starts knows nothing.
LEMMA NewSetupOK ==
  ASSUME NEW s, TopicsDefinition(s), NEW topics
  PROVE  SetupOK(s, topics, NewSetup)
<1>1. Before(s, 1) = {} /\ NewSetup.known = <<>>
  BY DEF Before, NewSetup
<1>2. NewSetup.known \in [Before(s, 1) -> TopicConfig]
  BY <1>1
<1>3. 1 \in 1..Len(s.plan) + 1 /\ 1 <= Len(s.plan)
  BY DEF TopicsDefinition
<1> QED BY <1>2, <1>3 DEF SetupOK, NewSetup

\* A restart keeps the invariant.
LEMMA RestartKeeps ==
  ASSUME TopicsInv, Preparing, scenario' = scenario, NEW i \in Instance, Restart(i)
  PROVE  TopicsInv'
<1>1. setups' = [setups EXCEPT ![i] = NewSetup] /\ broker' = broker
  BY DEF Restart
<1>2. SetupOK(scenario, broker, NewSetup) /\ broker \in [DOMAIN broker -> TopicConfig]
  BY SetupIs, NewSetupOK
<1>3. ASSUME NewInternals(scenario) PROVE RetentionsWith(scenario, broker', setups, NewSetup)
  <2>1. PICK ret : /\ Assigned(scenario, ret) /\ Retained(broker, ret)
                   /\ \A j \in Instance : Retained(setups[j].known, ret)
    BY <1>3 DEF TopicsInv, TopicsRight, Retentions
  <2>2. Retained(NewSetup.known, ret)
    BY DEF NewSetup, Retained
  <2> QED BY <1>1, <2>1, <2>2 DEF RetentionsWith
<1>4. Grows(scenario, broker, broker')
  BY <1>1, SetupIs
<1> QED BY <1>1, <1>2, <1>3, <1>4, InstanceKeeps

\* So does an operator who adds a partition to a topic that is no changelog.
LEMMA AddPartitionKeeps ==
  ASSUME TopicsInv, Preparing, scenario' = scenario, NEW t \in Regular \cap DOMAIN broker,
         AddPartition(t)
  PROVE  TopicsInv'
<1>1. /\ TopicsDefinition(scenario) /\ DOMAIN setups = Instance
      /\ broker \in [DOMAIN broker -> TopicConfig] /\ DOMAIN scenario.given \subseteq DOMAIN broker
      /\ \A j \in Instance : SetupOK(scenario, broker, setups[j])
  BY DEF TopicsInv, TopicsRight
<1>2. /\ setups' = setups /\ broker[t].partitions < MaxPartitions
      /\ broker' = [broker EXCEPT ![t].partitions = @ + 1]
  BY DEF AddPartition
<1>3. broker[t] \in TopicConfig
  BY <1>1
<1>4. /\ DOMAIN broker' = DOMAIN broker
      /\ \A u \in DOMAIN broker : u # t => broker'[u] = broker[u]
      /\ broker'[t] = [broker[t] EXCEPT !.partitions = @ + 1]
  BY <1>1, <1>2
<1>5. /\ broker'[t].retention = broker[t].retention
      /\ broker'[t] \in TopicConfig
  BY <1>2, <1>3, <1>4 DEF TopicConfig, MaxPartitions
<1>6. broker' \in [DOMAIN broker' -> TopicConfig]
  BY <1>1, <1>2, <1>4, <1>5
<1>7. Grows(scenario, broker, broker')
  <2>1. PICK k \in DOMAIN scenario.plan : scenario.plan[k].op = "topic" /\ scenario.plan[k].name = t
    BY DEF Regular
  <2>2. ASSUME NEW j \in DOMAIN scenario.plan, scenario.plan[j].op = "changelog"
        PROVE  scenario.plan[j].name # t
    BY <1>1, <2>1, <2>2 DEF TopicsDefinition
  <2> QED BY <1>4, <2>2 DEF Grows
<1>8. \A j \in Instance : SetupOK(scenario, broker', setups'[j])
  BY <1>1, <1>2, <1>7, SetupKept
<1>9. ASSUME NewInternals(scenario) PROVE Retentions(scenario, broker', setups')
  <2>1. PICK ret : /\ Assigned(scenario, ret) /\ Retained(broker, ret)
                   /\ \A j \in Instance : Retained(setups[j].known, ret)
    BY <1>9 DEF TopicsInv, TopicsRight, Retentions
  <2>2. Retained(broker', ret)
    BY <1>4, <1>5, <2>1 DEF Retained
  <2> QED BY <1>2, <2>1, <2>2 DEF Retentions
<1>10. TopicsRight(scenario, broker', setups')
  BY <1>1, <1>2, <1>4, <1>6, <1>8, <1>9 DEF TopicsRight
<1> QED BY <1>1, <1>10 DEF TopicsInv

-----------------------------------------------------------------------------
\* What the invariant is for.
LEMMA ChangelogsFitThen == ASSUME TopicsInv, Preparing PROVE ChangelogsFit
<1>1. ASSUME NEW i \in Instance, NEW store \in setups[i].stores, NEW t \in store.topics
      PROVE  broker[store.changelog].partitions = setups[i].known[t].partitions
  BY SetupIs DEF SetupOK, StoreFits
<1> QED BY <1>1 DEF ChangelogsFit

\* When the internal topics are new, they keep what they are for.
LEMMA InternalsKeepThen == ASSUME TopicsInv, Preparing, NewInternals(scenario) PROVE InternalsKeep
<1>2. PICK ret : /\ Assigned(scenario, ret) /\ Retained(broker, ret)
                 /\ \A j \in Instance : Retained(setups[j].known, ret)
  BY DEF TopicsInv, TopicsRight, Retentions
<1>3. ASSUME NEW k \in DOMAIN scenario.plan, scenario.plan[k].op # "topic",
             scenario.plan[k].name \in DOMAIN broker, NEW t \in scenario.plan[k].topics,
             t \in DOMAIN broker
      PROVE  Keeps(broker[scenario.plan[k].name], broker[t])
  <2>1. PICK name, T : name = scenario.plan[k].name /\ T = scenario.plan[k].topics
    OBVIOUS
  <2>2. name \in DOMAIN ret /\ broker[name].retention = ret[name] /\ broker[t].retention = ret[t]
    BY <1>2, <1>3, <2>1 DEF Retained
  <2>3. T \subseteq DOMAIN ret /\ ret[name] = MaxRetention({ret[u] : u \in T})
    BY <1>2, <1>3, <2>1, <2>2, Zenon DEF Assigned
  <2>4. IsFiniteSet(T)
    <3>1. TopicsDefinition(scenario) /\ k \in 1..Len(scenario.plan)
      BY DEF TopicsInv, TopicsDefinition
    <3> QED BY <2>1, <3>1, TopicsBefore
  <2>5. PICK R : R = {ret[u] : u \in T}
    OBVIOUS
  <2>6. IsFiniteSet(R)
    BY <2>3, <2>4, <2>5, FiniteImage
  <2>7. R \subseteq Retention /\ ret[t] \in R
    BY <1>2, <1>3, <2>1, <2>3, <2>5 DEF Assigned
  <2>8. R \subseteq Int
    BY <2>7 DEF Retention
  <2>9. Max(R) \in R /\ \A r \in R : r <= Max(R)
    BY <2>6, <2>7, <2>8, FiniteMax
  <2>10. ret[name] = IF Infinite \in R THEN Infinite ELSE Max(R)
    BY <2>3, <2>5 DEF MaxRetention
  <2>11. ret[name] = Infinite \/ ret[t] \in 0..ret[name]
    <3>1. PICK m \in Int, a \in Int : m = Max(R) /\ a = ret[t]
      BY <2>7, <2>8, <2>9
    <3>2. a <= m /\ (a = -1 => Infinite \in R) /\ a >= -1
      BY <2>7, <2>9, <3>1 DEF Retention, Infinite
    <3> QED BY <2>10, <3>1, <3>2 DEF Infinite
  <2> QED BY <2>1, <2>2, <2>11 DEF Keeps
<1> QED BY <1>3, Zenon DEF InternalsKeep

\* At first there are the given topics.
LEMMA TopicsStart == ASSUME Init PROVE TopicsInv
<1> SUFFICES ASSUME Preparing PROVE TopicsInv
  BY DEF TopicsInv
<1>1. TopicsDefinition(scenario)
  BY ScenariosAssumption DEF Init, Preparing, TrackerDefinition, BrokerDefinition,
     ExactlyOnceDefinition, ReplicatorDefinition, ProcessDefinition, ConnectorDefinition,
     SinkDefinition, GraphDefinition, TopicsDefinition
<1>2. broker = scenario.given /\ setups = [i \in Instance |-> NewSetup]
  BY DEF Init, TopicsInit
<1>3. scenario.given \in [DOMAIN scenario.given -> TopicConfig]
  BY <1>1 DEF TopicsDefinition
<1>4. ASSUME NewInternals(scenario) PROVE Retentions(scenario, broker, setups)
  <2>1. PICK ret : ret = [t \in DOMAIN scenario.given |-> scenario.given[t].retention]
    OBVIOUS
  <2>2. Assigned(scenario, ret)
    BY <1>3, <1>4, <2>1 DEF Assigned, NewInternals, TopicConfig, Retention
  <2>3. Retained(broker, ret) /\ \A i \in Instance : Retained(setups[i].known, ret)
    BY <1>2, <2>1 DEF Retained, NewSetup
  <2> QED BY <2>2, <2>3 DEF Retentions
<1>5. \A i \in Instance : SetupOK(scenario, broker, setups[i])
  BY <1>1, <1>2, NewSetupOK
<1>6. TopicsRight(scenario, broker, setups)
  BY <1>2, <1>3, <1>4, <1>5, Zenon DEF TopicsRight
<1> QED BY <1>1, <1>6 DEF TopicsInv

\* The environment has no more faults than the scenario lets it have.
FaultsInv == scenario \in Scenarios /\ faults \in 0..scenario.faults

\* A step is a fault of the environment or none.
Bounded == faults' = faults \/ Fault

\* Whatever part of the system a step is of, it is one fault or none.
LEMMA FaultsBounded == ASSUME Next PROVE Bounded
<1>1. ASSUME ExactlyOnceNext PROVE Bounded
  BY <1>1, Zenon DEF ExactlyOnceNext, InstanceStep, StartInstance, BeginTransaction,
     AssignPartition,
     ProcessMessage, DeliverQueued, BeginCommit, FlushTransaction, SendOffsets, Retries,
     EndTransaction, CloseFailed, LosePartition, PushBack, DeliveryFails, TransactionTimeout,
     CrashInstance, RevokePartition, EvictInstance, AbortOrphan, Bounded
<1>2. ASSUME ReplicatorNext PROVE Bounded
  BY <1>2, Zenon DEF ReplicatorNext, ReplicaStep, StartReplicator, AssignSource, ReplicateMessage,
     DeliverReplica, CommitReplica, LoseSource, CloseReplicator, ReplicaDeliveryFails,
     RevokeSource, EvictReplica, StopReplicator, SourceGrows, Bounded
<1>3. ASSUME SourcesNext PROVE Bounded
  BY <1>3, Zenon DEF SourcesNext, ProcessStep, InstallHandlers, HandleSignal, RunSource,
     SourceReturns, SourceCompletes, StopSource, StartSources, RaiseForError, LoopEnds, JoinSource,
     KillSource, FinishStop, RequestStop, SourceFails, Bounded
<1>4. ASSUME ConnectorNext PROVE Bounded
  BY <1>4, Zenon DEF ConnectorNext, SourceStep, StartSource, ReadItem, FlushChunk, ReceiveItem,
     BeginFlush, EndFlush, Acknowledge, ForgetAcks, DeliverItem, DeliverState, EndSource, EndRun,
     ItemFails, Bounded
<1>5. ASSUME TrackerNext PROVE Bounded
  BY <1>5, Zenon DEF TrackerNext, PollNothing, PollMessage, PollEmpty, Recover, TimePasses, Bounded
<1>6. ASSUME BrokerNext PROVE Bounded
  BY <1>6, Zenon DEF BrokerNext, BrokersChange, SecondsPass, Contact, AllBrokersDown, CheckBrokers,
     Bounded
<1>7. ASSUME SinkNext PROVE Bounded
  BY <1>7, Zenon DEF SinkNext, WriterStep, StartSinks, SinkRecord, BeginSinkFlush, CommitSunk,
     EndWriter, WriteChunk, BlobExists, SubmitRest, SinkFlushReturns, RequestHasFailed, RequestDone,
     WriteFails, FlushTimesOut, RequestFails, RecordsRefused, Bounded
<1>8. ASSUME StreamsNext PROVE Bounded
  BY <1>8, Zenon DEF StreamsNext, Bounded
<1>9. ASSUME TopicsNext PROVE Bounded
  BY <1>9, Zenon DEF TopicsNext, Define, Create, Answered, Refused, Fetch, Restart, AddPartition,
     Bounded
<1> QED BY <1>1, <1>2, <1>3, <1>4, <1>5, <1>6, <1>7, <1>8, <1>9, Zenon DEF Next

\* The faults stay within their bound.
LEMMA FaultsBoundedAlways == Spec => []FaultsInv
<1>1. Init => FaultsInv
  <2> SUFFICES ASSUME Init PROVE FaultsInv
    OBVIOUS
  <2>1. scenario \in Scenarios /\ faults = 0
    BY DEF Init
  <2>2. scenario.faults \in Nat
    BY <2>1, ScenariosAssumption
  <2> QED BY <2>1, <2>2 DEF FaultsInv
<1>2. FaultsInv /\ [Next]_applicationVars => FaultsInv'
  <2> SUFFICES ASSUME FaultsInv, [Next]_applicationVars PROVE FaultsInv'
    OBVIOUS
  <2>1. UNCHANGED scenario
    BY Zenon DEF Next, applicationVars, BesidesExactlyOnce, BesidesReplicator, BesidesProcesses,
       BesidesConnector, BesidesTracker, BesidesBroker, BesidesSink, BesidesGraph, BesidesTopics
  <2>2. Bounded
    BY FaultsBounded, Zenon DEF applicationVars, Bounded
  <2>3. scenario \in Scenarios /\ faults \in 0..scenario.faults
    BY DEF FaultsInv
  <2>4. scenario.faults \in Nat
    BY <2>3, ScenariosAssumption
  <2>5. faults' \in 0..scenario.faults
    BY <2>2, <2>3, <2>4 DEF Bounded, Fault
  <2> QED BY <2>1, <2>3, <2>5 DEF FaultsInv
<1> QED BY <1>1, <1>2, PTL DEF Spec

\* What the broker has and what the instances know fit.
LEMMA TopicsInvariant == Spec => []TopicsInv
<1>1. Init => TopicsInv
  BY TopicsStart
<1>2. TopicsInv /\ [Next]_applicationVars => TopicsInv'
  <2> SUFFICES ASSUME TopicsInv, [Next]_applicationVars PROVE TopicsInv'
    OBVIOUS
  <2>1. UNCHANGED scenario /\ ((Preparing /\ TopicsNext) \/ UNCHANGED topicVars)
    BY Zenon DEF Next, applicationVars, BesidesExactlyOnce, BesidesReplicator, BesidesProcesses,
       BesidesConnector, BesidesTracker, BesidesBroker, BesidesSink, BesidesGraph, BesidesTopics
  <2>2. CASE UNCHANGED topicVars
    BY <2>1, <2>2 DEF TopicsInv, Preparing, topicVars
  <2>3. CASE Preparing /\ TopicsNext
    <3>1. ASSUME NEW i \in Instance,
                 Define(i) \/ Create(i) \/ Answered(i) \/ Refused(i) \/ Fetch(i) \/ Restart(i)
          PROVE  TopicsInv'
      BY <2>1, <2>3, <3>1, DefineKeeps, CreateKeeps, RestartKeeps
    <3>2. ASSUME NEW t \in Regular \cap DOMAIN broker, AddPartition(t)
          PROVE  TopicsInv'
      BY <2>1, <2>3, <3>2, AddPartitionKeeps
    <3> QED BY <2>3, <3>1, <3>2 DEF TopicsNext
  <2> QED BY <2>1, <2>2, <2>3
<1> QED BY <1>1, <1>2, PTL DEF Spec

\* The changelogs of an instance that runs have a partition for each partition that it
\* knows of the topics of a store, whatever was there before, who creates them, and
\* whenever a topic grows (TopicManager.changelog_topic, ensure_topics_copartitioned).
THEOREM ChangelogsFitHold == Spec => [](Preparing => ChangelogsFit)
<1>1. TopicsInv => (Preparing => ChangelogsFit)
  BY ChangelogsFitThen
<1> QED BY <1>1, TopicsInvariant, PTL

\* Internal topics, moreover, keep records as long as the topics that they come from, when
\* it is the instances that create them (TopicManager.derive_topic_config).
THEOREM InternalTopicsFitHolds ==
  ASSUME \A s \in Scenarios : TopicsDefinition(s) => NewInternals(s)
  PROVE  Spec => []InternalTopicsFit
<1>1. FaultsInv /\ TopicsInv => InternalTopicsFit
  <2> SUFFICES ASSUME FaultsInv, TopicsInv, Preparing PROVE ChangelogsFit /\ InternalsKeep
    BY DEF InternalTopicsFit
  <2>1. NewInternals(scenario)
    BY DEF FaultsInv, TopicsInv
  <2> QED BY <2>1, ChangelogsFitThen, InternalsKeepThen
<1> QED BY <1>1, FaultsBoundedAlways, TopicsInvariant, PTL

-----------------------------------------------------------------------------
\* A sequence.
IsSeq(s) == s \in Seq(Range(s))

\* One more element.
LEMMA AppendIs ==
  ASSUME NEW s, IsSeq(s), NEW x
  PROVE  /\ IsSeq(Append(s, x)) /\ Len(s) \in Nat /\ DOMAIN s = 1..Len(s)
         /\ Len(Append(s, x)) = Len(s) + 1 /\ DOMAIN Append(s, x) = 1..Len(s) + 1
         /\ Append(s, x)[Len(s) + 1] = x
         /\ \A i \in 1..Len(s) : Append(s, x)[i] = s[i]
<1>1. PICK S : S = Range(s) \cup {x}
  OBVIOUS
<1>2. s \in Seq(Range(s))
  BY DEF IsSeq
<1>3. s \in Seq(S)
  BY <1>1, <1>2
<1>4. x \in S
  BY <1>1
<1>5. PICK q : q = Append(s, x)
  OBVIOUS
<1>6. /\ q \in Seq(S) /\ Len(q) = Len(s) + 1 /\ q[Len(s) + 1] = x
      /\ \A i \in 1..Len(s) : q[i] = s[i]
  BY <1>3, <1>4, <1>5, AppendProperties
<1>7. Len(s) \in Nat /\ DOMAIN s = 1..Len(s) /\ DOMAIN q = 1..Len(q) /\ Len(q) \in Nat
  BY <1>3, <1>6, LenProperties
<1>8. q \in Seq(Range(q))
  <2>1. q \in [1..Len(q) -> S]
    BY <1>6, <1>7
  <2>2. q \in [1..Len(q) -> Range(q)]
    BY <1>7, <2>1 DEF Range
  <2> QED BY <1>7, <2>2
<1> QED BY <1>5, <1>6, <1>7, <1>8 DEF IsSeq

-----------------------------------------------------------------------------
(* The graph *)

\* The fields of a node.
Shaped(node) ==
    node = [kind |-> node.kind, parents |-> node.parents, children |-> node.children,
            pruned |-> node.pruned, reads |-> node.reads, from |-> node.from, void |-> node.void]

\* Nodes come after those that they go on from.
GraphOK(g) ==
    /\ IsSeq(g)
    /\ \A n \in DOMAIN g : Shaped(g[n]) /\ \A i \in DOMAIN g[n].from : g[n].from[i] \in 1..n - 1

\* The graph has one more node, that goes on from these.
Grown(g, more, from) ==
    /\ GraphOK(g) /\ GraphOK(more) /\ Len(more) = Len(g) + 1
    /\ \A n \in DOMAIN g : more[n].from = g[n].from
    /\ more[Len(g) + 1].from = from

\* The topics of the roots at a node.
Rooted(roots, n) == {roots[i].topic : i \in {j \in DOMAIN roots : roots[j].node = n}}

\* The topics that reach each node.
Reach(g, roots, f) ==
    f = [n \in DOMAIN g |-> Rooted(roots, n) \cup UNION {f[m] : m \in Range(g[n].from)}]

\* A node that is added to a graph is the last one of a graph.
LEMMA WithNodeIs ==
  ASSUME NEW g, GraphOK(g), NEW node, Shaped(node),
         \A i \in DOMAIN node.from : node.from[i] \in 1..Len(g)
  PROVE  Grown(g, WithNode(g, node), node.from)
<1>1. PICK base : base = [n \in DOMAIN g |->
              IF n \in Range(node.parents) THEN [g[n] EXCEPT !.children = Append(@, Len(g) + 1)]
              ELSE g[n]]
  OBVIOUS
<1>2. IsSeq(g) /\ Len(g) \in Nat /\ DOMAIN g = 1..Len(g)
  BY AppendIs DEF GraphOK
<1>3. IsSeq(base) /\ Len(base) = Len(g) /\ DOMAIN base = 1..Len(g)
  <2>1. base \in [1..Len(g) -> Range(base)]
    BY <1>1, <1>2 DEF Range
  <2>2. base \in Seq(Range(base)) /\ DOMAIN base = 1..Len(g)
    BY <1>2, <2>1
  <2>3. Len(base) = Len(g)
    BY <1>2, <2>2, LenProperties
  <2> QED BY <2>2, <2>3 DEF IsSeq
<1>4. ASSUME NEW n \in 1..Len(g)
      PROVE  Shaped(base[n]) /\ base[n].from = g[n].from
  <2>1. Shaped(g[n])
    BY <1>2 DEF GraphOK
  <2>2. base[n] = g[n] \/ base[n] = [g[n] EXCEPT !.children = Append(@, Len(g) + 1)]
    BY <1>1, <1>2
  <2> QED BY <2>1, <2>2 DEF Shaped
<1>5. PICK more : more = Append(base, node)
  OBVIOUS
<1>6. /\ IsSeq(more) /\ Len(more) = Len(g) + 1 /\ DOMAIN more = 1..Len(g) + 1
      /\ more[Len(g) + 1] = node
      /\ \A n \in 1..Len(g) : more[n] = base[n]
  BY <1>3, <1>5, AppendIs
<1>7. ASSUME NEW n \in 1..Len(g) + 1
      PROVE  Shaped(more[n]) /\ \A i \in DOMAIN more[n].from : more[n].from[i] \in 1..n - 1
  <2>1. CASE n \in 1..Len(g)
    <3>1. \A i \in DOMAIN g[n].from : g[n].from[i] \in 1..n - 1
      BY <1>2, <2>1 DEF GraphOK
    <3> QED BY <1>4, <1>6, <2>1, <3>1
  <2>2. CASE n = Len(g) + 1
    BY <1>2, <1>6, <2>2
  <2> QED BY <1>2, <2>1, <2>2
<1>8. GraphOK(more)
  BY <1>6, <1>7 DEF GraphOK
<1>9. WithNode(g, node) = more
  BY <1>1, <1>5, Zenon DEF WithNode
<1> QED BY <1>2, <1>4, <1>6, <1>8, <1>9 DEF Grown

\* A node that nothing names, and that goes on from nothing.
LEMMA AppendedIs ==
  ASSUME NEW g, GraphOK(g), NEW node, Shaped(node), node.from = <<>>
  PROVE  Grown(g, Append(g, node), <<>>)
<1>1. PICK more : more = Append(g, node)
  OBVIOUS
<1>2. /\ IsSeq(more) /\ Len(more) = Len(g) + 1 /\ DOMAIN more = 1..Len(g) + 1
      /\ more[Len(g) + 1] = node /\ Len(g) \in Nat /\ DOMAIN g = 1..Len(g)
      /\ \A n \in 1..Len(g) : more[n] = g[n]
  BY <1>1, AppendIs DEF GraphOK
<1>3. ASSUME NEW n \in 1..Len(g) + 1
      PROVE  Shaped(more[n]) /\ \A i \in DOMAIN more[n].from : more[n].from[i] \in 1..n - 1
  <2>1. CASE n \in 1..Len(g)
    BY <1>2, <2>1 DEF GraphOK
  <2>2. CASE n = Len(g) + 1
    BY <1>2, <2>2
  <2> QED BY <1>2, <2>1, <2>2
<1>4. GraphOK(more)
  BY <1>2, <1>3 DEF GraphOK
<1> QED BY <1>1, <1>2, <1>4 DEF Grown

\* Topics are at the nodes of a graph.
RootsOK(g, roots) == IsSeq(roots) /\ \A i \in DOMAIN roots : roots[i].node \in DOMAIN g

\* The topics that reach a node that is added.
Reaching(f, roots, n, from) == Rooted(roots, n) \cup UNION {f[m] : m \in Range(from)}

\* The topics at the nodes so far stay.
SameRoots(g, roots, added) == \A n \in DOMAIN g : Rooted(added, n) = Rooted(roots, n)

\* What reaches the nodes so far, and these topics the one that is added.
GrewTo(g, more, roots, f, topics, all) ==
    /\ Reach(more, roots, all) /\ \A n \in DOMAIN g : all[n] = f[n]
    /\ all[Len(g) + 1] = topics
    /\ Len(g) + 1 \in DOMAIN more /\ DOMAIN g \subseteq DOMAIN more

\* What reaches the nodes so far does so with one more node.
LEMMA ReachGrown ==
  ASSUME NEW g, NEW more, NEW from, Grown(g, more, from),
         NEW roots, NEW f, Reach(g, roots, f), NEW added, SameRoots(g, roots, added)
  PROVE  \E all : GrewTo(g, more, added, f, Reaching(f, added, Len(g) + 1, from), all)
<1>1. /\ Len(g) \in Nat /\ DOMAIN g = 1..Len(g) /\ DOMAIN more = 1..Len(g) + 1
      /\ \A n \in 1..Len(g) : more[n].from = g[n].from
      /\ more[Len(g) + 1].from = from
  BY AppendIs DEF Grown, GraphOK
<1>2. \A n \in 1..Len(g) + 1 : Range(more[n].from) \subseteq 1..n - 1
  BY <1>1 DEF Grown, GraphOK, Range
<1>3. PICK all : all = [n \in 1..Len(g) + 1 |->
         IF n \in 1..Len(g) THEN f[n] ELSE Rooted(added, n) \cup UNION {f[m] : m \in Range(from)}]
  OBVIOUS
<1>4. /\ \A n \in 1..Len(g) : all[n] = f[n]
      /\ all[Len(g) + 1] = Rooted(added, Len(g) + 1) \cup UNION {f[m] : m \in Range(from)}
  BY <1>1, <1>3
<1>5. ASSUME NEW n \in 1..Len(g) + 1
      PROVE  all[n] = Rooted(added, n) \cup UNION {all[m] : m \in Range(more[n].from)}
  <2>5. \A m \in DOMAIN g : Rooted(added, m) = Rooted(roots, m)
    BY DEF SameRoots
  <2>1. \A m \in Range(more[n].from) : all[m] = f[m]
    <3>1. n - 1 <= Len(g) /\ n \in Int /\ Len(g) \in Int
      BY <1>1
    <3>2. \A m \in 1..n - 1 : m \in 1..Len(g)
      BY <3>1
    <3>3. \A m \in Range(more[n].from) : m \in 1..Len(g)
      BY <1>2, <3>2
    <3> QED BY <1>4, <3>3
  <2>2. {all[m] : m \in Range(more[n].from)} = {f[m] : m \in Range(more[n].from)}
    BY <2>1
  <2>3. CASE n \in 1..Len(g)
    <3>1. f[n] = Rooted(roots, n) \cup UNION {f[m] : m \in Range(g[n].from)}
      BY <1>1, <2>3 DEF Reach
    <3> QED BY <1>1, <1>4, <2>2, <2>3, <2>5, <3>1
  <2>4. CASE n = Len(g) + 1
    BY <1>1, <1>4, <2>2, <2>4
  <2> QED BY <1>1, <2>3, <2>4
<1>6. Reach(more, added, all)
  <2>1. all = [n \in DOMAIN more |-> all[n]]
    BY <1>1, <1>3
  <2> QED BY <1>1, <1>5, <2>1 DEF Reach
<1>7. all[Len(g) + 1] = Reaching(f, added, Len(g) + 1, from)
  BY <1>4 DEF Reaching
<1> QED BY <1>1, <1>4, <1>6, <1>7 DEF GrewTo

\* A set of the first numbers that has one has a least one.
LEMMA LeastOf ==
  ASSUME NEW u \in Nat, NEW D, D \subseteq 1..u, D # {}
  PROVE  \E d \in D : \A m \in D : d <= m
<1> DEFINE B == {u - m : m \in D}
<1>1. IsFiniteSet(D)
  <2>1. 1 \in Int /\ u \in Int
    OBVIOUS
  <2> QED BY <2>1, FS_Interval, FS_Subset, Zenon
<1>2. IsFiniteSet(B)
  <2> DEFINE f == [m \in D |-> u - m]
  <2>1. D \subseteq DOMAIN f /\ B = {f[m] : m \in D}
    OBVIOUS
  <2> HIDE DEF f, B
  <2>2. IsFiniteSet({f[m] : m \in D})
    BY <1>1, <2>1, FiniteImage
  <2> QED BY <2>1, <2>2
<1>3. B \subseteq Int /\ B # {}
  <2>1. \A m \in D : u - m \in Int
    OBVIOUS
  <2> QED BY <2>1
<1>4. PICK x \in B : \A y \in B : y <= x
  <2> HIDE DEF B
  <2> QED BY <1>2, <1>3, FiniteMax, Zenon
<1>5. PICK d \in D : x = u - d
  BY <1>4
<1>6. ASSUME NEW m \in D PROVE d <= m
  <2>1. u - m <= u - d
    BY <1>4, <1>5
  <2> QED BY <2>1
<1> QED BY <1>6

\* What reaches the nodes is determined.
LEMMA ReachUnique ==
  ASSUME NEW g, GraphOK(g), NEW roots, NEW f, Reach(g, roots, f), NEW e, Reach(g, roots, e)
  PROVE  f = e
<1>1. Len(g) \in Nat /\ DOMAIN g = 1..Len(g)
  BY AppendIs DEF GraphOK
<1>2. DOMAIN f = 1..Len(g) /\ DOMAIN e = 1..Len(g)
  BY <1>1 DEF Reach
<1>3. ASSUME NEW n \in 1..Len(g), \A m \in 1..n - 1 : f[m] = e[m]
      PROVE  f[n] = e[n]
  <2>1. Range(g[n].from) \subseteq 1..n - 1
    BY <1>1 DEF GraphOK, Range
  <2>2. {f[m] : m \in Range(g[n].from)} = {e[m] : m \in Range(g[n].from)}
    BY <1>3, <2>1
  <2> QED BY <1>1, <2>2 DEF Reach
<1>4. \A n \in 1..Len(g) : f[n] = e[n]
  <2> DEFINE D == {n \in 1..Len(g) : f[n] # e[n]}
  <2> SUFFICES ASSUME D # {} PROVE FALSE
    OBVIOUS
  <2>1. PICK d \in D : \A m \in D : d <= m
    <3>1. D \subseteq 1..Len(g)
      OBVIOUS
    <3> HIDE DEF D
    <3> QED BY <1>1, <3>1, LeastOf
  <2> QED BY <1>1, <1>3, <2>1
<1> QED BY <1>1, <1>2, <1>4 DEF Reach

-----------------------------------------------------------------------------
(* The dataframes *)

\* A dataframe is at a node, and has the topics that reach it.
FrameOK(g, f, frame) ==
    /\ frame = [node |-> frame.node, topics |-> frame.topics, id |-> frame.id]
    /\ frame.node \in DOMAIN g
    /\ frame.topics # {} /\ IsFiniteSet(frame.topics) /\ frame.topics = f[frame.node]

\* All of the dataframes.
FramesOK(g, f, frames) == IsSeq(frames) /\ \A h \in DOMAIN frames : FrameOK(g, f, frames[h])

\* A column is at a node.
ColumnsOK(g, columns) == IsSeq(columns) /\ \A i \in DOMAIN columns : columns[i].node \in DOMAIN g

\* Messages of several topics come aligned.
Ordered(topics, wide) == Cardinality(topics) > 1 => wide

\* Once they come aligned they do, and so do those of these topics.
Widens(wide, wider, topics) == (wide => wider) /\ Ordered(topics, wider)

\* Wherever several topics reach a node, they come aligned.
Together(g, f, wide) == \A n \in DOMAIN g : Ordered(f[n], wide)

\* What f says reaches the nodes is what the dataframes tell.
Tracked(g, frames, columns, roots, wide, f) ==
    /\ GraphOK(g) /\ RootsOK(g, roots) /\ ColumnsOK(g, columns)
    /\ Reach(g, roots, f) /\ FramesOK(g, f, frames) /\ Together(g, f, wide)

\* While the program is defined, there are topics that reach the nodes as they should.
StreamsInv ==
    Defining => \E f : Tracked(nodes, dataframes, series, registry, aligned, f)

\* The same with one more node.
TrackedTo(g, more, frames, columns, roots, wide, f, topics, all) ==
    Tracked(more, frames, columns, roots, wide, all) /\ GrewTo(g, more, roots, f, topics, all)

\* One more node, that goes on from these, with the topics that reach it.
Extended(g, more, from, roots, added, wide, wider, f, topics) ==
    /\ Grown(g, more, from) /\ RootsOK(more, added) /\ SameRoots(g, roots, added)
    /\ topics = Reaching(f, added, Len(g) + 1, from)
    /\ wide => wider
    /\ Ordered(topics, wider)

\* What f says goes on with one more node.
LEMMA GrownTracked ==
  ASSUME NEW g, NEW frames, NEW columns, NEW roots, NEW wide, NEW f,
         Tracked(g, frames, columns, roots, wide, f),
         NEW more, NEW from, NEW added, NEW wider, NEW topics,
         Extended(g, more, from, roots, added, wide, wider, f, topics)
  PROVE  \E all : TrackedTo(g, more, frames, columns, added, wider, f, topics, all)
<1>7. /\ Grown(g, more, from) /\ RootsOK(more, added) /\ SameRoots(g, roots, added)
      /\ topics = Reaching(f, added, Len(g) + 1, from) /\ (wide => wider) /\ Ordered(topics, wider)
  BY DEF Extended
<1>1. PICK all : GrewTo(g, more, added, f, topics, all)
  <2>1. Reach(g, roots, f)
    BY DEF Tracked
  <2> QED BY <1>7, <2>1, ReachGrown, Zenon
<1>2. /\ Len(g) \in Nat /\ DOMAIN g = 1..Len(g) /\ DOMAIN more = 1..Len(g) + 1
      /\ GraphOK(more)
  BY <1>7, AppendIs DEF Grown, GraphOK
<1>3. FramesOK(more, all, frames)
  BY <1>1, <1>2 DEF Tracked, FramesOK, FrameOK, GrewTo
<1>4. ColumnsOK(more, columns)
  BY <1>2 DEF Tracked, ColumnsOK
<1>5. Together(more, all, wider)
  <2>1. ASSUME NEW n \in 1..Len(g) PROVE Ordered(all[n], wider)
    <3>1. Ordered(f[n], wide) /\ all[n] = f[n]
      BY <1>1, <1>2 DEF Tracked, Together, GrewTo
    <3> QED BY <1>7, <3>1, Zenon DEF Ordered
  <2>2. Ordered(all[Len(g) + 1], wider)
    BY <1>1, <1>7 DEF GrewTo
  <2> QED BY <1>2, <2>1, <2>2 DEF Together
<1>6. Tracked(more, frames, columns, added, wider, all)
  BY <1>1, <1>2, <1>3, <1>4, <1>5, <1>7 DEF Tracked, GrewTo
<1> QED BY <1>1, <1>6 DEF TrackedTo

\* No topic is at a node that is not there.
LEMMA NotRooted ==
  ASSUME NEW g, GraphOK(g), NEW roots, RootsOK(g, roots)
  PROVE  Rooted(roots, Len(g) + 1) = {}
<1>1. Len(g) \in Nat /\ DOMAIN g = 1..Len(g)
  BY AppendIs DEF GraphOK
<1>2. \A i \in DOMAIN roots : roots[i].node # Len(g) + 1
  BY <1>1 DEF RootsOK
<1> QED BY <1>2 DEF Rooted

\* A node that goes on from another one.
LEMMA NodeAdded ==
  ASSUME NEW g, NEW frames, NEW columns, NEW roots, NEW wide, NEW f,
         Tracked(g, frames, columns, roots, wide, f),
         NEW more, NEW n \in DOMAIN g, Grown(g, more, <<n>>)
  PROVE  \E all : TrackedTo(g, more, frames, columns, roots, wide, f, f[n], all)
<1>1. /\ Len(g) \in Nat /\ DOMAIN g = 1..Len(g) /\ DOMAIN more = 1..Len(g) + 1
  BY AppendIs DEF Grown, GraphOK
<1>2. RootsOK(more, roots)
  BY <1>1 DEF RootsOK, Tracked
<1>3. Reaching(f, roots, Len(g) + 1, <<n>>) = f[n]
  <2>1. Rooted(roots, Len(g) + 1) = {}
    BY NotRooted DEF Tracked
  <2>2. Range(<<n>>) = {n}
    BY DEF Range
  <2> QED BY <2>1, <2>2 DEF Reaching
<1>4. Ordered(f[n], wide)
  BY DEF Tracked, Together
<1>5. SameRoots(g, roots, roots)
  BY DEF SameRoots
<1>6. PICK topics : topics = f[n]
  OBVIOUS
<1>7. Extended(g, more, <<n>>, roots, roots, wide, wide, f, topics)
  BY <1>2, <1>3, <1>4, <1>5, <1>6 DEF Extended
<1>8. \E all : TrackedTo(g, more, frames, columns, roots, wide, f, topics, all)
  BY <1>7, GrownTracked
<1> QED BY <1>6, <1>8, Zenon

\* A node that goes on from two.
LEMMA MergeAdded ==
  ASSUME NEW g, NEW frames, NEW columns, NEW roots, NEW wide, NEW f,
         Tracked(g, frames, columns, roots, wide, f),
         NEW more, NEW n \in DOMAIN g, NEW m \in DOMAIN g, Grown(g, more, <<n, m>>),
         NEW wider, Widens(wide, wider, f[n] \cup f[m])
  PROVE  \E all : TrackedTo(g, more, frames, columns, roots, wider, f, f[n] \cup f[m], all)
<1>1. /\ Len(g) \in Nat /\ DOMAIN g = 1..Len(g) /\ DOMAIN more = 1..Len(g) + 1
  BY AppendIs DEF Grown, GraphOK
<1>2. RootsOK(more, roots)
  BY <1>1 DEF RootsOK, Tracked
<1>3. Reaching(f, roots, Len(g) + 1, <<n, m>>) = f[n] \cup f[m]
  <2>1. Rooted(roots, Len(g) + 1) = {}
    BY NotRooted DEF Tracked
  <2>2. Range(<<n, m>>) = {n, m}
    BY DEF Range
  <2> QED BY <2>1, <2>2 DEF Reaching
<1>4. SameRoots(g, roots, roots)
  BY DEF SameRoots
<1>5. PICK topics : topics = f[n] \cup f[m]
  OBVIOUS
<1>6. Extended(g, more, <<n, m>>, roots, roots, wide, wider, f, topics)
  BY <1>2, <1>3, <1>4, <1>5 DEF Extended, Widens
<1>7. \E all : TrackedTo(g, more, frames, columns, roots, wider, f, topics, all)
  BY <1>6, GrownTracked
<1> QED BY <1>5, <1>7, Zenon

\* A node that goes on from nothing.
LEMMA LoneAdded ==
  ASSUME NEW g, NEW frames, NEW columns, NEW roots, NEW wide, NEW f,
         Tracked(g, frames, columns, roots, wide, f),
         NEW more, Grown(g, more, <<>>)
  PROVE  \E all : TrackedTo(g, more, frames, columns, roots, wide, f, {}, all)
<1>1. /\ Len(g) \in Nat /\ DOMAIN g = 1..Len(g) /\ DOMAIN more = 1..Len(g) + 1
  BY AppendIs DEF Grown, GraphOK
<1>2. RootsOK(more, roots)
  BY <1>1 DEF RootsOK, Tracked
<1>3. Reaching(f, roots, Len(g) + 1, <<>>) = {}
  <2>1. Rooted(roots, Len(g) + 1) = {}
    BY NotRooted DEF Tracked
  <2>2. Range(<<>>) = {}
    BY DEF Range
  <2> QED BY <2>1, <2>2 DEF Reaching
<1>4. Ordered({}, wide)
  <2>1. Cardinality({}) = 0
    BY FS_EmptySet
  <2> QED BY <2>1 DEF Ordered
<1>5. SameRoots(g, roots, roots)
  BY DEF SameRoots
<1>6. PICK topics : topics = {}
  OBVIOUS
<1>7. Extended(g, more, <<>>, roots, roots, wide, wide, f, topics)
  BY <1>2, <1>3, <1>4, <1>5, <1>6 DEF Extended
<1>8. \E all : TrackedTo(g, more, frames, columns, roots, wide, f, topics, all)
  BY <1>7, GrownTracked
<1> QED BY <1>6, <1>8, Zenon

\* The root of one more topic.
LEMMA RootAdded ==
  ASSUME NEW g, NEW frames, NEW columns, NEW roots, NEW wide, NEW f,
         Tracked(g, frames, columns, roots, wide, f),
         NEW more, Grown(g, more, <<>>), NEW topic
  PROVE  \E all :
            TrackedTo(g, more, frames, columns,
                      Append(roots, [topic |-> topic, node |-> Len(g) + 1]), wide, f, {topic}, all)
<1>1. /\ Len(g) \in Nat /\ DOMAIN g = 1..Len(g) /\ DOMAIN more = 1..Len(g) + 1
  BY AppendIs DEF Grown, GraphOK
<1>2. PICK root : root = [topic |-> topic, node |-> Len(g) + 1]
  OBVIOUS
<1>3. PICK added : added = Append(roots, root)
  OBVIOUS
<1>4. /\ IsSeq(added) /\ Len(roots) \in Nat /\ DOMAIN roots = 1..Len(roots)
      /\ DOMAIN added = 1..Len(roots) + 1 /\ added[Len(roots) + 1] = root
      /\ \A i \in 1..Len(roots) : added[i] = roots[i]
  BY <1>3, AppendIs DEF Tracked, RootsOK
<1>5. \A i \in 1..Len(roots) : roots[i].node \in 1..Len(g)
  BY <1>1, <1>4 DEF Tracked, RootsOK
<1>6. RootsOK(more, added)
  <2>1. ASSUME NEW i \in 1..Len(roots) + 1 PROVE added[i].node \in 1..Len(g) + 1
    <3>1. CASE i = Len(roots) + 1
      BY <1>1, <1>2, <1>4, <3>1
    <3>2. CASE i \in 1..Len(roots)
      BY <1>1, <1>4, <1>5, <3>2
    <3> QED BY <1>4, <3>1, <3>2
  <2> QED BY <1>1, <1>4, <2>1 DEF RootsOK
<1>7. ASSUME NEW n \in DOMAIN g PROVE Rooted(added, n) = Rooted(roots, n)
  <2>1. n # Len(g) + 1
    BY <1>1
  <2>2. {j \in DOMAIN added : added[j].node = n} = {j \in DOMAIN roots : roots[j].node = n}
    BY <1>2, <1>4, <2>1
  <2>3. \A j \in {k \in DOMAIN roots : roots[k].node = n} : added[j].topic = roots[j].topic
    BY <1>4
  <2> QED BY <2>2, <2>3 DEF Rooted
<1>8. Rooted(added, Len(g) + 1) = {topic}
  <2>1. {j \in DOMAIN added : added[j].node = Len(g) + 1} = {Len(roots) + 1}
    <3>1. \A i \in 1..Len(roots) : added[i].node # Len(g) + 1
      BY <1>1, <1>4, <1>5
    <3> QED BY <1>2, <1>4, <3>1
  <2> QED BY <1>2, <1>4, <2>1 DEF Rooted
<1>9. Reaching(f, added, Len(g) + 1, <<>>) = {topic}
  <2>1. Range(<<>>) = {}
    BY DEF Range
  <2> QED BY <1>8, <2>1 DEF Reaching
<1>10. Ordered({topic}, wide)
  <2>1. PICK one : one = {topic}
    OBVIOUS
  <2>2. Cardinality(one) = 1
    BY <2>1, FS_Singleton, Zenon
  <2>3. Ordered(one, wide)
    BY <2>2 DEF Ordered
  <2> QED BY <2>1, <2>3
<1>11. SameRoots(g, roots, added)
  BY <1>7 DEF SameRoots
<1>12. PICK topics : topics = {topic}
  OBVIOUS
<1>13. Extended(g, more, <<>>, roots, added, wide, wide, f, topics)
  BY <1>6, <1>9, <1>10, <1>11, <1>12 DEF Extended
<1>14. \E all : TrackedTo(g, more, frames, columns, added, wide, f, topics, all)
  BY <1>13, GrownTracked
<1> QED BY <1>2, <1>3, <1>12, <1>14, Zenon

\* A dataframe goes on from another node that the same topics reach.
LEMMA FrameMoved ==
  ASSUME NEW g, NEW frames, NEW columns, NEW roots, NEW wide, NEW f,
         Tracked(g, frames, columns, roots, wide, f),
         NEW h \in DOMAIN frames, NEW n \in DOMAIN g, f[n] = frames[h].topics
  PROVE  Tracked(g, [frames EXCEPT ![h].node = n], columns, roots, wide, f)
<1>1. PICK moved : moved = [frames EXCEPT ![h].node = n]
  OBVIOUS
<1>2. Len(frames) \in Nat /\ DOMAIN frames = 1..Len(frames) /\ IsSeq(frames)
  BY AppendIs DEF Tracked, FramesOK
<1>3. DOMAIN moved = 1..Len(frames)
  BY <1>1, <1>2
<1>4. moved \in Seq(Range(moved))
  <2>1. moved \in [1..Len(frames) -> Range(moved)]
    BY <1>1, <1>3 DEF Range
  <2> QED BY <1>2, <2>1
<1>5. ASSUME NEW k \in DOMAIN frames PROVE FrameOK(g, f, moved[k])
  <2>1. FrameOK(g, f, frames[k])
    BY DEF Tracked, FramesOK
  <2>2. CASE k # h
    <3>1. moved[k] = frames[k]
      BY <1>1, <2>2
    <3> QED BY <2>1, <3>1
  <2>3. CASE k = h
    <3>1. moved[k] = [frames[k] EXCEPT !.node = n]
      BY <1>1, <2>3
    <3>2. frames[k] = [node |-> frames[k].node, topics |-> frames[k].topics, id |-> frames[k].id]
      BY <2>1 DEF FrameOK
    <3>3. moved[k] = [node |-> n, topics |-> frames[k].topics, id |-> frames[k].id]
      BY <3>1, <3>2
    <3> QED BY <2>1, <2>3, <3>3 DEF FrameOK
  <2> QED BY <2>2, <2>3
<1>6. FramesOK(g, f, moved)
  BY <1>2, <1>3, <1>4, <1>5 DEF FramesOK, IsSeq
<1> QED BY <1>1, <1>6 DEF Tracked

\* One more dataframe.
LEMMA FrameAdded ==
  ASSUME NEW g, NEW frames, NEW columns, NEW roots, NEW wide, NEW f,
         Tracked(g, frames, columns, roots, wide, f),
         NEW n \in DOMAIN g, NEW topics, topics # {}, IsFiniteSet(topics), f[n] = topics, NEW id
  PROVE  Tracked(g, Append(frames, [node |-> n, topics |-> topics, id |-> id]), columns, roots, wide, f)
<1>1. PICK frame : frame = [node |-> n, topics |-> topics, id |-> id]
  OBVIOUS
<1>2. PICK more : more = Append(frames, frame)
  OBVIOUS
<1>3. /\ IsSeq(more) /\ Len(frames) \in Nat /\ DOMAIN frames = 1..Len(frames)
      /\ DOMAIN more = 1..Len(frames) + 1 /\ more[Len(frames) + 1] = frame
      /\ \A i \in 1..Len(frames) : more[i] = frames[i]
  BY <1>2, AppendIs DEF Tracked, FramesOK
<1>4. FrameOK(g, f, frame)
  BY <1>1 DEF FrameOK
<1>5. ASSUME NEW k \in DOMAIN more PROVE FrameOK(g, f, more[k])
  <2>1. CASE k = Len(frames) + 1
    BY <1>3, <1>4, <2>1
  <2>2. CASE k \in 1..Len(frames)
    BY <1>3, <2>2 DEF Tracked, FramesOK
  <2> QED BY <1>3, <2>1, <2>2
<1>6. FramesOK(g, f, more)
  BY <1>3, <1>5 DEF FramesOK
<1> QED BY <1>1, <1>2, <1>6 DEF Tracked

\* One more column.
LEMMA ColumnAdded ==
  ASSUME NEW g, NEW frames, NEW columns, NEW roots, NEW wide, NEW f,
         Tracked(g, frames, columns, roots, wide, f), NEW n \in DOMAIN g, NEW whose
  PROVE  Tracked(g, frames, Append(columns, [node |-> n, owner |-> whose]), roots, wide, f)
<1>1. PICK column : column = [node |-> n, owner |-> whose]
  OBVIOUS
<1>2. PICK more : more = Append(columns, column)
  OBVIOUS
<1>3. /\ IsSeq(more) /\ Len(columns) \in Nat /\ DOMAIN columns = 1..Len(columns)
      /\ DOMAIN more = 1..Len(columns) + 1 /\ more[Len(columns) + 1] = column
      /\ \A i \in 1..Len(columns) : more[i] = columns[i]
  BY <1>2, AppendIs DEF Tracked, ColumnsOK
<1>4. ASSUME NEW k \in DOMAIN more PROVE more[k].node \in DOMAIN g
  <2>1. CASE k = Len(columns) + 1
    BY <1>1, <1>3, <2>1
  <2>2. CASE k \in 1..Len(columns)
    BY <1>3, <2>2 DEF Tracked, ColumnsOK
  <2> QED BY <1>3, <2>1, <2>2
<1>5. ColumnsOK(g, more)
  BY <1>3, <1>4 DEF ColumnsOK
<1> QED BY <1>1, <1>2, <1>5 DEF Tracked

\* What is cut off goes on from the same.
LEMMA PrunedTracked ==
  ASSUME NEW g, NEW frames, NEW columns, NEW roots, NEW wide, NEW f,
         Tracked(g, frames, columns, roots, wide, f), NEW self, NEW head
  PROVE  /\ Tracked(Pruned(g, self, head), frames, columns, roots, wide, f)
         /\ DOMAIN Pruned(g, self, head) = DOMAIN g
<1>1. PICK cut : cut = Pruned(g, self, head)
  OBVIOUS
<1>2. Len(g) \in Nat /\ DOMAIN g = 1..Len(g) /\ IsSeq(g)
  BY AppendIs DEF Tracked, GraphOK
<1>3. DOMAIN cut = 1..Len(g)
  BY <1>1, <1>2 DEF Pruned
<1>4. IsSeq(cut)
  <2>1. cut \in [1..Len(g) -> Range(cut)]
    <3>1. PICK k : k = WithoutFirst(g[self].children, head)
      OBVIOUS
    <3> QED BY <1>1, <1>3 DEF Range, Pruned
  <2> QED BY <1>2, <2>1 DEF IsSeq
<1>5. ASSUME NEW n \in 1..Len(g) PROVE Shaped(cut[n]) /\ cut[n].from = g[n].from
  <2>1. Shaped(g[n])
    BY <1>2 DEF Tracked, GraphOK
  <2>2. PICK a : a = [g EXCEPT ![head].pruned = TRUE]
    OBVIOUS
  <2>3. PICK b : b = [a EXCEPT ![head].parents = <<>>]
    OBVIOUS
  <2>4. \E k : cut = [b EXCEPT ![self].children = k]
    BY <1>1, <2>2, <2>3, Zenon DEF Pruned
  <2>5. PICK k : cut = [b EXCEPT ![self].children = k]
    BY <2>4
  <2>6. DOMAIN a = 1..Len(g) /\ DOMAIN b = 1..Len(g)
    BY <1>2, <2>2, <2>3
  <2>7. Shaped(a[n]) /\ a[n].from = g[n].from
    <3>1. a[n] = g[n] \/ a[n] = [g[n] EXCEPT !.pruned = TRUE]
      BY <1>2, <2>2
    <3> QED BY <2>1, <3>1 DEF Shaped
  <2>8. Shaped(b[n]) /\ b[n].from = g[n].from
    <3>1. b[n] = a[n] \/ b[n] = [a[n] EXCEPT !.parents = <<>>]
      BY <2>3, <2>6
    <3> QED BY <2>7, <3>1 DEF Shaped
  <2>9. cut[n] = b[n] \/ cut[n] = [b[n] EXCEPT !.children = k]
    BY <2>5, <2>6
  <2> QED BY <2>8, <2>9 DEF Shaped
<1>6. GraphOK(cut)
  BY <1>2, <1>3, <1>4, <1>5 DEF Tracked, GraphOK
<1>7. Reach(cut, roots, f)
  <2>1. \A n \in DOMAIN g : cut[n].from = g[n].from
    BY <1>2, <1>5
  <2>2. f = [n \in DOMAIN g |-> Rooted(roots, n) \cup UNION {f[m] : m \in Range(g[n].from)}]
    BY DEF Tracked, Reach
  <2>3. \A n \in DOMAIN g : {f[m] : m \in Range(cut[n].from)} = {f[m] : m \in Range(g[n].from)}
    BY <2>1
  <2>4. f = [n \in DOMAIN g |-> Rooted(roots, n) \cup UNION {f[m] : m \in Range(cut[n].from)}]
    BY <2>2, <2>3
  <2> QED BY <1>2, <1>3, <2>4 DEF Reach
<1>8. /\ RootsOK(cut, roots) /\ ColumnsOK(cut, columns) /\ FramesOK(cut, f, frames)
      /\ Together(cut, f, wide)
  BY <1>2, <1>3 DEF Tracked, RootsOK, ColumnsOK, FramesOK, FrameOK, Together
<1>9. Tracked(cut, frames, columns, roots, wide, f)
  BY <1>6, <1>7, <1>8 DEF Tracked
<1> QED BY <1>1, <1>2, <1>3, <1>9

-----------------------------------------------------------------------------
(* The calls *)

\* A node that is made names what it goes on from.
LEMMA NodeIs ==
  ASSUME NEW kind, NEW parents, NEW reads
  PROVE  Shaped(Node(kind, parents, reads)) /\ Node(kind, parents, reads).from = parents
  BY DEF Node, Shaped

\* The same, whether or not the call fails.
LEMMA RefusedIs ==
  ASSUME NEW node, Shaped(node), NEW refused, NEW same, same = [node EXCEPT !.void = refused]
  PROVE  Shaped(same) /\ same.from = node.from
  BY DEF Shaped

\* A sequence that is given by its elements.
LEMMA ListOf ==
  ASSUME NEW k \in Nat, NEW s, s = [i \in 1..k |-> s[i]]
  PROVE  IsSeq(s) /\ DOMAIN s = 1..k
<1>1. DOMAIN s = 1..k
  OBVIOUS
<1>2. s \in [1..k -> Range(s)]
  BY <1>1 DEF Range
<1>3. s \in Seq(Range(s))
  BY <1>2
<1> QED BY <1>1, <1>3 DEF IsSeq

\* What is known of a dataframe.
LEMMA FrameIs ==
  ASSUME NEW g, NEW frames, NEW columns, NEW roots, NEW wide, NEW f,
         Tracked(g, frames, columns, roots, wide, f), NEW h \in DOMAIN frames
  PROVE  /\ frames[h].node \in DOMAIN g /\ f[frames[h].node] = frames[h].topics
         /\ frames[h].topics # {} /\ IsFiniteSet(frames[h].topics)
  BY DEF Tracked, FramesOK, FrameOK

\* A function that goes on from a node.
LEMMA FunctionGrown ==
  ASSUME NEW g, GraphOK(g), NEW n \in DOMAIN g, NEW node, Shaped(node), node.from = <<n>>
  PROVE  Grown(g, WithNode(g, node), <<n>>)
<1>1. DOMAIN g = 1..Len(g)
  BY AppendIs DEF GraphOK
<1>2. \A i \in DOMAIN node.from : node.from[i] \in 1..Len(g)
  BY <1>1
<1> QED BY <1>2, WithNodeIs, Zenon

\* A function after a node, that no dataframe goes on from.
LEMMA FunctionTracked ==
  ASSUME NEW g, NEW frames, NEW columns, NEW roots, NEW wide, NEW f,
         Tracked(g, frames, columns, roots, wide, f),
         NEW n \in DOMAIN g, NEW node, Shaped(node), node.from = <<n>>
  PROVE  \E all : TrackedTo(g, WithNode(g, node), frames, columns, roots, wide, f, f[n], all)
<1>1. GraphOK(g)
  BY DEF Tracked
<1>2. Grown(g, WithNode(g, node), <<n>>)
  BY <1>1, FunctionGrown
<1> QED BY <1>2, NodeAdded

\* A dataframe goes on from a new function.
LEMMA UpdateTracked ==
  ASSUME NEW g, NEW frames, NEW columns, NEW roots, NEW wide, NEW f,
         Tracked(g, frames, columns, roots, wide, f),
         NEW h \in DOMAIN frames, NEW node, Shaped(node), node.from = <<frames[h].node>>
  PROVE  \E all : TrackedTo(g, WithNode(g, node), [frames EXCEPT ![h].node = Len(g) + 1],
                            columns, roots, wide, f, frames[h].topics, all)
<1>1. PICK n : n = frames[h].node /\ n \in DOMAIN g /\ f[n] = frames[h].topics
  BY FrameIs
<1>2. PICK all : TrackedTo(g, WithNode(g, node), frames, columns, roots, wide, f, f[n], all)
  BY <1>1, FunctionTracked
<1>3. all[Len(g) + 1] = frames[h].topics /\ Len(g) + 1 \in DOMAIN WithNode(g, node)
  BY <1>1, <1>2, Zenon DEF TrackedTo, GrewTo
<1>4. Tracked(WithNode(g, node), [frames EXCEPT ![h].node = Len(g) + 1], columns, roots, wide, all)
  BY <1>2, <1>3, FrameMoved DEF TrackedTo
<1> QED BY <1>1, <1>2, <1>4, Zenon DEF TrackedTo

\* A new dataframe goes on from a new function.
LEMMA CloneTracked ==
  ASSUME NEW g, NEW frames, NEW columns, NEW roots, NEW wide, NEW f,
         Tracked(g, frames, columns, roots, wide, f), NEW h \in DOMAIN frames,
         NEW node, Shaped(node), node.from = <<frames[h].node>>, NEW id
  PROVE  \E all : Tracked(WithNode(g, node),
                    Append(frames, [node |-> Len(g) + 1, topics |-> frames[h].topics, id |-> id]),
                    columns, roots, wide, all)
<1>1. PICK n : n = frames[h].node /\ n \in DOMAIN g /\ f[n] = frames[h].topics
  BY FrameIs
<1>2. PICK all : TrackedTo(g, WithNode(g, node), frames, columns, roots, wide, f, f[n], all)
  BY <1>1, FunctionTracked
<1>3. all[Len(g) + 1] = frames[h].topics /\ Len(g) + 1 \in DOMAIN WithNode(g, node)
  BY <1>1, <1>2, Zenon DEF TrackedTo, GrewTo
<1>4. frames[h].topics # {} /\ IsFiniteSet(frames[h].topics)
  BY FrameIs
<1> QED BY <1>2, <1>3, <1>4, FrameAdded DEF TrackedTo

\* What the calls do, from what was tracked before.
Onward == \E all : Tracked(nodes', dataframes', series', registry', aligned', all)

\* _add_update() keeps it.
LEMMA AddUpdateKeeps ==
  ASSUME NEW g, NEW f, Tracked(g, dataframes, series, registry, aligned, f),
         NEW h \in DOMAIN dataframes, NEW node, Shaped(node), node.from = <<dataframes[h].node>>,
         AddUpdate(h, g, node), UNCHANGED <<series, registry, aligned>>
  PROVE  Onward
<1>1. PICK all : Tracked(WithNode(g, node), [dataframes EXCEPT ![h].node = Len(g) + 1],
                         series, registry, aligned, all)
  BY UpdateTracked DEF TrackedTo
<1>2. nodes' = WithNode(g, node) /\ dataframes' = [dataframes EXCEPT ![h].node = Len(g) + 1]
  BY DEF AddUpdate
<1> QED BY <1>1, <1>2 DEF Onward

\* __dataframe_clone__() keeps it.
LEMMA AddCloneKeeps ==
  ASSUME NEW g, NEW f, Tracked(g, dataframes, series, registry, aligned, f),
         NEW h \in DOMAIN dataframes, NEW node, Shaped(node), node.from = <<dataframes[h].node>>,
         AddClone(h, g, node), UNCHANGED <<series, registry, aligned>>
  PROVE  Onward
<1>1. PICK frames : frames = Append(dataframes, [node |-> Len(g) + 1,
                       topics |-> dataframes[h].topics, id |-> dataframes[h].id])
  OBVIOUS
<1>2. PICK all : Tracked(WithNode(g, node), frames, series, registry, aligned, all)
  BY <1>1, CloneTracked
<1>3. nodes' = WithNode(g, node) /\ dataframes' = frames
  BY <1>1 DEF AddClone, AddDataframe
<1> QED BY <1>2, <1>3 DEF Onward

\* Functions on the value keep it.
LEMMA FunctionsKeep ==
  ASSUME NEW f, Tracked(nodes, dataframes, series, registry, aligned, f),
         NEW h \in DOMAIN dataframes, NEW kind,
         \/ \E expand \in BOOLEAN : Apply(h, expand)
         \/ Filter(h) \/ SetTimestamp(h) \/ UpdateInPlace(h, kind) \/ SinkTo(h)
  PROVE  Onward
<1>1. ASSUME NEW expand \in BOOLEAN, Apply(h, expand) PROVE Onward
  <2>1. PICK node : node = ApplyNode(dataframes[h].node, expand)
    OBVIOUS
  <2>2. Shaped(node) /\ node.from = <<dataframes[h].node>>
    BY <2>1, NodeIs, Zenon DEF ApplyNode
  <2> QED BY <1>1, <2>1, <2>2, AddCloneKeeps DEF Apply
<1>2. ASSUME Filter(h) PROVE Onward
  <2>1. PICK node : node = FilterNode(dataframes[h].node, "filter", <<>>)
    OBVIOUS
  <2>2. Shaped(node) /\ node.from = <<dataframes[h].node>>
    BY <2>1, NodeIs, Zenon DEF FilterNode
  <2> QED BY <1>2, <2>1, <2>2, AddCloneKeeps DEF Filter
<1>3. ASSUME SetTimestamp(h) PROVE Onward
  <2>1. PICK node : node = TransformNode(dataframes[h].node)
    OBVIOUS
  <2>2. Shaped(node) /\ node.from = <<dataframes[h].node>>
    BY <2>1, NodeIs, Zenon DEF TransformNode
  <2> QED BY <1>3, <2>1, <2>2, AddCloneKeeps DEF SetTimestamp
<1>4. ASSUME UpdateInPlace(h, kind) PROVE Onward
  <2>1. PICK node : node = UpdateNode(dataframes[h].node, kind, <<>>)
    OBVIOUS
  <2>2. Shaped(node) /\ node.from = <<dataframes[h].node>>
    BY <2>1, NodeIs, Zenon DEF UpdateNode
  <2> QED BY <1>4, <2>1, <2>2, AddUpdateKeeps DEF UpdateInPlace
<1>5. ASSUME SinkTo(h) PROVE Onward
  <2>1. PICK node : node = ApplyNode(dataframes[h].node, FALSE)
    OBVIOUS
  <2>2. Shaped(node) /\ node.from = <<dataframes[h].node>>
    BY <2>1, NodeIs, Zenon DEF ApplyNode
  <2>3. PICK n : n = dataframes[h].node /\ n \in DOMAIN nodes
    BY FrameIs
  <2>4. PICK all : Tracked(WithNode(nodes, node), dataframes, series, registry, aligned, all)
    BY <2>2, <2>3, FunctionTracked DEF TrackedTo
  <2> QED BY <1>5, <2>1, <2>4 DEF SinkTo, Onward
<1> QED BY <1>1, <1>2, <1>3, <1>4, <1>5

\* When no more than one topic comes together, the two are one.
LEMMA OneTopic ==
  ASSUME NEW S, NEW T, IsFiniteSet(S), IsFiniteSet(T), S # {}, ~(Cardinality(S \cup T) > 1)
  PROVE  S \cup T = S
<1>1. PICK U : U = S \cup T
  OBVIOUS
<1>2. IsFiniteSet(U) /\ U # {}
  BY <1>1, FS_Union
<1>3. Cardinality(U) = 1
  BY <1>1, <1>2, FS_CardinalityType, FS_EmptySet
<1>4. PICK x : U = {x}
  BY <1>2, <1>3, FS_Singleton, Zenon
<1> QED BY <1>1, <1>4

\* concat() keeps it.
LEMMA ConcatKeeps ==
  ASSUME NEW f, Tracked(nodes, dataframes, series, registry, aligned, f),
         NEW h \in DOMAIN dataframes, NEW other \in DOMAIN dataframes, Concat(h, other)
  PROVE  Onward
<1>1. PICK n, S : /\ n = dataframes[h].node /\ n \in DOMAIN nodes /\ S = dataframes[h].topics
                  /\ f[n] = S /\ S # {} /\ IsFiniteSet(S)
  BY FrameIs
<1>2. PICK m, T :
              /\ m = dataframes[other].node /\ m \in DOMAIN nodes /\ T = dataframes[other].topics
                  /\ f[m] = T /\ T # {} /\ IsFiniteSet(T)
  BY FrameIs
<1>3. PICK more : more = WithNode(nodes, MergeNode(n, m))
  OBVIOUS
<1>4. Grown(nodes, more, <<n, m>>)
  <2>1. PICK node : node = MergeNode(n, m)
    OBVIOUS
  <2>2. Shaped(node) /\ node.from = <<n, m>>
    BY <2>1, NodeIs, Zenon DEF MergeNode
  <2>3. GraphOK(nodes) /\ DOMAIN nodes = 1..Len(nodes)
    BY AppendIs DEF Tracked, GraphOK
  <2>4. \A i \in DOMAIN node.from : node.from[i] \in 1..Len(nodes)
    BY <1>1, <1>2, <2>2, <2>3
  <2>5. Grown(nodes, WithNode(nodes, node), node.from)
    BY <2>2, <2>3, <2>4, WithNodeIs, Zenon
  <2> QED BY <1>3, <2>1, <2>2, <2>5
<1>5. PICK wider : wider = aligned'
  OBVIOUS
<1>6. Widens(aligned, wider, f[n] \cup f[m])
  BY <1>1, <1>2, <1>5 DEF Concat, SeveralTopics, Ordered, Widens
<1>7. PICK all : TrackedTo(nodes, more, dataframes, series, registry, wider, f, f[n] \cup f[m], all)
  BY <1>1, <1>2, <1>4, <1>6, MergeAdded
<1>8. PICK topics, id : dataframes' = Append(dataframes, [node |-> Len(nodes) + 1,
                                                          topics |-> topics, id |-> id])
                        /\ topics = S \cup T
  <2>1. CASE SeveralTopics(dataframes[h], dataframes[other])
    BY <1>1, <1>2, <2>1 DEF Concat, AddDataframe
  <2>2. CASE ~SeveralTopics(dataframes[h], dataframes[other])
    <3>1. ~(Cardinality(S \cup T) > 1)
      BY <1>1, <1>2, <2>2 DEF SeveralTopics
    <3>2. S \cup T = S
      BY <1>1, <1>2, <3>1, OneTopic
    <3> QED BY <1>1, <1>2, <2>2, <3>2 DEF Concat, AddDataframe
  <2> QED BY <2>1, <2>2
<1>9. all[Len(nodes) + 1] = topics /\ Len(nodes) + 1 \in DOMAIN more
  BY <1>1, <1>2, <1>7, <1>8, Zenon DEF TrackedTo, GrewTo
<1>10. topics # {} /\ IsFiniteSet(topics)
  BY <1>1, <1>2, <1>8, FS_Union
<1>11. PICK frames :
               frames = Append(dataframes, [node |-> Len(nodes) + 1, topics |-> topics, id |-> id])
  OBVIOUS
<1>12. Tracked(more, frames, series, registry, wider, all)
  BY <1>7, <1>9, <1>10, <1>11, FrameAdded DEF TrackedTo
<1>13. /\ nodes' = more /\ dataframes' = frames /\ aligned' = wider
       /\ series' = series /\ registry' = registry
  BY <1>1, <1>2, <1>3, <1>5, <1>8, <1>11 DEF Concat
<1> QED BY <1>12, <1>13 DEF Onward

\* A dataframe in a column or a filter keeps it.
LEMMA UseDataframeKeeps ==
  ASSUME NEW f, Tracked(nodes, dataframes, series, registry, aligned, f),
         NEW h \in DOMAIN dataframes, NEW other \in DOMAIN dataframes, NEW kind,
         UseDataframe(h, other, kind)
  PROVE  Onward
<1>1. PICK self : self = dataframes[h].node
  OBVIOUS
<1>2. PICK head : head = Last(DiffPath(nodes, self, dataframes[other].node))
  OBVIOUS
<1>3. PICK cut : cut = Pruned(nodes, self, head)
  OBVIOUS
<1>4. PICK reads : reads = <<Composed(cut, dataframes[other].node, TRUE)>>
  OBVIOUS
<1>5. Tracked(cut, dataframes, series, registry, aligned, f)
  BY <1>3, PrunedTracked
<1>6. /\ \/ AddUpdate(h, cut, UpdateNode(self, kind, reads))
         \/ AddClone(h, cut, FilterNode(self, kind, reads))
         \/ nodes' = cut /\ UNCHANGED dataframes
      /\ UNCHANGED <<series, registry, aligned>>
  BY <1>1, <1>2, <1>3, <1>4, Zenon DEF UseDataframe
<1>7. CASE AddUpdate(h, cut, UpdateNode(self, kind, reads))
  <2>1. PICK node : node = UpdateNode(self, kind, reads)
    OBVIOUS
  <2>2. Shaped(node) /\ node.from = <<dataframes[h].node>>
    BY <1>1, <2>1, NodeIs, Zenon DEF UpdateNode
  <2> QED BY <1>5, <1>6, <1>7, <2>1, <2>2, AddUpdateKeeps
<1>8. CASE AddClone(h, cut, FilterNode(self, kind, reads))
  <2>1. PICK node : node = FilterNode(self, kind, reads)
    OBVIOUS
  <2>2. Shaped(node) /\ node.from = <<dataframes[h].node>>
    BY <1>1, <2>1, NodeIs, Zenon DEF FilterNode
  <2> QED BY <1>5, <1>6, <1>8, <2>1, <2>2, AddCloneKeeps
<1>9. CASE nodes' = cut /\ UNCHANGED dataframes
  BY <1>5, <1>6, <1>9 DEF Onward
<1> QED BY <1>6, <1>7, <1>8, <1>9

\* A column at the last node keeps it.
LEMMA AddSeriesKeeps ==
  ASSUME NEW g, NEW f, Tracked(g, dataframes, series, registry, aligned, f), Len(g) \in DOMAIN g,
         NEW whose, AddSeries(g, whose), UNCHANGED <<dataframes, registry, aligned>>
  PROVE  Onward
<1>1. PICK columns : columns = Append(series, [node |-> Len(g), owner |-> whose])
  OBVIOUS
<1>2. Tracked(g, dataframes, columns, registry, aligned, f)
  BY <1>1, ColumnAdded
<1> QED BY <1>1, <1>2 DEF AddSeries, Onward

\* The columns of a dataframe, and what is made of columns, keep it.
LEMMA ColumnsKeep ==
  ASSUME NEW f, Tracked(nodes, dataframes, series, registry, aligned, f), NEW reads, NEW whose,
         AddSeries(FromApplyCallback(nodes, reads), whose), UNCHANGED <<dataframes, registry, aligned>>
  PROVE  Onward
<1>1. PICK kind : FromApplyCallback(nodes, reads) = Append(nodes, Node(kind, <<>>, reads))
  BY Zenon DEF FromApplyCallback
<1>2. PICK node : node = Node(kind, <<>>, reads)
  OBVIOUS
<1>3. Shaped(node) /\ node.from = <<>>
  BY <1>2, NodeIs, Zenon
<1>4. PICK more : more = Append(nodes, node)
  OBVIOUS
<1>5. GraphOK(nodes)
  BY DEF Tracked
<1>6. Grown(nodes, more, <<>>)
  BY <1>3, <1>4, <1>5, AppendedIs
<1>7. PICK all : Tracked(more, dataframes, series, registry, aligned, all)
  BY <1>6, LoneAdded DEF TrackedTo
<1>8. Len(more) \in DOMAIN more
  BY <1>5, <1>6, AppendIs DEF Grown, GraphOK
<1>9. AddSeries(more, whose)
  BY <1>1, <1>2, <1>4
<1> QED BY <1>7, <1>8, <1>9, AddSeriesKeeps

\* A function of a column keeps it.
LEMMA SeriesApplyKeeps ==
  ASSUME NEW f, Tracked(nodes, dataframes, series, registry, aligned, f),
         NEW s \in DOMAIN series, SeriesApply(s)
  PROVE  Onward
<1>1. PICK n : n = series[s].node /\ n \in DOMAIN nodes
  BY DEF Tracked, ColumnsOK
<1>2. PICK node : node = ApplyNode(n, FALSE)
  OBVIOUS
<1>3. Shaped(node) /\ node.from = <<n>>
  BY <1>2, NodeIs, Zenon DEF ApplyNode
<1>4. PICK more : more = WithNode(nodes, node)
  OBVIOUS
<1>5. PICK all : Tracked(more, dataframes, series, registry, aligned, all)
  BY <1>1, <1>3, <1>4, FunctionTracked DEF TrackedTo
<1>6. GraphOK(nodes)
  BY DEF Tracked
<1>7. Grown(nodes, more, <<n>>)
  BY <1>1, <1>3, <1>4, <1>6, FunctionGrown
<1>8. Len(more) \in DOMAIN more
  BY <1>6, <1>7, AppendIs DEF Grown, GraphOK
<1>9. PICK whose : AddSeries(more, whose) /\ UNCHANGED <<dataframes, registry, aligned>>
  BY <1>1, <1>2, <1>4 DEF SeriesApply
<1> QED BY <1>5, <1>8, <1>9, AddSeriesKeeps

\* A column in a column or a filter keeps it.
LEMMA UseSeriesKeeps ==
  ASSUME NEW f, Tracked(nodes, dataframes, series, registry, aligned, f),
         NEW h \in DOMAIN dataframes, NEW s \in DOMAIN series, NEW kind, UseSeries(h, s, kind)
  PROVE  Onward
<1>1. PICK self : self = dataframes[h].node
  OBVIOUS
<1>2. PICK reads : reads = <<Composed(nodes, series[s].node, FALSE)>>
  OBVIOUS
<1>3. /\ \/ AddUpdate(h, nodes, UpdateNode(self, kind, reads))
         \/ AddClone(h, nodes, FilterNode(self, kind, reads))
      /\ UNCHANGED <<series, registry, aligned>>
  BY <1>1, <1>2, Zenon DEF UseSeries
<1>4. CASE AddUpdate(h, nodes, UpdateNode(self, kind, reads))
  <2>1. PICK node : node = UpdateNode(self, kind, reads)
    OBVIOUS
  <2>2. Shaped(node) /\ node.from = <<dataframes[h].node>>
    BY <1>1, <2>1, NodeIs, Zenon DEF UpdateNode
  <2> QED BY <1>3, <1>4, <2>1, <2>2, AddUpdateKeeps
<1>5. CASE AddClone(h, nodes, FilterNode(self, kind, reads))
  <2>1. PICK node : node = FilterNode(self, kind, reads)
    OBVIOUS
  <2>2. Shaped(node) /\ node.from = <<dataframes[h].node>>
    BY <1>1, <2>1, NodeIs, Zenon DEF FilterNode
  <2> QED BY <1>3, <1>5, <2>1, <2>2, AddCloneKeeps
<1> QED BY <1>3, <1>4, <1>5

\* group_by() of one partition keeps it.
LEMMA GroupBySinglePartitionKeeps ==
  ASSUME NEW f, Tracked(nodes, dataframes, series, registry, aligned, f),
         NEW h \in DOMAIN dataframes, NEW operation, GroupBySinglePartition(h, operation)
  PROVE  Onward
<1>1. PICK refused, id, node : node = [TransformNode(dataframes[h].node) EXCEPT !.void = refused]
         /\ nodes' = WithNode(nodes, node)
         /\ \/ UNCHANGED dataframes
            \/ AddDataframe(Len(nodes) + 1, dataframes[h].topics, id)
         /\ UNCHANGED <<series, registry, aligned>>
  BY Zenon DEF GroupBySinglePartition
<1>2. Shaped(node) /\ node.from = <<dataframes[h].node>>
  <2>1. PICK same : same = TransformNode(dataframes[h].node)
    OBVIOUS
  <2>2. Shaped(same) /\ same.from = <<dataframes[h].node>>
    BY <2>1, NodeIs, Zenon DEF TransformNode
  <2>3. node = [same EXCEPT !.void = refused]
    BY <1>1, <2>1
  <2> QED BY <2>2, <2>3, RefusedIs
<1>3. CASE UNCHANGED dataframes
  <2>1. dataframes[h].node \in DOMAIN nodes
    BY FrameIs
  <2>2. PICK all : Tracked(WithNode(nodes, node), dataframes, series, registry, aligned, all)
    BY <1>2, <2>1, FunctionTracked DEF TrackedTo
  <2> QED BY <1>1, <1>3, <2>2 DEF Onward
<1>4. CASE AddDataframe(Len(nodes) + 1, dataframes[h].topics, id)
  <2>1. PICK frames : frames = Append(dataframes, [node |-> Len(nodes) + 1,
                         topics |-> dataframes[h].topics, id |-> id])
    OBVIOUS
  <2>2. PICK all : Tracked(WithNode(nodes, node), frames, series, registry, aligned, all)
    BY <1>2, <2>1, CloneTracked
  <2> QED BY <1>1, <1>4, <2>1, <2>2 DEF AddDataframe, Onward
<1> QED BY <1>1, <1>3, <1>4

\* Length of a graph with one more node.
LEMMA LenGrown ==
  ASSUME NEW g, NEW more, NEW from, Grown(g, more, from)
  PROVE  Len(more) = Len(g) + 1 /\ Len(more) \in DOMAIN more /\ GraphOK(more)
  BY AppendIs DEF Grown, GraphOK

\* group_by() through a repartition topic keeps it.
LEMMA GroupByKeeps ==
  ASSUME NEW f, Tracked(nodes, dataframes, series, registry, aligned, f),
         NEW h \in DOMAIN dataframes, NEW operation, GroupBy(h, operation)
  PROVE  Onward
<1> DEFINE Made(kind, parents, refused) == [Node(kind, parents, <<>>) EXCEPT !.void = refused]
<1>1. PICK refused, topic, put, cut, moved :
         /\ put = WithNode(nodes, Made("update", <<dataframes[h].node>>, refused))
         /\ cut = WithNode(put, Made("drop", <<Len(put)>>, refused))
         /\ moved = [dataframes EXCEPT ![h].node = Len(put)]
         /\ nodes' = Append(cut, Made("root", <<>>, refused))
         /\ \/ dataframes' = moved /\ UNCHANGED registry
            \/ /\ dataframes' = Append(moved, [node |-> Len(cut) + 1, topics |-> {topic}, id |-> topic])
               /\ registry' = Append(registry, [topic |-> topic, node |-> Len(cut) + 1])
         /\ UNCHANGED <<series, aligned>>
  BY Zenon DEF GroupBy
<1>2. GraphOK(nodes) /\ dataframes[h].node \in DOMAIN nodes
  BY FrameIs DEF Tracked
<1>3. PICK a : a = Made("update", <<dataframes[h].node>>, refused)
  OBVIOUS
<1>4. Shaped(a) /\ a.from = <<dataframes[h].node>>
  <2>1. PICK same : same = Node("update", <<dataframes[h].node>>, <<>>)
    OBVIOUS
  <2>2. Shaped(same) /\ same.from = <<dataframes[h].node>>
    BY <2>1, NodeIs, Zenon
  <2>3. a = [same EXCEPT !.void = refused]
    BY <1>3, <2>1
  <2> QED BY <2>2, <2>3, RefusedIs
<1>5. Len(put) = Len(nodes) + 1 /\ Len(put) \in DOMAIN put /\ GraphOK(put)
  <2>1. Grown(nodes, WithNode(nodes, a), <<dataframes[h].node>>)
    BY <1>2, <1>4, FunctionGrown
  <2>2. put = WithNode(nodes, a)
    BY <1>1, <1>3
  <2> QED BY <2>1, <2>2, LenGrown
<1>6. PICK e : Tracked(put, moved, series, registry, aligned, e)
  <2>1. PICK e : Tracked(WithNode(nodes, a), [dataframes EXCEPT ![h].node = Len(nodes) + 1],
                         series, registry, aligned, e)
    BY <1>4, UpdateTracked DEF TrackedTo
  <2> QED BY <1>1, <1>3, <1>5, <2>1
<1>7. PICK b : b = Made("drop", <<Len(put)>>, refused)
  OBVIOUS
<1>8. Shaped(b) /\ b.from = <<Len(put)>>
  <2>1. PICK same : same = Node("drop", <<Len(put)>>, <<>>)
    OBVIOUS
  <2>2. Shaped(same) /\ same.from = <<Len(put)>>
    BY <2>1, NodeIs, Zenon
  <2>3. b = [same EXCEPT !.void = refused]
    BY <1>7, <2>1
  <2> QED BY <2>2, <2>3, RefusedIs
<1>9. PICK d : Tracked(cut, moved, series, registry, aligned, d)
  <2>1. PICK d : Tracked(WithNode(put, b), moved, series, registry, aligned, d)
    BY <1>5, <1>6, <1>8, FunctionTracked DEF TrackedTo
  <2> QED BY <1>1, <1>7, <2>1
<1>10. PICK c : c = Made("root", <<>>, refused)
  OBVIOUS
<1>11. Shaped(c) /\ c.from = <<>>
  <2>1. PICK same : same = Node("root", <<>>, <<>>)
    OBVIOUS
  <2>2. Shaped(same) /\ same.from = <<>>
    BY <2>1, NodeIs, Zenon
  <2>3. c = [same EXCEPT !.void = refused]
    BY <1>10, <2>1
  <2> QED BY <2>2, <2>3, RefusedIs
<1>12. PICK more : more = Append(cut, c)
  OBVIOUS
<1>13. Grown(cut, more, <<>>)
  <2>1. GraphOK(cut)
    BY <1>9 DEF Tracked
  <2> QED BY <1>11, <1>12, <2>1, AppendedIs
<1>14. nodes' = more /\ series' = series /\ aligned' = aligned
  BY <1>1, <1>10, <1>12
<1>15. CASE dataframes' = moved /\ UNCHANGED registry
  <2>1. PICK all : Tracked(more, moved, series, registry, aligned, all)
    BY <1>9, <1>13, LoneAdded DEF TrackedTo
  <2> QED BY <1>14, <1>15, <2>1 DEF Onward
<1>16. CASE /\ dataframes' = Append(moved, [node |-> Len(cut) + 1, topics |-> {topic}, id |-> topic])
            /\ registry' = Append(registry, [topic |-> topic, node |-> Len(cut) + 1])
  <2>1. PICK roots : roots = Append(registry, [topic |-> topic, node |-> Len(cut) + 1])
    OBVIOUS
  <2>2. PICK all : TrackedTo(cut, more, moved, series, roots, aligned, d, {topic}, all)
    BY <1>9, <1>13, <2>1, RootAdded
  <2>3. all[Len(cut) + 1] = {topic} /\ Len(cut) + 1 \in DOMAIN more
    BY <2>2, Zenon DEF TrackedTo, GrewTo
  <2>4. PICK topics : topics = {topic} /\ topics # {} /\ IsFiniteSet(topics)
    BY FS_Singleton
  <2>5. PICK frames :
                frames = Append(moved, [node |-> Len(cut) + 1, topics |-> topics, id |-> topic])
    OBVIOUS
  <2>6. Tracked(more, frames, series, roots, aligned, all)
    BY <2>2, <2>3, <2>4, <2>5, FrameAdded DEF TrackedTo
  <2> QED BY <1>14, <1>16, <2>1, <2>4, <2>5, <2>6 DEF Onward
<1> QED BY <1>1, <1>15, <1>16

\* Every call keeps it.
LEMMA StreamsKept ==
  ASSUME NEW f, Tracked(nodes, dataframes, series, registry, aligned, f), StreamsNext
  PROVE  Onward
<1>1. ASSUME NEW h \in DOMAIN dataframes,
             \/ \E expand \in BOOLEAN : Apply(h, expand)
             \/ Filter(h) \/ SetTimestamp(h) \/ SetHeaders(h) \/ Update(h) \/ JoinLookup(h)
             \/ \E columns \in SUBSET {"column"} : Fill(h, columns) \/ Drop(h, columns)
             \/ ToTopic(h) \/ PrintValue(h) \/ PrintTable(h) \/ SinkTo(h)
      PROVE  Onward
  <2>1. CASE \E kind : UpdateInPlace(h, kind)
    BY <2>1, FunctionsKeep
  <2>2. CASE \/ \E expand \in BOOLEAN : Apply(h, expand)
             \/ Filter(h) \/ SetTimestamp(h) \/ SinkTo(h)
    BY <2>2, FunctionsKeep
  <2>3. CASE UNCHANGED <<nodes, dataframes, series, registry, aligned>>
    BY <2>3 DEF Onward
  <2> QED BY <1>1, <2>1, <2>2, <2>3, Zenon
          DEF SetHeaders, Update, JoinLookup, Fill, Drop, ToTopic, PrintValue, PrintTable
<1>2. ASSUME NEW h \in DOMAIN dataframes, Column(h) \/ ContainsColumns(h) PROVE Onward
  <2>1. AddSeries(FromApplyCallback(nodes, <<>>), h) /\ UNCHANGED <<dataframes, registry, aligned>>
    BY <1>2 DEF Column, ContainsColumns
  <2> QED BY <2>1, ColumnsKeep
<1>3. ASSUME NEW s \in DOMAIN series, NEW others,
             Arithmetic(s, others) \/ Membership(s, others) \/ Logical(s, others)
      PROVE  Onward
  <2>1. SeriesOperation(s, others)
    BY <1>3, Zenon DEF Arithmetic, Membership, Logical
  <2>2. \E reads : AddSeries(FromApplyCallback(nodes, reads), series[s].owner)
    BY <2>1, Zenon DEF SeriesOperation
  <2>3. UNCHANGED <<dataframes, registry, aligned>>
    BY <2>1, Zenon DEF SeriesOperation
  <2> QED BY <2>2, <2>3, ColumnsKeep
<1>4. ASSUME NEW s \in DOMAIN series, SeriesApply(s) \/ Absolute(s) \/ Invert(s) PROVE Onward
  BY <1>4, SeriesApplyKeeps DEF Absolute, Invert
<1>5. ASSUME NEW h \in DOMAIN dataframes, NEW other \in DOMAIN dataframes, Concat(h, other)
      PROVE  Onward
  BY <1>5, ConcatKeeps
<1>6. ASSUME NEW h \in DOMAIN dataframes, NEW other \in DOMAIN dataframes, NEW kind,
             UseDataframe(h, other, kind)
      PROVE  Onward
  BY <1>6, UseDataframeKeeps
<1>7. ASSUME NEW h \in DOMAIN dataframes, NEW s \in DOMAIN series, NEW kind, UseSeries(h, s, kind)
      PROVE  Onward
  BY <1>7, UseSeriesKeeps
<1>8. ASSUME NEW h \in DOMAIN dataframes, NEW operation,
             GroupBySinglePartition(h, operation) \/ GroupBy(h, operation)
      PROVE  Onward
  BY <1>8, GroupBySinglePartitionKeeps, GroupByKeeps
<1> QED BY <1>1, <1>2, <1>3, <1>4, <1>5, <1>6, <1>7, <1>8, Zenon DEF StreamsNext

\* The topics that the program names have their roots.
LEMMA StreamsStart == ASSUME Init PROVE StreamsInv
<1> SUFFICES ASSUME Defining PROVE \E f : Tracked(nodes, dataframes, series, registry, aligned, f)
  BY DEF StreamsInv
<1>1. PICK S : S = {Topic(t) : t \in scenario.topics}
  OBVIOUS
<1>2. IsFiniteSet(S)
  <2>1. PICK T : T = scenario.topics
    OBVIOUS
  <2>2. IsFiniteSet(T)
    BY <2>1, ScenariosAssumption DEF Init, Defining, TrackerDefinition, BrokerDefinition,
       ExactlyOnceDefinition, ReplicatorDefinition, ProcessDefinition, ConnectorDefinition,
       SinkDefinition, GraphDefinition, TopicsDefinition
  <2> DEFINE g == [t \in T |-> Topic(t)]
  <2>3. T \subseteq DOMAIN g /\ S = {g[t] : t \in T}
    BY <1>1, <2>1
  <2> HIDE DEF g
  <2>4. IsFiniteSet({g[t] : t \in T})
    BY <2>2, <2>3, FiniteImage
  <2> QED BY <2>3, <2>4
<1>3. PICK k \in Nat : k = Cardinality(S)
  BY <1>2, FS_CardinalityType
<1>4. PICK topics : topics = SetToSeq(S)
  OBVIOUS
<1>5. topics \in [1..k -> S]
  <2>1. ExistsBijection(1..k, S)
    BY <1>2, <1>3, FS_CardinalityType
  <2>2. \E e \in [1..k -> S] : \A i, j \in 1..k : e[i] = e[j] => i = j
    BY <2>1 DEF ExistsBijection, Bijection, Injection, IsInjective
  <2>3. \E e \in [1..k -> S] : IsInjective(e)
    BY <2>2 DEF IsInjective
  <2> QED BY <1>3, <1>4, <2>3, Zenon DEF SetToSeq
<1>6. /\ nodes = [i \in 1..k |-> Node("root", <<>>, <<>>)]
      /\ dataframes = [i \in 1..k |-> [node |-> i, topics |-> {topics[i]}, id |-> topics[i]]]
      /\ registry = [i \in 1..k |-> [topic |-> topics[i], node |-> i]]
      /\ series = <<>>
  <2>1. StreamsInit
    BY DEF Init
  <2>2. DOMAIN topics = 1..k
    BY <1>5
  <2>3. SetToSeq({Topic(t) : t \in scenario.topics}) = topics
    BY <1>1, <1>4
  <2> QED BY <2>1, <2>2, <2>3 DEF StreamsInit
<1>7. /\ IsSeq(nodes) /\ IsSeq(dataframes) /\ IsSeq(registry) /\ IsSeq(series)
      /\ DOMAIN nodes = 1..k /\ DOMAIN dataframes = 1..k /\ DOMAIN registry = 1..k
      /\ DOMAIN series = {}
  <2>1. IsSeq(nodes) /\ DOMAIN nodes = 1..k
    BY <1>6, ListOf
  <2>2. IsSeq(dataframes) /\ DOMAIN dataframes = 1..k
    BY <1>6, ListOf
  <2>3. IsSeq(registry) /\ DOMAIN registry = 1..k
    BY <1>6, ListOf
  <2>4. IsSeq(series) /\ DOMAIN series = {}
    BY <1>6 DEF IsSeq
  <2> QED BY <2>1, <2>2, <2>3, <2>4
<1>8. \A n \in 1..k : Shaped(nodes[n]) /\ nodes[n].from = <<>>
  BY <1>6, NodeIs
<1>9. GraphOK(nodes)
  BY <1>7, <1>8 DEF GraphOK
<1>10. PICK f : f = [n \in 1..k |-> {topics[n]}]
  OBVIOUS
<1>11. ASSUME NEW n \in 1..k PROVE Rooted(registry, n) = {topics[n]}
  <2>1. {j \in DOMAIN registry : registry[j].node = n} = {n} /\ registry[n].topic = topics[n]
    BY <1>6, <1>7
  <2> QED BY <2>1 DEF Rooted
<1>12. Reach(nodes, registry, f)
  <2>1. \A n \in 1..k : Range(nodes[n].from) = {}
    BY <1>8 DEF Range
  <2>2. \A n \in 1..k :
           Rooted(registry, n) \cup UNION {f[m] : m \in Range(nodes[n].from)} = {topics[n]}
    BY <1>11, <2>1
  <2> QED BY <1>7, <1>10, <2>2 DEF Reach
<1>13. FramesOK(nodes, f, dataframes)
  <2>1. ASSUME NEW i \in 1..k PROVE FrameOK(nodes, f, dataframes[i])
    <3>1. PICK T : T = {topics[i]} /\ T # {} /\ IsFiniteSet(T)
      BY FS_Singleton
    <3>2. dataframes[i] = [node |-> i, topics |-> T, id |-> topics[i]]
      BY <1>6, <3>1
    <3>3. f[i] = T
      BY <1>10, <3>1
    <3> QED BY <1>7, <3>1, <3>2, <3>3 DEF FrameOK
  <2> QED BY <1>7, <2>1 DEF FramesOK
<1>14. Together(nodes, f, aligned)
  <2>1. ASSUME NEW n \in 1..k PROVE Ordered(f[n], aligned)
    <3>1. PICK T : T = {topics[n]}
      OBVIOUS
    <3>2. Cardinality(T) = 1
      BY <3>1, FS_Singleton, Zenon
    <3>3. f[n] = T
      BY <1>10, <3>1
    <3> QED BY <3>2, <3>3 DEF Ordered
  <2> QED BY <1>7, <2>1 DEF Together
<1>15. RootsOK(nodes, registry) /\ ColumnsOK(nodes, series)
  BY <1>6, <1>7 DEF RootsOK, ColumnsOK
<1> QED BY <1>9, <1>12, <1>13, <1>14, <1>15 DEF Tracked

\* What f says is what Sources computes.
LEMMA SourcesAre ==
  ASSUME NEW f, Tracked(nodes, dataframes, series, registry, aligned, f)
  PROVE  Sources = f
<1>1. Sources = CHOOSE e : Reach(nodes, registry, e)
  BY DEF Sources, Reach, Rooted
<1>2. \A e : Reach(nodes, registry, e) => e = f
  BY ReachUnique DEF Tracked
<1>3. Reach(nodes, registry, f)
  BY DEF Tracked
<1> QED BY <1>1, <1>2, <1>3, Zenon

\* The invariant says that topics are aligned.
LEMMA StreamsAligned == StreamsInv => TopicsAligned
<1> SUFFICES ASSUME StreamsInv, Defining
             PROVE  /\ \A h \in DOMAIN dataframes :
                          dataframes[h].topics = Sources[dataframes[h].node]
                    /\ (\E n \in DOMAIN nodes : Cardinality(Sources[n]) > 1) => aligned
  BY DEF TopicsAligned
<1>1. PICK f : Tracked(nodes, dataframes, series, registry, aligned, f)
  BY DEF StreamsInv
<1>2. Sources = f
  BY <1>1, SourcesAre
<1> QED BY <1>1, <1>2 DEF Tracked, FramesOK, FrameOK, Together, Ordered

\* There is a map that says which topics reach each node, whatever the calls.
LEMMA StreamsInvariant == Spec => []StreamsInv
<1>1. Init => StreamsInv
  BY StreamsStart
<1>2. StreamsInv /\ [Next]_applicationVars => StreamsInv'
  <2> SUFFICES ASSUME StreamsInv, [Next]_applicationVars PROVE StreamsInv'
    OBVIOUS
  <2>1. UNCHANGED scenario /\ ((Defining /\ StreamsNext) \/ UNCHANGED streamVars)
    BY Zenon DEF Next, applicationVars, BesidesExactlyOnce, BesidesReplicator, BesidesProcesses,
       BesidesConnector, BesidesTracker, BesidesBroker, BesidesSink, BesidesGraph, BesidesTopics
  <2>2. CASE UNCHANGED streamVars
    BY <2>1, <2>2 DEF StreamsInv, Defining, streamVars
  <2>3. CASE Defining /\ StreamsNext
    <3>1. PICK f : Tracked(nodes, dataframes, series, registry, aligned, f)
      BY <2>3 DEF StreamsInv
    <3>2. Onward
      BY <2>3, <3>1, StreamsKept
    <3> QED BY <3>2 DEF Onward, StreamsInv
  <2> QED BY <2>1, <2>2, <2>3
<1> QED BY <1>1, <1>2, PTL DEF Spec

\* Whatever the order of the calls, the topics of a dataframe are those whose messages
\* reach it, and when those of several come together they are consumed aligned.
THEOREM TopicsAlignedHolds == Spec => []TopicsAligned
BY StreamsInvariant, StreamsAligned, PTL

-----------------------------------------------------------------------------
(* Types *)

\* What a step of the application leaves alone, and which component it is of.
LEMMA StepIs ==
  ASSUME [Next]_applicationVars
  PROVE  /\ UNCHANGED scenario
         /\ (Tracking /\ TrackerNext) \/ UNCHANGED trackerVars
         /\ (Probing /\ BrokerNext) \/ UNCHANGED brokerVars
         /\ (Defining /\ StreamsNext) \/ UNCHANGED streamVars
  BY Zenon DEF Next, applicationVars, BesidesExactlyOnce, BesidesReplicator, BesidesProcesses,
     BesidesConnector, BesidesTracker, BesidesBroker, BesidesSink, BesidesGraph, BesidesTopics

\* What is counted has come with a message.
TrackerTyped ==
    Tracking => /\ MaxOffset \in Nat /\ clock \in Nat /\ tracker \in Tracker
                /\ TrackerTypeOK /\ tracker.count + 2 * remaining <= 2 * MaxOffset

\* Iterations, recoveries and the passing of time keep the types of the tracker.
LEMMA TrackerTypedStep ==
  ASSUME TrackerTyped, TrackerInv, UNCHANGED scenario,
         (Tracking /\ TrackerNext) \/ UNCHANGED trackerVars
  PROVE  TrackerTyped'
<1>1. CASE UNCHANGED trackerVars
  BY <1>1 DEF TrackerTyped, Tracking, trackerVars, TrackerTypeOK, MaxOffset
<1> SUFFICES ASSUME Tracking, TrackerNext PROVE TrackerTyped'
  BY <1>1
<1>2. /\ MaxOffset \in Nat /\ clock \in Nat /\ tracker \in Tracker /\ TrackerTypeOK
      /\ tracker.count + 2 * remaining <= 2 * MaxOffset /\ liveAt \in Nat
  BY DEF TrackerTyped, TrackerInv
<1>3. /\ tracker = [start |-> tracker.start, consumed |-> tracker.consumed, count |-> tracker.count]
      /\ tracker.start \in Int /\ tracker.consumed \in BOOLEAN /\ tracker.count \in Nat
      /\ tracker.start <= clock + Allowance /\ liveAt <= clock /\ remaining \in 0..MaxOffset
      /\ Allowance = 2
  BY <1>2 DEF Tracker, TrackerTypeOK, Allowance
<1>4. ASSUME NEW t \in Tracker, UpdateStatus(t), t.start <= clock + Allowance
      PROVE  /\ tracker' \in Tracker /\ tracker'.start <= clock + Allowance
             /\ tracker'.count = t.count
  <2>1. PICK n : n = [t EXCEPT !.start = clock]
    OBVIOUS
  <2>2. n \in Tracker /\ n.start = clock /\ n.count = t.count
    BY <1>2, <2>1 DEF Tracker
  <2>3. tracker' = n \/ tracker' = t
    BY <1>4, <2>1 DEF UpdateStatus
  <2> QED BY <1>2, <1>3, <1>4, <2>2, <2>3
<1>5. ASSUME NEW k \in Nat, NEW r \in 0..MaxOffset, k + 2 * r <= 2 * MaxOffset,
             tracker' \in Tracker, tracker'.start <= clock' + Allowance, tracker'.count = k,
             remaining' = r, clock' \in Nat, liveAt' <= clock'
      PROVE  TrackerTyped'
  <2>1. k \in 0..2 * MaxOffset
    BY <1>2, <1>5
  <2>2. MaxOffset' = MaxOffset
    BY DEF MaxOffset
  <2> QED BY <1>2, <1>5, <2>1, <2>2 DEF TrackerTyped, TrackerTypeOK
<1>6. CASE PollNothing
  <2>1. PICK a \in BOOLEAN :
           /\ UpdateStatus([(IF a THEN Refresh(tracker) ELSE tracker) EXCEPT !.consumed = FALSE])
           /\ liveAt' = IF a THEN clock ELSE liveAt
           /\ clock' = clock /\ remaining' = remaining
    BY <1>6 DEF PollNothing
  <2>2. PICK s : s = IF a THEN Refresh(tracker) ELSE tracker
    OBVIOUS
  <2>3. s \in Tracker /\ s.start <= clock + Allowance /\ s.count = tracker.count
    BY <1>2, <1>3, <2>2 DEF Refresh, Tracker
  <2>4. PICK t : t = [s EXCEPT !.consumed = FALSE]
    OBVIOUS
  <2>5. t \in Tracker /\ t.start <= clock + Allowance /\ t.count = tracker.count
    BY <2>3, <2>4 DEF Tracker
  <2>6. UpdateStatus(t)
    BY <2>1, <2>2, <2>4
  <2>7. /\ tracker' \in Tracker /\ tracker'.start <= clock + Allowance
        /\ tracker'.count = tracker.count
    BY <1>4, <2>5, <2>6
  <2> QED BY <1>2, <1>3, <1>5, <2>1, <2>7
<1>7. CASE PollMessage
  <2>1. PICK n \in 0..2 : /\ UpdateStatus([tracker EXCEPT !.consumed = TRUE, !.count = @ + n])
                          /\ liveAt' = clock /\ clock' = clock /\ remaining > 0
                          /\ remaining' = remaining - 1
    BY <1>7 DEF PollMessage
  <2>2. PICK t : t = [tracker EXCEPT !.consumed = TRUE, !.count = @ + n]
    OBVIOUS
  <2>3. t \in Tracker /\ t.start = tracker.start /\ t.count = tracker.count + n
    <3>1. tracker.count + n \in Nat
      BY <1>3
    <3> QED BY <1>3, <2>2, <3>1 DEF Tracker
  <2>4. UpdateStatus(t) /\ t.start <= clock + Allowance
    BY <1>3, <2>1, <2>2, <2>3
  <2>5. /\ tracker' \in Tracker /\ tracker'.start <= clock + Allowance
        /\ tracker'.count = tracker.count + n
    BY <1>4, <2>3, <2>4
  <2>6. PICK k \in Nat : k = tracker.count + n
    BY <1>3
  <2>7. PICK r \in 0..MaxOffset : r = remaining - 1
    BY <1>2, <1>3, <2>1
  <2>8. k + 2 * r <= 2 * MaxOffset
    BY <1>2, <1>3, <2>6, <2>7
  <2> QED BY <1>2, <1>5, <2>1, <2>5, <2>6, <2>7, <2>8
<1>8. CASE PollEmpty
  <2>1. /\ UpdateStatus(tracker) /\ UNCHANGED <<clock, liveAt>> /\ remaining > 0
        /\ remaining' = remaining - 1
    BY <1>8 DEF PollEmpty
  <2>2. /\ tracker' \in Tracker /\ tracker'.start <= clock + Allowance
        /\ tracker'.count = tracker.count
    BY <1>2, <1>3, <1>4, <2>1
  <2>3. PICK r \in 0..MaxOffset : r = remaining - 1
    BY <1>2, <1>3, <2>1
  <2>4. tracker.count + 2 * r <= 2 * MaxOffset
    BY <1>2, <1>3, <2>3
  <2> QED BY <1>2, <1>3, <1>5, <2>1, <2>2, <2>3, <2>4
<1>9. CASE Recover
  <2>1. tracker' = Refresh(tracker) /\ liveAt' = clock /\ clock' = clock /\ remaining' = remaining
    BY <1>9 DEF Recover
  <2>2. /\ tracker' \in Tracker /\ tracker'.start <= clock + Allowance
        /\ tracker'.count = tracker.count
    BY <1>2, <1>3, <2>1 DEF Refresh, Tracker
  <2> QED BY <1>2, <1>3, <1>5, <2>1, <2>2
<1>10. CASE TimePasses
  <2>1. tracker' = tracker /\ liveAt' = liveAt /\ clock' = clock + 1 /\ remaining' = remaining
    BY <1>10 DEF TimePasses
  <2>2. tracker'.start <= clock' + Allowance /\ liveAt' <= clock' /\ clock' \in Nat
    BY <1>2, <1>3, <2>1
  <2> QED BY <1>2, <1>3, <1>5, <2>1, <2>2
<1> QED BY <1>6, <1>7, <1>8, <1>9, <1>10 DEF TrackerNext

\* The clients and the brokers keep the types.
LEMMA BrokerTypedStep ==
  ASSUME BrokerTypeOK, BrokerInv, UNCHANGED scenario,
         (Probing /\ BrokerNext) \/ UNCHANGED brokerVars
  PROVE  BrokerTypeOK'
<1>1. CASE UNCHANGED brokerVars
  BY <1>1 DEF BrokerTypeOK, brokerVars
<1> SUFFICES ASSUME BrokerNext PROVE BrokerTypeOK'
  BY <1>1
<1>2. /\ seconds \in Nat /\ probed \in [Instance -> Int] /\ since \in [Instance -> Int]
      /\ \A c \in Instance : since[c] <= seconds /\ (probed[c] # Never => since[c] # Never)
  BY DEF BrokerInv, BrokerTypeOK
<1>3. CASE BrokersChange
  BY <1>2, <1>3 DEF BrokersChange, BrokerTypeOK
<1>4. CASE SecondsPass
  BY <1>2, <1>4 DEF SecondsPass, BrokerTypeOK
<1>5. ASSUME NEW clients, Available(clients), seconds' = seconds PROVE BrokerTypeOK'
  BY <1>2, <1>5 DEF Available, BrokerTypeOK, Never
<1>6. CASE Contact
  BY <1>5, <1>6 DEF Contact
<1>7. ASSUME NEW c \in Instance, AllBrokersDown(c) PROVE BrokerTypeOK'
  BY <1>2, <1>7 DEF AllBrokersDown, BrokerTypeOK, Never
<1>8. ASSUME NEW c \in Instance, CheckBrokers(c) PROVE BrokerTypeOK'
  <2>1. seconds' = seconds /\ since[c] # Never
    BY <1>8 DEF CheckBrokers
  <2>2. CASE ProbeDue(c) /\ reachable
    BY <1>5, <1>8, <2>1, <2>2 DEF CheckBrokers
  <2>3. CASE ~(ProbeDue(c) /\ reachable)
    <3>1. since' = since /\ probed' \in {probed, [probed EXCEPT ![c] = seconds]}
      BY <1>8, <2>3 DEF CheckBrokers
    <3> QED BY <1>2, <2>1, <3>1 DEF BrokerTypeOK
  <2> QED BY <2>2, <2>3
<1> QED BY <1>3, <1>4, <1>6, <1>7, <1>8 DEF BrokerNext

\* A node of a graph of k nodes: it comes after its parents and before its children.
TypedNode(node, n, k) ==
    /\ node.kind \in Kinds /\ \A i \in DOMAIN node.parents : node.parents[i] \in 1..n - 1
    /\ IsSeq(node.children) /\ \A i \in DOMAIN node.children : node.children[i] \in n + 1..k

\* A graph of such nodes.
Typed(g) == GraphOK(g) /\ \A n \in DOMAIN g : TypedNode(g[n], n, Len(g))

\* A node that can be added to a graph of k nodes.
Fresh(node, k) ==
    /\ Shaped(node) /\ node.kind \in Kinds /\ node.children = <<>> /\ node.from = node.parents
    /\ \A i \in DOMAIN node.parents : node.parents[i] \in 1..k

\* The types of a node do not depend on the nodes that are added.
LEMMA TypedAmongMore ==
  ASSUME NEW node, NEW n \in Nat, NEW k \in Nat, TypedNode(node, n, k)
  PROVE  TypedNode(node, n, k + 1)
  BY DEF TypedNode

\* One more child, which is the last node.
LEMMA TypedParent ==
  ASSUME NEW node, NEW n \in Nat, NEW k \in Nat, n <= k, TypedNode(node, n, k), Shaped(node),
         NEW same, same = [node EXCEPT !.children = Append(node.children, k + 1)]
  PROVE  TypedNode(same, n, k + 1)
<1>1. PICK more : more = Append(node.children, k + 1)
  OBVIOUS
<1>2. /\ IsSeq(more) /\ Len(node.children) \in Nat /\ DOMAIN node.children = 1..Len(node.children)
      /\ DOMAIN more = 1..Len(node.children) + 1
      /\ more[Len(node.children) + 1] = k + 1
      /\ \A i \in 1..Len(node.children) : more[i] = node.children[i]
  BY <1>1, AppendIs DEF TypedNode
<1>3. ASSUME NEW i \in DOMAIN more PROVE more[i] \in n + 1..k + 1
  <2>1. CASE i = Len(node.children) + 1
    BY <1>2, <2>1
  <2>2. CASE i \in 1..Len(node.children)
    BY <1>2, <2>2 DEF TypedNode
  <2> QED BY <1>2, <2>1, <2>2
<1>4. same.kind = node.kind /\ same.parents = node.parents /\ same.children = more
  BY <1>1 DEF Shaped
<1> QED BY <1>2, <1>3, <1>4 DEF TypedNode

\* A fresh node is one of a graph that has it as its last.
LEMMA FreshTyped ==
  ASSUME NEW node, NEW k \in Nat, Fresh(node, k)
  PROVE  TypedNode(node, k + 1, k + 1)
<1>1. IsSeq(<<>>) /\ DOMAIN <<>> = {}
  BY DEF IsSeq
<1>2. \A i \in DOMAIN node.parents : node.parents[i] \in 1..(k + 1) - 1
  BY DEF Fresh
<1> QED BY <1>1, <1>2 DEF Fresh, TypedNode

\* _add() keeps the types.
LEMMA WithNodeTyped ==
  ASSUME NEW g, Typed(g), NEW node, Fresh(node, Len(g))
  PROVE  Typed(WithNode(g, node))
<1>1. PICK base : base = [n \in DOMAIN g |->
              IF n \in Range(node.parents) THEN [g[n] EXCEPT !.children = Append(@, Len(g) + 1)]
              ELSE g[n]]
  OBVIOUS
<1>2. PICK more : more = WithNode(g, node) /\ more = Append(base, node)
  BY <1>1, Zenon DEF WithNode
<1>3. IsSeq(g) /\ Len(g) \in Nat /\ DOMAIN g = 1..Len(g) /\ GraphOK(g)
  BY AppendIs DEF Typed, GraphOK
<1>4. GraphOK(more) /\ Len(more) = Len(g) + 1 /\ DOMAIN more = 1..Len(g) + 1
  <2>1. Grown(g, WithNode(g, node), node.from)
    BY <1>3, WithNodeIs, Zenon DEF Fresh
  <2>2. DOMAIN more = 1..Len(more)
    BY <1>2, <2>1, AppendIs DEF Grown, GraphOK
  <2> QED BY <1>2, <2>1, <2>2 DEF Grown
<1>5. IsSeq(base) /\ Len(base) = Len(g)
  <2>1. base = [n \in 1..Len(g) |-> base[n]]
    BY <1>1, <1>3
  <2>2. IsSeq(base) /\ DOMAIN base = 1..Len(g)
    BY <1>3, <2>1, ListOf
  <2>3. Len(base) \in Nat /\ DOMAIN base = 1..Len(base)
    BY <2>2, AppendIs
  <2> QED BY <1>3, <2>2, <2>3
<1>6. more[Len(g) + 1] = node /\ \A n \in 1..Len(g) : more[n] = base[n]
  BY <1>2, <1>5, AppendIs
<1>7. ASSUME NEW n \in 1..Len(g) PROVE TypedNode(more[n], n, Len(g) + 1)
  <2>1. TypedNode(g[n], n, Len(g)) /\ Shaped(g[n]) /\ n \in Nat /\ n <= Len(g)
    BY <1>3 DEF Typed, GraphOK
  <2>2. base[n] = g[n] \/ base[n] = [g[n] EXCEPT !.children = Append(g[n].children, Len(g) + 1)]
    BY <1>1, <1>3
  <2>3. CASE base[n] = g[n]
    BY <1>3, <1>6, <2>1, <2>3, TypedAmongMore
  <2>4. CASE base[n] = [g[n] EXCEPT !.children = Append(g[n].children, Len(g) + 1)]
    BY <1>3, <1>6, <2>1, <2>4, TypedParent
  <2> QED BY <2>2, <2>3, <2>4
<1>8. TypedNode(more[Len(g) + 1], Len(g) + 1, Len(g) + 1)
  BY <1>3, <1>6, FreshTyped
<1>9. \A n \in DOMAIN more : TypedNode(more[n], n, Len(more))
  BY <1>3, <1>4, <1>7, <1>8
<1> QED BY <1>2, <1>4, <1>9 DEF Typed

\* So does a node that goes on from nothing.
LEMMA AppendTyped ==
  ASSUME NEW g, Typed(g), NEW node, Fresh(node, Len(g)), node.parents = <<>>
  PROVE  Typed(Append(g, node))
<1>1. PICK more : more = Append(g, node)
  OBVIOUS
<1>2. IsSeq(g) /\ Len(g) \in Nat /\ DOMAIN g = 1..Len(g) /\ GraphOK(g)
  BY AppendIs DEF Typed, GraphOK
<1>3. GraphOK(more) /\ Len(more) = Len(g) + 1 /\ DOMAIN more = 1..Len(g) + 1
      /\ more[Len(g) + 1] = node /\ \A n \in 1..Len(g) : more[n] = g[n]
  <2>1. Grown(g, Append(g, node), <<>>)
    BY <1>2, AppendedIs, Zenon DEF Fresh
  <2>2. /\ DOMAIN more = 1..Len(g) + 1 /\ more[Len(g) + 1] = node
        /\ \A n \in 1..Len(g) : more[n] = g[n]
    BY <1>1, <1>2, AppendIs
  <2> QED BY <1>1, <2>1, <2>2 DEF Grown
<1>4. \A n \in 1..Len(g) : TypedNode(more[n], n, Len(g) + 1)
  BY <1>2, <1>3, TypedAmongMore DEF Typed
<1>5. TypedNode(more[Len(g) + 1], Len(g) + 1, Len(g) + 1)
  BY <1>2, <1>3, FreshTyped
<1>6. \A n \in DOMAIN more : TypedNode(more[n], n, Len(more))
  BY <1>2, <1>3, <1>4, <1>5
<1> QED BY <1>1, <1>3, <1>6 DEF Typed

\* list.remove() leaves a list of the same.
LEMMA WithoutFirstIs ==
  ASSUME NEW S, NEW s \in Seq(S), NEW x
  PROVE  WithoutFirst(s, x) \in Seq(S)
<1>1. PICK m \in Nat : m = Len(s) /\ DOMAIN s = 1..m
  BY LenProperties
<1>2. PICK D : D = {i \in DOMAIN s : s[i] = x}
  OBVIOUS
<1>3. CASE x \in Range(s)
  <2>1. D # {} /\ D \subseteq 1..m
    BY <1>1, <1>2, <1>3 DEF Range
  <2>2. Min(D) \in D
    <3>1. \E d \in D : \A y \in D : d <= y
      BY <2>1, LeastOf
    <3> QED BY <3>1 DEF Min
  <2>3. PICK k \in 1..m : k = Min(D)
    BY <2>1, <2>2
  <2>4. RemoveAt(s, k) \in Seq(S)
    BY <1>1, RemoveAtKeeps
  <2>5. WithoutFirst(s, x) = RemoveAt(s, Min(D))
    BY <1>2, <1>3, Zenon DEF WithoutFirst
  <2> QED BY <2>3, <2>4, <2>5
<1>4. CASE x \notin Range(s)
  BY <1>4 DEF WithoutFirst
<1> QED BY <1>3, <1>4

\* A cut node has no parents, and one child less is left.
LEMMA PrunedTyped ==
  ASSUME NEW g, Typed(g), NEW self, NEW head, NEW cut, cut = Pruned(g, self, head), GraphOK(cut)
  PROVE  Typed(cut)
<1>1. IsSeq(g) /\ Len(g) \in Nat /\ DOMAIN g = 1..Len(g)
  BY AppendIs DEF Typed, GraphOK
<1>2. Len(cut) = Len(g) /\ DOMAIN cut = 1..Len(g)
  <2>1. DOMAIN cut = 1..Len(g)
    BY <1>1 DEF Pruned
  <2>2. DOMAIN cut = 1..Len(cut) /\ Len(cut) \in Nat
    BY AppendIs DEF GraphOK
  <2> QED BY <1>1, <2>1, <2>2
<1>3. ASSUME NEW n \in 1..Len(g) PROVE TypedNode(cut[n], n, Len(g))
  <2>1. Shaped(g[n]) /\ TypedNode(g[n], n, Len(g))
    BY <1>1 DEF Typed, GraphOK
  <2>2. PICK a : a = [g EXCEPT ![head].pruned = TRUE]
    OBVIOUS
  <2>3. PICK b : b = [a EXCEPT ![head].parents = <<>>]
    OBVIOUS
  <2>4. PICK c : c = [b EXCEPT ![self].children = WithoutFirst(@, head)] /\ cut = c
    BY <2>2, <2>3, Zenon DEF Pruned
  <2>5. DOMAIN a = 1..Len(g) /\ DOMAIN b = 1..Len(g)
    BY <1>1, <2>2, <2>3
  <2>6. Shaped(a[n]) /\ TypedNode(a[n], n, Len(g))
    <3>1. a[n] = g[n] \/ a[n] = [g[n] EXCEPT !.pruned = TRUE]
      BY <1>1, <2>2
    <3> QED BY <2>1, <3>1 DEF Shaped, TypedNode
  <2>7. Shaped(b[n]) /\ TypedNode(b[n], n, Len(g))
    <3>1. b[n] = a[n] \/ b[n] = [a[n] EXCEPT !.parents = <<>>]
      BY <2>3, <2>5
    <3> QED BY <2>6, <3>1 DEF Shaped, TypedNode
  <2>8. cut[n] = b[n] \/ cut[n] = [b[n] EXCEPT !.children = WithoutFirst(b[n].children, head)]
    BY <2>4, <2>5
  <2>9. PICK list : list = WithoutFirst(b[n].children, head)
    OBVIOUS
  <2>10. IsSeq(list) /\ \A i \in DOMAIN list : list[i] \in n + 1..Len(g)
    <3>1. PICK S : S = n + 1..Len(g)
      OBVIOUS
    <3>2. PICK s : s = b[n].children
      OBVIOUS
    <3>3. s \in Seq(S)
      <4>1. IsSeq(s) /\ \A i \in DOMAIN s : s[i] \in S
        BY <2>7, <3>1, <3>2 DEF TypedNode
      <4>2. s \in Seq(Range(s)) /\ Range(s) \subseteq S
        BY <4>1 DEF IsSeq, Range
      <4> QED BY <4>2
    <3>4. list \in Seq(S)
      BY <2>9, <3>2, <3>3, WithoutFirstIs
    <3>5. list \in Seq(Range(list))
      BY <3>4 DEF Range
    <3> QED BY <3>1, <3>4, <3>5 DEF IsSeq
  <2>11. CASE cut[n] = b[n]
    BY <2>7, <2>11
  <2>12. CASE cut[n] = [b[n] EXCEPT !.children = list]
    BY <2>7, <2>10, <2>12 DEF Shaped, TypedNode
  <2> QED BY <2>8, <2>9, <2>11, <2>12
<1>4. \A n \in DOMAIN cut : TypedNode(cut[n], n, Len(cut))
  BY <1>2, <1>3
<1> QED BY <1>4 DEF Typed

\* What the calls make can be added.
LEMMA FreshIs ==
  ASSUME NEW kind \in Kinds, NEW reads, NEW k, NEW parents,
         \A i \in DOMAIN parents : parents[i] \in 1..k
  PROVE  Fresh(Node(kind, parents, reads), k)
<1>1. PICK node : node = Node(kind, parents, reads)
  OBVIOUS
<1>2. /\ node.kind = kind /\ node.children = <<>> /\ node.from = parents /\ node.parents = parents
      /\ Shaped(node)
  BY <1>1 DEF Node, Shaped
<1> QED BY <1>1, <1>2 DEF Fresh

\* Whether or not the call fails.
LEMMA FreshRefused ==
  ASSUME NEW node, NEW k, Fresh(node, k), NEW refused, NEW same,
         same = [node EXCEPT !.void = refused]
  PROVE  Fresh(same, k) /\ same.parents = node.parents
  BY DEF Fresh, Shaped

\* A function of a node of the graph.
LEMMA FreshFunction ==
  ASSUME NEW kind \in Kinds, NEW reads, NEW k, NEW n \in 1..k
  PROVE  Fresh(Node(kind, <<n>>, reads), k)
<1>1. PICK parents : parents = <<n>>
  OBVIOUS
<1>2. \A i \in DOMAIN parents : parents[i] \in 1..k
  BY <1>1
<1> QED BY <1>1, <1>2, FreshIs, Zenon

\* A node that nothing goes on to.
LEMMA FreshAlone ==
  ASSUME NEW kind \in Kinds, NEW reads, NEW k
  PROVE  Fresh(Node(kind, <<>>, reads), k) /\ Node(kind, <<>>, reads).parents = <<>>
<1>1. PICK parents : parents = <<>> /\ \A i \in DOMAIN parents : parents[i] \in 1..k
  OBVIOUS
<1>2. Fresh(Node(kind, parents, reads), k)
  BY <1>1, FreshIs, Zenon
<1>3. Node(kind, parents, reads).parents = parents
  BY DEF Node
<1> QED BY <1>1, <1>2, <1>3

\* A function that goes on from a node keeps the types.
LEMMA FunctionTyped ==
  ASSUME NEW g, Typed(g), NEW n \in DOMAIN g, NEW kind \in Kinds, NEW reads
  PROVE  Typed(WithNode(g, Node(kind, <<n>>, reads)))
<1>1. n \in 1..Len(g)
  BY AppendIs DEF Typed, GraphOK
<1>2. PICK node : node = Node(kind, <<n>>, reads) /\ Fresh(node, Len(g))
  BY <1>1, FreshFunction
<1> QED BY <1>2, WithNodeTyped

\* So do the functions on the value.
LEMMA FunctionsTyped ==
  ASSUME Typed(nodes), NEW h, dataframes[h].node \in DOMAIN nodes,
         \/ \E expand \in BOOLEAN : Apply(h, expand)
         \/ Filter(h) \/ SetTimestamp(h) \/ SinkTo(h)
         \/ \E kind \in InPlace : UpdateInPlace(h, kind)
  PROVE  Typed(nodes')
<1>1. PICK n : n = dataframes[h].node /\ n \in DOMAIN nodes
  OBVIOUS
<1>2. PICK kind, reads : kind \in Kinds /\ nodes' = WithNode(nodes, Node(kind, <<n>>, reads))
  <2>1. ASSUME NEW expand \in BOOLEAN, Apply(h, expand)
        PROVE  \E kind \in Kinds : \E reads : nodes' = WithNode(nodes, Node(kind, <<n>>, reads))
    <3>1. nodes' = WithNode(nodes, ApplyNode(n, expand))
      BY <1>1, <2>1, Zenon DEF Apply, AddClone
    <3>2. "expand" \in Kinds /\ "apply" \in Kinds
      BY DEF Kinds
    <3> QED BY <3>1, <3>2, Zenon DEF ApplyNode
  <2>2. CASE Filter(h)
    <3>1. "filter" \in Kinds
      BY DEF Kinds, Filters
    <3> QED BY <1>1, <2>2, <3>1, Zenon DEF Filter, AddClone, FilterNode
  <2>3. CASE SetTimestamp(h)
    <3>1. "transform" \in Kinds
      BY DEF Kinds
    <3> QED BY <1>1, <2>3, <3>1, Zenon DEF SetTimestamp, AddClone, TransformNode
  <2>4. CASE SinkTo(h)
    <3>1. nodes' = WithNode(nodes, ApplyNode(n, FALSE))
      BY <1>1, <2>4, Zenon DEF SinkTo
    <3>2. "apply" \in Kinds
      BY DEF Kinds
    <3> QED BY <3>1, <3>2, Zenon DEF ApplyNode
  <2>5. ASSUME NEW kind \in InPlace, UpdateInPlace(h, kind)
        PROVE  \E k \in Kinds : \E reads : nodes' = WithNode(nodes, Node(k, <<n>>, reads))
    <3>1. kind \in Kinds
      BY <2>5 DEF Kinds
    <3> QED BY <1>1, <2>5, <3>1, Zenon DEF UpdateInPlace, AddUpdate, UpdateNode
  <2> QED BY <2>1, <2>2, <2>3, <2>4, <2>5
<1>3. Typed(WithNode(nodes, Node(kind, <<n>>, reads)))
  BY <1>1, <1>2, FunctionTyped
<1> QED BY <1>2, <1>3

\* So does concat().
LEMMA ConcatTyped ==
  ASSUME Typed(nodes), NEW h, dataframes[h].node \in DOMAIN nodes,
         NEW other, dataframes[other].node \in DOMAIN nodes, Concat(h, other)
  PROVE  Typed(nodes')
<1>1. PICK n, m :
              n = dataframes[h].node /\ m = dataframes[other].node /\ {n, m} \subseteq 1..Len(nodes)
  BY AppendIs DEF Typed, GraphOK
<1>2. PICK parents : parents = <<n, m>>
  OBVIOUS
<1>3. \A i \in DOMAIN parents : parents[i] \in 1..Len(nodes)
  BY <1>1, <1>2
<1>4. "merge" \in Kinds
  BY DEF Kinds
<1>5. PICK node : node = Node("merge", parents, <<>>) /\ Fresh(node, Len(nodes))
  BY <1>3, <1>4, FreshIs
<1>6. nodes' = WithNode(nodes, MergeNode(n, m))
  BY <1>1, Zenon DEF Concat
<1>7. nodes' = WithNode(nodes, node)
  BY <1>2, <1>5, <1>6, Zenon DEF MergeNode
<1> QED BY <1>5, <1>7, WithNodeTyped

\* So does a dataframe in a column or a filter, cut off or not.
LEMMA UseDataframeTyped ==
  ASSUME NEW f, Tracked(nodes, dataframes, series, registry, aligned, f), Typed(nodes),
         NEW h \in DOMAIN dataframes, NEW other, NEW kind, UseDataframe(h, other, kind)
  PROVE  Typed(nodes')
<1>1. PICK self : self = dataframes[h].node /\ self \in DOMAIN nodes
  BY FrameIs
<1>2. PICK head : head = Last(DiffPath(nodes, self, dataframes[other].node))
  OBVIOUS
<1>3. PICK cut : cut = Pruned(nodes, self, head)
  OBVIOUS
<1>4. PICK reads : reads = <<Composed(cut, dataframes[other].node, TRUE)>>
  OBVIOUS
<1>5. GraphOK(cut) /\ DOMAIN cut = DOMAIN nodes
  BY <1>3, PrunedTracked DEF Tracked
<1>6. Typed(cut)
  BY <1>3, <1>5, PrunedTyped
<1>7. kind \in {"assign", "select"} /\ kind \in Kinds
  BY DEF UseDataframe, Kinds, InPlace, Filters
<1>8. \/ AddUpdate(h, cut, UpdateNode(self, kind, reads))
      \/ AddClone(h, cut, FilterNode(self, kind, reads))
      \/ nodes' = cut
  BY <1>1, <1>2, <1>3, <1>4, Zenon DEF UseDataframe
<1>9. nodes' = cut \/ nodes' = WithNode(cut, Node(kind, <<self>>, reads))
  BY <1>8, Zenon DEF AddUpdate, AddClone, UpdateNode, FilterNode
<1>10. Typed(WithNode(cut, Node(kind, <<self>>, reads)))
  BY <1>1, <1>5, <1>6, <1>7, FunctionTyped
<1> QED BY <1>6, <1>9, <1>10

\* So do columns.
LEMMA ColumnsTyped ==
  ASSUME Typed(nodes), NEW reads, NEW whose, AddSeries(FromApplyCallback(nodes, reads), whose)
  PROVE  Typed(nodes')
<1>1. "column" \in Kinds /\ "operation" \in Kinds
  BY DEF Kinds
<1>2. PICK kind \in Kinds : nodes' = Append(nodes, Node(kind, <<>>, reads))
  BY <1>1, Zenon DEF FromApplyCallback, AddSeries
<1>3. PICK node : node = Node(kind, <<>>, reads) /\ Fresh(node, Len(nodes)) /\ node.parents = <<>>
  BY FreshAlone
<1> QED BY <1>2, <1>3, AppendTyped

\* So does a function of a column.
LEMMA SeriesApplyTyped ==
  ASSUME Typed(nodes), NEW s, series[s].node \in DOMAIN nodes, SeriesApply(s)
  PROVE  Typed(nodes')
<1>1. PICK n : n = series[s].node /\ n \in DOMAIN nodes
  OBVIOUS
<1>2. nodes' = WithNode(nodes, ApplyNode(n, FALSE))
  BY <1>1, Zenon DEF SeriesApply, AddSeries
<1>3. nodes' = WithNode(nodes, Node("apply", <<n>>, <<>>)) /\ "apply" \in Kinds
  BY <1>2 DEF ApplyNode, Kinds
<1>4. Typed(WithNode(nodes, Node("apply", <<n>>, <<>>)))
  BY <1>1, <1>3, FunctionTyped
<1> QED BY <1>3, <1>4

\* So does a column in a column or a filter.
LEMMA UseSeriesTyped ==
  ASSUME Typed(nodes), NEW h, dataframes[h].node \in DOMAIN nodes, NEW s, NEW kind,
         UseSeries(h, s, kind)
  PROVE  Typed(nodes')
<1>1. PICK self : self = dataframes[h].node /\ self \in DOMAIN nodes
  OBVIOUS
<1>2. PICK reads : reads = <<Composed(nodes, series[s].node, FALSE)>>
  OBVIOUS
<1>3. nodes' = WithNode(nodes, Node(kind, <<self>>, reads)) /\ kind \in {"assign", "select"}
  BY <1>1, <1>2, Zenon DEF UseSeries, AddUpdate, AddClone, UpdateNode, FilterNode
<1>4. kind \in Kinds
  BY <1>3 DEF Kinds, InPlace, Filters
<1> QED BY <1>1, <1>3, <1>4, FunctionTyped

\* So does group_by().
LEMMA GroupByTyped ==
  ASSUME Typed(nodes), NEW h, dataframes[h].node \in DOMAIN nodes, NEW operation,
         GroupBySinglePartition(h, operation) \/ GroupBy(h, operation)
  PROVE  Typed(nodes')
<1> DEFINE Made(kind, parents, refused) == [Node(kind, parents, <<>>) EXCEPT !.void = refused]
<1>1. PICK n : n = dataframes[h].node /\ n \in DOMAIN nodes
  OBVIOUS
<1>2. {"transform", "update", "drop", "root"} \subseteq Kinds
  BY DEF Kinds, InPlace, Filters
<1>3. ASSUME NEW g, Typed(g), NEW m \in DOMAIN g, NEW kind \in Kinds, NEW refused
      PROVE  Typed(WithNode(g, Made(kind, <<m>>, refused)))
  <2>1. m \in 1..Len(g)
    BY <1>3, AppendIs DEF Typed, GraphOK
  <2>2. PICK node : node = Node(kind, <<m>>, <<>>) /\ Fresh(node, Len(g))
    BY <2>1, FreshFunction
  <2>3. PICK same : same = [node EXCEPT !.void = refused] /\ Fresh(same, Len(g))
    BY <2>2, FreshRefused
  <2>4. same = Made(kind, <<m>>, refused)
    BY <2>2, <2>3
  <2> QED BY <1>3, <2>3, <2>4, WithNodeTyped
<1>4. CASE GroupBySinglePartition(h, operation)
  <2>1. PICK refused : nodes' = WithNode(nodes, Made("transform", <<n>>, refused))
    BY <1>1, <1>4, Zenon DEF GroupBySinglePartition, TransformNode
  <2> QED BY <1>1, <1>2, <1>3, <2>1
<1>5. CASE GroupBy(h, operation)
  <2>1. PICK refused, put, cut : /\ put = WithNode(nodes, Made("update", <<n>>, refused))
                                 /\ cut = WithNode(put, Made("drop", <<Len(put)>>, refused))
                                 /\ nodes' = Append(cut, Made("root", <<>>, refused))
    BY <1>1, <1>5, Zenon DEF GroupBy
  <2>2. Typed(put)
    BY <1>1, <1>2, <1>3, <2>1
  <2>3. Len(put) \in DOMAIN put
    <3>1. PICK node : node = Made("update", <<n>>, refused)
      OBVIOUS
    <3>2. put = WithNode(nodes, node)
      BY <2>1, <3>1
    <3>3. \E base : put = Append(base, node)
      BY <3>2, Zenon DEF WithNode
    <3>4. Len(put) # 0
      <4>1. put # <<>>
        BY <3>3
      <4> QED BY <2>2, <4>1, AppendIs DEF Typed, GraphOK
    <3> QED BY <2>2, <3>4, AppendIs DEF Typed, GraphOK
  <2>4. Typed(cut)
    BY <1>2, <1>3, <2>1, <2>2, <2>3
  <2>5. PICK node : node = Node("root", <<>>, <<>>) /\ Fresh(node, Len(cut)) /\ node.parents = <<>>
    BY <1>2, FreshAlone
  <2>6. PICK same : same = [node EXCEPT !.void = refused]
    OBVIOUS
  <2>7. Fresh(same, Len(cut)) /\ same.parents = <<>>
    BY <2>5, <2>6, FreshRefused
  <2>8. nodes' = Append(cut, same)
    BY <2>1, <2>5, <2>6
  <2> QED BY <2>4, <2>7, <2>8, AppendTyped
<1> QED BY <1>4, <1>5

\* A call moves a dataframe on, makes one, or does both.
FramesGo(frames, more) ==
    \/ more = frames
    \/ \E h, n : more = [frames EXCEPT ![h].node = n]
    \/ \E frame : more = Append(frames, frame)
    \/ \E h, n, frame : more = Append([frames EXCEPT ![h].node = n], frame)

\* No dataframe goes away.
LEMMA FramesStay ==
  ASSUME NEW frames, IsSeq(frames), NEW more, FramesGo(frames, more)
  PROVE  DOMAIN frames \subseteq DOMAIN more
<1>1. Len(frames) \in Nat /\ DOMAIN frames = 1..Len(frames)
  BY AppendIs
<1>2. ASSUME NEW same, IsSeq(same), DOMAIN same = DOMAIN frames, NEW frame, more = Append(same, frame)
      PROVE  DOMAIN frames \subseteq DOMAIN more
  BY <1>2, AppendIs
<1>3. ASSUME NEW h, NEW n, NEW same, same = [frames EXCEPT ![h].node = n]
      PROVE  IsSeq(same) /\ DOMAIN same = DOMAIN frames
  <2>1. same = [i \in 1..Len(frames) |-> same[i]] /\ DOMAIN same = DOMAIN frames
    BY <1>1, <1>3
  <2> QED BY <1>1, <2>1, ListOf
<1>4. CASE more = frames
  BY <1>4
<1>5. ASSUME NEW h, NEW n, more = [frames EXCEPT ![h].node = n]
      PROVE  DOMAIN frames \subseteq DOMAIN more
  BY <1>3, <1>5
<1>6. ASSUME NEW frame, more = Append(frames, frame) PROVE DOMAIN frames \subseteq DOMAIN more
  BY <1>2, <1>6
<1>7. ASSUME NEW h, NEW n, NEW frame, more = Append([frames EXCEPT ![h].node = n], frame)
      PROVE  DOMAIN frames \subseteq DOMAIN more
  <2>1. PICK same : same = [frames EXCEPT ![h].node = n]
    OBVIOUS
  <2> QED BY <1>2, <1>3, <1>7, <2>1
<1> QED BY <1>4, <1>5, <1>6, <1>7, Zenon DEF FramesGo

\* A column more, of a dataframe, or none.
ColumnsGo(columns, more, frames) ==
    \/ more = columns
    \/ \E n, whose :
          whose \in DOMAIN frames /\ more = Append(columns, [node |-> n, owner |-> whose])

\* Columns are of dataframes.
Owned(columns, frames) == \A s \in DOMAIN columns : columns[s].owner \in DOMAIN frames

\* They stay so.
LEMMA StayOwned ==
  ASSUME NEW columns, IsSeq(columns), NEW frames, Owned(columns, frames),
         NEW more, ColumnsGo(columns, more, frames)
  PROVE  Owned(more, frames)
<1>1. CASE more = columns
  BY <1>1
<1>2. ASSUME NEW n, NEW whose \in DOMAIN frames, more = Append(columns, [node |-> n, owner |-> whose])
      PROVE  Owned(more, frames)
  <2>1. PICK column : column = [node |-> n, owner |-> whose]
    OBVIOUS
  <2>2. /\ DOMAIN more = 1..Len(columns) + 1 /\ Len(columns) \in Nat
        /\ more[Len(columns) + 1] = column /\ DOMAIN columns = 1..Len(columns)
        /\ \A i \in 1..Len(columns) : more[i] = columns[i]
    BY <1>2, <2>1, AppendIs
  <2>3. ASSUME NEW i \in DOMAIN more PROVE more[i].owner \in DOMAIN frames
    <3>1. CASE i = Len(columns) + 1
      BY <2>1, <2>2, <3>1
    <3>2. CASE i \in 1..Len(columns)
      BY <2>2, <3>2 DEF Owned
    <3> QED BY <2>2, <2>3, <3>1, <3>2
  <2> QED BY <2>3 DEF Owned
<1> QED BY <1>1, <1>2, Zenon DEF ColumnsGo

\* The call of a column is of a dataframe that there is.
CallIs(columns, frames) ==
    /\ FramesGo(frames, dataframes') /\ ColumnsGo(columns, series', frames)
    /\ aligned' \in {aligned, TRUE} /\ Call

\* Whatever the call is.
LEMMA EveryCall == ASSUME StreamsNext, Owned(series, dataframes) PROVE CallIs(series, dataframes)
<1>1. ASSUME NEW h, \/ \E expand \in BOOLEAN : Apply(h, expand)
                    \/ Filter(h) \/ SetTimestamp(h) \/ SinkTo(h) \/ \E kind : UpdateInPlace(h, kind)
      PROVE  CallIs(series, dataframes)
  <2>1. ASSUME NEW g, NEW node, AddClone(h, g, node) PROVE FramesGo(dataframes, dataframes')
    BY <2>1, Zenon DEF AddClone, AddDataframe, FramesGo
  <2>2. ASSUME NEW g, NEW node, AddUpdate(h, g, node) PROVE FramesGo(dataframes, dataframes')
    BY <2>2, Zenon DEF AddUpdate, FramesGo
  <2>3. FramesGo(dataframes, dataframes')
    BY <1>1, <2>1, <2>2, Zenon DEF Apply, Filter, SetTimestamp, SinkTo, UpdateInPlace, FramesGo
  <2>4. UNCHANGED <<series, aligned>> /\ Call
    BY <1>1, Zenon DEF Apply, Filter, SetTimestamp, SinkTo, UpdateInPlace
  <2> QED BY <2>3, <2>4, Zenon DEF CallIs, ColumnsGo
<1>2. ASSUME NEW h, \E columns \in SUBSET {"column"} : Drop(h, columns)
      PROVE  CallIs(series, dataframes)
  BY <1>1, <1>2, Zenon DEF Drop, CallIs, FramesGo, ColumnsGo
<1>3. ASSUME NEW h \in DOMAIN dataframes, Column(h) PROVE CallIs(series, dataframes)
  BY <1>3, Zenon DEF Column, AddSeries, CallIs, FramesGo, ColumnsGo
<1>4. ASSUME NEW s \in DOMAIN series, SeriesApply(s) \/ \E others : SeriesOperation(s, others)
      PROVE  CallIs(series, dataframes)
  <2>1. series[s].owner \in DOMAIN dataframes
    BY DEF Owned
  <2> QED BY <1>4, <2>1, Zenon DEF SeriesApply, SeriesOperation, AddSeries, CallIs, FramesGo,
         ColumnsGo
<1>5. ASSUME NEW h, NEW other, Concat(h, other) PROVE CallIs(series, dataframes)
  BY <1>5, Zenon DEF Concat, AddDataframe, CallIs, FramesGo, ColumnsGo
<1>6. ASSUME NEW h, NEW other, NEW kind, UseDataframe(h, other, kind)
      PROVE  CallIs(series, dataframes)
  BY <1>6, Zenon DEF UseDataframe, AddUpdate, AddClone, AddDataframe, CallIs, FramesGo, ColumnsGo
<1>7. ASSUME NEW h, NEW s, NEW kind, UseSeries(h, s, kind) PROVE CallIs(series, dataframes)
  BY <1>7, Zenon DEF UseSeries, AddUpdate, AddClone, AddDataframe, CallIs, FramesGo, ColumnsGo
<1>8. ASSUME NEW h, NEW operation, GroupBySinglePartition(h, operation) \/ GroupBy(h, operation)
      PROVE  CallIs(series, dataframes)
  <2>1. CASE GroupBySinglePartition(h, operation)
    BY <2>1, Zenon DEF GroupBySinglePartition, AddDataframe, CallIs, FramesGo, ColumnsGo
  <2>2. CASE GroupBy(h, operation)
    <3>1. PICK put : LET moved == [dataframes EXCEPT ![h].node = Len(put)]
                     IN  dataframes' = moved \/ \E frame : dataframes' = Append(moved, frame)
      BY <2>2, Zenon DEF GroupBy
    <3>2. FramesGo(dataframes, dataframes')
      BY <3>1, Zenon DEF FramesGo
    <3>3. UNCHANGED <<series, aligned>> /\ Call
      BY <2>2, Zenon DEF GroupBy
    <3> QED BY <3>2, <3>3, Zenon DEF CallIs, ColumnsGo
  <2> QED BY <1>8, <2>1, <2>2
<1> QED BY <1>1, <1>2, <1>3, <1>4, <1>5, <1>6, <1>7, <1>8, Zenon
        DEF StreamsNext, SetHeaders, Update, JoinLookup, Fill, ToTopic, PrintValue, PrintTable,
            ContainsColumns, Absolute, Invert, Arithmetic, Membership, Logical

\* The types of what the calls build.
StreamsTyped ==
    Defining => Typed(nodes) /\ Owned(series, dataframes) /\ aligned \in BOOLEAN /\ calls \in Nat

\* Every call keeps them.
LEMMA StreamsTypedStep ==
  ASSUME StreamsInv, StreamsTyped, UNCHANGED scenario,
         (Defining /\ StreamsNext) \/ UNCHANGED streamVars
  PROVE  StreamsTyped'
<1>1. CASE UNCHANGED streamVars
  BY <1>1 DEF StreamsTyped, Defining, streamVars
<1> SUFFICES ASSUME Defining, StreamsNext PROVE StreamsTyped'
  BY <1>1
<1>2. Typed(nodes) /\ Owned(series, dataframes) /\ aligned \in BOOLEAN /\ calls \in Nat
  BY DEF StreamsTyped
<1>3. PICK f : Tracked(nodes, dataframes, series, registry, aligned, f)
  BY DEF StreamsInv
<1>4. /\ IsSeq(dataframes) /\ IsSeq(series)
      /\ \A h \in DOMAIN dataframes : dataframes[h].node \in DOMAIN nodes
      /\ \A s \in DOMAIN series : series[s].node \in DOMAIN nodes
  BY <1>3 DEF Tracked, FramesOK, FrameOK, ColumnsOK
<1>5. CallIs(series, dataframes)
  BY <1>2, EveryCall
<1>6. Owned(series', dataframes')
  <2>1. DOMAIN dataframes \subseteq DOMAIN dataframes'
    BY <1>4, <1>5, FramesStay DEF CallIs
  <2>2. Owned(series', dataframes)
    BY <1>2, <1>4, <1>5, StayOwned DEF CallIs
  <2> QED BY <2>1, <2>2 DEF Owned
<1>7. aligned' \in BOOLEAN /\ calls' \in Nat
  <2>1. calls' = calls + 1
    BY <1>5 DEF CallIs, Call
  <2>2. aligned' \in {aligned, TRUE}
    BY <1>5 DEF CallIs
  <2>3. aligned' \in BOOLEAN
    BY <1>2, <2>2, Zenon
  <2> QED BY <1>2, <2>1, <2>3
<1>8. Typed(nodes')
  <2>1. ASSUME NEW h \in DOMAIN dataframes,
               \/ \E expand \in BOOLEAN : Apply(h, expand)
               \/ Filter(h) \/ SetTimestamp(h) \/ SetHeaders(h) \/ Update(h) \/ JoinLookup(h)
               \/ \E columns \in SUBSET {"column"} : Fill(h, columns) \/ Drop(h, columns)
               \/ ToTopic(h) \/ PrintValue(h) \/ PrintTable(h) \/ SinkTo(h)
        PROVE  Typed(nodes')
    <3>1. "update" \in InPlace /\ "observe" \in InPlace
      BY DEF InPlace
    <3>2. CASE \/ \E expand \in BOOLEAN : Apply(h, expand)
               \/ Filter(h) \/ SetTimestamp(h) \/ SinkTo(h)
               \/ \E kind \in InPlace : UpdateInPlace(h, kind)
      BY <1>2, <1>4, <3>2, FunctionsTyped
    <3>3. CASE UNCHANGED <<nodes, dataframes, series, registry, aligned>>
      BY <1>2, <3>3
    <3> QED BY <2>1, <3>1, <3>2, <3>3, Zenon
            DEF SetHeaders, Update, JoinLookup, Fill, Drop, ToTopic, PrintValue, PrintTable
  <2>2. ASSUME NEW h, Column(h) \/ ContainsColumns(h) PROVE Typed(nodes')
    <3>1. AddSeries(FromApplyCallback(nodes, <<>>), h)
      BY <2>2, Zenon DEF Column, ContainsColumns
    <3> QED BY <1>2, <3>1, ColumnsTyped
  <2>3. ASSUME NEW s, NEW others, Arithmetic(s, others) \/ Membership(s, others)
                  \/ Logical(s, others)
        PROVE  Typed(nodes')
    <3>1. SeriesOperation(s, others)
      BY <2>3, Zenon DEF Arithmetic, Membership, Logical
    <3>2. \E reads : AddSeries(FromApplyCallback(nodes, reads), series[s].owner)
      BY <3>1, Zenon DEF SeriesOperation
    <3> QED BY <1>2, <3>2, ColumnsTyped
  <2>4. ASSUME NEW s \in DOMAIN series, SeriesApply(s) \/ Absolute(s)
                  \/ Invert(s) PROVE Typed(nodes')
    BY <1>2, <1>4, <2>4, SeriesApplyTyped DEF Absolute, Invert
  <2>5. ASSUME NEW h \in DOMAIN dataframes, NEW other \in DOMAIN dataframes, Concat(h, other)
        PROVE  Typed(nodes')
    BY <1>2, <1>4, <2>5, ConcatTyped
  <2>6. ASSUME NEW h \in DOMAIN dataframes, NEW other, NEW kind, UseDataframe(h, other, kind)
        PROVE  Typed(nodes')
    BY <1>2, <1>3, <2>6, UseDataframeTyped
  <2>7. ASSUME NEW h \in DOMAIN dataframes, NEW s, NEW kind, UseSeries(h, s, kind) PROVE Typed(nodes')
    BY <1>2, <1>4, <2>7, UseSeriesTyped
  <2>8. ASSUME NEW h \in DOMAIN dataframes, NEW operation,
               GroupBySinglePartition(h, operation) \/ GroupBy(h, operation)
        PROVE  Typed(nodes')
    BY <1>2, <1>4, <2>8, GroupByTyped
  <2> QED BY <2>1, <2>2, <2>3, <2>4, <2>5, <2>6, <2>7, <2>8, Zenon DEF StreamsNext
<1> QED BY <1>6, <1>7, <1>8 DEF StreamsTyped

\* What is built is typed.
LEMMA StreamsTypes == ASSUME StreamsInv, StreamsTyped, Defining PROVE StreamsTypeOK
<1>1. PICK f : Tracked(nodes, dataframes, series, registry, aligned, f)
  BY DEF StreamsInv
<1>2. Typed(nodes) /\ Owned(series, dataframes) /\ aligned \in BOOLEAN /\ calls \in Nat
  BY DEF StreamsTyped
<1>3. /\ \A h \in DOMAIN dataframes : dataframes[h].node \in DOMAIN nodes
      /\ \A s \in DOMAIN series : series[s].node \in DOMAIN nodes
  BY <1>1 DEF Tracked, FramesOK, FrameOK, ColumnsOK
<1>4. ASSUME NEW n \in DOMAIN nodes
      PROVE  /\ nodes[n].kind \in Kinds /\ \A i \in DOMAIN nodes[n].parents :
                   nodes[n].parents[i] < n
             /\ \A i \in DOMAIN nodes[n].children : nodes[n].children[i] \in n + 1..Len(nodes)
  <2>1. TypedNode(nodes[n], n, Len(nodes)) /\ n \in Nat
    BY <1>2, AppendIs DEF Typed, GraphOK
  <2> QED BY <2>1 DEF TypedNode
<1> QED BY <1>2, <1>3, <1>4 DEF StreamsTypeOK, Owned

\* What is there before the first call.
LEMMA StreamsTypedStart == ASSUME Init PROVE StreamsTyped
<1> SUFFICES ASSUME Defining PROVE StreamsTyped
  BY DEF StreamsTyped
<1>1. PICK f : Tracked(nodes, dataframes, series, registry, aligned, f)
  BY StreamsStart DEF StreamsInv
<1>2. StreamsInit
  BY DEF Init
<1>3. DOMAIN series = {} /\ aligned = FALSE /\ calls = 0
  BY <1>2 DEF StreamsInit
<1>4. PICK I : nodes = [i \in I |-> Node("root", <<>>, <<>>)]
  BY <1>2 DEF StreamsInit
<1>5. "root" \in Kinds
  BY DEF Kinds
<1>6. ASSUME NEW n \in DOMAIN nodes PROVE TypedNode(nodes[n], n, Len(nodes))
  <2>1. nodes[n] = Node("root", <<>>, <<>>)
    BY <1>4
  <2>2. PICK node :
                node = nodes[n] /\ node.kind = "root" /\ node.parents = <<>> /\ node.children = <<>>
    BY <2>1 DEF Node
  <2>3. IsSeq(<<>>) /\ DOMAIN <<>> = {}
    BY DEF IsSeq
  <2> QED BY <1>5, <2>2, <2>3 DEF TypedNode
<1>7. Typed(nodes)
  BY <1>1, <1>6 DEF Tracked, Typed
<1> QED BY <1>3, <1>7 DEF StreamsTyped, Owned

\* The broker has topics, and the instances take their steps.
LEMMA TopicsTypes == ASSUME TopicsInv, Preparing PROVE TopicsTypeOK
<1>1. broker \in [DOMAIN broker -> TopicConfig] /\ \A i \in Instance :
         SetupOK(scenario, broker, setups[i])
  BY DEF TopicsInv, TopicsRight
<1>2. \A t \in DOMAIN broker :
         broker[t].partitions \in 1..MaxPartitions /\ broker[t].retention >= Infinite
  BY <1>1 DEF TopicConfig
<1>3. \A i \in Instance : setups[i].pc \in {"define", "create", "asked", "fetch", "failed", "runs"}
  BY <1>1 DEF SetupOK
<1> QED BY <1>2, <1>3 DEF TopicsTypeOK

\* The types that the other invariants are about have no part in.
Typings == TrackerTyped /\ BrokerTypeOK /\ StreamsTyped

\* They hold at first.
LEMMA TypingsStart == ASSUME Init PROVE Typings
<1>1. scenario.messages \in Nat
  BY ScenariosAssumption DEF Init
<1>2. TrackerTyped
  <2>1. /\ tracker = [start |-> 2, consumed |-> FALSE, count |-> 0] /\ clock = 0
        /\ liveAt = 0 /\ remaining = scenario.messages
    BY DEF Init, TrackerInit, Allowance
  <2>2. tracker \in Tracker /\ tracker.start = 2 /\ tracker.count = 0
    BY <2>1 DEF Tracker
  <2>3. PICK m \in Nat : m = MaxOffset /\ remaining = m
    BY <1>1, <2>1 DEF MaxOffset
  <2>4. TrackerTypeOK /\ tracker.count + 2 * remaining <= 2 * MaxOffset
    BY <2>1, <2>2, <2>3 DEF TrackerTypeOK, Allowance
  <2> QED BY <2>1, <2>2, <2>3, <2>4 DEF TrackerTyped
<1>3. BrokerTypeOK
  BY DEF Init, BrokerInit, BrokerTypeOK, Never
<1>4. StreamsTyped
  BY StreamsTypedStart
<1> QED BY <1>2, <1>3, <1>4 DEF Typings

\* They hold always.
LEMMA TypingsHold == Spec => []Typings
<1>1. Init => Typings
  BY TypingsStart
<1>2. Typings /\ TrackerInv /\ BrokerInv /\ StreamsInv /\ [Next]_applicationVars => Typings'
  <2> SUFFICES ASSUME Typings, TrackerInv, BrokerInv, StreamsInv, [Next]_applicationVars
               PROVE  Typings'
    OBVIOUS
  <2>1. /\ UNCHANGED scenario
        /\ (Tracking /\ TrackerNext) \/ UNCHANGED trackerVars
        /\ (Probing /\ BrokerNext) \/ UNCHANGED brokerVars
        /\ (Defining /\ StreamsNext) \/ UNCHANGED streamVars
    BY StepIs
  <2>2. TrackerTyped'
    BY <2>1, TrackerTypedStep DEF Typings
  <2>3. BrokerTypeOK'
    BY <2>1, BrokerTypedStep DEF Typings
  <2>4. StreamsTyped'
    BY <2>1, StreamsTypedStep DEF Typings
  <2> QED BY <2>2, <2>3, <2>4 DEF Typings
<1> QED BY <1>1, <1>2, EndsInvariant, StreamsInvariant, PTL DEF Spec

\* In every scenario the variables of its part have their types, those of librdkafka's
\* transactions fit those of the application, offsets are within what there is, and the
\* graph of functions is one (all modules that the application is made of).
THEOREM ApplicationTyped == Spec => []TypeOK
<1>1. /\ FaultsInv /\ TopicsInv /\ StreamsInv /\ Typings
      /\ (Transactional => ExactlyOnceTypeOK /\ LibraryInv)
      /\ ((Replicating => ReplicatorTypeOK) /\ ReplicatedAtLeastOnce)
      /\ ((Supervising => SourcesTypeOK) /\ SourcesSupervised)
      /\ ((Connecting => ConnectorTypeOK) /\ FlushIsSafe)
      /\ (SinkTypeOK /\ SinksAtLeastOnce)
      => TypeOK
  <2> SUFFICES ASSUME FaultsInv, TopicsInv, StreamsInv, Typings,
                      Transactional => ExactlyOnceTypeOK /\ LibraryInv,
                      Replicating => ReplicatorTypeOK, Supervising => SourcesTypeOK,
                      Connecting => ConnectorTypeOK, SinkTypeOK
               PROVE  TypeOK
    OBVIOUS
  <2>1. TrackerTyped /\ BrokerTypeOK /\ StreamsTyped
    BY DEF Typings
  <2>2. Tracking => TrackerTypeOK
    BY <2>1 DEF TrackerTyped
  <2>3. Defining => StreamsTypeOK
    BY <2>1, StreamsTypes
  <2>4. Preparing => TopicsTypeOK
    BY TopicsTypes
  <2>5. scenario \in Scenarios /\ faults \in 0..scenario.faults
    BY DEF FaultsInv
  <2> QED BY <2>1, <2>2, <2>3, <2>4, <2>5, Zenon DEF TypeOK
<1> QED BY <1>1, FaultsBoundedAlways, TopicsInvariant, StreamsInvariant, TypingsHold,
       TransactionsTyped,
           ReplicatedAtLeastOnceHolds, SourcesSupervisedHolds, FlushIsSafeHolds,
           SinksAtLeastOnceHolds, PTL

=============================================================================
