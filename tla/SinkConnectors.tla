---------------------------- MODULE SinkConnectors ----------------------------
(***************************************************************************)
(* How the sinks of an application write what it gives them to external    *)
(* systems, and what a checkpoint may conclude from their flush.           *)
(*                                                                         *)
(* One partition, whose records go to every sink of scenario.sinks.  The   *)
(* systems behind the sinks are external: a request is carried out, wholly *)
(* or in part, or refused, and the answer is an error or not.  A sink      *)
(* whose answers say record by record what was refused reads that or, as   *)
(* KinesisSink, does not.  What a sink is like is the record of its entry  *)
(* in scenario.sinks:                                                      *)
(*   style      batch: a BatchingSink; otherwise it publishes on its own   *)
(*   chunk      records that one request of a batch writes                 *)
(*   refused    what write() makes of an error that it does not retry      *)
(*   attempts   tries of a request, 0 if it does not retry                 *)
(*   exhausted  what it makes of the error of the last one                 *)
(*   file       for a FileSink, what happens to a file that exists         *)
(***************************************************************************)
EXTENDS Scenario

VARIABLES
    writer,    \* the application, see NewWriter
    outbox,    \* for each sink: what it holds, see NewOutbox
    written,   \* for each sink: what its system has, [file, offset]
    dropped,   \* for each sink: offsets that it has decided not to write
    overlooked,\* for each sink: offsets refused in an answer that it takes for a success
    sunk       \* the committed offset

sinkVars == <<writer, outbox, written, dropped, overlooked, sunk>>

Sinking == scenario.kind = "sink"

Sinks == IF Sinking THEN DOMAIN scenario.sinks ELSE {}
Style(s) == scenario.sinks[s].style
Batching(s) == Style(s) = "batch"

Outcomes == {"skip", "pressure", "raise"}

SinkKind ==
    [style : {"batch", "futures", "kinesis", "kafka", "mqtt"}, chunk : Nat \ {0},
     refused : SUBSET Outcomes, attempts : Nat, exhausted : Outcomes,
     file : {"none", "replace", "exclusive", "append"}]

\* A FileSink writes a batch to one file, and does not skip what it cannot write.
SinkDefinition(d) ==
    /\ d.kind = "sink" /\ d.sinks \in Seq(SinkKind)
    /\ \A s \in DOMAIN d.sinks : d.sinks[s].file # "none" =>
          /\ d.sinks[s].style = "batch" /\ d.sinks[s].chunk >= d.messages
          /\ "skip" \notin d.sinks[s].refused \cup {d.sinks[s].exhausted}

-----------------------------------------------------------------------------
(* The sinks *)

\* A bound for the records of one request, where there is one.
RequestRecords == 1

\* More records than a batch has.
WholeBatch == 3

\* write() that does not try again.
Once(chunk, refused) ==
    [style |-> "batch", chunk |-> chunk, refused |-> refused, attempts |-> 0,
     exhausted |-> "raise", file |-> "none"]

\* write() that makes three attempts.
Retrying(refused, exhausted) ==
    [Once(WholeBatch, refused) EXCEPT !.attempts = 3, !.exhausted = exhausted]

\* FileSink._filename(): named after the first offset of the batch.
ToFile(file) == [Once(WholeBatch, {"raise"}) EXCEPT !.file = file]

Publishing(style) == [Once(RequestRecords, {}) EXCEPT !.style = style]

\* 429 is backpressure, 422 may be ignored.
InfluxDB3Sink == Once(RequestRecords, {"skip", "pressure", "raise"})

\* 429 is backpressure.
InfluxDB1Sink == Once(RequestRecords, {"pressure", "raise"})

\* 503 is backpressure; records without a field that can be written are skipped.
TDengineSink == Once(RequestRecords, {"skip", "pressure", "raise"})

\* With ignore_bulk_errors, what the bulk request refuses is skipped.
ElasticsearchSink(ignore) == Once(RequestRecords, IF ignore THEN {"skip", "raise"} ELSE {"raise"})

\* One transaction, rolled back on an error.
PostgreSQLSink == Once(WholeBatch, {"raise"})

BigQuerySink == Once(WholeBatch, {"raise"})

\* A conflict of commits is backpressure.
IcebergSink == Once(WholeBatch, {"pressure", "raise"})

\* One transaction of the pipeline.
RedisSink == Once(WholeBatch, {"raise"})

\* Network errors are tried again, and are backpressure in the end.
MongoDBSink == Retrying({"raise"}, "pressure")

Neo4jSink == Retrying({"raise"}, "pressure")

\* Every error is tried again, and raised in the end.
QuixTSDataLakeSink == Retrying({}, "raise")

LocalFileSink(append) == ToFile(IF append THEN "append" ELSE "replace")

S3FileSink == ToFile("replace")

\* upload_blob() without overwrite.
AzureFileSink == ToFile("exclusive")

CSVSink == ToFile("append")

KafkaReplicatorSink == Publishing("kafka")

KinesisSink == Publishing("kinesis")

PubSubSink == Publishing("futures")

\* With QoS 1.  With QoS 0 nothing is awaited, and delivery is "at most once".
MQTTSink == Publishing("mqtt")

-----------------------------------------------------------------------------
\* Bound: KinesisSink submits a batch when it has 500 records.
RequestSize == 2

\* Bound on the requests of a sink without an answer: more wait for an answer.
MaxRequests == 2

\* next record, first one of the checkpoint, sink that is flushed, failed attempts of
\* its request (for KinesisSink, 1 if flush() has submitted)
NewWriter == [pc |-> "down", next |-> sunk, start |-> NoOffset, at |-> 1, attempt |-> 0]

\* records that are not submitted, requests (sets of records) without an answer, and
\* whether one has failed
NewOutbox == [batch |-> <<>>, requests |-> <<>>, kept |-> FALSE]

-----------------------------------------------------------------------------
(* Records *)

\* SinkManager.start_sinks(): an error of setup() ends the application.
StartSinks ==
    /\ writer.pc = "down"
    /\ \/ writer' = [NewWriter EXCEPT !.pc = "run"] /\ UNCHANGED faults
       \/ writer' = [NewWriter EXCEPT !.pc = "failing"] /\ Fault
    /\ outbox' = [s \in Sinks |-> NewOutbox]
    /\ UNCHANGED <<written, dropped, overlooked, sunk>>

\* add(): batch the record, or publish it.
Added(s, o) ==
    LET b == outbox[s]
        batch == Append(b.batch, o)
    IN  CASE Batching(s) \/ (Style(s) = "kinesis" /\ Len(batch) # RequestSize) ->
                [b EXCEPT !.batch = batch]
          [] Style(s) = "kinesis" /\ Len(batch) = RequestSize ->
                [b EXCEPT !.batch = <<>>, !.requests = Append(@, Range(batch))]
          [] OTHER -> [b EXCEPT !.requests = Append(@, {o})]

\* add() of KafkaReplicatorSink raises the error of an earlier delivery.
AddRaises(s) == Style(s) = "kafka" /\ outbox[s].kept

\* A record goes to all sinks.  MQTTSink raises if it cannot be queued.
SinkRecord ==
    /\ writer.pc = "run" /\ writer.next < MaxOffset
    /\ \A s \in Sinks : Len(outbox[s].requests) < MaxRequests
    /\ \/ /\ \A s \in Sinks : ~AddRaises(s)
          /\ outbox' = [s \in Sinks |-> Added(s, writer.next)]
          /\ writer' = [writer EXCEPT !.next = @ + 1, !.start = IF @ = NoOffset THEN writer.next ELSE @]
          /\ UNCHANGED faults
       \/ /\ \/ \E s \in Sinks : AddRaises(s) /\ UNCHANGED faults
             \/ \E s \in Sinks : Style(s) = "mqtt" /\ Fault
          /\ writer' = [writer EXCEPT !.pc = "failing"]
          /\ UNCHANGED outbox
    /\ UNCHANGED <<written, dropped, overlooked, sunk>>

-----------------------------------------------------------------------------
(* Flush *)

BeginSinkFlush ==
    /\ writer.pc = "run" /\ writer.start # NoOffset
    /\ writer' = [writer EXCEPT !.pc = "flush", !.at = 1, !.attempt = 0]
    /\ UNCHANGED <<faults, outbox, written, dropped, overlooked, sunk>>

Flushing(s) == writer.pc = "flush" /\ writer.at = s

\* Checkpoint.commit() turns to the next sink.
NextSink == [writer EXCEPT !.at = @ + 1, !.attempt = 0]

\* Mutant: only the data of the sink with the backpressure is processed again.
SeekNot == [writer EXCEPT !.pc = "run", !.start = NoOffset]

\* The partition is sought back to the first record of the checkpoint.
SeekBack == [writer EXCEPT !.pc = "run", !.next = writer.start, !.start = NoOffset]

\* flush() of sink s ends with an error.  A BatchingSink has dropped its batches then,
\* and after backpressure the sinks that come later drop theirs in on_paused().
FlushEnds(s, outcome, box) ==
    LET dropping == {s} \cup IF outcome = "pressure" THEN {r \in Sinks : r > s} ELSE {}
    IN  /\ writer' = IF outcome = "pressure" THEN SeekBack ELSE [writer EXCEPT !.pc = "failing"]
        /\ outbox' = [r \in Sinks |->
              LET b == IF r = s THEN box ELSE outbox[r]
              IN  IF r \in dropping /\ Batching(r) THEN [b EXCEPT !.batch = <<>>] ELSE b]

Chunk(s) == SubSeq(outbox[s].batch, 1, Min({scenario.sinks[s].chunk, Len(outbox[s].batch)}))
Rest(s) == SubSeq(outbox[s].batch, Len(Chunk(s)) + 1, Len(outbox[s].batch))

\* The file of a batch is named after its first record, or is the last one there is.
File(s) ==
    LET files == {w.file : w \in written[s]}
    IN  CASE scenario.sinks[s].file = "none" -> 0
          [] scenario.sinks[s].file = "append" /\ files # {} -> Max(files)
          [] OTHER -> Head(outbox[s].batch)

FileExists(s) ==
    scenario.sinks[s].file = "exclusive" /\ \E w \in written[s] : w.file = File(s)

Write(s, records) ==
    written' = [written EXCEPT ![s] =
        (IF scenario.sinks[s].file = "replace" THEN {w \in @ : w.file # File(s)} ELSE @)
        \cup [file : {File(s)}, offset : Range(records)]]

\* write() of a BatchingSink, request by request.
WriteChunk(s) ==
    /\ Flushing(s) /\ Batching(s) /\ outbox[s].batch # <<>> /\ ~FileExists(s)
    /\ Write(s, Chunk(s))
    /\ outbox' = [outbox EXCEPT ![s].batch = Rest(s)]
    /\ writer' = [writer EXCEPT !.attempt = 0]
    /\ UNCHANGED <<faults, dropped, overlooked, sunk>>

\* Azure does not replace a blob.
BlobExists(s) ==
    /\ Flushing(s) /\ Batching(s) /\ outbox[s].batch # <<>> /\ FileExists(s)
    /\ FlushEnds(s, "raise", outbox[s])
    /\ UNCHANGED <<faults, written, dropped, overlooked, sunk>>

\* The request is refused, or answered by an error after a part of it was carried out.
\* The sink tries it again, skips it, asks for a pause or raises the error.
WriteFails(s) ==
    LET sink == scenario.sinks[s]
        retries == writer.attempt + 1 < sink.attempts
        ends == sink.refused \cup
                IF sink.attempts > 0 /\ ~retries THEN {sink.exhausted} ELSE {}
    IN  /\ Flushing(s) /\ Batching(s) /\ outbox[s].batch # <<>> /\ Fault /\ ~FileExists(s)
        /\ \E part \in 0..Len(Chunk(s)) : Write(s, SubSeq(Chunk(s), 1, part))
        /\ \/ /\ retries
              /\ writer' = [writer EXCEPT !.attempt = @ + 1]
              /\ UNCHANGED <<outbox, dropped>>
           \/ /\ "skip" \in ends
              /\ dropped' = [dropped EXCEPT ![s] = @ \cup Range(Chunk(s))]
              /\ outbox' = [outbox EXCEPT ![s].batch = Rest(s)]
              /\ writer' = [writer EXCEPT !.attempt = 0]
           \/ /\ \E outcome \in ends \ {"skip"} : FlushEnds(s, outcome, outbox[s])
              /\ UNCHANGED dropped
        /\ UNCHANGED <<overlooked, sunk>>

\* flush() of KinesisSink submits what is left.  It stays in _records, too.
SubmitRest(s) ==
    /\ Flushing(s) /\ Style(s) = "kinesis" /\ writer.attempt = 0
    /\ Len(outbox[s].requests) < MaxRequests
    /\ writer' = [writer EXCEPT !.attempt = 1]
    /\ outbox' = IF outbox[s].batch = <<>> THEN outbox
                 ELSE [outbox EXCEPT ![s].requests = Append(@, Range(outbox[s].batch))]
    /\ UNCHANGED <<faults, written, dropped, overlooked, sunk>>

\* Mutant: failed requests are no reason to wait.
AllAnswered(s) == outbox[s].requests = <<>>

\* Every request has been carried out.
AllDelivered(s) == outbox[s].requests = <<>> /\ ~outbox[s].kept

\* All batches are written, or all requests carried out.
SinkFlushReturns(s) ==
    /\ Flushing(s)
    /\ IF Batching(s) THEN outbox[s].batch = <<>>
       ELSE AllDelivered(s) /\ (Style(s) = "kinesis" => writer.attempt = 1)
    /\ writer' = NextSink
    /\ UNCHANGED <<faults, outbox, written, dropped, overlooked, sunk>>

\* A request has failed: PubSubSink and KinesisSink ask for a pause and keep its future,
\* KafkaReplicatorSink raises its error.  MQTTSink goes on waiting.
RequestHasFailed(s) ==
    /\ Flushing(s) /\ outbox[s].kept
    /\ \/ /\ Style(s) = "futures" \/ (Style(s) = "kinesis" /\ writer.attempt = 1)
          /\ FlushEnds(s, "pressure", outbox[s])
       \/ Style(s) = "kafka" /\ FlushEnds(s, "raise", [outbox[s] EXCEPT !.kept = FALSE])
    /\ UNCHANGED <<faults, written, dropped, overlooked, sunk>>

\* The time-out of flush(): the requests stay under way.
FlushTimesOut(s) ==
    /\ Flushing(s) /\ Style(s) \in {"futures", "kafka"} /\ outbox[s].requests # <<>>
    /\ ~outbox[s].kept /\ Fault
    /\ FlushEnds(s, "pressure", outbox[s])
    /\ UNCHANGED <<written, dropped, overlooked, sunk>>

\* The offset is committed after the last sink.
CommitSunk ==
    /\ writer.pc = "flush" /\ writer.at > Len(scenario.sinks)
    /\ \/ /\ sunk' = writer.next /\ UNCHANGED faults
          /\ writer' = [writer EXCEPT !.pc = "run", !.start = NoOffset]
       \/ /\ sunk' \in {sunk, writer.next} /\ Fault
          /\ writer' = [writer EXCEPT !.pc = "failing"]
    /\ UNCHANGED <<outbox, written, dropped, overlooked>>

-----------------------------------------------------------------------------
(* The external systems, and the end of the process *)

Requests(s) ==
    IF outbox[s].requests = <<>> THEN {}
    ELSE IF Style(s) = "kinesis" THEN {1} ELSE DOMAIN outbox[s].requests

RequestDone(s) ==
    /\ \E k \in Requests(s) :
          /\ written' = [written EXCEPT ![s] = @ \cup [file : {0}, offset : outbox[s].requests[k]]]
          /\ outbox' = [outbox EXCEPT ![s].requests = RemoveAt(@, k)]
    /\ UNCHANGED <<faults, writer, dropped, overlooked, sunk>>

\* KinesisSink asks the future of put_records() for an exception, not for its result.
Overlooks(s) == Style(s) = "kinesis"

\* put_records() returns, and has refused some of the records (FailedRecordCount).
RecordsRefused(s) ==
    /\ Overlooks(s) /\ Fault
    /\ \E k \in Requests(s) : \E refused \in (SUBSET outbox[s].requests[k]) \ {{}} :
          /\ written' = [written EXCEPT ![s] = @ \cup
                 [file : {0}, offset : outbox[s].requests[k] \ refused]]
          /\ overlooked' = [overlooked EXCEPT ![s] = @ \cup refused]
          /\ outbox' = [outbox EXCEPT ![s].requests = RemoveAt(@, k)]
    /\ UNCHANGED <<writer, dropped, sunk>>

\* The answer is an error, or there is none, whatever was carried out.  For MQTTSink: its
\* acknowledgement never comes, or before add() expects it.
RequestFails(s) ==
    /\ Fault
    /\ \E k \in Requests(s) : \E stored \in SUBSET outbox[s].requests[k] :
          /\ written' = [written EXCEPT ![s] = @ \cup [file : {0}, offset : stored]]
          /\ outbox' = [outbox EXCEPT ![s].requests = RemoveAt(@, k), ![s].kept = TRUE]
    /\ UNCHANGED <<writer, dropped, overlooked, sunk>>

EndWriter ==
    /\ \/ writer.pc = "failing" /\ UNCHANGED faults
       \/ writer.pc # "down" /\ Fault
    /\ writer' = [NewWriter EXCEPT !.next = sunk]
    /\ outbox' = [s \in Sinks |-> NewOutbox]
    /\ UNCHANGED <<written, dropped, overlooked, sunk>>

SinkInit ==
    /\ sunk = 0
    /\ writer = NewWriter
    /\ outbox = [s \in Sinks |-> NewOutbox]
    /\ written = [s \in Sinks |-> {}]
    /\ dropped = [s \in Sinks |-> {}]
    /\ overlooked = [s \in Sinks |-> {}]

WriterStep ==
    \/ StartSinks \/ SinkRecord \/ BeginSinkFlush \/ CommitSunk \/ EndWriter
    \/ \E s \in Sinks :
          \/ WriteChunk(s) \/ BlobExists(s) \/ SubmitRest(s) \/ SinkFlushReturns(s)
          \/ RequestHasFailed(s) \/ RequestDone(s)

SinkNext ==
    \/ WriterStep
    \/ \E s \in Sinks : WriteFails(s) \/ FlushTimesOut(s) \/ RequestFails(s) \/ RecordsRefused(s)

Record == 0..MaxOffset - 1

Writer == [pc : {"down", "run", "flush", "failing"}, next : Nat, start : Int, at : Nat,
           attempt : Nat]

Copy == [file : 0..MaxOffset, offset : Record]

Outbox == [batch : Seq(Record), requests : Seq(SUBSET Record), kept : BOOLEAN]

SinkTypeOK ==
    Sinking =>
    /\ writer \in Writer /\ writer.at \in 1..Len(scenario.sinks) + 1
    /\ sunk \in 0..MaxOffset /\ writer.next \in sunk..MaxOffset
    /\ writer.pc # "failing" => writer.start \in {NoOffset, sunk}
    /\ outbox \in [Sinks -> Outbox]
    /\ written \in [Sinks -> SUBSET Copy]
    /\ dropped \in [Sinks -> SUBSET Record]
    /\ overlooked \in [Sinks -> SUBSET Record]

-----------------------------------------------------------------------------
\* The copies that the system of a sink has of a record
Copies(s, o) == {w \in written[s] : w.offset = o}

\* "At-least-once", as far as it goes: what is committed is in the system of every sink,
\* unless the sink has skipped it or its system has refused it in an answer that the sink,
\* KinesisSink, does not read; in files that are replaced it is there once.
SinksAtLeastOnce ==
    Sinking =>
        \A s \in Sinks, o \in 0..sunk - 1 :
            /\ Copies(s, o) # {} \/ o \in dropped[s] \/ (Overlooks(s) /\ o \in overlooked[s])
            /\ scenario.sinks[s].file = "replace" => Cardinality(Copies(s, o)) = 1

\* "This ensures no messages are lost", which is false of KinesisSink.
SinksLoseNothing ==
    Sinking => \A s \in Sinks, o \in 0..sunk - 1 : Copies(s, o) # {} \/ o \in dropped[s]

\* A sink that never comes to the end of a flush again, until the process ends.
Stuck(s) ==
    \/ Style(s) \in {"futures", "kinesis", "mqtt"} /\ outbox[s].kept
    \/ Batching(s) /\ outbox[s].batch # <<>> /\ FileExists(s)

\* After backpressure and failures "the processing will continue, and the backpressured
\* data will be re-processed and sinked again", but for what Stuck() names.
SinksRecover == Sinking => <>(sunk = MaxOffset \/ \E s \in Sinks : Stuck(s))

=============================================================================
