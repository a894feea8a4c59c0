--------------------------- MODULE SourceConnectors ---------------------------
(***************************************************************************)
(* What a source does in its process: it reads the items of an external    *)
(* system, produces them, and remembers how far it is.  A stateful source  *)
(* (KinesisSource) remembers it in a store with a changelog; PubSubSource  *)
(* acknowledges items; the others remember nothing: those that take row    *)
(* after row (CSVSource, PandasDataFrameSource, MQTTSource), FileSource,   *)
(* that flushes after each file, and InfluxDB3Source, that flushes after   *)
(* the records of each query and produces all of them again on an error.   *)
(***************************************************************************)
EXTENDS Scenario

VARIABLES
    process,    \* the process of the source, see NewProcess
    produced,   \* items that are in the topic of the source
    changelog,  \* last item of the states in the changelog
    acked,      \* items that are acknowledged
    flushed     \* items that a flush waited for, before it returned

connectorVars == <<process, produced, changelog, acked, flushed>>

Connecting == scenario.kind = "connector"

ConnectorDefinition(s) ==
    /\ s.kind = "connector" /\ s.source \in {"stateful", "pubsub", "rows", "file", "query"}
    /\ s.concurrent \in BOOLEAN

Stateful == scenario.source = "stateful"
Subscribed == scenario.source = "pubsub"
Chunked == scenario.source \in {"file", "query"}

\* The sources, and whether a client calls them from a thread of its own.
Connector(source, concurrent) == [source |-> source, concurrent |-> concurrent]

CSVSource == Connector("rows", FALSE)

PandasDataFrameSource == Connector("rows", FALSE)

MQTTSource == Connector("rows", FALSE)

FileSource == Connector("file", FALSE)

InfluxDB3Source == Connector("query", FALSE)

KinesisSource == Connector("stateful", FALSE)

\* The callback runs while items are flushed and acknowledged, or it does not.
PubSubSource(concurrent) == Connector("pubsub", concurrent)

\* Bounds: items of a file or a query, and attempts to produce those of a query.
ChunkSize == 2
ChunkAttempts == IF scenario.source = "query" THEN 2 ELSE 1

\* Next item, items read, state in the transaction, queues and kept error of the
\* producer, ack ids, whether cleanup() is what flushes, first item of the chunk, failed
\* attempts for it, and what was in the queue when the time of its flush was over.
NewProcess == [pc |-> "down", next |-> 0, read |-> {}, update |-> NoOffset, queue |-> <<>>,
               log |-> <<>>, error |-> FALSE, acks |-> {}, closing |-> FALSE,
               start |-> 0, failures |-> 0, overlooked |-> {}]

\* SourceProcess.run(): the state is recovered from the changelog, and the client
\* reads on behind it.
StartSource ==
    /\ process.pc = "down"
    /\ process' = [NewProcess EXCEPT !.pc = "run", !.next = IF Stateful THEN changelog + 1 ELSE 0]
    /\ UNCHANGED <<faults, produced, changelog, acked, flushed>>

\* The error that is kept is raised, once; the chunk is produced again if it may be.
Raised ==
    IF Chunked /\ process.failures + 1 < ChunkAttempts
    THEN [process EXCEPT !.error = FALSE, !.next = process.start, !.failures = @ + 1,
                         !.read = @ \ (process.start..process.next)]
    ELSE [process EXCEPT !.pc = "failing", !.error = FALSE]

\* produce() raises it.
Produced(item) ==
    IF process.error THEN Raised
    ELSE [process EXCEPT !.queue = Append(@, item), !.read = @ \cup {item}]

ChunkRead ==
    Chunked /\ (process.next = MaxOffset \/ process.next - process.start = ChunkSize)
            /\ process.next > process.start

\* The items are read one after the other; a state is set for each.
ReadItem ==
    /\ ~Subscribed /\ process.pc = "run" /\ process.next < MaxOffset /\ ~ChunkRead
    /\ process' = IF process.error THEN Raised
                  ELSE [Produced(process.next) EXCEPT
                           !.next = @ + 1, !.update = IF Stateful THEN process.next ELSE NoOffset]
    /\ UNCHANGED <<faults, produced, changelog, acked, flushed>>

\* The flush after a chunk raises the error that is kept; that its time is over is not
\* looked at.
FlushChunk ==
    /\ process.pc = "run" /\ ChunkRead
    /\ LET next == [process EXCEPT !.start = process.next, !.failures = 0]
       IN  \/ /\ process.queue = <<>> /\ ~process.error
              /\ process' = next /\ UNCHANGED faults
           \/ /\ process.error
              /\ process' = Raised /\ UNCHANGED faults
           \/ /\ process.queue # <<>> /\ ~process.error /\ Fault
              /\ process' = [next EXCEPT !.overlooked = @ \cup Range(process.queue)]
    /\ UNCHANGED <<produced, changelog, acked, flushed>>

\* _async_pull_callback(), in a thread of the client: any item that is not
\* acknowledged and not with the process already.
ReceiveItem ==
    /\ Subscribed
    /\ process.pc \in {"run"} \cup IF scenario.concurrent THEN {"flush", "ack", "clear"} ELSE {}
    /\ \E item \in 0..MaxOffset - 1 :
          /\ item \notin acked \cup process.read
          /\ process' = IF process.error THEN Produced(item)
                        ELSE [Produced(item) EXCEPT !.acks = @ \cup {item}]
    /\ UNCHANGED <<faults, produced, changelog, acked, flushed>>

\* run() ends when there is nothing more to read, or when stop() was called, which the
\* sources with files and queries look at between two of them.
EndRun ==
    /\ process.pc = "run" /\ ~process.closing
    /\ Chunked => process.next = process.start
    /\ \/ ~Stateful /\ ~Subscribed /\ process.next = MaxOffset /\ UNCHANGED faults
       \/ Fault
    /\ process' = [process EXCEPT !.closing = TRUE]
    /\ UNCHANGED <<produced, changelog, acked, flushed>>

\* flush() of a stateful source: the changelog record of the transaction is produced
\* and the store written.  A flush is due at any time, and in cleanup().
BeginFlush ==
    /\ process.pc = "run" /\ (process.closing \/ Stateful \/ Subscribed)
    /\ process' =
          IF process.update = NoOffset THEN [process EXCEPT !.pc = "flush"]
          ELSE IF process.error THEN [process EXCEPT !.pc = "failing", !.error = FALSE]
          ELSE [process EXCEPT !.pc = "flush", !.log = Append(@, process.update),
                               !.update = NoOffset]
    /\ UNCHANGED <<faults, produced, changelog, acked, flushed>>

\* Mutant: the error of a delivery is not looked at.
FlushReturnsQuietly == process.queue = <<>> /\ process.log = <<>>

\* Source.flush() returns when everything is delivered and no error is kept.
FlushReturns == process.queue = <<>> /\ process.log = <<>> /\ ~process.error

\* What run() does next.  Otherwise the flush raises the error, or the time-out.
EndFlush ==
    /\ process.pc = "flush"
    /\ \/ /\ FlushReturns
          /\ process' = [process EXCEPT !.error = FALSE,
                !.pc = IF process.closing THEN "done" ELSE IF Subscribed THEN "ack" ELSE "run"]
          /\ flushed' = flushed \cup (process.read \ process.overlooked) /\ UNCHANGED faults
       \/ /\ process.error /\ UNCHANGED <<faults, flushed>>
          /\ process' = [process EXCEPT !.pc = "failing"]
       \/ /\ process.queue # <<>> \/ process.log # <<>>
          /\ Fault /\ UNCHANGED flushed
          /\ process' = [process EXCEPT !.pc = "failing"]
    /\ UNCHANGED <<produced, changelog, acked>>

\* PubSubConsumer.commit(): acknowledge the items, and then forget them.
Acknowledge ==
    /\ process.pc = "ack"
    /\ acked' = acked \cup process.acks
    /\ process' = [process EXCEPT !.pc = "clear"]
    /\ UNCHANGED <<faults, produced, changelog, flushed>>

ForgetAcks ==
    /\ process.pc = "clear"
    /\ process' = [process EXCEPT !.pc = "run", !.acks = {}]
    /\ UNCHANGED <<faults, produced, changelog, acked, flushed>>

\* The topics of the data and of the changelog take their messages in any order.
DeliverItem ==
    /\ process.queue # <<>>
    /\ process' = [process EXCEPT !.queue = Tail(@)]
    /\ produced' = produced \cup {Head(process.queue)}
    /\ UNCHANGED <<faults, changelog, acked, flushed>>

DeliverState ==
    /\ process.log # <<>>
    /\ process' = [process EXCEPT !.log = Tail(@)]
    /\ changelog' = Head(process.log)
    /\ UNCHANGED <<faults, produced, acked, flushed>>

ItemFails ==
    /\ Fault /\ process.queue # <<>>
    /\ process' = [process EXCEPT !.queue = Tail(@), !.error = TRUE]
    /\ UNCHANGED <<produced, changelog, acked, flushed>>

\* start() ends: cleanup(failed=True) flushes nothing.  Or the process dies.  What is
\* in its queues is gone; somebody starts the application again.
EndSource ==
    /\ \/ process.pc \in {"failing", "done"} /\ UNCHANGED faults
       \/ process.pc # "down" /\ Fault
    /\ process' = NewProcess
    /\ UNCHANGED <<produced, changelog, acked, flushed>>

ConnectorInit ==
    /\ process = NewProcess
    /\ produced = {} /\ changelog = NoOffset /\ acked = {} /\ flushed = {}

SourceStep ==
    \/ StartSource \/ ReadItem \/ FlushChunk \/ ReceiveItem \/ BeginFlush \/ EndFlush \/ Acknowledge
    \/ ForgetAcks \/ DeliverItem \/ DeliverState \/ EndSource

ConnectorNext == SourceStep \/ EndRun \/ ItemFails

Item == 0..MaxOffset - 1

Process ==
    [pc : {"down", "run", "flush", "ack", "clear", "failing", "done"}, next : 0..MaxOffset,
     read : SUBSET Item, update : Item \cup {NoOffset}, queue : Seq(Item), log : Seq(Item),
     error : BOOLEAN, acks : SUBSET Item, closing : BOOLEAN, start : 0..MaxOffset,
     failures : 0..1, overlooked : SUBSET Item]

ConnectorTypeOK ==
    /\ process \in Process /\ changelog \in Item \cup {NoOffset}
    /\ produced \subseteq Item /\ acked \subseteq Item /\ flushed \subseteq Item
    /\ process.update < process.next /\ process.start <= process.next
    /\ process.failures < ChunkAttempts /\ process.acks \subseteq process.read

-----------------------------------------------------------------------------
\* "It ensures the state is published to the changelog topic and all messages are
\* successfully delivered to Kafka": a flush that has returned is never undone by what
\* fails, dies and starts again later, and a source that ends without an error has
\* delivered what it read.
FlushIsSafe ==
    Connecting =>
        /\ ~Subscribed => flushed \subseteq produced
        /\ Stateful => flushed \subseteq 0..changelog
        /\ process.pc = "done" =>
              process.read \subseteq produced
                  \cup (IF scenario.source = "query" THEN process.overlooked ELSE {})
        /\ Subscribed /\ ~scenario.concurrent => acked \subseteq produced

\* "Offers at-least-once guarantees": what a new process will not read again has been
\* delivered.
SourceAtLeastOnce ==
    Connecting /\ process.pc = "down" =>
        acked \cup (IF Stateful THEN 0..changelog ELSE {}) \subseteq produced

=============================================================================
