# Formal models of Quix Streams

TLA+ specifications of Quix Streams, the TLC configurations that check them on
small instances, and TLAPS proofs of the results that matter most. Paths below
are relative to `src/quixstreams/` unless they start with `docs/`.

| Module | What it is |
| --- | --- |
| `ProcessingGuarantee` | the abstract at-least-once promise of an application to the outside |
| `Checkpointing` | the processing loop, the checkpoint, store and changelog, recovery, rebalances |
| `CheckpointingInvariants` | the inductive invariants of `Checkpointing` by the hazards they exclude |
| `CheckpointingProofs` | TLAPS proofs about `Checkpointing`: at-least-once; the promise, rewinds and stores; the state |
| `ConsumerBuffer` | buffered consuming in timestamp order, with backpressure |
| `BufferProofs` | TLAPS proofs about it |
| `Operation` | what all stateful operations of a dataframe share: the definition, the messages, times |
| `WindowDefinitions` | from the calls that define a window to its parameters and its store |
| `WindowedStore` | what a windowed store keeps for a key, and the transaction's operations on it |
| `Windows`, `TimeWindows`, `SlidingWindows`, `CountWindows` | the processing of a message by each kind of window |
| `WindowedDataframe` | a dataframe with one of these windows, and the properties of its results |
| `Aggregations` | aggregators and collectors of `agg()`, from one version of an application to the next |
| `TimestampedStore`, `Joins` | as-of and interval joins, and the store they keep records in |
| `TableLookups`, `ConfigurationLookup` | joins with SQL tables through a cache, and with versioned configurations |
| `StateMap` | the abstract promise of a function's state: a map that commits and recovers as a whole |
| `StateTransaction` | the transactions, store partition, changelog and recovery under that state |
| `Dataframes` | the stateful operations as one specification |
| `DataframeProofs`, `JoinProofs`, `WindowProofs`, `CountProofs` | TLAPS proofs about it: `StateTransaction` implements `StateMap`, and lookups in tables; joins and lookups of configurations; time windows; count windows |
| `Scenario` | what the modules about the processes around the dataframe share |
| `ExactlyOnce` | an application that commits in Kafka transactions |
| `Replicator` | the source that copies a topic between clusters |
| `SourceProcesses`, `SourceConnectors` | processes of sources next to the application; what the sources do in them |
| `RunTracker`, `BrokerAvailability` | when an application stops by itself |
| `SinkConnectors` | every sink, with the flush of a checkpoint |
| `Streams` | the graph of functions that the calls on dataframes and series build, and its executors |
| `Topics` | instances that set up their topics together |
| `Application` | the processes around the dataframe as one specification |
| `ProcessProofs`, `ApplicationProofs` | TLAPS proofs about it: transactions and sources; sinks, the end of an application, topics, graphs and all types |
| `MC*` | values of the constants for TLC |

`Checkpointing` describes the whole application under at-least-once, and looks
at one message as one update of a state, one output and one sink record. The
other specifications open what it leaves closed: `ConsumerBuffer` what `poll`
does, `Dataframes` what happens to a message, `Application` the other
guarantee and the processes and services around the loop.

## Inventory

### Components, their state and their operations

**Application** (`app.py`, `processing/context.py`). Subscribes the consumer,
then repeats: poll and process one message, commit the checkpoint when it is
due (interval or number of messages), do recovery instead of processing while
a store partition is behind its changelog, resume from backpressure, and raise
what sources, the producer or the availability checks report. The
consumer's `poll` runs the rebalance callbacks `_on_assign`, `_on_revoke` and
`_on_lost` on the same thread. Errors of a step leave the loop and stop the
application without a commit.

**Checkpoint** (`checkpointing/checkpoint.py`). Keeps the first and the last
offset processed per topic partition, and one store transaction per partition.
`commit()` flushes the sinks, prepares the transactions (which produces the
changelog records), flushes the producer, commits the offsets (in a Kafka
transaction under exactly-once), and flushes the store transactions to disk, in
that order; `SinkBackpressureError` in the first
step pauses the consumer, seeks back, and gives the checkpoint up.

**Producer** (`internal_producer.py`, `kafka/producer.py`). Queues records;
delivery reports arrive from a background thread, keep the first error until
somebody raises it, and the offsets of the records. Transactional calls are
retried while the broker says so.

**Consumer** (`internal_consumer/`). Unbuffered: one message per poll.
Buffered: batches are read ahead into one buffer per topic partition; the oldest
head of the partitions of the same number is handed out, as long as none of
them waits for the broker. Full buffers pause their partition.

**State** (`state/`). A store transaction buffers updates per column family and
prefix, writes them to the changelog in `prepare`, and to the store partition
in `flush` together with the changelog offset. Windowed and timestamped stores
add expiration. Recovery compares the stored offset with the watermarks of the
changelog and replays the rest, but only records whose processed offsets,
carried in a header, are committed.

**Dataframe** (`dataframe/`, `core/stream/`). Calls on dataframes and series
build a graph of functions with branches and merges; an executor per topic
runs a message through it. The stateful functions are windows, joins and
lookups; `group_by` goes through a repartition topic.

**Sources** (`sources/`). A process per source that produces to a topic,
supervised by the application, some with a store of their own. The replicator
is a source with a consumer group and checkpoints.

**Sinks** (`sinks/`). Batch per topic partition until the checkpoint
flushes them, or send at once and wait in the flush; may raise backpressure.

**RunTracker** (`runtracker.py`). Stops an application after a count of
messages or when no message has arrived for a time. The clients' availability
check fails it when no broker has answered for a time.

**Topics** (`models/topics/`). Finds or creates topics, derives those of
changelogs and repartitions, validates partition counts.

**Serializers, platform client** (`models/serializers/`, `platforms/`).
Conversion of data, HTTP calls.

### Interactions

| From | To | How |
| --- | --- | --- |
| consumer | application | rebalance callbacks inside `poll` |
| application | checkpoint | `store_offset` after each message, `commit` when due and on revoke |
| dataframe | checkpoint's transactions, producer, sinks | calls while a message is processed |
| checkpoint | sinks, producer, consumer, store partitions | the five steps of `commit` |
| producer thread | checkpoint | delivery reports: an error, changelog offsets |
| recovery | store partitions, consumer | replays the changelog while data partitions are paused |
| application | processes of sources | start, signals, exit codes, a pipe for the exception |
| subscription threads of lookups and sources | the main thread | shared caches, lists of acknowledgements |
| two instances | each other | the group coordinator, the committed offsets, the changelog topic, the topics they create |

### What is hard here, and what makes it correct

* A crash between any two steps of a commit, a lost answer to a commit request,
  a partly applied one: no message may be lost (`AtLeastOnce`), and the state
  after recovery must be that of the committed offsets (`ConsistentState`,
  `StoreHoldsCommittedOnly`, `SameOutputs`).
* Asynchronous deliveries and their errors, which arrive between or during the
  steps: no commit may get past them.
* The same with transactions that are retried, fenced, or left behind by dead
  processes (`OutputsUnique`).
* Backpressure after other batches or other sinks have been written: the rewind
  must be complete, for every topic (`StartsAtCommitted`, `NothingSkipped`), and
  the sinks must write all of it the next time (`SinksAtLeastOnce`).
* Requests of sinks that are carried out in part, with an answer that says so or
  not, read or not (`SinksAtLeastOnce`).
* Rebalances in every state of the loop, and instances that have been evicted
  and do not know it.
* Off-by-one at the changelog's watermarks (`ChangelogOffsetsValid`,
  `RecoveryEnds`).
* Waiting for each other: the buffers of a group, two reasons for a pause
  (`StuckByHazardsOnly`, `PausesAgree`), the whole group after failures
  (`EventuallyCommitted`), the application and its sources (`EventuallyDone`).
* Windows: timestamps that arrive out of order, expiration and deletion indexes
  that later calls start from, triggers (`WindowResultsComplete`,
  `NoMessageLost`, `TimeClosesOnTime`), and the state of the version before
  (`AggregatesExact`).
* Joins and lookups: values that expire by a cached minimum, rows and versions
  that are cached while they change (`JoinResults`, `CachedRowsFresh`,
  `ConfigurationsExact`).
* State: values that are cached, stored, deleted and set again, a counter that
  outlives its transaction, a store that is recovered by other code than wrote it
  (`StateIsMap`).
* Sources: a process that fails, dies or is killed while the application stops
  (`SourcesSupervised`), a flush that fails half way (`FlushIsSafe`).
* Dataframes defined by calls in any order, with branches of branches that meet
  again (`DataflowAsWritten`, `TopicsAligned`).
* Instances that create the same topics while these grow (`InternalTopicsFit`).

`PROJECT.json` lists each hazard at its line with the properties that cover it.

## Plan

Done: every module of the table with its runs; the proofs of all safety properties
of `Checkpointing`, `ConsumerBuffer` and `Application` except `DataflowAsWritten`, of
both refinements, and of time windows, count windows, joins and lookups in
`Dataframes`.

Next, in this order:

1. `Dataframes!TypeOK`.
2. `SlidingResultsComplete` and `SlidingNothingLost`, the conjuncts that
   `WindowResultsComplete` and `NoMessageLost` still lack.
3. `AggregatesExact`.

## Checkpointing

### State and actions

The module describes several instances (`App`) of one application in one group
that read the co-partitioned topics `Topic`, for one partition number.

| Variables | Code |
| --- | --- |
| `committed`, `changelog`, `outputs` | Kafka: the group's offsets, the changelog partition, the output topic |
| `sunk` | the destination of the sink |
| `owner`, `members` | the group coordinator |
| `mode`, `stage` | where `run()` and `Checkpoint.commit()` are |
| `position` | the consumer's position |
| `tpOffsets`, `starting`, `updates`, `stale` | `Checkpoint._tp_offsets`, `_starting_tp_offsets`, the transaction's cache, a transaction whose partition has been closed |
| `batch`, `pendingOut`, `pendingLog`, `deliveryError`, `producedOff` | sink batches, the producer's queue, `InternalProducer._error`, its offset of the changelog |
| `store`, `storeOff`, `recovery` | the store partition on the instance's disk, its changelog offset, the `RecoveryPartition` |

The steps of the loop are `Start`, `Rejoin`, `OnAssign`, `OnRevoke`, `OnLost`,
`RecoverMessage`, `RecoveryDone`, `Process`; those of a commit are
`CommitBegins` (steps 1 and 2), `FlushProducer` (3), `CommitOffsets` (4) and
`FlushStores` (5), or `Backpressure` instead of all. Each has actions for its
failures (`...Fails`, `...TimesOut`, `CommitRefused`, `CommitErrs`), which end
the process as an exception does. `DeliverOutput` and `DeliverChangelog` are the
producer's thread; `Evict`, `SessionTimeout`, `Compact` the broker; `Recreate` an operator
who deletes the changelog topic; `Crash` may
come at any point. Where a step of the code can raise, its success action has
the negated condition as a guard, so no path is silently dropped.

A state value counts how often each message was applied to a key. It makes a
lost or a repeated update visible, which a sum or a set would hide.

### Abstractions

* One partition number; its topics are assigned together with their store.
* A message makes one state update, one output record with the new state,
  and one sink record.
* `auto_offset_reset` is `earliest`; no retention, so low watermarks are zero.
* A checkpoint may be committed whenever it is not empty: this covers every
  `commit_interval` and `commit_every`.
* The pause after backpressure has no length; the run resumes at once.
* The changelog records of one commit are delivered in any order.
* Offsets and watermarks that `_on_assign` reads are read together.
* A processing error leaves `run()`: `on_processing_error` suppresses nothing.
* An instance is restarted after its former session has expired, and a graceful
  stop is a revocation followed by the end of the process.

### Runs

| Run | Shows | Bounds |
| --- | --- | --- |
| `checkpoint_crash` | two instances, crashes, rebalances, delivery errors, timeouts, lost commit answers, backpressure: all safety properties, and the refinement `KeepsPromise` | one topic of 3 messages that alternate between two keys, 2 faults |
| `checkpoint_eviction` | the inductive invariant `Inv` with every hazard on | two topics of 1 message each, one key, 2 faults |
| `checkpoint_live` | the inductive invariant `ExactInv` without hazards; recovery ends, everything is committed; both topics update one key | as above |
| `lost_checkpoint` | violation, see Findings | as `checkpoint_crash`, with eviction |
| `compacted_changelog` | violation, see Findings | as `checkpoint_crash`, with compaction |

Two faults are the least at which one failure meets the recovery from another,
such as a crash after a commit whose answer was lost. Two messages are the least
at which a replay overlaps a committed prefix, the third gives the first key a
second update; two instances the least at which
a handover moves the state from one disk to another through the changelog. The
exact values are in `MCCheckpointing.tla` and in the `.cfg` files. Instances are
not declared symmetric in the runs that check liveness.

`CHECK_DEADLOCK` is off since the input is finite: when all is committed the
loop has nothing left to do.

### Properties

* `AtLeastOnce`: an offset is committed only when the effects of every message
  before it are visible. `KeepsPromise` states the same as a refinement of
  `ProcessingGuarantee`: commits never outrun effects, and nothing retracts them.
* `ConsistentState`: a processing instance sees exactly the messages before its
  position in each key, once each. Under eviction or compaction it is not
  claimed: an evicted instance goes on writing changelog records, which
  `_should_apply_changelog` cannot tell from those of the owner.
  A recreated changelog is what `InvalidStoreChangelogOffset` is raised for.
* `StoreHoldsCommittedOnly`, `SameOutputs`, `StartsAtCommitted`,
  `OffsetsIncrease`, `ChangelogOffsetsValid`: see the comments in the module.
* `EventuallyCommitted`, `RecoveryEnds` under `Fairness`.

### Fairness

Weak fairness of `Start` (a supervisor restarts a stopped instance),
`SessionTimeout` (the coordinator expires dead members), the loop of each
instance (one thread that never blocks for good: each call has a timeout) and
the producer's delivery. Faults, rebalances and backpressure are bounded by
`MaxFaults` and have no fairness.

## ConsumerBuffer

### State and actions

The buffers of one partition number, one `PartitionBuffer` per topic:
`messages`, `maxOffset`, `highWatermark`, `paused`. `position`, `fetched`,
`cached` and `paused` are librdkafka's position, local queue, cached watermark
and paused partitions. `Fetch` is its background thread. `PollBuffer` and
`PollFeed` are the two ways through `_poll_buffered`: the buffer has a message,
or a batch of `consume()` is fed first, the watermarks are set, and partitions
are paused and resumed. `CommitCheckpoint`, `TriggerBackpressure`,
`ResumeBackpressured` and `Restart` are the events around it; `Produce` writes
to a topic.

What is abstracted: a message handed out is processed at once; the batch that
`consume()` returns is any choice of queued messages of the size asked for;
pausing a partition drops its local queue, as librdkafka does; restarts stand for
rebalances, which create the buffers anew.

### Properties and runs

* `InOrder`: a message handed out is not younger than an unread one of another
  topic that the consumer knew of.
* `AppendValid`, `PausesAgree`: the offsets that arrive after a seek are accepted;
  each pause has somebody to lift it.
* `SkippedByBackpressureOnly`, `StuckByHazardsOnly`: messages are skipped, or wait
  for ever, only because of one of the two hazards.

A behaviour has the hazards of its variable `hazards`: that backpressure drops
messages of a topic which the checkpoint has no offset of (`unprocessed`), and
that a topic is read to its end when the consumer starts or seeks (`caught_up`).
`buffer` checks behaviours with neither and with both of them; `buffer_loss` and
`buffer_stall` show what each of them breaks. Nothing else is excluded.

Bounds: two topics with 3 and 2 messages whose stamps interleave and collide,
buffers of 2, up to two restarts or seeks. The buffer sizes make every
combination of full, empty, idle and paused occur.

Fairness: the loop polls, commits and resumes; librdkafka fetches. Nobody has to
produce another message, which is what makes `StuckByHazardsOnly` interesting.
`CHECK_DEADLOCK` is off since the input is finite.

## Dataframes

### State and actions

A behaviour of `Dataframes` is about one `definition` from a set of them: a
window, the versions of an `agg()`, a join, a lookup, or a stateful function.
Only the variables of its kind change. A step is one message with all that the
code does for it, in one call on one thread; `arrived` records the messages with
what became of them, and the properties compare that with the definition.
Where other threads or processes interfere (updates of configurations, changes
of tables, restarts), these have steps of their own.

**Windows.** `WindowDefinitions` follows the calls (`tumbling_window()` to
`final()` or `current()`) with their conversions of times and their checks.
`store[k]` is what a `WindowedRocksDBPartitionTransaction` reads and writes for
the key `k`: the windows by their start, the collected values by id and counter,
the latest timestamp, and the three indexes that later calls start from
(`expired`, `deletedWindow`, `deletedValue`). `WindowedStore` has one operator
for each method of the transaction, from a state of a key to the next one.
`partitionExpired` is the expiration index with the empty prefix, which closing
by partition uses, and `counting[k]` the list that count windows keep under
their `metadata` key. `ProcessTimeWindow`, `ProcessSlidingWindow` and
`ProcessCountWindow` are `process_window()` of the three classes.
The loop of a sliding window over the windows around the message is taken apart
by what it does to each: the windows that hold the message (`UpperWindows`), the
right window of the message and of the one before, and the left window.
An aggregate is the set of messages it was computed from, so that sums, means and
collections are told apart by the messages they count; a trigger is any choice of
the windows it is asked about.

**Aggregations.** A sequence of versions of an application with the `agg()` calls
of one window, which stays open: `Redeploy` goes on to another version,
`ProcessAggregate` processes a message, and the window is closed in the property
(what a window that closes now would give). Values are columns that may be None.

**Joins.** Two sides with a `TimestampedStore` each. A step is a record of a side
with its key and timestamp, in any order, or the commit of the checkpoint, which
expires records. The store keeps what a transaction has cached of the minimum
eligible timestamps, and what a new transaction finds of them.

**Table lookups.** Rows of a table change at any time; time passes; a message
is joined with the fields of the definition through the cache with its limit
and its time to live (SQLite and PostgreSQL lookups are the same here).

**Configuration lookup.** Events of configurations arrive in order on a thread of
their own, a message is looked up in steps that they may come between, contents
are fetched with failures and retried with an exponential delay, and versions and
contents have caches.

**State of functions.** `StateTransaction` takes requests of `State`, of windowed
collections, and the steps of checkpoints: `BeginState`, `PrepareState`,
`CommitState`, `FlushState`, `GiveUpState` (backpressure or an error that ends it),
`RestartState` (with the disk, without it, or with a store that is found corrupted
and recreated) and `RecoverRecord`. The cache with its updates, deletions and
counter, the store and the changelog are separate, so that each read merges
them as `_get_items()` and `_get_bytes()` do. `StateIsMap` is a refinement: the
mapping gives `StateMap` what functions see (`Seen`) and what the partition is
after recovery (`Restored`).

### Properties

* `WindowResultsComplete`: without triggers, a time window is emitted once, with
  the messages of its interval that were not reported late; with triggers no
  message is in two aggregates of it; the sliding window that ends with a message
  is emitted once unless it was closed when the message came, with every message of
  its interval that came within the grace period; count windows are the runs
  of `count` messages, one step apart; and `current()` gives what has come so far.
* `NoMessageLost`: a message that is in no result and not late waits in a window
  that expiration has yet to reach.
* `TimeClosesOnTime`: windows close with the first message past their end and
  grace period, of the key or of the partition; nothing is late before that.
* `AggregatesExact`: each aggregator has the messages since a version has it, each
  collector those since a version collects, and a window raises exactly if the code
  says so for the version before.
* `StoresReclaimed`: what windows and joins leave in their stores came too late to
  be reclaimed.
* `JoinResults`: an as-of join matches the latest right record that has not
  expired, an interval join all pairs within reach, each once; when records come in
  the order of their timestamps, none is missing.
* `CachedRowsFresh`: a cached row is one that a query gave within the time to live,
  and within it no query is repeated unless the limit of the cache has dropped it.
* `ConfigurationsExact`: a message gets the newest version valid for its timestamp
  of those that have arrived, and at least a valid one
  when events interleave with the lookup; defaults stand in for its content only until the next
  attempt is due.
* `StateIsMap`: functions see their own changes at once; a commit keeps all of
  them and a failed checkpoint none, whenever the process dies and whatever of its
  disk is left; members of a collection never replace each other, and come in the
  order of ids and arrival.

### Run and bounds

`dataframes` explores every sequence of messages for 33 definitions. Timestamps go
from 4 to 10 for windows with durations of 2 and 3, steps of 1 to 3 and a
grace period of 0 or 1, so that messages fall into, between, before the grace
period of and after several windows; timestamps are not below duration plus grace,
as those of real messages are not. Other definitions have timestamps 0 to 3, which
is enough for a record to be in reach of another one, out of it, and expired.
There are 3 to 6 messages, as many as the longest story of a definition needs (six
for two count windows of three that overlap, five for a sliding window whose
neighbours are both split). Sliding windows, time windows by key and collections
have one key, because a message touches the state of its key only; the others have
two. Definitions of state see three or four requests around any number of
checkpoints, restarts and recoveries. Times of caches stop at `MaxTime` = 3, beyond
two lives of an entry. The system stops at the bound on messages, hence no deadlock
check.

### What the definitions leave out

`WindowsStayClosed` fails when a partition closes windows with a grace period
(`window_reopened`, see the findings). Some combinations are left out of
`dataframes` because a property fails there; TLC shows it for each when
its definition is added to `MCDefinitions`:

* a trigger returns to the loop before `update_window()`, so the message does not
  advance the time of its key. A window that the same message has closed is opened
  again by an older message and never emitted (`WindowsStayClosed`);
* closing by partition with a hopping window whose duration is no multiple of its
  step: after the first expiration `windows_to_expire()` counts in steps from an
  end that is none of the ends, and no window expires (`TimeClosesOnTime`);
* `hopping_count_window` with a step of at least the count and `collect()`: the ids
  start over with every window while the deletion continues at the last id, and
  values of an earlier window turn up in a later one (`WindowResultsComplete`);
* message keys of which one is the beginning of another, in a join
  (`MCExtendedDefinitions` with `Extends <- MCExtends`): expiration by the prefix of
  one deletes records of the other (`timestamped.py:206`, `JoinResults`);
* an empty bytes value in a store in memory, `State("memory", {EmptyBytes}, {})`:
  recovery takes it for a deletion (`state/memory/partition.py:101`, `StateIsMap`).

Keys are bytes, the default. With keys of another type a trigger calls
`delete_window()` with a prefix that is not serialized, which raises a TypeError,
and closing by partition emits the serialized key.

Two smaller things: values of late messages below the last deleted id are never
deleted; and the aggregate of a sliding window may lack a message that came after
the grace period while the collection of the same window has it.

What a checkpoint has prepared and not committed is never applied in
`StateTransaction`, as with exactly-once. Under at-least-once a later commit
of the same offsets makes leftovers valid; they come before the records of the
replay, and `Checkpointing` has that changelog.

## Application

A behaviour of `Application` is about one `scenario`, with a bound on messages and
on faults; each module has the variables of its part.

| Scenario | State and actions | Properties |
| --- | --- | --- |
| `ExactlyOnce` | per instance where it is in the loop and the commit, its checkpoint, `_active_transaction`, `_error`, attempts left, the library's view of the transaction; at the broker open transactions, orphans, fencing, committed offset, what `read_committed` consumers see. Steps: begin, process, deliver, flush, send offsets, commit or abort with retries, close, crash, revoke, evict, lose, a callback that suppresses delivery errors | `OutputsUnique`: the outputs read are those of the messages before the committed offset, once, in order |
| `Replicator` | per instance its consumer position, stored offset, queue and error; the source's log, the target's offsets. Steps: assignment, read and produce, delivery, commit, rebalances, stop and close | `ReplicatedAtLeastOnce`, and in `EventuallyDone` that all is copied |
| `SourceProcesses` | per source its process (spawned, running, closing, dead), signals, exit code, the pipe; the application's loop, its stop and its outcome | `SourcesSupervised`; in `EventuallyDone` that a stop ends |
| `SourceConnectors` | what a source has read, queued, flushed, acknowledged, its state and changelog; each source is a record of how it reads and flushes | `FlushIsSafe` |
| `RunTracker`, `BrokerAvailability` | start, count, the clock, assignment and recovery; what each client knows of the brokers and when it last probed | `EndsWhenDue` |
| `SinkConnectors` | the batch, the requests and futures of each sink, what its system has, what the sink has skipped (`dropped`) and what was refused in an answer that it takes for a success (`overlooked`, KinesisSink only), the flush of all of them; each sink is a record of request size, errors and retries | `SinksAtLeastOnce`: what is committed is in the system of every sink, but for `dropped` and `overlooked`; in `EventuallyDone` that the commits come to the end, unless `Stuck` |
| `Streams` | nodes, dataframes, series, registry. Each call is an action that extends the graph; composing and executing it is an operator | `DataflowAsWritten`, `TopicsAligned` |
| `Topics` | per instance where its definition is and what it knows of the topics; the broker's topics, which others create and enlarge | `InternalTopicsFit` |

Abstractions. Exactly-once: one partition, one output per message; state and sinks
are those of `Checkpointing`. Sources and sinks: one partition, items
are their offsets, and the external system is nondeterministic: it carries out
a request, part of it or nothing, and answers or not. An answer without an error
means that the whole request was carried out, but for Kinesis, whose answer may
name records that it has refused (`RecordsRefused`). Streams: a value is
the sequence of functions that have made or changed it, so that sharing,
missing copies and repeated calls are visible; a filter passes all or nothing.
The 60 seconds that `set_as_running` gives the first assignment are two units of
time. A probe of the brokers is exact when it is made.

Bounds. One to three messages and two or three faults: as many as it takes to
have a committed prefix, a message in flight and one that is still unread,
and a second failure during the recovery from a first. Sinks have three messages
alone and two next to another sink; their request size is 1 or 2, so that batches
are written in part. Three to five calls build the graphs; each scenario of calls
has the operations that may interfere. Two instances set up topics with up to
three partitions.

Fairness. The loop of a live process takes its steps (each call has a
time-out), librdkafka delivers or reports an error, the broker aborts orphaned
transactions after their time-out (`AbortOrphan`), the source topic gets its
messages (`SourceGrows`), a supervisor starts a process again. Faults,
rebalances and backpressure have no fairness and are bounded. The graph and the
topics claim nothing that needs fairness. `CHECK_DEADLOCK` is off since inputs are
finite and applications end.

## Proofs

The theorems hold for any number of instances, topics, keys, messages, sources,
sinks and faults, from the assumptions on constants that the modules state:
`ConstantsAssumption` and `CompactedAssumption` (`Checkpointing`),
`ConstantsAssumption` (`ConsumerBuffer`), `DefinitionAssumption` (`Dataframes`),
`ScenarioAssumption` and `ScenariosAssumption` (`Scenario`, `Application`). They say
what the definitions that the code accepts look like, and TLC evaluates each of them in the
runs. A theorem with one more hypothesis names a hazard for which the code does not
keep the property, and the run or observation that shows it.

| Theorem | States | Hypothesis |
| --- | --- | --- |
| `InvHolds`, `TypeCorrect`, `AtLeastOnceHolds` | `Inv`, `TypeOK`, `AtLeastOnce` | |
| `OwnerInvHolds`, `StartsAtCommittedHolds`, `OffsetsIncreaseHolds` | `OwnerInv`, `StartsAtCommitted`, `OffsetsIncrease` | no eviction |
| `KeepsPromiseHolds` | `Checkpointing` implements `ProcessingGuarantee` | no eviction |
| `StoreHoldsCommittedOnlyHolds` | `StoreHoldsCommittedOnly` | no eviction |
| `ChangelogOffsetsValidHolds` | `ChangelogOffsetsValid` | no eviction, no deletion of the changelog |
| `ExactInvHolds`, `ConsistentStateHolds` | `ExactInv`, `ConsistentState` | no hazards |
| `SameOutputsHolds` | `SameOutputs` | no hazards, the messages of a key come from one topic |
| `BufferTyped`, `AppendValidHolds`, `PausesAgreeHolds`, `SkippedByBackpressureOnlyHolds` | `TypeOK`, `AppendValid`, `PausesAgree`, `SkippedByBackpressureOnly` | |
| `InOrderHolds` | `InOrder` | timestamps of a topic do not decrease |
| `StateIsMapHolds` | `StateTransaction` implements `StateMap` | no empty value in a store in memory |
| `CachedRowsFreshHolds` | `CachedRowsFresh` | |
| `JoinResultsHold`, `JoinStoresHold` | `JoinResults`; `JoinStoreReclaimed` and `OnlyOldRecordsExpire` | no key begins with another one (`Extends = {}`) |
| `ConfigurationsExactHold` | `ConfigurationsExact` | the service gives each version of a configuration its own number |
| `TimeClosesOnTimeHolds`, `TimeWindowsHold` | `TimeClosesOnTime`; `TimeResultsComplete`, `TimeNothingLost` and `TimeUpdatesExact` | a partition closes only windows that are aligned and have no grace (`AllAligned`) |
| `CountedOnceHolds` | `CountedOnce` | |
| `StoresReclaimedHolds` | `StoresReclaimed` | those of joins and of time windows |
| `CountWindowsHold` | `CountResultsExact` and `CountUpdatesExact` | windows that collect overlap or are tumbling (`AllCountsAligned`) |
| `TransactionsTyped`, `OutputsUniqueHolds` | `ExactlyOnceTypeOK` and `LibraryInv`, `OutputsUnique` | |
| `ReplicatedAtLeastOnceHolds`, `SourcesSupervisedHolds`, `FlushIsSafeHolds` | the property and the types of its variables | |
| `SinksAtLeastOnceHolds` | `SinksAtLeastOnce`, so nothing of the records in `dropped` and `overlooked`, and the types of its variables | |
| `EndsWhenDueHolds` | `EndsWhenDue` | |
| `ChangelogsFitHold` | `ChangelogsFit`, the part of `InternalTopicsFit` about partitions | |
| `InternalTopicsFitHolds` | `InternalTopicsFit` | internal topics are new to the cluster (`NewInternals`) |
| `TopicsAlignedHolds` | `TopicsAligned` | |
| `ApplicationTyped` | `TypeOK` of `Application` | |

### The processing loop

`AtLeastOnce` is not inductive. `CommitOffsets` keeps it only if the messages up
to the offsets it commits have been delivered and are in the sink, so `Inv` says
of each instance what its memory has covered: the messages before the position
(`PositionCovered`) and up to the offsets of the checkpoint (`OffsetsCovered`)
are delivered, or in the producer's queue, or behind an error that stops the
commit; and they are in the sink or in its batch. Backpressure drops the batch,
so the messages before the offsets it rewinds to must be in the sink already
(`StartCovered`), and those of the topics it does not rewind (`AbsentSunk`).
`CommitCovered` carries what each step of the commit established to the next.
`OffsetsCovered` is separate from `PositionCovered` because `_on_lost` keeps a
checkpoint that no position belongs to.

The other properties need one instance at a time, so that their invariants exclude
eviction. They are layers, each proved from those before it:

* `OwnerInv`: only the owner works on the partition, and its checkpoint spans the
  offsets from the committed ones to its position, topic by topic. So the rewind of
  backpressure is to the committed offsets, the check of `store_offset` never fires,
  and commits only move forward, which with `Inv` is the refinement.
* `BoundedInv`: no record of the changelog counts a message past both the offsets in its
  header and the committed ones, no store one past the committed offsets, and the owner
  reads none past its position.
* `OffsetInv`: changelog offsets of the producer and the stores are in order.
* `StateInv`: whatever a recovery finds is complete, or is completed by a later
  record it will apply; the records of a flush are the last of their keys and behind
  every store's offset, so that the commit makes them the completing ones.
  `ExactInv` is the conjunction of the four.
* `OutputInv`: an output has the state of its key right after its message, which is one
  value when the messages of the key come from one topic.

### The buffered consumer

`BufferInv` is an invariant of each topic: the buffer has the messages before
the consumer's position without a gap, so that the next message of a topic is known
(`NextOf`); committed offsets and those of the checkpoint are before it; the watermark of
an empty buffer is the one the consumer saw last; nothing is buffered under
backpressure. `InOrder` compares a message with all unread ones of other topics
and so needs sorted timestamps; without them the proof gives that it is not younger than
the next message of another topic (`OldestFirst`).

### State

The invariant behind `StateIsMapHolds` (`DataframeProofs!StateInv`): the partition is what
the records of the changelog up to its offset make of it (`StoreReplayed`), which holds for
every store that a restart may leave; a transaction is open only over a partition
that is up to date; the records behind the offset are exactly the changes of the
transaction that prepared them (`PreparedOK`), so that committing them commits what the
functions saw; and the counter is above every member of a collection, stored or cached
(`CounterAbove`), so that no member replaces another one. The map that is seen and the map
after recovery are compared item by item (`Replay`).

### Windows and joins

What a store of windows or of joins has, and what has been emitted, is related to the
messages that have come (`arrived`), so that each property is read off one state.

* Joins (`JoinInv`): the records of a store are those of messages, one for each slot; no
  message that is not behind the grace period is missing, and a record that is
  behind it goes with the next commit, unless it came too late. The minimal eligible
  timestamp is in the cache of the transaction or on the disk, and the invariant is about
  the two together. Expiration takes along the keys that begin with the expired one,
  as the findings say; hence `Extends = {}`.
* Time windows (`WindowInv`): a window has the messages of its key between its ends, and
  is in the store exactly as long as it ends, with the grace period, after the time of
  the key or partition (`Clock`); a message is late if that was so when it
  came; there is one result for each window that the time has passed. What the code
  deletes by the indexes that it caches is shown to be what the time has passed. That is
  false when the partition closes windows with a grace period (`window_reopened`) or
  whose duration is no multiple of the step, which `AllAligned` excludes.
* `CountedOnce` needs none of this: what is in a result is not in the store, with
  triggers as well (`OnceInv`).
* Count windows (`CountInv`): after `t` messages of a key the open windows are those that
  began after a multiple of the step and less than `count` before `t`. A value that is
  collected has an id that follows from its number, and the store has those that a window
  to come needs. `delete_from_collection()` goes from the last deleted id on, while ids
  start over when no window is open: hopping windows that collect and do not overlap
  get values of earlier ones, which `AllCountsAligned` excludes.

* Lookups in tables (`TableInv`): a use of the cache is a field of a message (`Uses`). An
  entry has what the last query for its key gave (`EntryQueried`), and the keys of all entries
  behind it have been used since its own was (`EntryUsed`), as each use puts its entry to
  the end. So when an entry is dropped from a full cache, as many other keys as the cache
  can hold have been used since (`Dropped`), which is what `QueriedOncePerTTL` asks for when its
  key is queried again. A message is enriched field by field, and the cache may drop what an
  earlier field of the same message has stored: the invariant holds after each field
  (`JoinedOK`), with a message that has results for the fields so far.
* Lookups of configurations (`ConfigInv`): an object of versions belongs to one configuration
  and has versions that the events put there (`OwnedBy`). What it has cached, the version before, the
  current and the next one, is what a search of all its versions finds for some timestamp
  (`IsFound`); for every other timestamp it answers what a search would
  (`CachedAnswers`), or the code searches again. An event that adds a version clears it, so
  that a message has a version that was announced and was valid at its timestamp
  (`MessageOK`), and the best one where no event comes amid a search and none deletes a
  version (`Steady`): a deleted version stays in the cache (`EventsTakeEffect` would exclude it). Defaults are
  cached only for a version that a message has tried to fetch within the longest delay
  (`ContentsOK`), so that it is due again after that. The definition of the lookup says that
  the service, which is external, gives each version of a configuration its own number: an
  event that changes `valid_from` of a version already announced is not modelled.

### The application

* Exactly-once: the broker ends a transaction with whatever is in it, so the
  invariant says of each that may still be committed what that is. `LibraryInv` ties the
  step of the commit to the state of the client library, `PartitionInv` says that no two
  instances have offsets to commit, `OutputsInv` that a transaction and the queue
  have the outputs of the checkpoint, `StartInv` that the checkpoint starts at the
  committed offset. All but the first hold until a checkpoint outlives its assignment
  (`kept`), which is the condition in `OutputsUnique` as well.
* Replicator: an instance without an error may commit, or read past, only messages that
  are copied, skipped or in its queue (`Kept`).
* Source processes: a failure is known to the application before the process is gone
  (`FailuresKnown`), and a loop that has ended has stopped every process (`StoppedInv`).
* Source connectors: as long as a source has no error, each item it has read is delivered or
  queued (`ItemsOK`; of a chunk that is read again, each item before it); states go to
  the changelog one at a time, behind what has been read (`StatesOK`); what is
  confirmed or acknowledged is delivered (`FlushedOK`).
* Sinks: each record given to a sink is stored, skipped, overlooked (by KinesisSink
  only), or held: in its batch, in a request without an answer, or lost with a request
  that the sink remembers as failed.
  A flush returns only from a sink that holds nothing; all else goes back to
  the committed offset. Files that are replaced are named after that offset.
* The end: a timeout never counts from before the last message (`TrackerInv`), and a client
  that does not probe again has probed in vain, while the brokers were out of reach
  (`BrokerInv`).
* Topics (`TopicsInv`): an instance knows the topics of the calls before the one it is at,
  and asks for a changelog only when their partitions agree; a changelog at the broker
  keeps its partitions. Retentions need more: there is one assignment of retentions to
  topics (`Assigned`), the same for all instances, that the broker and everything an
  instance knows agree with. A changelog that somebody else has made before with a
  shorter retention is used as it is, so that `InternalTopicsFit` needs
  `NewInternals`, and `ChangelogsFit` does not.
* Graphs (`StreamsInv`): there is a map from nodes to the topics that reach them, which each
  dataframe has recorded for its node (`Tracked`); each call extends the map by the
  nodes it adds. It is the only one that the graph allows, because the nodes a node
  goes on from are older (a least counterexample), so that it is the recursive function
  of the property.
* Types: the counter of a `RunTracker` is bounded by the messages that are left
  (`TypeOK` is not inductive without), a node of a graph names older parents and younger
  children (`Typed`), and the faults stay within their bound (`FaultsInv`).

### What is only model-checked

TLC checks `Inv` in `checkpoint_eviction` and `ExactInv` in `checkpoint_live`, so
the runs and the proofs are about the same formulas. Without a theorem are:

* liveness (`EventuallyCommitted`, `RecoveryEnds`, `StuckByHazardsOnly`,
  `EventuallyDone`): the prover has neither fairness nor `ENABLED`;
* `SlidingResultsComplete`, `SlidingUpdatesComplete` and `SlidingNothingLost`, the conjuncts
  of `WindowResultsComplete` and `NoMessageLost` about sliding windows (all others are
  proved): a message changes, creates and deletes windows to its left and its right by
  a walk through the store, which the model follows step by step. The invariant that says
  which windows there are between two messages has not been found;
* `AggregatesExact`: the fields of an aggregate are folded over the versions of `agg()`;
* `DataflowAsWritten`: the code composes functions recursively, from the leaves to the root,
  and the property compares that with the calls: an induction over two trees at once;
* `Dataframes!TypeOK`: within reach, see the plan.

Induction over data is out of reach in general, as the induction theorems of the library
take an operator as a parameter. Where the proofs argue about all numbers or all finite
sets they use a least or greatest element instead (`Least`, `Greatest`, `LeastOf`).

## Findings

* `lost_checkpoint`: after `_on_lost` the application keeps the checkpoint of
  the lost partition, its offsets and its transaction. When the partition comes
  back, its committed offsets are behind those of the checkpoint, and the check
  in `store_offset` that "shouldn't normally happen" fires.
* `compacted_changelog`: recovery skips the record of a key that is not
  committed, though compaction has removed the committed record before it.
* `buffer_loss`: backpressure clears the buffers of all partitions and seeks
  only those of which the checkpoint has processed a message.
* `buffer_stall`: a partition whose committed offset is the end of its log
  counts as active after a restart, and holds up its group.
* `window_reopened`: with closing by partition the end of the last expired window
  stands for the time of the partition; under a grace period windows that have
  been emitted accept messages again, which are never emitted.
* `series_shared`: two `apply()` calls on one series share its stream, and each of
  the two series, and the first one itself, evaluates to what the last one computes.

## Further observations

Met while reading the code for the models. Where a property is named, TLC shows it
violated when it takes the place of the weaker one that the runs check.

Processing and sinks:

* Under exactly-once a checkpoint given up on backpressure leaves its transaction
  open, and `begin_transaction` of the next one raises (`checkpoint.py:145`,
  `BackpressureContinues`), where `docs/connectors/sinks/custom-sinks.md` says that
  processing continues. A checkpoint that outlives `_on_lost` commits
  outputs twice (`OutputsAlwaysUnique`).
* Sources do not work under exactly-once: their producer is transactional and
  nobody begins a transaction (`app.py:773`, `internal_producer.py:55`).
* KinesisSink asks the futures of `put_records` for an exception and never for the
  result (`sinks/community/kinesis.py:146-150`). Kinesis answers without an error when
  it refuses some of the records (`FailedRecordCount`): these are lost, `flush()`
  returns and their offsets are committed (`SinksLoseNothing`, in `SinkConnectors`),
  where `docs/connectors/sinks/amazon-kinesis-sink.md:100` says "This ensures no
  messages are lost, but some might be delivered more than once".
* KinesisSink, PubSubSink and MQTTSink keep the futures of a failed flush and push
  back for ever; AzureFileSink uploads without overwriting, and a repeated batch
  fails (`Stuck`). The acknowledgement of an MQTT message may come before it
  is remembered, which raises KeyError on its thread (`mqtt.py:153`).
  PostgreSQLSink derives its columns from the first row of a batch.
* Batches of sinks survive `_on_lost` and are written by the next flush; sinks that
  flushed before another one pushed back write their data twice.

Sources:

* A stateful source's changelog may be delivered while its messages are lost; a new
  process skips them (`sources/base/source.py:526`, `SourceAtLeastOnce`), where
  `docs/connectors/sources/amazon-kinesis-source.md` promises at-least-once.
* PubSubSource acknowledges messages that arrive between flush and acknowledgement
  (`pubsub/consumer.py:167`). FileSource and InfluxDB3Source ignore that a flush has
  timed out.
* The replicator with `auto_offset_reset="latest"` skips what arrives
  before its first commit if it restarts; its commits are not fenced.
* `Source.stop()` before the process has started is lost, and the source is killed.
  Running an application with sources twice raises ValueError. An exception too large
  for the pipe blocks the process.
* `RunTracker` does not clamp a negative count when a timeout is given; an empty list
  of rows leaves the count as it is.

Dataframes:

* A failed `diff()` or `compose()` leaves the stream pruned (`stream.py:362`);
  `group_by()` changes the dataframe before the registry refuses it
  (`dataframe.py:612`); nodes that are added later below a cut stream never run.
* `ensure_milliseconds` truncates a float product: `timedelta(milliseconds=1001)` is
  1000 (`dataframe/utils.py:19`).
* `current()` with a trigger: the result of the triggered window is not emitted
  (`windows/base.py:188`; `docs/windowing.md:608` says it is). The store's name of a
  count window has neither its count nor its step. `Reduce` with a reducer that
  returns None starts over.
* A version of `agg()` with a new collected column raises KeyError on open
  windows (`base.py:391`), one that adds aggregators to collectors only, TypeError
  (`base.py:370`).
* In the store of a join, expiration for one key takes along keys that begin with it
  (`timestamped.py:206`); the minimum eligible timestamp is written to
  one column family and read from another (`timestamped.py:237`).
* `MemoryStorePartition` takes an empty bytes value for a deletion at recovery, and
  raises KeyError when it flushes a deletion in a column family it has never written.
* An update of a configuration during a lookup may stay unused until the next one, or
  raise because `self.version` is None (`models.py:293`, `models.py:302`). A version that
  is deleted is still found while its configuration has it cached (`lookup.py:295`), though
  the lookup "Handles configuration creation, update, and deletion events"
  (`EventsTakeEffect`, in `ConfigurationLookup`).

Topics: partitions that are added while an instance runs are not noticed
(`models/topics/manager.py:277`), and the partitions of a repartition topic are
never compared with those of its source.

## Not modelled

* Serializers, message contexts and rows: conversions of single values.
* The Quix platform: HTTP calls and the configuration of a hosted service.
* User-defined aggregators and collectors, printing, the environment and the
  merging of configurations.
* Schemas, formats and authentication of connectors, listing of files, several
  shards; ListSink, which is for tests.
* MQTTSink with QoS 0: nothing is awaited (`sinks/community/mqtt.py:154`), and
  `docs/connectors/sinks/mqtt-sink.md` promises "At most once" only.
* The retry of `BufferError` in `produce()`: its callbacks run inside `produce()`,
  on the thread that raises their error, so that its steps are those of a
  delivery before the call.
* A partition of a buffer group being revoked alone; a buffer that is full while
  its group waits for another one grows past its limit, because an idle partition
  is not paused (`internal_consumer/buffering.py:265`): the models bound the number
  of messages, not the memory.
* Stores without a changelog, several stores of one assignment, retention of a
  changelog, the retries of a locked store, the overflow of 64-bit counters.
