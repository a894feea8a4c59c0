----------------------------- MODULE MCDataframes -----------------------------
(***************************************************************************)
(* Instances of Dataframes for TLC.                                        *)
(***************************************************************************)
EXTENDS Dataframes

\* An aggregation and a collection, to compare what they have got of a window.
Both == Agg({AggregatorOf("a", "Sum", Whole)}, {CollectorOf("c", Whole)})

\* Versions of an application with one window, which the messages do not close.
Versions(windows, values) == [kind |-> "aggregates", deployments |-> windows, values |-> values]

\* A window of so many milliseconds with the operations.
Hour(operations) == Final(TumblingWindow("w", Ms(9), Ms(0), "none", operations), "key")

\* Two columns, each of which may be None.
MCRows == {[a |-> <<1>>, b |-> <<>>], [a |-> <<2>>, b |-> <<1>>], [a |-> <<>>, b |-> <<2>>]}

MCScalars == {[whole |-> <<1>>], [whole |-> <<2>>], [whole |-> <<>>]}

A(type) == AggregatorOf("a" \o type, type, "a")
B(type) == AggregatorOf("b" \o type, type, "b")
W(type) == AggregatorOf("w" \o type, type, Whole)

Field(name, ttl, query, rows) ==
    [name |-> name, ttl |-> ttl, query |-> query, rows |-> rows]

Table(cacheSize, fields) ==
    [kind |-> "table", cacheSize |-> cacheSize, fields |-> fields]

Event(config, event, version, from) ==
    [config |-> config, event |-> event, version |-> version, from |-> from]

Configuration(events, concurrent, cacheSize, failures) ==
    [kind |-> "configuration", events |-> events, concurrent |-> concurrent,
     cacheSize |-> cacheSize, failures |-> failures]

State(backend, values, ids) ==
    [kind |-> "state", backend |-> backend, values |-> values, ids |-> ids]

MCDefinitions ==
    {State("rocksdb", {EmptyBytes, 1}, {}), State("memory", {1}, {}),
     State("rocksdb", {1}, {1, 2}),
     Final(TumblingWindow("w", Ms(2), Delta(600), "none", Both), "key"),
     Final(HoppingWindow("w", Delta(3400), Ms(2), Ms(1), "none", Both), "key"),
     Final(TumblingWindow("w", Ms(2), Ms(0), "none", Both), "partition"),
     Final(HoppingWindow("w", Ms(2), Ms(1), Ms(0), "none", Both), "partition"),
     Final(HoppingWindow("w", Ms(2), Ms(1), Ms(1), "before", Aggregation("Count")), "key"),
     Final(TumblingWindow("w", Ms(2), Ms(1), "after", Both), "key"),
     Final(SlidingWindow("w", Ms(2), Ms(0), Both), "key"),
     Final(SlidingWindow("w", Ms(2), Ms(1), Both), "key"),
     Final(SlidingWindow("w", Ms(3), Delta(1000), CollectValues), "key"),
     Final(TumblingCountWindow("w", 2, Both), "key"),
     Final(SlidingCountWindow("w", 3, Both), "key"),
     Final(HoppingCountWindow("w", 3, 2, CollectValues), "key"),
     Current(HoppingWindow("w", Ms(3), Ms(2), Ms(1), "none", Aggregation("Sum")), "key"),
     Current(TumblingWindow("w", Ms(2), Ms(0), "none", Aggregation("Max")), "partition"),
     Current(SlidingWindow("w", Ms(2), Ms(1), Aggregation("Reduce")), "key"),
     Current(HoppingCountWindow("w", 3, 2, Aggregation("Mean")), "key"),
     Versions(<<Hour(Agg({A("Sum"), A("Latest"), B("First"), W("Reduce")}, {})),
                Hour(Agg({A("Sum"), B("Earliest"), B("Count")}, {CollectorOf("ca", "a")})),
                Hour(Agg({}, {CollectorOf("ca", "a"), CollectorOf("all", Whole)}))>>, MCRows),
     Versions(<<Hour(Agg({A("Mean"), B("Max"), A("Min"), B("Last")}, {})),
                Hour(Agg({A("Mean"), B("Latest")}, {CollectorOf("cb", "b"), CollectorOf("ca", "a")})),
                Hour(Agg({B("Last")}, {CollectorOf("cb", "b")}))>>, MCRows),
     Versions(<<Hour(Aggregation("Sum")), Hour(Aggregation("Mean")), Hour(CollectValues)>>, MCScalars),
     JoinAsOf("inner", Delta(1400), {TRUE}), JoinAsOf("left", Ms(2), {TRUE, FALSE}),
     JoinInterval("outer", Ms(1), Ms(1), Ms(1)), JoinInterval("inner", Ms(2), Ms(1), Ms(2)),
     JoinInterval("left", Ms(0), Ms(0), Ms(2)),
     Table(2, <<Field("a", 2, FALSE, FALSE), Field("b", 1, FALSE, TRUE)>>),
     Table(1, <<Field("a", 0, FALSE, FALSE), Field("b", 2, TRUE, FALSE)>>),
     Table(2, <<Field("a", 2, FALSE, FALSE)>>),
     Configuration(<<Event("k1", "created", 1, 0), Event("k1", "updated", 2, 2),
                     Event("*", "created", 1, 1), Event("k1", "updated", 3, 1)>>,
                   FALSE, 2, 0),
     Configuration(<<Event("k1", "created", 1, 1), Event("k1", "updated", 3, 3),
                     Event("k1", "updated", 2, 2)>>, FALSE, 1, 2),
     Configuration(<<Event("k1", "created", 1, 1), Event("k1", "updated", 2, 2),
                     Event("k1", "deleted", 1, 0), Event("k1", "deleted", 2, 0)>>,
                   TRUE, 2, 0)}

\* A grace period with windows that the time of the partition closes.
MCGraceDefinitions ==
    {Final(TumblingWindow("w", Ms(2), Ms(1), "none", Both), "partition")}

\* Updates while messages are looked up.
MCConcurrentDefinitions ==
    {Configuration(<<Event("k1", "created", 1, 1), Event("k1", "updated", 2, 2)>>,
                   TRUE, 2, 0)}

\* One message key is another one with a digit more.
MCExtends == {<<"k1", "k2">>}

MCExtendedDefinitions == {JoinAsOf("inner", Ms(1), {TRUE})}

MCStamps(d) ==
    CASE d.kind = "aggregates" -> 1..2
      [] d.kind = "time" -> 4..9
      [] d.kind = "sliding" -> 4..10
      [] d.kind = "count" -> 1..2
      [] OTHER -> 0..3

MCKeys(d) ==
    CASE d.kind = "count" -> {"k1", "k2"}
      [] d.kind = "state" -> IF d.ids = {} THEN {"k1", "k2"} ELSE {"k1"}
      [] d.kind = "configuration" -> IF d.failures = 0 THEN {"k1", "k2"} ELSE {"k1"}
      [] d.kind = "time"  -> IF d.closing = "partition" THEN {"k1", "k2"} ELSE {"k1"}
      [] d.kind = "asof" /\ Extends # {} -> {"k1", "k2"}
      [] OTHER            -> {"k1"}

MCMaxArrived(d) ==
    CASE d.kind = "aggregates" -> 3
      [] d.kind = "state" -> IF d.ids = {} THEN 3 ELSE 4
      [] d.kind = "count" -> 6
      [] d.kind = "sliding" -> 5
      [] d.kind = "asof" -> IF d.grace = 1 THEN 4 ELSE 3
      [] d.kind = "interval" -> 4
      [] d.kind = "table" -> IF Len(d.fields) = 2 THEN 3 ELSE 5
      [] d.kind = "configuration" -> IF d.concurrent THEN 2 ELSE 3
      [] OTHER -> IF d.closing = "partition" \/ d.trigger # "none" THEN 4 ELSE 5

=============================================================================
