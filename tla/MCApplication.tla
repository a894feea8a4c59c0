---------------------------- MODULE MCApplication ----------------------------
(***************************************************************************)
(* Instances of Application for TLC.                                       *)
(***************************************************************************)
EXTENDS Application

ExactlyOnceScenario(backpressure, eviction, lost, suppress, size, bound) ==
    [kind |-> "exactly_once", backpressure |-> backpressure, eviction |-> eviction,
     lost |-> lost, suppress |-> suppress, messages |-> size, faults |-> bound]

ReplicatorScenario(reset, exactlyOnce) ==
    [kind |-> "replicator", reset |-> reset, exactlyOnce |-> exactlyOnce,
     messages |-> 2, faults |-> 2]

ProcessScenario(dataframe, finite, stateful) ==
    [kind |-> "processes", dataframe |-> dataframe, finite |-> finite,
     stateful |-> stateful, messages |-> 0, faults |-> 2]

ConnectorScenario(connector) ==
    [kind |-> "connector", source |-> connector.source, concurrent |-> connector.concurrent,
     messages |-> IF connector.concurrent THEN 2 ELSE 3, faults |-> 2]

TrackerScenario(timeout, count) ==
    [kind |-> "tracker", timeout |-> timeout, count |-> count, time |-> 9,
     messages |-> 3, faults |-> 2]

BrokerScenario(timeout, probe) ==
    [kind |-> "broker", timeout |-> timeout, probe |-> probe, time |-> 7,
     messages |-> 0, faults |-> 3]

SinkScenario(sinks) ==
    [kind |-> "sink", sinks |-> sinks, messages |-> IF Len(sinks) = 2 THEN 2 ELSE 3,
     faults |-> 3]

\* Each sink on its own, and some next to another one.
SinkLists ==
    {<<s>> : s \in {InfluxDB3Sink, InfluxDB1Sink, TDengineSink, ElasticsearchSink(TRUE),
                    ElasticsearchSink(FALSE), PostgreSQLSink, BigQuerySink, IcebergSink,
                    RedisSink, MongoDBSink, Neo4jSink, QuixTSDataLakeSink, LocalFileSink(TRUE),
                    LocalFileSink(FALSE), S3FileSink, AzureFileSink, CSVSink,
                    KafkaReplicatorSink, KinesisSink, PubSubSink, MQTTSink}}
    \cup {<<InfluxDB3Sink, PubSubSink>>, <<KafkaReplicatorSink, MongoDBSink>>,
          <<S3FileSink, KinesisSink>>, <<MQTTSink, LocalFileSink(TRUE)>>}

GraphScenario(topics, partitions, bound, ops) ==
    [kind |-> "graph", topics |-> topics, partitions |-> partitions, calls |-> bound,
     ops |-> ops, messages |-> 0, faults |-> 0]

Config(partitions, retention) == [partitions |-> partitions, retention |-> retention]

Definition(op, name, topics, config) ==
    [op |-> op, name |-> name, topics |-> topics, config |-> config]

\* A join of two topics, and the same after a group_by().
Plan ==
    <<Definition("topic", "a", {}, Config(2, 5)), Definition("topic", "b", {}, Config(2, Infinite)),
      Definition("changelog", "c", {"a", "b"}, Config(1, 1)),
      Definition("repartition", "r", {"a", "b"}, Config(1, 1)),
      Definition("changelog", "d", {"r"}, Config(1, 1))>>

TopicsScenario(autoCreate, given, plan) ==
    [kind |-> "topics", autoCreate |-> autoCreate, given |-> given, plan |-> plan,
     messages |-> 0, faults |-> 3]

MCScenarios ==
    {ExactlyOnceScenario(FALSE, TRUE, FALSE, TRUE, 1, 3),
     ExactlyOnceScenario(FALSE, TRUE, FALSE, TRUE, 2, 2),
     ExactlyOnceScenario(TRUE, FALSE, FALSE, FALSE, 2, 2),
     ExactlyOnceScenario(FALSE, TRUE, TRUE, FALSE, 2, 2),
     ReplicatorScenario("earliest", FALSE), ReplicatorScenario("latest", FALSE),
     ReplicatorScenario("earliest", TRUE),
     ProcessScenario(TRUE, FALSE, TRUE), ProcessScenario(FALSE, TRUE, TRUE),
     TrackerScenario(2, 0), TrackerScenario(2, 3), TrackerScenario(0, 2),
     BrokerScenario(3, 2), BrokerScenario(1, 2),
     GraphScenario({"a", "b"}, 2, 3, {"apply", "update", "concat", "group_by"}),
     GraphScenario({"a"}, 1, 4, {"update", "concat", "filter", "group_by"}),
     GraphScenario({"a"}, 2, 5, {"apply", "assign", "select", "update"}),
     GraphScenario({"a"}, 2, 4, {"apply", "concat", "assign", "update"}),
     GraphScenario({"a"}, 2, 4, {"expand", "transform", "sink", "concat", "update", "apply"}),
     GraphScenario({"a"}, 2, 4, {"observe", "transform", "concat", "update", "apply"}),
     GraphScenario({"a", "b"}, 2, 4, {"column"}),
     TopicsScenario(TRUE, <<>>, Plan), TopicsScenario(FALSE, "a" :> Config(1, 5), <<Plan[1]>>),
     TopicsScenario(TRUE, "a" :> Config(1, 5) @@ "b" :> Config(1, 7), Plan)}
    \cup {ConnectorScenario(c) :
            c \in {CSVSource, PandasDataFrameSource, MQTTSource, FileSource, InfluxDB3Source,
                   KinesisSource, PubSubSource(FALSE), PubSubSource(TRUE)}}
    \cup {SinkScenario(sinks) : sinks \in SinkLists}

\* Series of one topic.
SeriesScenarios == {GraphScenario({"a"}, 2, 5, {"column", "apply"})}

=============================================================================
