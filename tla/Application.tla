----------------------------- MODULE Application -----------------------------
(***************************************************************************)
(* The processes around the dataframe, as one specification: a behaviour   *)
(* is about the part of the system that its scenario names, and the        *)
(* variables of the other parts keep their initial values.                 *)
(***************************************************************************)
EXTENDS ExactlyOnce, Replicator, SourceProcesses, SourceConnectors, RunTracker,
        BrokerAvailability, SinkConnectors, Streams, Topics

CONSTANT Scenarios  \* the scenarios to choose from

ASSUME ScenariosAssumption ==
    \A s \in Scenarios :
        /\ {s.messages, s.faults} \subseteq Nat
        /\ \/ ExactlyOnceDefinition(s) \/ ReplicatorDefinition(s) \/ ProcessDefinition(s)
           \/ ConnectorDefinition(s) \/ TrackerDefinition(s) \/ BrokerDefinition(s)
           \/ SinkDefinition(s) \/ GraphDefinition(s) \/ TopicsDefinition(s)

applicationVars ==
    <<scenario, faults, eoVars, replicatorVars, sourceVars, connectorVars, trackerVars,
      brokerVars, sinkVars, streamVars, topicVars>>

BesidesExactlyOnce ==
    <<scenario, replicatorVars, sourceVars, connectorVars, trackerVars,
      brokerVars, sinkVars, streamVars, topicVars>>

BesidesReplicator ==
    <<scenario, eoVars, sourceVars, connectorVars, trackerVars,
      brokerVars, sinkVars, streamVars, topicVars>>

BesidesProcesses ==
    <<scenario, eoVars, replicatorVars, connectorVars, trackerVars,
      brokerVars, sinkVars, streamVars, topicVars>>

BesidesConnector ==
    <<scenario, eoVars, replicatorVars, sourceVars, trackerVars,
      brokerVars, sinkVars, streamVars, topicVars>>

BesidesTracker ==
    <<scenario, eoVars, replicatorVars, sourceVars, connectorVars,
      brokerVars, sinkVars, streamVars, topicVars>>

BesidesBroker ==
    <<scenario, eoVars, replicatorVars, sourceVars, connectorVars,
      trackerVars, sinkVars, streamVars, topicVars>>

BesidesSink ==
    <<scenario, eoVars, replicatorVars, sourceVars, connectorVars,
      trackerVars, brokerVars, streamVars, topicVars>>

BesidesGraph ==
    <<scenario, eoVars, replicatorVars, sourceVars, connectorVars,
      trackerVars, brokerVars, sinkVars, topicVars>>

BesidesTopics ==
    <<scenario, eoVars, replicatorVars, sourceVars, connectorVars,
      trackerVars, brokerVars, sinkVars, streamVars>>

Init ==
    /\ scenario \in Scenarios /\ faults = 0
    /\ ExactlyOnceInit /\ ReplicatorInit /\ SourcesInit /\ ConnectorInit /\ TrackerInit
    /\ BrokerInit /\ SinkInit /\ StreamsInit /\ TopicsInit

Next ==
    \/ Transactional /\ ExactlyOnceNext /\ UNCHANGED BesidesExactlyOnce
    \/ Replicating /\ ReplicatorNext /\ UNCHANGED BesidesReplicator
    \/ Supervising /\ SourcesNext /\ UNCHANGED BesidesProcesses
    \/ Connecting /\ ConnectorNext /\ UNCHANGED BesidesConnector
    \/ Tracking /\ TrackerNext /\ UNCHANGED BesidesTracker
    \/ Probing /\ BrokerNext /\ UNCHANGED BesidesBroker
    \/ Sinking /\ SinkNext /\ UNCHANGED BesidesSink
    \/ Defining /\ StreamsNext /\ UNCHANGED BesidesGraph
    \/ Preparing /\ TopicsNext /\ UNCHANGED BesidesTopics

\* What goes on by itself, in a process that is alive: its loop, its threads, and what
\* librdkafka and the broker answer to it.
Fairness ==
    /\ \A i \in Instance :
          /\ WF_applicationVars(Transactional /\ InstanceStep(i) /\ UNCHANGED BesidesExactlyOnce)
          /\ WF_applicationVars(Replicating /\ ReplicaStep(i) /\ UNCHANGED BesidesReplicator)
    /\ WF_applicationVars(Transactional /\ AbortOrphan /\ UNCHANGED BesidesExactlyOnce)
    /\ WF_applicationVars(Replicating /\ SourceGrows /\ UNCHANGED BesidesReplicator)
    /\ WF_applicationVars(Supervising /\ ProcessStep /\ UNCHANGED BesidesProcesses)
    /\ WF_applicationVars(Sinking /\ WriterStep /\ UNCHANGED BesidesSink)

Spec == Init /\ [][Next]_applicationVars

FairSpec == Spec /\ Fairness

TypeOK ==
    /\ scenario \in Scenarios /\ faults \in 0..scenario.faults
    /\ Transactional => ExactlyOnceTypeOK /\ LibraryInv
    /\ Replicating => ReplicatorTypeOK
    /\ Supervising => SourcesTypeOK
    /\ Connecting => ConnectorTypeOK
    /\ Tracking => TrackerTypeOK
    /\ Probing => BrokerTypeOK
    /\ Sinking => SinkTypeOK
    /\ Defining => StreamsTypeOK
    /\ Preparing => TopicsTypeOK

-----------------------------------------------------------------------------
\* The application ends when its limits are reached, no later, and not before: those on
\* its messages and its idle time, and that on the time without a broker.
EndsWhenDue == StopsWhenDue /\ GivesUpWhenUnreachable

\* The functions of the dataframes work on the values that the program names.
DataflowAsWritten == CalledAsMeant /\ DiffReadsWhatWasAsked

\* Everything is committed under exactly-once, unless a sink has pushed back.
TransactionsProgress == Transactional /\ ~scenario.backpressure => <>(committed = MaxOffset)

\* Whatever the faults have been, what was begun comes to its end: transactions, copies,
\* flushes of sinks, and the stop of an application with its sources.
EventuallyDone == TransactionsProgress /\ ReplicatedAll /\ StopsSources /\ SinksRecover

=============================================================================
