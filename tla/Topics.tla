-------------------------------- MODULE Topics --------------------------------
(***************************************************************************)
(* How the instances of an application find and create their topics while  *)
(* they define it: at the same time, on one broker, whose topics get more  *)
(* partitions meanwhile.                                                   *)
(*                                                                         *)
(* scenario.plan is the definition, a sequence of [op, name, topics,       *)
(* config]: app.topic() with the configuration to create it with, a        *)
(* group_by() of the topics (repartition) and the registration of a store  *)
(* on them (changelog).  scenario.given are the topics that exist.         *)
(***************************************************************************)
EXTENDS Scenario

VARIABLES
    broker,  \* the topics of the broker: name -> [partitions, retention]
    setups   \* for each instance [pc, at, known, stores], see NewSetup

topicVars == <<broker, setups>>

Preparing == scenario.kind = "topics"

\* Bound on the partitions of a topic.
MaxPartitions == 3

\* retention.ms or retention.bytes of a topic that keeps everything.
Infinite == -1

TopicConfig == [partitions : 1..MaxPartitions, retention : {n \in Int : n >= Infinite}]

\* Each call defines a topic, and names topics that earlier calls have defined.
TopicsDefinition(s) ==
    /\ s.kind = "topics" /\ s.autoCreate \in BOOLEAN
    /\ s.given \in [DOMAIN s.given -> TopicConfig]
    /\ Len(s.plan) \in Nat \ {0} /\ DOMAIN s.plan = 1..Len(s.plan)
    /\ \A k \in DOMAIN s.plan :
          /\ s.plan[k].op \in {"topic", "repartition", "changelog"}
          /\ s.plan[k].config \in TopicConfig
          /\ s.plan[k].topics \subseteq {s.plan[j].name : j \in 1..k - 1}
          /\ s.plan[k].op # "topic" => s.plan[k].topics # {}
          /\ \A j \in DOMAIN s.plan : s.plan[j].name = s.plan[k].name => j = k

\* the call of the plan, what the topics so far are like, and the stores
NewSetup == [pc |-> "define", at |-> 1, known |-> <<>>, stores |-> {}]

Step(i) == scenario.plan[setups[i].at]

Known(i, names) == {setups[i].known[t] : t \in names}

-----------------------------------------------------------------------------
(* Configuration of the topics *)

MaxRetentionPlain(retentions) == Max(retentions)

MaxRetention(retentions) == IF Infinite \in retentions THEN Infinite ELSE Max(retentions)

\* derive_topic_config(): the most partitions and the longest retention.
DerivedConfig(configs) ==
    [partitions |-> Max({c.partitions : c \in configs}),
     retention  |-> MaxRetention({c.retention : c \in configs})]

\* What the instance creates its next topic with.
CreateConfig(i) ==
    IF Step(i).op = "topic" THEN Step(i).config ELSE DerivedConfig(Known(i, Step(i).topics))

Copartitioned(configs) == Cardinality({c.partitions : c \in configs}) = 1

\* group_by() of one partition needs no topic.
NeedsNoTopic(i) == Step(i).op = "repartition" /\ CreateConfig(i).partitions = 1

FitsAny(i, config) == TRUE

\* changelog_topic(): a changelog with another number of partitions is refused.
Fits(i, config) == Step(i).op = "changelog" => config.partitions = CreateConfig(i).partitions

-----------------------------------------------------------------------------
(* Steps of an instance *)

Goes(i, pc) == setups' = [setups EXCEPT ![i].pc = pc]

WithTopic(topics, name, config) ==
    [t \in DOMAIN topics \cup {name} |-> IF t = name THEN config ELSE topics[t]]

\* The topic is configured: the instance takes the next call.
Configured(i, config) ==
    setups' = [setups EXCEPT
        ![i].pc = IF setups[i].at = Len(scenario.plan) THEN "runs" ELSE "define",
        ![i].at = @ + 1,
        ![i].known = WithTopic(@, Step(i).name, config),
        ![i].stores = @ \cup (IF Step(i).op = "changelog"
                             THEN {[topics |-> Step(i).topics, changelog |-> Step(i).name]} ELSE {})]

Found(i) == LET config == broker[Step(i).name]
            IN  IF Fits(i, config) THEN Configured(i, config) ELSE Goes(i, "failed")

\* The call, as far as the first look at the broker.
Define(i) ==
    /\ setups[i].pc = "define"
    /\ IF Step(i).op = "changelog" /\ ~Copartitioned(Known(i, Step(i).topics)) THEN Goes(i, "failed")
       ELSE IF NeedsNoTopic(i) THEN Configured(i, CreateConfig(i))
       ELSE IF Step(i).name \in DOMAIN broker THEN Found(i)
       ELSE Goes(i, IF scenario.autoCreate THEN "create" ELSE "failed")
    /\ UNCHANGED <<broker, faults>>

\* create_topics() looks again, and asks for the topic if it is still not there.
Create(i) ==
    /\ setups[i].pc = "create"
    /\ Goes(i, IF Step(i).name \in DOMAIN broker THEN "fetch" ELSE "asked")
    /\ UNCHANGED <<broker, faults>>

Created(i) == broker' = WithTopic(broker, Step(i).name, CreateConfig(i))

\* The answer: the topic is created, or another instance has created it.
Answered(i) ==
    /\ setups[i].pc = "asked"
    /\ IF Step(i).name \in DOMAIN broker THEN UNCHANGED broker ELSE Created(i)
    /\ Goes(i, "fetch")
    /\ UNCHANGED faults

\* The broker refuses, or the answer is not there in time and the topic may be.
Refused(i) ==
    /\ setups[i].pc = "asked"
    /\ Fault
    /\ UNCHANGED broker \/ (Step(i).name \notin DOMAIN broker /\ Created(i))
    /\ Goes(i, "failed")

\* The second look at the broker.
Fetch(i) ==
    /\ setups[i].pc = "fetch"
    /\ \/ Found(i) /\ UNCHANGED faults
       \/ Fault /\ Goes(i, "failed")  \* its metadata does not have the topic yet
    /\ UNCHANGED broker

Restart(i) ==
    /\ setups[i].pc = "failed"
    /\ Fault
    /\ setups' = [setups EXCEPT ![i] = NewSetup]
    /\ UNCHANGED broker

\* Somebody adds a partition to a topic that the application reads.
AddPartition(t) ==
    /\ Fault
    /\ broker[t].partitions < MaxPartitions
    /\ broker' = [broker EXCEPT ![t].partitions = @ + 1]
    /\ UNCHANGED setups

Regular == {scenario.plan[k].name : k \in {j \in DOMAIN scenario.plan : scenario.plan[j].op = "topic"}}

-----------------------------------------------------------------------------
TopicsInit ==
    /\ broker = IF Preparing THEN scenario.given ELSE <<>>
    /\ setups = [i \in Instance |-> NewSetup]

TopicsNext ==
    \/ \E i \in Instance : Define(i) \/ Create(i) \/ Answered(i) \/ Refused(i) \/ Fetch(i) \/ Restart(i)
    \/ \E t \in Regular \cap DOMAIN broker : AddPartition(t)

-----------------------------------------------------------------------------
(* Properties *)

TopicsTypeOK ==
    /\ \A t \in DOMAIN broker : broker[t].partitions \in 1..MaxPartitions /\ broker[t].retention >= Infinite
    /\ \A i \in Instance : setups[i].pc \in {"define", "create", "asked", "fetch", "failed", "runs"}

Keeps(config, source) ==
    config.retention = Infinite \/ source.retention \in 0..config.retention

\* A store of an instance that runs has a partition of its changelog for each partition
\* that the instance knows of its topics.
ChangelogsFit ==
    \A i \in Instance : setups[i].pc = "runs" =>
       \A store \in setups[i].stores : \A t \in store.topics :
          broker[store.changelog].partitions = setups[i].known[t].partitions

\* Internal topics keep records as long as the topics that they come from.
InternalsKeep ==
    \A k \in DOMAIN scenario.plan :
       LET step == scenario.plan[k]
       IN  step.op # "topic" /\ step.name \in DOMAIN broker =>
              \A t \in step.topics : t \in DOMAIN broker => Keeps(broker[step.name], broker[t])

\* Whatever the other instances create and whenever a topic grows, the changelogs of an
\* instance that runs have one partition for each partition that the instance knows of
\* each topic of the store; and no internal topic drops records earlier than a topic
\* that its records come from (TopicManager.changelog_topic, ensure_topics_copartitioned
\* and derive_topic_config, TopicAdmin.create_topics).
InternalTopicsFit == Preparing => ChangelogsFit /\ InternalsKeep

=============================================================================
