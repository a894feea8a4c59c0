------------------------------ MODULE Dataframes ------------------------------
(***************************************************************************)
(* The stateful operations of a dataframe: windows, joins and lookups.  A  *)
(* behaviour is about one definition, whose messages come in any order of  *)
(* keys and timestamps.                                                    *)
(***************************************************************************)
EXTENDS WindowedDataframe, Aggregations, Joins, TableLookups, ConfigurationLookup,
        StateTransaction

CONSTANTS
    Definitions,   \* the definitions to choose from
    Stamps(_),     \* definition -> the timestamps of its messages
    Keys(_),       \* definition -> the keys of its messages
    MaxArrived(_), \* definition -> bound on the number of messages
    MaxTime        \* bound on the time in lookups

Windowed == definition.kind \in {"time", "sliding", "count"}
Joined == definition.kind \in {"asof", "interval"}

ASSUME DefinitionAssumption ==
    \A d \in Definitions :
        /\ \/ d.kind \in {"time", "sliding", "count"} /\ WindowDefinition(d, Stamps(d))
           \/ AggregatesDefinition(d) \/ StateDefinition(d)
           \/ d.kind \in {"asof", "interval"} /\ JoinDefinition(d)
           \/ TableDefinition(d)
           \/ d.kind = "configuration" /\ ConfigurationDefinition(d)
        /\ Keys(d) \subseteq Key /\ Stamps(d) \subseteq Nat /\ MaxArrived(d) \in Nat

dataframeVars ==
    <<definition, arrived, windowVars, aggregationVars, joinVars, lookupVars, configVars,
      stateVars>>

Init ==
    /\ definition \in Definitions
    /\ arrived = <<>>
    /\ WindowInit
    /\ AggregationInit
    /\ JoinInit
    /\ tables = <<[r \in Row |-> 0]>> /\ cache = <<>>
    /\ ConfigurationInit
    /\ StateInit

More == Len(arrived) < MaxArrived(definition)

WindowNext ==
    /\ More /\ Windowed
    /\ \E key \in Keys(definition), stamp \in Stamps(definition) : ProcessWindow(key, stamp)
    /\ UNCHANGED <<aggregationVars, joinVars, lookupVars, configVars, stateVars>>

AggregationNext ==
    /\ Aggregating
    /\ \/ /\ More
          /\ \E key \in Keys(definition), stamp \in Stamps(definition), value \in definition.values :
                ProcessAggregate(key, stamp, value)
       \/ \E i \in DOMAIN definition.deployments : Redeploy(i)
    /\ UNCHANGED <<windowVars, joinVars, lookupVars, configVars, stateVars>>

JoinNext ==
    /\ Joined
    /\ \/ /\ More
          /\ \E side \in Side, key \in Keys(definition), stamp \in Stamps(definition) :
             \E truthy \in IF side = "right" THEN definition.truthy ELSE {TRUE} :
                ProcessJoin(side, key, stamp, truthy)
       \/ CommitJoin
    /\ UNCHANGED <<windowVars, aggregationVars, lookupVars, configVars, stateVars>>

\* Some field of the lookup is a query, or returns rows.
Asks(what) == \E i \in DOMAIN definition.fields : definition.fields[i][what]

TableNext ==
    /\ TableLookup
    /\ \/ /\ More
          /\ \E on \in Row :
             \E row \in IF Asks("query") THEN Row ELSE {on} :
             \E mutates \in IF Asks("rows") THEN BOOLEAN ELSE {FALSE} :
                JoinTable(on, row, mutates)
       \/ Now < MaxTime /\ TableChanges
    /\ UNCHANGED <<windowVars, aggregationVars, joinVars, configVars, stateVars>>

ConfigNext ==
    /\ Configured
    /\ \/ /\ More
          /\ \E key \in Keys(definition), stamp \in Stamps(definition) :
                FindConfiguration(key, stamp)
       \/ clock < MaxTime /\ ClockTicks
       \/ ConfigurationNext
    /\ UNCHANGED <<windowVars, aggregationVars, joinVars, lookupVars, stateVars>>

\* A function with state; ranges of ids go from one of the definition to a later one.
StateNext ==
    /\ Stating
    /\ \/ /\ More
          /\ \E key \in Keys(definition) :
                \/ definition.ids = {} /\ GetState(key, 0)
                \/ definition.ids = {} /\ DeleteState(key, 0)
                \/ \E value \in definition.values : definition.ids = {} /\ SetState(key, 0, value)
                \/ \E value \in definition.values, id \in definition.ids : AddCollected(key, id, value)
                \/ \E from, to \in definition.ids :
                      from < to /\ (ReadCollected(key, from, to) \/ RemoveCollected(key, from, to))
       \/ BeginState \/ SetStateFails \/ PrepareState \/ CommitState \/ FlushState
       \/ GiveUpState \/ RestartState \/ RecoverRecord
    /\ UNCHANGED <<definition, windowVars, aggregationVars, joinVars, lookupVars, configVars>>

Next == StateNext \/ WindowNext \/ AggregationNext \/ JoinNext \/ TableNext \/ ConfigNext

Spec == Init /\ [][Next]_dataframeVars

TypeOK ==
    /\ Windowed => WindowTypeOK
    /\ Joined => JoinTypeOK
    /\ TableLookup => Len(cache) <= definition.cacheSize
    /\ Stating => StateTypeOK
    /\ Configured => Len(contents) <= definition.cacheSize

\* Messages are enriched with the versions that are valid for them, with their contents
\* as soon as these can be had.
ConfigurationsExact == VersionsExact /\ FailuresRetried

\* What windows and joins leave behind in their stores came too late to be reclaimed.
StoresReclaimed == ValuesReclaimed /\ JoinStoreReclaimed

=============================================================================
