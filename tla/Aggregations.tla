----------------------------- MODULE Aggregations ------------------------------
(***************************************************************************)
(* What the windows compute: the aggregators and collectors of agg(), and  *)
(* the state that they keep for an open window of a key, from one version  *)
(* of the application to the next.                                         *)
(*                                                                         *)
(* A value that may be None is a sequence of one element or of none.  A    *)
(* message is a record of columns, or has the one column Whole.  A message *)
(* has all columns, which may be None: a collector raises for one that is  *)
(* missing.                                                                *)
(***************************************************************************)
EXTENDS WindowDefinitions, SequencesExt

VARIABLES
    deployed,          \* the version of the application that runs
    aggregateStates    \* store -> the state of the window in it

aggregationVars == <<deployed, aggregateStates>>

\* The versions of the window, in the same dataframe, and the messages that come.
AggregatesDefinition(d) ==
    /\ d.kind = "aggregates"
    /\ \A i \in DOMAIN d.deployments : TimeDefinition(d.deployments[i]) /\ WindowComputes(d.deployments[i])

Aggregating == definition.kind = "aggregates"

Version == definition.deployments[deployed]

\* The column of a message, or the message.
Read(value, column) == IF column \in DOMAIN value THEN value[column] ELSE <<value>>

-----------------------------------------------------------------------------
(* agg() of the aggregators: the state, the value or none, and its timestamp *)

CountOf(old, new) == IF new = <<>> THEN old ELSE <<old[1] + 1>>

SumOf(old, new) == IF new = <<>> THEN old ELSE <<old[1] + new[1]>>

MeanOf(old, new) == IF new = <<>> THEN old ELSE <<old[1] + new[1], old[2] + 1>>

MaxOf(old, new) == IF old = <<>> \/ new = <<>> THEN old \o new ELSE <<Max({old[1], new[1]})>>

MinOf(old, new) == IF old = <<>> \/ new = <<>> THEN old \o new ELSE <<Min({old[1], new[1]})>>

EarliestOf(old, new, stamp) ==
    IF new # <<>> /\ (old = <<>> \/ stamp < old[2]) THEN <<new[1], stamp>> ELSE old

\* Mutant: of two messages of one timestamp the first is the latest.
LatestOfFirst(old, new, stamp) ==
    IF new # <<>> /\ (old = <<>> \/ stamp > old[2]) THEN <<new[1], stamp>> ELSE old

LatestOf(old, new, stamp) ==
    IF new # <<>> /\ (old = <<>> \/ stamp >= old[2]) THEN <<new[1], stamp>> ELSE old

FirstOf(old, new) == IF old = <<>> THEN new ELSE old

LastOf(old, new) == IF new = <<>> THEN old ELSE new

\* A reducer that keeps all that it is given, None included.
ReduceOf(old, new) == IF old = <<>> THEN <<<<new>>>> ELSE <<Append(old[1], new)>>

\* initialize()
Initial(type) ==
    CASE type \in {"Count", "Sum"} -> <<0>>
      [] type = "Mean" -> <<0, 0>>
      [] OTHER -> <<>>

AggregateOne(type, old, new, stamp) ==
    CASE type = "Count"    -> CountOf(old, new)
      [] type = "Sum"      -> SumOf(old, new)
      [] type = "Mean"     -> MeanOf(old, new)
      [] type = "Max"      -> MaxOf(old, new)
      [] type = "Min"      -> MinOf(old, new)
      [] type = "Earliest" -> EarliestOf(old, new, stamp)
      [] type = "Latest"   -> LatestOf(old, new, stamp)
      [] type = "First"    -> FirstOf(old, new)
      [] type = "Last"     -> LastOf(old, new)
      [] type = "Reduce"   -> ReduceOf(old, new)

\* result(): a mean is the sum and the number of values.
ResultOf(type, aggregated) ==
    CASE type = "Mean" -> IF aggregated[2] = 0 THEN <<>> ELSE aggregated
      [] type \in {"Earliest", "Latest"} -> IF aggregated = <<>> THEN <<>> ELSE <<aggregated[1]>>
      [] OTHER -> aggregated

-----------------------------------------------------------------------------
(* The state of a window is [aggregated, items].  aggregated is None until a *)
(* message comes, and after a message of a version without aggregators; it   *)
(* has the states by the names of result, aggregator and column.             *)

NoWindow == [aggregated |-> <<>>, items |-> {}]

\* Mutant: the state of an aggregator stays while another version does without it.
AggregateValuesKept(window, state, value, stamp) ==
    LET old == IF state.aggregated = <<>> THEN <<>> ELSE state.aggregated[1]
    IN  [a \in window.aggregators |->
            AggregateOne(a.type, IF a \in DOMAIN old THEN old[a] ELSE Initial(a.type),
                         Read(value, a.column), stamp)] @@ old

\* _initialize_value() and _aggregate_value(): an aggregator that the state does not have
\* begins, and what it has of others is gone.
AggregateValues(window, state, value, stamp) ==
    LET old == IF state.aggregated = <<>> THEN <<>> ELSE state.aggregated[1]
    IN  [a \in window.aggregators |->
            AggregateOne(a.type, IF a \in DOMAIN old THEN old[a] ELSE Initial(a.type),
                         Read(value, a.column), stamp)]

Columns(window) == {c.column : c \in window.collectors}

\* _collect_value(): all of the message if some collector takes it
CollectValue(window, value) ==
    IF Whole \in Columns(window) THEN value ELSE Restrict(value, Columns(window))

\* process_window(), in an open window
UpdateState(window, state, value, stamp) ==
    [aggregated |-> IF window.aggregate THEN <<AggregateValues(window, state, value, stamp)>> ELSE <<>>,
     items |-> IF window.collect
               THEN state.items \cup {[id |-> stamp, counter |-> Incoming, value |-> CollectValue(window, value)]}
               ELSE state.items]

\* get_from_collection()
CollectedItems(state) ==
    SetToSortSeq(state.items, LAMBDA i, j : i.id < j.id \/ (i.id = j.id /\ i.counter < j.counter))

\* _build_results() and _collected_by_columns() raise: the version before has not
\* aggregated, or has not collected the column.
ResultsRaise(window, state) ==
    \/ window.aggregators # {} /\ state.aggregated = <<>>
    \/ \E item \in state.items : Columns(window) \ (DOMAIN item.value \cup {Whole}) # {}

AggregatorResult(state, a) ==
    ResultOf(a.type, IF a \in DOMAIN state.aggregated[1] THEN state.aggregated[1][a] ELSE Initial(a.type))

CollectorResult(state, c) ==
    LET items == CollectedItems(state)
    IN  [i \in DOMAIN items |-> Read(items[i].value, c.column)]

-----------------------------------------------------------------------------
ProcessAggregate(key, stamp, value) ==
    /\ Aggregating
    /\ aggregateStates' = [aggregateStates EXCEPT ![Version.store] = UpdateState(Version, @, value, stamp)]
    /\ Arrives([key |-> key, stamp |-> stamp, value |-> value, by |-> Version])
    /\ UNCHANGED <<definition, deployed>>

\* The application stops and another version of it starts, with the same stores.
Redeploy(i) ==
    /\ Aggregating /\ i # deployed
    /\ deployed' = i
    /\ UNCHANGED <<definition, arrived, aggregateStates>>

AggregationInit ==
    /\ deployed = 1
    /\ aggregateStates =
           IF Aggregating
           THEN [s \in {definition.deployments[i].store : i \in DOMAIN definition.deployments} |-> NoWindow]
           ELSE <<>>

-----------------------------------------------------------------------------
\* The messages of the window in the store of the version that runs.
StoreMessages == {n \in Message : arrived[n].by.store = Version.store}

\* The messages since the aggregator is there without interruption.
SinceAdded(a) ==
    {n \in StoreMessages : \A m \in StoreMessages : m >= n => a \in arrived[m].by.aggregators}

\* What an aggregator promises to make of the messages in run.
Promised(a, run) ==
    LET new(n) == Read(arrived[n].value, a.column)
        given  == {n \in run : new(n) # <<>>}
        total  == FoldSet(LAMBDA n, sum : sum + new(n)[1], 0, given)
        pick(Best(_, _)) == IF given = {} THEN <<>>
                            ELSE new(CHOOSE n \in given : \A m \in given \ {n} : Best(n, m))
        inOrder == SetToSortSeq(run, <)
    IN  CASE a.type = "Count"    -> <<Cardinality(given)>>
          [] a.type = "Sum"      -> <<total>>
          [] a.type = "Mean"     -> IF given = {} THEN <<>> ELSE <<total, Cardinality(given)>>
          [] a.type = "Max"      -> IF given = {} THEN <<>> ELSE <<Max({new(n)[1] : n \in given})>>
          [] a.type = "Min"      -> IF given = {} THEN <<>> ELSE <<Min({new(n)[1] : n \in given})>>
          [] a.type = "Earliest" -> pick(LAMBDA n, m : Stamp(n) < Stamp(m) \/ (Stamp(n) = Stamp(m) /\ n < m))
          [] a.type = "Latest"   -> pick(LAMBDA n, m : Stamp(n) > Stamp(m) \/ (Stamp(n) = Stamp(m) /\ n > m))
          [] a.type = "First"    -> pick(LAMBDA n, m : n < m)
          [] a.type = "Last"     -> pick(LAMBDA n, m : n > m)
          [] a.type = "Reduce"   -> IF run = {} THEN <<>> ELSE <<[i \in DOMAIN inOrder |-> new(inOrder[i])]>>

\* The result of a window that closes now has of each aggregator what it makes of the
\* messages since a version has it, and of each collector the messages since a version
\* collects, by time and arrival.  It raises exactly if the version that processed the
\* last message had no aggregator while this one has, or a version with collectors did
\* not take a column that this one does.
AggregatesExact ==
    Aggregating /\ StoreMessages # {} =>
        LET state     == aggregateStates[Version.store]
            collected == {n \in StoreMessages : arrived[n].by.collect}
            inOrder   == SetToSortSeq(collected, LAMBDA n, m :
                             Stamp(n) < Stamp(m) \/ (Stamp(n) = Stamp(m) /\ n < m))
            takes(n, column) == {Whole, column} \cap Columns(arrived[n].by) # {}
        IN  /\ ResultsRaise(Version, state) <=>
                  \/ Version.aggregate /\ ~arrived[Max(StoreMessages)].by.aggregate
                  \/ \E n \in collected, column \in Columns(Version) \ {Whole} : ~takes(n, column)
            /\ ResultsRaise(Version, state)
               \/ /\ \A a \in Version.aggregators :
                        AggregatorResult(state, a) = Promised(a, SinceAdded(a))
                  /\ \A c \in Version.collectors :
                        LET result == CollectorResult(state, c)
                        IN  /\ DOMAIN result = DOMAIN inOrder
                            /\ \A i \in DOMAIN result : takes(inOrder[i], c.column) =>
                                  result[i] = Read(arrived[inOrder[i]].value, c.column)

=============================================================================
