------------------------------- MODULE Streams --------------------------------
(***************************************************************************)
(* The calls that define the dataframes of an application, the graph of    *)
(* functions that they build, and what its executors do with a message.    *)
(*                                                                         *)
(* A node is a Stream; the nodes are numbered in the order in which they   *)
(* are made, so children come after parents.  What a value is to the       *)
(* properties is the sequence of the nodes that have made or changed it.   *)
(* A name (of a topic, a stream id) is a sequence of words, joined by      *)
(* "--" in the code.  A filter lets a message pass or not: both are tried. *)
(***************************************************************************)
EXTENDS Scenario

VARIABLES
    nodes,        \* the Stream objects, see Node
    dataframes,   \* the StreamingDataFrame objects, [node, topics, id]
    series,       \* the StreamingSeries objects, [node, owner]
    registry,     \* the roots of the registry, [topic, node]
    origins,      \* stream ids that group_by() has made
    aligned,      \* requires_time_alignment
    calls         \* calls so far

streamVars == <<nodes, dataframes, series, registry, origins, aligned, calls>>

Defining == scenario.kind = "graph"

GraphDefinition(s) ==
    /\ s.kind = "graph" /\ {s.partitions, s.calls} \subseteq Nat
    /\ IsFiniteSet(s.topics) /\ s.topics # {}

\* Functions that change their input in place or only look at it, and those that let it
\* pass or not.
InPlace == {"update", "assign", "observe"}
Filters == {"filter", "select", "drop"}

\* Functions that hand on the object that they are given.
SameObject == {"root", "merge", "transform"} \cup Filters

Kinds == {"root", "apply", "expand", "merge", "transform", "column", "operation"} \cup InPlace \cup Filters

\* from is what the call that made the node has named as its input, and void tells
\* that the call has failed; reads are the streams that its function evaluates,
\* see Composed.
Node(kind, parents, reads) ==
    [kind |-> kind, parents |-> parents, children |-> <<>>, pruned |-> FALSE,
     reads |-> reads, from |-> parents, void |-> FALSE]

ApplyNode(n, expand) == Node(IF expand THEN "expand" ELSE "apply", <<n>>, <<>>)

FilterNode(n, kind, reads) == Node(kind, <<n>>, reads)

UpdateNode(n, kind, reads) == Node(kind, <<n>>, reads)

\* A new value, key, timestamp and headers, of which the properties tell the value.
TransformNode(n) == Node("transform", <<n>>, <<>>)

MergeNode(n, m) == Node("merge", <<n, m>>, <<>>)

\* The graph g after _add(): a node with its parents.
WithNode(g, node) ==
    Append([n \in DOMAIN g |->
              IF n \in Range(node.parents) THEN [g[n] EXCEPT !.children = Append(@, Len(g) + 1)]
              ELSE g[n]], node)

-----------------------------------------------------------------------------
(* Names *)

Topic(name) == <<name>>

\* set of names: sorted and joined
StreamIdFrom(names) == FlattenSeq(SetToSeq(names))

RepartitionTopic(id, operation) == <<"repartition">> \o id \o <<operation>>

-----------------------------------------------------------------------------
(* The graph *)

\* Breadth first, from the node up to the roots.
RootPath(g, nodesToVisit) ==
    LET Path[todo \in Seq(DOMAIN g)] ==
            IF todo = <<>> THEN <<>>
            ELSE <<Head(todo)>> \o Path[Tail(todo) \o g[Head(todo)].parents]
    IN  Path[nodesToVisit]

Above(g, n) == Range(RootPath(g, <<n>>))

\* full_tree: everything that is connected to a node.
Connected(g, node) ==
    LET Near[known \in SUBSET DOMAIN g] ==
            LET more == UNION {Range(g[n].parents) \cup Range(g[n].children) : n \in known}
            IN  IF more \subseteq known THEN known ELSE Near[known \cup more]
    IN  Near[{node}]

\* The node whose result is the last one to arrive at the sink of the executor of n.
LastSunk(g, node) ==
    LET Sunk[n \in DOMAIN g] == IF g[n].children = <<>> THEN n ELSE Sunk[Last(g[n].children)]
    IN  Sunk[node]

\* compose_returning() gives the last value that arrives at the sink, when the stream
\* has one root and nothing but plain apply functions.
ComposesReturning(g, n) ==
    LET tree == Connected(g, n)
    IN  /\ \A m \in tree : g[m].kind \in {"root", "apply", "merge", "column", "operation"}
        /\ Cardinality({m \in tree : g[m].parents = <<>>}) = 1

RootOf(g, n) == CHOOSE m \in Connected(g, n) : g[m].parents = <<>>

Composed(g, n, diff) ==
    [asked |-> n, given |-> LastSunk(g, RootOf(g, n)), alone |-> g[n].children = <<>>, diff |-> diff]

\* Stream.diff(): the nodes of other up to self, other first.
DiffPath(g, self, other) ==
    LET path == RootPath(g, <<other>>)
    IN  SubSeq(path, 1, IF self \in Range(path)
                        THEN (CHOOSE i \in DOMAIN path : path[i] = self /\ \A j \in 1..i - 1 : path[j] # self) - 1
                        ELSE Len(path))

DiffAllowedBranched(g, self, other) ==
    LET path == DiffPath(g, self, other)
    IN  /\ \A i \in DOMAIN path : Len(g[path[i]].parents) <= 1
        /\ path # <<>>
        /\ ~g[Last(path)].pruned
        /\ self \in Above(g, other)

DiffAllowed(g, self, other) ==
    /\ DiffAllowedBranched(g, self, other)
    /\ LET path == DiffPath(g, self, other)
       IN  \A i \in DOMAIN path : Len(g[path[i]].children) <= 1

\* list.remove()
WithoutFirst(list, x) ==
    IF x \in Range(list) THEN RemoveAt(list, Min({i \in DOMAIN list : list[i] = x})) ELSE list

\* The graph after the head of the diff is cut off.
Pruned(g, self, head) ==
    [g EXCEPT ![head].pruned = TRUE, ![head].parents = <<>>,
              ![self].children = WithoutFirst(@, head)]

-----------------------------------------------------------------------------
(* Calls on a dataframe *)

Call == calls < scenario.calls /\ calls' = calls + 1

Allows(op) == op \in scenario.ops

AddDataframe(node, topics, id) ==
    dataframes' = Append(dataframes, [node |-> node, topics |-> topics, id |-> id])

\* _add_update(): the dataframe goes on from the new node.
AddUpdate(h, g, node) ==
    /\ nodes' = WithNode(g, node)
    /\ dataframes' = [dataframes EXCEPT ![h].node = Len(g) + 1]

\* __dataframe_clone__(stream=...): a new dataframe goes on from it.
AddClone(h, g, node) ==
    /\ nodes' = WithNode(g, node)
    /\ AddDataframe(Len(g) + 1, dataframes[h].topics, dataframes[h].id)

Apply(h, expand) ==
    /\ Call /\ Allows(IF expand THEN "expand" ELSE "apply")
    /\ AddClone(h, nodes, ApplyNode(dataframes[h].node, expand))
    /\ UNCHANGED <<series, registry, origins, aligned>>

Filter(h) ==
    /\ Call /\ Allows("filter")
    /\ AddClone(h, nodes, FilterNode(dataframes[h].node, "filter", <<>>))
    /\ UNCHANGED <<series, registry, origins, aligned>>

SetTimestamp(h) ==
    /\ Call /\ Allows("transform")
    /\ AddClone(h, nodes, TransformNode(dataframes[h].node))
    /\ UNCHANGED <<series, registry, origins, aligned>>

\* The same for the headers: the function is given a copy of them.
SetHeaders(h) == SetTimestamp(h)

UpdateInPlace(h, kind) ==
    /\ Call /\ Allows(kind)
    /\ AddUpdate(h, nodes, UpdateNode(dataframes[h].node, kind, <<>>))
    /\ UNCHANGED <<series, registry, origins, aligned>>

\* update(), and sdf[key] = constant.
Update(h) == UpdateInPlace(h, "update")

\* In the code the columns of the value; no columns are an error.
Fill(h, columns) == columns # {} /\ UpdateInPlace(h, "update")

\* Nothing is added for no columns.
Drop(h, columns) ==
    IF columns = {} THEN Call /\ Allows("update") /\ UNCHANGED <<nodes, dataframes, series, registry, origins, aligned>>
    ELSE UpdateInPlace(h, "update")

\* The fields of the lookup are written into the value.
JoinLookup(h) == Update(h)

\* The value goes to a topic or to the console as it is, and on.
ToTopic(h) == UpdateInPlace(h, "observe")

PrintValue(h) == UpdateInPlace(h, "observe")

PrintTable(h) == UpdateInPlace(h, "observe")

\* sink(): a function that nothing goes on from.
SinkTo(h) ==
    /\ Call /\ Allows("sink")
    /\ nodes' = WithNode(nodes, ApplyNode(dataframes[h].node, FALSE))
    /\ UNCHANGED <<dataframes, series, registry, origins, aligned>>

SeveralTopicsDisjoint(a, b) == a.topics \cap b.topics = {}

SeveralTopics(a, b) == Cardinality(a.topics \cup b.topics) > 1

\* merge() refuses to make a cycle.
Mergeable(g, n, m) == n \notin Above(g, m) /\ m \notin Above(g, n)

\* concat(), which refuses a stream that is above the other one.
Concat(h, other) ==
    LET a == dataframes[h]
        b == dataframes[other]
    IN  /\ Call /\ Allows("concat")
        /\ Mergeable(nodes, a.node, b.node)
        /\ nodes' = WithNode(nodes, MergeNode(a.node, b.node))
        /\ IF SeveralTopics(a, b)
           THEN /\ aligned' = TRUE
                /\ AddDataframe(Len(nodes) + 1, a.topics \cup b.topics, StreamIdFrom(a.topics \cup b.topics))
           ELSE /\ UNCHANGED aligned
                /\ AddDataframe(Len(nodes) + 1, a.topics, StreamIdFrom({a.id, b.id}))
        /\ UNCHANGED <<series, registry, origins>>

\* sdf[key] = other and sdf[other].  When the cut stream turns out not to be composable,
\* the call fails and the stream stays cut.
UseDataframe(h, other, kind) ==
    LET self == dataframes[h].node
        head == Last(DiffPath(nodes, self, dataframes[other].node))
        cut == Pruned(nodes, self, head)
        reads == <<Composed(cut, dataframes[other].node, TRUE)>>
    IN  /\ Call /\ Allows(kind) /\ kind \in {"assign", "select"}
        /\ DiffAllowed(nodes, self, dataframes[other].node)
        /\ IF ComposesReturning(cut, head)
           THEN IF kind = "assign" THEN AddUpdate(h, cut, UpdateNode(self, kind, reads))
                ELSE AddClone(h, cut, FilterNode(self, kind, reads))
           ELSE nodes' = cut /\ UNCHANGED dataframes
        /\ UNCHANGED <<series, registry, origins, aligned>>

-----------------------------------------------------------------------------
(* Columns *)

AddSeries(g, owner) ==
    /\ nodes' = g
    /\ series' = Append(series, [node |-> Len(g), owner |-> owner])

\* A new stream that is not connected to those that its function evaluates.
FromApplyCallback(g, reads) == Append(g, Node(IF reads = <<>> THEN "column" ELSE "operation", <<>>, reads))

\* sdf[name]
Column(h) ==
    /\ Call /\ Allows("column")
    /\ AddSeries(FromApplyCallback(nodes, <<>>), h)
    /\ UNCHANGED <<dataframes, registry, origins, aligned>>

\* sdf.contains(columns)
ContainsColumns(h) == Column(h)

SeriesApply(s) ==
    /\ Call /\ Allows("column")
    /\ AddSeries(WithNode(nodes, ApplyNode(series[s].node, FALSE)), series[s].owner)
    /\ UNCHANGED <<dataframes, registry, origins, aligned>>

Absolute(s) == SeriesApply(s)

Invert(s) == SeriesApply(s)

\* The other operand is a constant, or a series of the same dataframe: a new stream,
\* that evaluates its operands.
SeriesOperation(s, others) ==
    LET reads == <<Composed(nodes, series[s].node, FALSE)>>
                 \o SetToSeq({Composed(nodes, series[t].node, FALSE) : t \in others})
    IN  /\ Call /\ Allows("column")
        /\ \A t \in others : series[t].owner = series[s].owner
        /\ AddSeries(FromApplyCallback(nodes, reads), series[s].owner)
        /\ UNCHANGED <<dataframes, registry, origins, aligned>>

\* + - * / % and the comparisons
Arithmetic(s, others) == SeriesOperation(s, others)

\* is in, contains, is and is not
Membership(s, others) == SeriesOperation(s, others)

\* & and |, of which the second operand is evaluated when it matters
Logical(s, others) == SeriesOperation(s, others)

\* sdf[key] = series, and sdf[series].
UseSeries(h, s, kind) ==
    LET self == dataframes[h].node
        reads == <<Composed(nodes, series[s].node, FALSE)>>
    IN  /\ Call /\ Allows("column")
        /\ \/ kind = "assign" /\ series[s].owner = h /\ AddUpdate(h, nodes, UpdateNode(self, kind, reads))
           \/ kind = "select" /\ AddClone(h, nodes, FilterNode(self, kind, reads))
        /\ UNCHANGED <<series, registry, origins, aligned>>

-----------------------------------------------------------------------------
(* group_by() *)

Registered(topic) == \E i \in DOMAIN registry : registry[i].topic = topic

Nested(h) == dataframes[h].id \in origins

\* One partition: the key is changed in place of a repartition topic.
GroupBySinglePartition(h, operation) ==
    LET a == dataframes[h]
        id == a.id \o <<"groupby", operation>>
        failed == Nested(h) \/ id \in origins
        node == TransformNode(a.node)
    IN  /\ Call /\ Allows("group_by") /\ scenario.partitions = 1
        /\ nodes' = WithNode(nodes, [node EXCEPT !.void = failed])
        /\ IF failed THEN UNCHANGED <<dataframes, origins>>
           ELSE /\ AddDataframe(Len(nodes) + 1, a.topics, id)
                /\ origins' = origins \cup {id}
        /\ UNCHANGED <<series, registry, aligned>>

\* Otherwise: the dataframe writes to the repartition topic and goes no further, and a
\* new root reads it.  The registry refuses after the functions are added.
GroupBy(h, operation) ==
    LET a == dataframes[h]
        topic == RepartitionTopic(a.id, operation)
        failed == Nested(h) \/ topic \in origins \/ Registered(topic)
        Added(kind, parents) == [Node(kind, parents, <<>>) EXCEPT !.void = failed]
        written == WithNode(nodes, Added("update", <<a.node>>))
        dropped == WithNode(written, Added("drop", <<Len(written)>>))
        root == Len(dropped) + 1
        moved == [dataframes EXCEPT ![h].node = Len(written)]
    IN  /\ Call /\ Allows("group_by") /\ scenario.partitions > 1
        /\ nodes' = Append(dropped, Added("root", <<>>))
        /\ IF failed THEN dataframes' = moved /\ UNCHANGED <<registry, origins>>
           ELSE /\ dataframes' = Append(moved, [node |-> root, topics |-> {topic}, id |-> topic])
                /\ origins' = origins \cup {topic}
                /\ registry' = Append(registry, [topic |-> topic, node |-> root])
        /\ UNCHANGED <<series, aligned>>

-----------------------------------------------------------------------------
(* Execution *)

\* The value that the function of node n gives, of input v.
Applied(n, v) == IF nodes[n].kind \in {"root", "merge", "observe"} \cup Filters THEN v ELSE Append(v, n)

Passes(n, pass) == \/ nodes[n].kind \notin Filters
                   \/ nodes[n].kind \in {"filter", "select"} /\ pass

\* Bound: an iterable that is expanded has two items.
Items(n) == IF nodes[n].kind = "expand" THEN 2 ELSE 1

DownstreamCopiedLate(execute, children, v, pass) ==
    IF children = <<>> THEN [calls |-> <<>>, value |-> v]
    ELSE LET first == execute[Head(children), v, pass]
             copies == [i \in DOMAIN Tail(children) |->
                           execute[Tail(children)[i], first.value, pass].calls]
         IN  [calls |-> first.calls \o FlattenSeq(copies), value |-> first.value]

\* _resolve_branching(): the first branch gets the value itself, the others copies of
\* what it was before.
Downstream(execute, children, v, pass) ==
    IF children = <<>> THEN [calls |-> <<>>, value |-> v]
    ELSE LET first == execute[Head(children), v, pass]
             copies == [i \in DOMAIN Tail(children) |-> execute[Tail(children)[i], v, pass].calls]
         IN  [calls |-> first.calls \o FlattenSeq(copies), value |-> first.value]

\* What the executors of a node do with the object of a value: the calls that they make
\* and the value that the object has afterwards.
Execute(node, value, passing) ==
    LET Run[n \in DOMAIN nodes, v \in Seq(DOMAIN nodes), pass \in BOOLEAN] ==
            LET w == Applied(n, v)
                down == Downstream(Run, nodes[n].children, w, pass)
                repeated == FlattenSeq([i \in 1..Items(n) |-> down.calls])
                call == <<[node |-> n, input |-> v]>>
                changed == SubSeq(down.value, Len(w) + 1, Len(down.value))
            IN  IF ~Passes(n, pass) THEN [calls |-> call, value |-> v]
                ELSE [calls |-> call \o repeated,
                      value |-> CASE nodes[n].kind \in InPlace -> down.value
                                  [] nodes[n].kind \in SameObject -> v \o changed
                                  [] OTHER -> v]
    IN  Run[node, value, passing]

\* compose(): what is run for a message of each topic, in the order of the calls.
ComposeAll(pass) == [i \in DOMAIN registry |-> Execute(registry[i].node, <<>>, pass).calls]

-----------------------------------------------------------------------------
StreamsInit ==
    LET topics == IF Defining THEN SetToSeq({Topic(t) : t \in scenario.topics}) ELSE <<>>
    IN  /\ nodes = [i \in DOMAIN topics |-> Node("root", <<>>, <<>>)]
        /\ dataframes = [i \in DOMAIN topics |-> [node |-> i, topics |-> {topics[i]}, id |-> topics[i]]]
        /\ registry = [i \in DOMAIN topics |-> [topic |-> topics[i], node |-> i]]
        /\ series = <<>> /\ origins = {} /\ aligned = FALSE /\ calls = 0

StreamsNext ==
    /\ UNCHANGED faults
    /\ \/ \E h \in DOMAIN dataframes :
             \/ \E expand \in BOOLEAN : Apply(h, expand)
             \/ Filter(h) \/ SetTimestamp(h) \/ SetHeaders(h) \/ Update(h) \/ JoinLookup(h)
             \/ \E columns \in SUBSET {"column"} : Fill(h, columns) \/ Drop(h, columns)
             \/ ToTopic(h) \/ PrintValue(h) \/ PrintTable(h) \/ SinkTo(h)
             \/ Column(h) \/ ContainsColumns(h)
             \/ \E other \in DOMAIN dataframes : Concat(h, other)
             \/ \E other \in DOMAIN dataframes, kind \in {"assign", "select"} : UseDataframe(h, other, kind)
             \/ \E s \in DOMAIN series, kind \in {"assign", "select"} : UseSeries(h, s, kind)
             \/ \E operation \in {"x", "y"} : GroupBySinglePartition(h, operation) \/ GroupBy(h, operation)
       \/ \E s \in DOMAIN series : SeriesApply(s) \/ Absolute(s) \/ Invert(s)
       \/ \E s \in DOMAIN series : \E others \in {{}} \cup {{t} : t \in DOMAIN series} :
             Arithmetic(s, others) \/ Membership(s, others) \/ Logical(s, others)

-----------------------------------------------------------------------------
(* Properties *)

StreamsTypeOK ==
    /\ \A n \in DOMAIN nodes :
          /\ nodes[n].kind \in Kinds
          /\ \A i \in DOMAIN nodes[n].parents : nodes[n].parents[i] < n
          /\ \A i \in DOMAIN nodes[n].children : nodes[n].children[i] \in n + 1..Len(nodes)
    /\ \A h \in DOMAIN dataframes : dataframes[h].node \in DOMAIN nodes
    /\ \A s \in DOMAIN series : series[s].node \in DOMAIN nodes /\ series[s].owner \in DOMAIN dataframes
    /\ aligned \in BOOLEAN /\ calls \in Nat

\* What reaches node n of a message of the topic whose root is r, by what the calls
\* have named: the outputs of all its inputs, none of a stream that another one uses.
Inputs(r, pass) ==
    LET Outputs(in, m) == IF ~Passes(m, pass) THEN <<>>
                          ELSE FlattenSeq([i \in DOMAIN in |-> [k \in 1..Items(m) |-> Applied(m, in[i])]])
        In[n \in DOMAIN nodes] ==
            IF n = r THEN << <<>> >>
            ELSE IF nodes[n].pruned \/ nodes[n].from = <<>> THEN <<>>
            ELSE FlattenSeq([i \in DOMAIN nodes[n].from |->
                              Outputs(In[nodes[n].from[i]], nodes[n].from[i])])
    IN  In

Times(s, x) == Cardinality({i \in DOMAIN s : s[i] = x})

\* Whatever the order of the calls that define the dataframes, every function is called
\* with exactly the values that its inputs give, as often as they give them: a branch
\* neither sees what another one has changed nor misses or repeats a message, and what
\* is used as a filter or a column does not run on its own (Stream.compose,
\* StreamFunction._resolve_branching, Stream.merge, Stream.diff, group_by).
CalledAsMeant ==
    Defining =>
    \A i \in DOMAIN registry, pass \in BOOLEAN :
       LET done == ComposeAll(pass)[i]
           meant == Inputs(registry[i].node, pass)
       IN  \A n \in DOMAIN nodes : ~nodes[n].void =>
              LET inputs == FlattenSeq([k \in DOMAIN done |->
                              IF done[k].node = n THEN <<done[k].input>> ELSE <<>>])
              IN  \A v \in Range(inputs) \cup Range(meant[n]) : Times(inputs, v) = Times(meant[n], v)

\* A series or a dataframe that is used in a column or in a filter gives the value of
\* itself (Stream.compose_returning).
ReadsWhatWasAsked ==
    \A n \in DOMAIN nodes : \A i \in DOMAIN nodes[n].reads :
       nodes[n].reads[i].given = nodes[n].reads[i].asked

\* A dataframe that is used in a column or in a filter gives the value of itself, when
\* nothing goes on from it: diff() refuses the streams of which another branch would be
\* the last to reach the sink (Stream.diff).
DiffReadsWhatWasAsked ==
    \A n \in DOMAIN nodes : \A i \in DOMAIN nodes[n].reads :
       LET read == nodes[n].reads[i]
       IN  read.alone /\ read.diff => read.given = read.asked

\* The topics whose messages reach each node, by what the calls have named.
Sources ==
    LET Of[n \in DOMAIN nodes] ==
            {registry[i].topic : i \in {j \in DOMAIN registry : registry[j].node = n}}
            \cup UNION {Of[m] : m \in Range(nodes[n].from)}
    IN  Of

\* The topics of a dataframe are those whose messages reach it, and when those of
\* several topics come together the application consumes them aligned in time (concat(),
\* __dataframe_clone__, DataFrameRegistry.require_time_alignment).
TopicsAligned ==
    Defining =>
    /\ \A h \in DOMAIN dataframes : dataframes[h].topics = Sources[dataframes[h].node]
    /\ (\E n \in DOMAIN nodes : Cardinality(Sources[n]) > 1) => aligned

=============================================================================
