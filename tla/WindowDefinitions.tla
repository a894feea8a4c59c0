--------------------------- MODULE WindowDefinitions ---------------------------
(***************************************************************************)
(* The window definitions of a dataframe: from sdf.tumbling_window(), what *)
(* to aggregate, and final() or current(), to the parameters of the window *)
(* that processes the messages and the name of its store.                  *)
(***************************************************************************)
EXTENDS Operation

-----------------------------------------------------------------------------
(* What is computed of a window *)

\* No column: of the message itself.
Whole == "whole"

AggregatorOf(result, type, column) == [result |-> result, type |-> type, column |-> column]

CollectorOf(result, column) == [result |-> result, column |-> column]

\* sum(), count(), mean(), reduce(), max(), min()
Aggregation(type) ==
    [func |-> type, aggregators |-> {AggregatorOf("value", type, Whole)}, collectors |-> {}]

CollectValues == [func |-> "Collect", aggregators |-> {}, collectors |-> {CollectorOf("value", Whole)}]

\* agg(): the names of the results are keywords, each given once, and not reserved.
Agg(aggregators, collectors) ==
    LET names == {a.result : a \in aggregators} \cup {c.result : c \in collectors}
    IN  CASE /\ names \cap {"start", "end"} = {}
             /\ Cardinality(names) = Cardinality(aggregators) + Cardinality(collectors)
             -> [func |-> "", aggregators |-> aggregators, collectors |-> collectors]

\* _create_window(): the name of the function is in the name of the store, those of agg()
\* are not.
CreateWindow(window, name, type, size, operations) ==
    window @@ [store       |-> [name |-> name, type |-> type, size |-> size, func |-> operations.func],
               aggregators |-> operations.aggregators, collectors |-> operations.collectors,
               aggregate   |-> operations.aggregators # {}, collect |-> operations.collectors # {}]

-----------------------------------------------------------------------------
(* Time windows.  The trigger is a before_update or an after_update callback. *)

TimeShape(kind, duration, step, grace, trigger) ==
    [kind |-> kind, duration |-> duration, step |-> step, grace |-> grace, trigger |-> trigger]

TumblingTimeWindow(name, duration, grace, trigger, operations) ==
    CreateWindow(TimeShape("time", duration, duration, grace, trigger),
                 name, "tumbling_window", <<duration>>, operations)

HoppingTimeWindow(name, duration, step, grace, trigger, operations) ==
    CreateWindow(TimeShape("time", duration, step, grace, trigger),
                 name, "hopping_window", <<duration, step>>, operations)

SlidingTimeWindow(name, duration, grace, operations) ==
    CreateWindow(TimeShape("sliding", duration, duration, grace, "none"),
                 name, "sliding_window", <<duration>>, operations)

TumblingWindow(name, duration, grace, trigger, operations) ==
    TumblingTimeWindow(name, Milliseconds(duration), Milliseconds(grace), trigger, operations)

HoppingWindow(name, duration, step, grace, trigger, operations) ==
    HoppingTimeWindow(name, Milliseconds(duration), Milliseconds(step), Milliseconds(grace),
                      trigger, operations)

SlidingWindow(name, duration, grace, operations) ==
    SlidingTimeWindow(name, Milliseconds(duration), Milliseconds(grace), operations)

-----------------------------------------------------------------------------
(* Count windows.  The name of the store does not tell the count.  A step of 0 is no step. *)

CountShape(count, step) == [kind |-> "count", count |-> count, step |-> step]

TumblingCountWindow(name, count, operations) ==
    CreateWindow(CountShape(count, 0), name, "tumbling_count_window", <<>>, operations)

HoppingCountWindow(name, count, step, operations) ==
    CreateWindow(CountShape(count, step), name, "hopping_count_window", <<>>, operations)

SlidingCountWindow(name, count, operations) ==
    CreateWindow(CountShape(count, 1), name, "sliding_count_window", <<>>, operations)

-----------------------------------------------------------------------------
(* What goes downstream *)

\* final(): the windows that close, by the time of the key or of the partition.
Final(window, closing) == window @@ [emit |-> "final", closing |-> closing]

\* current(): the windows that a message updates.
Current(window, closing) == window @@ [emit |-> "current", closing |-> closing]

-----------------------------------------------------------------------------
(* The definitions that are not refused *)

TimeDefinition(d) ==
    /\ d.kind = "time"
    /\ d.duration \in Nat \ {0} /\ d.step \in 1..d.duration /\ d.grace \in Nat
    /\ d.closing \in {"key", "partition"}
    /\ d.trigger \in {"none", "before", "after"}

SlidingDefinition(d) ==
    d.kind = "sliding" /\ d.duration \in Nat \ {0} /\ d.grace \in Nat /\ d.trigger = "none"

CountDefinition(d) == d.kind = "count" /\ d.count \in Nat /\ d.count >= 2 /\ d.step \in Nat

\* current() does not take collectors, and without func there may be several operations.
WindowComputes(d) ==
    /\ d.aggregate \/ d.collect
    /\ d.emit \in {"final", "current"}
    /\ d.emit = "current" => ~d.collect
    /\ d.store.func # "" => Cardinality(d.aggregators) + Cardinality(d.collectors) = 1

=============================================================================
