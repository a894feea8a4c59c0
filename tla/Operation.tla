------------------------------ MODULE Operation -------------------------------
(***************************************************************************)
(* One stateful operation of a dataframe over the messages of a partition. *)
(* A window, a join or a lookup is a definition; the messages are numbered *)
(* in the order in which they are processed.                               *)
(***************************************************************************)
EXTENDS Integers, Sequences, FiniteSets, FiniteSetsExt, Functions, TLC

CONSTANTS
    Key                \* message keys

VARIABLES
    definition,        \* the operation, with its parameters
    arrived            \* the messages processed so far

\* The number of the message that is processed in a step.
Incoming == Len(arrived) + 1

Arrives(message) == arrived' = Append(arrived, message)

Message == DOMAIN arrived
Stamp(n) == arrived[n].stamp
MessagesOf(key) == {n \in Message : arrived[n].key = key}

\* A length of time is a number of milliseconds or a timedelta of so many microseconds.
Ms(number) == [unit |-> "ms", number |-> number]
Delta(number) == [unit |-> "us", number |-> number]

\* ensure_milliseconds(): rounded to the closest one.  The code multiplies floats and
\* truncates, which gives the same for less than 1001 milliseconds.
Milliseconds(time) == IF time.unit = "ms" THEN time.number ELSE (time.number + 500) \div 1000

=============================================================================
