-------------------------- MODULE BrokerAvailability --------------------------
(***************************************************************************)
(* broker_availability_timeout: the clients of an application remember     *)
(* since when librdkafka reports that all brokers are down, and the loop   *)
(* fails when that lasts too long.  Instance are the clients.              *)
(***************************************************************************)
EXTENDS Scenario

VARIABLES
    reachable,  \* whether the brokers can be reached
    seconds,    \* time.monotonic()
    since,      \* _broker_unavailable_since of each client
    probed,     \* _last_broker_probe of each client
    unavailable,\* the client whose check has failed the application
    lastDown    \* when the brokers could last not be reached

brokerVars == <<reachable, seconds, since, probed, unavailable, lastDown>>

Probing == scenario.kind = "broker"

BrokerDefinition(s) ==
    s.kind = "broker" /\ {s.timeout, s.probe, s.time} \subseteq Nat \ {0}

Never == -1

\* Brokers go down and come back.
BrokersChange ==
    /\ unavailable = NoInstance /\ Fault
    /\ reachable' = ~reachable
    /\ lastDown' = IF reachable THEN seconds ELSE lastDown
    /\ UNCHANGED <<seconds, since, probed, unavailable>>

SecondsPass ==
    /\ unavailable = NoInstance /\ seconds < scenario.time
    /\ seconds' = seconds + 1
    /\ lastDown' = IF reachable THEN lastDown ELSE seconds + 1
    /\ UNCHANGED <<faults, reachable, since, probed, unavailable>>

\* _error_cb() with _ALL_BROKERS_DOWN, which librdkafka also reports when idle
\* connections are closed.
AllBrokersDown(c) ==
    /\ unavailable = NoInstance /\ since[c] = Never
    /\ since' = [since EXCEPT ![c] = seconds]
    /\ UNCHANGED <<faults, reachable, seconds, probed, unavailable, lastDown>>

\* _broker_available()
Available(clients) ==
    /\ since' = [c \in Instance |-> IF c \in clients THEN Never ELSE since[c]]
    /\ probed' = [c \in Instance |-> IF c \in clients THEN Never ELSE probed[c]]

\* A delivery report is for the producer, a message that is consumed for both clients.
Contact ==
    /\ unavailable = NoInstance /\ reachable
    /\ \/ \E c \in Instance : since[c] # Never /\ Available({c})
       \/ since # [c \in Instance |-> Never] /\ Available(Instance)
    /\ UNCHANGED <<faults, reachable, seconds, unavailable, lastDown>>

\* Mutant: no probe once the timeout has passed.
ProbeDueBefore(c) ==
    /\ probed[c] = Never \/ seconds - probed[c] >= scenario.probe
    /\ seconds - since[c] < scenario.timeout

ProbeDue(c) == probed[c] = Never \/ seconds - probed[c] >= scenario.probe

\* raise_if_broker_unavailable(): a probe if one is due, which shows whether the brokers
\* can be reached; without one, or after one that failed, the timeout counts.
CheckBrokers(c) ==
    /\ unavailable = NoInstance /\ since[c] # Never
    /\ IF ProbeDue(c) /\ reachable
       THEN Available({c}) /\ UNCHANGED unavailable
       ELSE /\ probed' = IF ProbeDue(c) THEN [probed EXCEPT ![c] = seconds] ELSE probed
            /\ unavailable' = IF seconds - since[c] >= scenario.timeout THEN c ELSE NoInstance
            /\ UNCHANGED since
    /\ UNCHANGED <<faults, reachable, seconds, lastDown>>

BrokerInit ==
    /\ reachable = TRUE /\ seconds = 0 /\ unavailable = NoInstance /\ lastDown = Never
    /\ since = [c \in Instance |-> Never]
    /\ probed = since

BrokerNext ==
    \/ BrokersChange \/ SecondsPass \/ Contact
    \/ \E c \in Instance : AllBrokersDown(c) \/ CheckBrokers(c)

BrokerTypeOK ==
    \A c \in Instance : since[c] <= seconds /\ (probed[c] # Never => since[c] # Never)

-----------------------------------------------------------------------------
\* The application gives up only if the brokers were really unreachable within the last
\* probe interval, however long ago librdkafka said so.
GivesUpWhenUnreachable ==
    Probing /\ unavailable # NoInstance =>
        lastDown # Never /\ seconds - lastDown < scenario.probe

=============================================================================
