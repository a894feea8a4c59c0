------------------------------ MODULE RunTracker ------------------------------
(***************************************************************************)
(* The stop conditions of Application.run(timeout, count): when the loop   *)
(* ends by itself.  Time is counted in units of the timeout's size.        *)
(***************************************************************************)
EXTENDS Scenario

VARIABLES
    tracker,   \* [start, consumed, count] of the RunTracker
    clock,     \* time.monotonic()
    looping,   \* RunTracker.running
    recovery,  \* recovery_required
    remaining, \* messages that are still to come
    liveAt     \* when there was last an assignment, a recovery or a message

trackerVars == <<tracker, clock, looping, recovery, remaining, liveAt>>

Tracking == scenario.kind = "tracker"

TrackerDefinition(s) ==
    s.kind = "tracker" /\ {s.timeout, s.count, s.time, s.messages} \subseteq Nat

\* set_as_running() gives the first assignment 60 seconds more.
Allowance == 2

\* Mutant: the timeout goes on during a recovery.
RefreshNever(t) == t

\* timeout_refresh()
Refresh(t) == [t EXCEPT !.start = clock]

\* _at_timeout() looks at the time if no message was consumed.
AtTimeout(t) ==
    scenario.timeout > 0 /\ ~t.consumed /\ clock - t.start >= scenario.timeout

AtCount(t) == scenario.count > 0 /\ t.count >= scenario.count

\* update_status(), at the end of an iteration.
UpdateStatus(t) ==
    /\ tracker' = IF scenario.timeout > 0 /\ t.consumed THEN [t EXCEPT !.start = clock] ELSE t
    /\ looping' = ~(AtTimeout(t) \/ AtCount(t))

\* An iteration in which no message comes; it may bring an assignment.
PollNothing ==
    /\ looping /\ ~recovery
    /\ \E assigned \in BOOLEAN :
          /\ assigned => Fault
          /\ UpdateStatus([(IF assigned THEN Refresh(tracker) ELSE tracker) EXCEPT !.consumed = FALSE])
          /\ liveAt' = IF assigned THEN clock ELSE liveAt
          /\ recovery' \in IF assigned THEN BOOLEAN ELSE {FALSE}
          /\ ~assigned => UNCHANGED faults
    /\ UNCHANGED <<clock, remaining>>

\* A message has any number of outputs, which the collector counts.
PollMessage ==
    /\ looping /\ ~recovery /\ remaining > 0
    /\ remaining' = remaining - 1
    /\ \E outputs \in 0..2 :
          UpdateStatus([tracker EXCEPT !.consumed = TRUE, !.count = @ + outputs])
    /\ liveAt' = clock
    /\ UNCHANGED <<faults, clock, recovery>>

\* A message that the deserializer makes nothing of leaves the loop as it was.
PollEmpty ==
    /\ looping /\ ~recovery /\ remaining > 0
    /\ remaining' = remaining - 1
    /\ UpdateStatus(tracker)
    /\ UNCHANGED <<faults, clock, recovery, liveAt>>

\* do_recovery() takes its time, and the timeout starts again.
Recover ==
    /\ looping /\ recovery
    /\ recovery' = FALSE
    /\ tracker' = Refresh(tracker)
    /\ liveAt' = clock
    /\ UNCHANGED <<faults, clock, looping, remaining>>

TimePasses ==
    /\ looping /\ clock < scenario.time
    /\ clock' = clock + 1
    /\ UNCHANGED <<faults, tracker, looping, recovery, remaining, liveAt>>

TrackerInit ==
    /\ tracker = [start |-> Allowance, consumed |-> FALSE, count |-> 0]
    /\ clock = 0 /\ looping = TRUE /\ recovery = FALSE /\ liveAt = 0
    /\ remaining = scenario.messages

TrackerNext == PollNothing \/ PollMessage \/ PollEmpty \/ Recover \/ TimePasses

TrackerTypeOK ==
    /\ tracker.start <= clock + Allowance /\ liveAt <= clock /\ remaining \in 0..MaxOffset
    /\ tracker.count \in 0..2 * MaxOffset

-----------------------------------------------------------------------------
\* "Stop an Application once no new messages have been consumed after T seconds (after
\* rebalance and recovery)", or after N outputs, not earlier and not later.
StopsWhenDue ==
    Tracking =>
        IF looping THEN scenario.count > 0 => tracker.count < scenario.count
        ELSE \/ scenario.timeout > 0 /\ clock - liveAt >= scenario.timeout
             \/ scenario.count > 0 /\ tracker.count >= scenario.count

=============================================================================
