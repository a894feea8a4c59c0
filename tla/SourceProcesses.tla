--------------------------- MODULE SourceProcesses ----------------------------
(***************************************************************************)
(* The sources of an application run in processes of their own: how the    *)
(* application starts, watches and stops them, and learns of their errors. *)
(* Instance are the sources.                                               *)
(***************************************************************************)
EXTENDS Scenario

VARIABLES
    child,      \* the process of each source, see NewChild
    failed,     \* sources that raised an error, died or were killed
    app,        \* what the application is doing
    running,    \* RunTracker.running
    waiting,    \* sources that stop_sources() has not got to
    joining,    \* the source that it waits for
    outcome     \* how the application ends

sourceVars == <<child, failed, app, running, waiting, joining, outcome>>

Supervising == scenario.kind = "processes"

\* Whether there is a dataframe, sources that end by themselves, and stateful ones.
ProcessDefinition(s) ==
    s.kind = "processes" /\ {s.dataframe, s.finite, s.stateful} \subseteq BOOLEAN

\* SIGTERM that is not handled yet, Source._running, SourceProcess._stopping, whether
\* an exception is in the pipe, and the exit code.
NewChild == [pc |-> "new", term |-> FALSE, running |-> FALSE, stopping |-> FALSE,
             piped |-> FALSE, code |-> 0]

Killed == -9
Terminated == -15

Alive(s) == child[s].pc \notin {"new", "dead"}

Turns(s, c) == child' = [child EXCEPT ![s] = c]

Exits(s, code, piped) ==
    Turns(s, [child[s] EXCEPT !.pc = "dead", !.code = code, !.piped = @ \/ piped])

-----------------------------------------------------------------------------
(* The process of a source *)

\* SIGTERM before _setup_signal_handlers() ends the process.
InstallHandlers(s) ==
    /\ child[s].pc = "spawned"
    /\ IF child[s].term THEN Exits(s, Terminated, FALSE)
       ELSE Turns(s, [child[s] EXCEPT !.pc = "ready"])
    /\ UNCHANGED <<faults, failed, app, running, waiting, joining, outcome>>

\* _stop(): the first signal stops the source; before start() that has no effect.
HandleSignal(s) ==
    /\ child[s].pc \in {"ready", "running", "closing"} /\ child[s].term
    /\ Turns(s, IF child[s].stopping THEN [child[s] EXCEPT !.term = FALSE]
                ELSE [child[s] EXCEPT !.term = FALSE, !.stopping = TRUE, !.running = FALSE])
    /\ UNCHANGED <<faults, failed, app, running, waiting, joining, outcome>>

\* The state of the source is recovered; start() marks it as running.
RunSource(s) ==
    /\ child[s].pc = "ready"
    /\ Turns(s, [child[s] EXCEPT !.pc = "running", !.running = TRUE])
    /\ UNCHANGED <<faults, failed, app, running, waiting, joining, outcome>>

\* run() returns, and cleanup(failed=False) flushes.
SourceReturns(s) ==
    /\ child[s].pc = "running" /\ (scenario.finite \/ ~child[s].running)
    /\ Turns(s, [child[s] EXCEPT !.pc = "closing"])
    /\ UNCHANGED <<faults, failed, app, running, waiting, joining, outcome>>

SourceCompletes(s) ==
    /\ child[s].pc = "closing"
    /\ Exits(s, 0, FALSE)
    /\ UNCHANGED <<faults, failed, app, running, waiting, joining, outcome>>

\* An exception of the recovery, of run() or of the flush goes into the pipe, and the
\* process ends with code 0; or the process dies.
SourceFails(s) ==
    /\ Fault
    /\ child[s].pc \in {"running", "closing"} \cup IF scenario.stateful THEN {"ready"} ELSE {}
    /\ Exits(s, 0, TRUE) \/ Exits(s, Killed, FALSE)
    /\ failed' = failed \cup {s}
    /\ UNCHANGED <<app, running, waiting, joining, outcome>>

-----------------------------------------------------------------------------
(* The application *)

\* start_sources(), in _run_sources() or with the first assignment.
StartSources ==
    /\ app = "loop" /\ (scenario.dataframe \/ \A s \in Instance : child[s].pc = "new")
    /\ \E s \in Instance : child[s].pc = "new"
    /\ child' = [s \in Instance |-> IF child[s].pc = "new" THEN [NewChild EXCEPT !.pc = "spawned"]
                                    ELSE child[s]]
    /\ UNCHANGED <<faults, failed, app, running, waiting, joining, outcome>>

\* Mutant: the exit code alone tells of an error.
HasErrorByCode(s) == child[s].pc = "dead" /\ child[s].code \notin {0, Terminated}

\* SourceProcess.raise_for_error()
HasError(s) == child[s].pc = "dead" /\ (child[s].piped \/ child[s].code \notin {0, Terminated})

\* __exit__() of the source manager.
Stops(result) ==
    /\ app' = "stopping" /\ running' = FALSE /\ waiting' = Instance /\ outcome' = result

\* An iteration of the loop finds a source that has failed; the application stops,
\* but not as failed.
RaiseForError ==
    /\ app = "loop" /\ \E s \in Instance : HasError(s)
    /\ Stops("source_error")
    /\ UNCHANGED <<faults, child, failed, joining>>

\* The loop ends: stop() was called, or the last source has ended.  The application may
\* also fail.
LoopEnds ==
    /\ app = "loop"
    /\ \/ ~running /\ Stops("normal") /\ UNCHANGED faults
       \/ /\ ~scenario.dataframe /\ \A s \in Instance : child[s].pc = "dead"
          /\ Stops("normal") /\ UNCHANGED faults
       \/ Fault /\ Stops("error")
    /\ UNCHANGED <<child, failed, joining>>

RequestStop ==
    /\ app = "loop" /\ running
    /\ Fault
    /\ running' = FALSE
    /\ UNCHANGED <<child, failed, app, waiting, joining, outcome>>

\* SourceProcess.stop(), for one source after the other: SIGTERM, and wait for the end.
StopSource(s) ==
    /\ app = "stopping" /\ joining = NoInstance /\ s \in waiting
    /\ waiting' = waiting \ {s}
    /\ IF Alive(s) THEN Turns(s, [child[s] EXCEPT !.term = TRUE]) /\ joining' = s
       ELSE UNCHANGED <<child, joining>>
    /\ UNCHANGED <<faults, failed, app, running, outcome>>

JoinSource ==
    /\ joining # NoInstance /\ ~Alive(joining)
    /\ joining' = NoInstance
    /\ UNCHANGED <<faults, child, failed, app, running, waiting, outcome>>

\* shutdown_timeout passes, and the process is killed.
KillSource ==
    /\ joining # NoInstance /\ Alive(joining)
    /\ Exits(joining, Killed, FALSE)
    /\ failed' = failed \cup {joining}
    /\ UNCHANGED <<faults, app, running, waiting, joining, outcome>>

\* raise_for_error() once more, and close().
FinishStop ==
    /\ app = "stopping" /\ waiting = {} /\ joining = NoInstance
    /\ app' = "ended"
    /\ outcome' = IF \E s \in Instance : HasError(s) THEN "source_error" ELSE outcome
    /\ UNCHANGED <<faults, child, failed, running, waiting, joining>>

SourcesInit ==
    /\ child = [s \in Instance |-> NewChild] /\ failed = {}
    /\ app = "loop" /\ running = TRUE /\ waiting = {} /\ joining = NoInstance
    /\ outcome = "none"

\* What goes on by itself.
ProcessStep ==
    \/ \E s \in Instance : InstallHandlers(s) \/ HandleSignal(s) \/ RunSource(s)
                           \/ SourceReturns(s) \/ SourceCompletes(s) \/ StopSource(s)
    \/ StartSources \/ RaiseForError \/ LoopEnds \/ JoinSource \/ KillSource \/ FinishStop

SourcesNext == ProcessStep \/ RequestStop \/ \E s \in Instance : SourceFails(s)

Child ==
    [pc : {"new", "spawned", "ready", "running", "closing", "dead"}, term : BOOLEAN,
     running : BOOLEAN, stopping : BOOLEAN, piped : BOOLEAN, code : {0, Killed, Terminated}]

SourcesTypeOK ==
    /\ child \in [Instance -> Child] /\ failed \subseteq Instance
    /\ app \in {"loop", "stopping", "ended"} /\ running \in BOOLEAN
    /\ waiting \subseteq Instance /\ joining \in Instance \cup {NoInstance}
    /\ outcome \in {"none", "normal", "error", "source_error"}
    /\ app = "loop" <=> outcome = "none"
    /\ \A s \in Instance : child[s].running => child[s].pc \in {"running", "closing", "dead"}

-----------------------------------------------------------------------------
\* An application that ends without an error had sources that did not fail either, and
\* none of them outlives it.
SourcesSupervised ==
    Supervising /\ app = "ended" =>
        /\ \A s \in Instance : ~Alive(s)
        /\ failed # {} => outcome = "source_error"

\* A stop is carried out, also when a source does not answer to it.
StopsSources == Supervising => [](~running => <>(app = "ended"))

=============================================================================
