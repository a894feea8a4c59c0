------------------------------- MODULE Scenario -------------------------------
(***************************************************************************)
(* What the modules about the processes around the dataframe share: the    *)
(* part of the system that a behaviour is about, with its parameters, and  *)
(* the faults that its environment has had.                                *)
(***************************************************************************)
EXTENDS Integers, Sequences, FiniteSets, FiniteSetsExt, SequencesExt, Functions, TLC

CONSTANTS
    Instance,   \* processes of one application, or of one kind of source
    NoInstance  \* the owner of what nobody owns

ASSUME ScenarioAssumption ==
    /\ IsFiniteSet(Instance) /\ Instance # {} /\ NoInstance \notin Instance

VARIABLES
    scenario,   \* the part of the system: [kind, faults, messages, ...]
    faults      \* faults so far

\* Bound on the messages of a topic.
MaxOffset == scenario.messages

\* One more fault of the environment, within the bound of the scenario.
Fault == faults < scenario.faults /\ faults' = faults + 1

\* An offset that is not there.
NoOffset == -1

=============================================================================
