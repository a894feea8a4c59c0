--------------------------- MODULE MCConsumerBuffer ---------------------------
(***************************************************************************)
(* Instances of ConsumerBuffer for TLC.                                    *)
(***************************************************************************)
EXTENDS ConsumerBuffer

CONSTANTS t1, t2

\* The topics alternate, and meet in one timestamp.
MCStamps == [t \in Topic |-> IF t = t1 THEN <<1, 3, 4>> ELSE <<2, 3>>]

\* The faults alone, and with every hazard.
MCHazardSets == {{}, HazardKinds}
=============================================================================
