--------------------------- MODULE MCCheckpointing ---------------------------
(***************************************************************************)
(* Instances of Checkpointing for TLC.                                     *)
(***************************************************************************)
EXTENDS CheckpointingInvariants, TLC

CONSTANTS a1, a2, t1, t2, k1, k2

\* With one topic: offsets alternate between two keys.  With two topics: the
\* topics share the keys, so that one key's state depends on both.
MCKeyOf == [m \in Message |-> IF m[2] % 2 = 0 THEN k1 ELSE k2]

MCOneKey == [m \in Message |-> k1]

\* Instances are interchangeable.
Symmetry == Permutations(App)
=============================================================================
