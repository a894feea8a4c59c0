------------------------- MODULE ProcessingGuarantee -------------------------
(***************************************************************************)
(* What an application promises to the owner of its input topics under the *)
(* at-least-once guarantee (docs/advanced/checkpointing.md): the effects   *)
(* of a message - the output record and the row written to the sink -      *)
(* become visible, possibly before its offset is committed and never       *)
(* withdrawn, and the committed offset of a topic only moves forward and   *)
(* only past messages whose effects are visible.                           *)
(*                                                                         *)
(* Checkpointing.tla implements this specification.                        *)
(***************************************************************************)
EXTENDS Integers

CONSTANTS
    Topic,      \* input topics, one partition of each
    MaxOffset   \* number of messages in a topic: offsets are 0..MaxOffset-1

VARIABLES
    committed,  \* topic -> next offset to consume, as the broker remembers it
    done        \* messages whose effects are visible outside the application

vars == <<committed, done>>

Message == Topic \X (0..MaxOffset - 1)

Below(offsets) == {m \in Message : m[2] < offsets[m[1]]}

Init ==
    /\ committed = [t \in Topic |-> 0]
    /\ done = {}

\* Effects of messages become visible, in any order and any number at a time.
Effect ==
    /\ done' \in SUBSET Message
    /\ done \subseteq done'
    /\ UNCHANGED committed

\* Offsets advance past messages that are done.
Commit ==
    /\ committed' \in [Topic -> 0..MaxOffset]
    /\ \A t \in Topic : committed[t] <= committed'[t]
    /\ Below(committed') \subseteq done
    /\ UNCHANGED done

Next == Effect \/ Commit

Spec == Init /\ [][Next]_vars
=============================================================================
