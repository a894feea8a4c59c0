------------------------------- MODULE StateMap -------------------------------
(***************************************************************************)
(* What the state of a partition promises to the functions of a dataframe: *)
(* a map that shows every change at once, keeps what a checkpoint has      *)
(* committed, and forgets what it has not.                                 *)
(*                                                                         *)
(* An item is [cf, key, id, count]: a value that a function has set under  *)
(* a name, or a member of a collection, which has a count of its own.      *)
(***************************************************************************)
EXTENDS Integers, SequencesExt

VARIABLES
    requests,  \* the requests so far, with their results
    current,   \* the map that functions see
    stable     \* the map of the last checkpoint

vars == <<requests, current, stable>>

With(map, item, value) ==
    [i \in DOMAIN map \cup {item} |-> IF i = item THEN value ELSE map[i]]

Without(map, items) == [i \in DOMAIN map \ items |-> map[i]]

Named(r) == [cf |-> "default", key |-> r.key, id |-> r.id, count |-> 0]

\* The members of the collection of a key with an id from r.from up to r.to.
Between(map, r) ==
    {i \in DOMAIN map : i.cf = "values" /\ i.key = r.key /\ r.from <= i.id /\ i.id < r.to}

\* Members in the order of ids, and of their arrival.
Precedes(i, j) == i.id < j.id \/ (i.id = j.id /\ i.count < j.count)

InOrder(members) ==
    CHOOSE s \in SetToSeqs(members) : \A m, n \in DOMAIN s : m < n => Precedes(s[m].item, s[n].item)

Set(r) ==
    r.op = "set" /\ current' = With(current, Named(r), r.value)

Delete(r) ==
    r.op = "delete" /\ current' = Without(current, {Named(r)})

Get(r) ==
    /\ r.op = "get" /\ UNCHANGED current
    /\ r.result = IF Named(r) \in DOMAIN current THEN <<current[Named(r)]>> ELSE <<>>

\* A member never takes the place of another one, and comes after those of its id.
Add(r) ==
    /\ r.op = "add"
    /\ LET item == [cf |-> "values", key |-> r.key, id |-> r.id, count |-> r.result]
       IN  /\ \A i \in DOMAIN current : i.cf = "values" => i.count < r.result
           /\ current' = With(current, item, r.value)

RemoveBetween(r) ==
    r.op = "remove" /\ current' = Without(current, Between(current, r))

Read(r) ==
    /\ r.op = "read" /\ UNCHANGED current
    /\ LET members == InOrder({[item |-> i, value |-> current[i]] : i \in Between(current, r)})
       IN  r.result = [n \in DOMAIN members |-> members[n].value]

Request ==
    /\ Len(requests') = Len(requests) + 1 /\ IsPrefix(requests, requests')
    /\ LET r == Last(requests')
       IN  Set(r) \/ Delete(r) \/ Get(r) \/ Add(r) \/ RemoveBetween(r) \/ Read(r)
    /\ UNCHANGED stable

Commit == stable' = current /\ UNCHANGED <<requests, current>>

Lose == current' = stable /\ UNCHANGED <<requests, stable>>

Init == requests = <<>> /\ current = <<>> /\ stable = <<>>

Next == Request \/ Commit \/ Lose

Spec == Init /\ [][Next]_vars

=============================================================================
