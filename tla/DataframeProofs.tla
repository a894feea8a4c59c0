-------------------------- MODULE DataframeProofs ---------------------------
(***************************************************************************)
(* Proof that the state of a function is a map that commits and recovers   *)
(* as a whole: StateTransaction implements StateMap (StateIsMap), for any  *)
(* keys, ids and values, and any number of requests, checkpoints,          *)
(* failures and restarts.                                                  *)
(*                                                                         *)
(* A partition is what the records of the changelog up to its offset make  *)
(* of it (StoreReplayed), so that what recovery will make of it is what    *)
(* all committed records do, whichever store a restart leaves.  A          *)
(* transaction is open only over a partition without records behind its    *)
(* offset, and the records behind it are exactly the changes of the        *)
(* transaction that has prepared them, each with its last value            *)
(* (PreparedOK): to commit them is to commit what the functions saw.  The  *)
(* counter is not below that of any member of a collection, stored or      *)
(* cached (CounterAbove, TransactionOK), so that no member replaces        *)
(* another, and members of an id come in the order of their arrival.       *)
(*                                                                         *)
(* A store in memory takes an empty value for a deletion when it is        *)
(* recovered; the theorem excludes definitions that store one              *)
(* (NoEmptyBytesInMemory), and no others.                                  *)
(*                                                                         *)
(* Proof that a lookup in tables gives what a query gave within the time   *)
(* to live, and saves that query (CachedRowsFresh), for any fields, times  *)
(* to live and sizes of the cache, any number of messages, and changes of  *)
(* the table at any time between them.                                     *)
(*                                                                         *)
(* A use of the cache is a field of a message (Uses).  An entry has what   *)
(* the last query for its key gave (EntryQueried), and the keys of all     *)
(* entries behind it have been used after its own (EntryUsed): when it is  *)
(* dropped from a full cache, as many other keys as the cache can hold     *)
(* have been used after it, and still have when its key is queried again   *)
(* (Dropped).  Both are kept field by field within a message, whose        *)
(* results grow with them (FieldJoined).                                   *)
(***************************************************************************)
EXTENDS Dataframes, SequenceTheorems, FiniteSetTheorems, WellFoundedInduction, TLAPS

-----------------------------------------------------------------------------
(* Numbers and finite sets. *)

\* A set of numbers that has one has a least one.
LEMMA Least ==
  ASSUME NEW B, B \subseteq Nat, B # {}
  PROVE  \E n \in B : \A m \in B : n <= m
<1> DEFINE upTo(n) == 0..n
           C == {upTo(n) : n \in B}
<1>1. IsWellFoundedOn(StrictSubsetOrdering(Nat), FiniteSubsetsOf(Nat))
  BY FS_StrictSubsetOrderingWellFounded
<1>2. C \subseteq FiniteSubsetsOf(Nat) /\ C # {}
  <2>1. \A n \in Nat : IsFiniteSet(upTo(n)) /\ upTo(n) \subseteq Nat
    BY FS_Interval
  <2> QED BY <2>1 DEF FiniteSubsetsOf
<1>3. PICK T \in C : \A U \in C : ~ (<<U, T>> \in StrictSubsetOrdering(Nat))
  BY <1>1, <1>2, WFMin, Zenon
<1>4. PICK n \in B : T = upTo(n)
  BY <1>3
<1>5. \A m \in B : n <= m
  <2> SUFFICES ASSUME NEW m \in B, m < n PROVE FALSE
    OBVIOUS
  <2>1. upTo(m) \in C /\ upTo(m) \subseteq upTo(n) /\ upTo(m) # upTo(n)
    OBVIOUS
  <2>2. upTo(m) \in SUBSET Nat /\ upTo(n) \in SUBSET Nat
    OBVIOUS
  <2> HIDE DEF upTo
  <2>3. <<upTo(m), upTo(n)>> \in StrictSubsetOrdering(Nat)
    BY <2>1, <2>2 DEF StrictSubsetOrdering
  <2> QED BY <1>3, <1>4, <2>1, <2>3, Zenon
<1> QED BY <1>5

\* A set of numbers up to a bound has a greatest one.
LEMMA Greatest ==
  ASSUME NEW B, NEW u \in Nat, B \subseteq 0..u, B # {}
  PROVE  /\ Max(B) \in B
         /\ \A m \in B : m <= Max(B)
<1> DEFINE D == {u - n : n \in B}
<1>1. \A n \in B : n \in Int /\ u - n \in Nat
  OBVIOUS
<1>2. D \subseteq Nat /\ D # {}
  BY <1>1
<1>3. PICK d \in D : \A e \in D : d <= e
  <2> HIDE DEF D
  <2> QED BY <1>2, Least, Zenon
<1>4. PICK n \in B : d = u - n
  BY <1>3
<1>5. \A m \in B : n >= m
  <2> TAKE m \in B
  <2>1. u - n <= u - m
    BY <1>3, <1>4
  <2> QED BY <1>1, <2>1
<1>6. Max(B) \in B /\ \A m \in B : Max(B) >= m
  BY <1>5, Zenon DEF Max
<1> QED BY <1>1, <1>6

\* The larger of two numbers.
LEMMA MaxOfTwo ==
  ASSUME NEW x \in Int, NEW y \in Int
  PROVE  Max({x, y}) = IF x >= y THEN x ELSE y
BY DEF Max

\* A number, or zero if it is negative.
LEMMA MaxWithZero == \A x \in Int : Max({0, x}) = IF 0 >= x THEN 0 ELSE x
BY MaxOfTwo

\* SetToSeq() has the elements of a finite set.
LEMMA SequenceOfSet ==
  ASSUME NEW S, IsFiniteSet(S)
  PROVE  /\ SetToSeq(S) \in Seq(S)
         /\ Len(SetToSeq(S)) = Cardinality(S)
         /\ \A e \in S : \E n \in 1..Len(SetToSeq(S)) : SetToSeq(S)[n] = e
<1>1. PICK c \in Nat : c = Cardinality(S) /\ ExistsBijection(1..c, S)
  BY FS_CardinalityType
<1>2. \E f \in [1..c -> S] : IsInjective(f)
  <2>1. PICK f : f \in Bijection(1..c, S)
    BY <1>1 DEF ExistsBijection
  <2> QED BY <2>1 DEF Bijection, Injection, IsInjective
<1>3. PICK q : q = SetToSeq(S)
  OBVIOUS
<1>4. q \in [1..c -> S] /\ IsInjective(q)
  BY <1>1, <1>2, <1>3, Zenon DEF SetToSeq
<1>5. q \in Seq(S) /\ Len(q) = c
  BY <1>4
<1>6. ASSUME NEW e \in S, \A n \in 1..c : q[n] # e
      PROVE  FALSE
  <2>1. q \in [1..c -> S \ {e}]
    BY <1>4, <1>6
  <2>2. IsFiniteSet(S \ {e}) /\ Cardinality(S \ {e}) = c - 1
    BY <1>1, FS_RemoveElement
  <2>3. IsFiniteSet(1..c) /\ Cardinality(1..c) = c
    BY FS_Interval
  <2>4. \E x, y \in 1..c : x # y /\ q[x] = q[y]
    BY <2>1, <2>2, <2>3, FS_PigeonHole
  <2> QED BY <1>4, <2>4 DEF IsInjective
<1> QED BY <1>1, <1>3, <1>5, <1>6

-----------------------------------------------------------------------------
(***************************************************************************)
(* State.                                                                  *)
(***************************************************************************)

\* The items of a partition, and maps of them.
StateItem == [cf : {"default", "values", "counter"}, key : Key \cup {""}, id : Nat, count : Int]

ItemMap == UNION {[D -> Int] : D \in {E \in SUBSET StateItem : IsFiniteSet(E)}}

\* What a map has of an item, as a record of the changelog would.
At(map, i) == IF i \in DOMAIN map THEN <<map[i]>> ELSE Deletion

\* What the transaction makes of it.
View(t, map, i) ==
    IF i \in t.deleted THEN Deletion
    ELSE IF i \in DOMAIN t.updated THEN <<t.updated[i]>> ELSE At(map, i)

\* What the first records of the changelog make of an item.
RecordsFor(log, upto, i) == {n \in 1..upto : log[n].committed /\ log[n].item = i}

Replay(log, upto, i) ==
    IF RecordsFor(log, upto, i) = {} THEN Deletion
    ELSE log[Max(RecordsFor(log, upto, i))].value

\* The last record of an item decides.
LEMMA ReplayLast ==
  ASSUME NEW log, NEW upto \in Nat, NEW i, NEW n \in RecordsFor(log, upto, i),
         \A m \in RecordsFor(log, upto, i) : m <= n
  PROVE  Replay(log, upto, i) = log[n].value
<1> DEFINE ns == RecordsFor(log, upto, i)
<1>1. ns \subseteq 0..upto /\ ns # {}
  BY DEF RecordsFor
<1>2. Max(ns) \in ns /\ \A m \in ns : m <= Max(ns)
  <2> HIDE DEF ns
  <2> QED BY <1>1, Greatest, Zenon
<1>3. Max(ns) = n
  BY <1>1, <1>2
<1> QED BY <1>3 DEF Replay

\* The other records do not matter to an item.
LEMMA ReplaySame ==
  ASSUME NEW log, NEW upto \in Nat, NEW longer, NEW end \in Nat, NEW i, upto <= end,
         \A n \in 1..upto : longer[n] = log[n],
         \A n \in upto + 1..end : ~(longer[n].committed /\ longer[n].item = i)
  PROVE  Replay(longer, end, i) = Replay(log, upto, i)
<1> DEFINE ns == RecordsFor(log, upto, i)
<1>1. RecordsFor(longer, end, i) = ns
  BY DEF RecordsFor
<1>2. CASE ns = {}
  BY <1>1, <1>2 DEF Replay
<1>3. CASE ns # {}
  <2>1. ns \subseteq 0..upto
    BY DEF RecordsFor
  <2>2. Max(ns) \in ns
    <3> HIDE DEF ns
    <3> QED BY <1>3, <2>1, Greatest, Zenon
  <2>3. longer[Max(ns)] = log[Max(ns)]
    <3>1. ns \subseteq 1..upto
      BY DEF RecordsFor
    <3> HIDE DEF ns
    <3> QED BY <2>2, <3>1
  <2> QED BY <1>1, <1>3, <2>3, Zenon DEF Replay
<1> QED BY <1>2, <1>3

\* A value that is a function, and two that have the same of every item.
IsMap(f) == f = [i \in DOMAIN f |-> f[i]]
SameAt(f, g) == \A i : At(f, i) = At(g, i)

\* Two maps that have the same of every item are the same.
LEMMA SameMap ==
  ASSUME NEW f, NEW g, IsMap(f), IsMap(g), SameAt(f, g)
  PROVE  f = g
<1> USE DEF IsMap, SameAt
<1>1. \A i : i \in DOMAIN f <=> i \in DOMAIN g
  BY DEF At, Deletion
<1>2. DOMAIN f = DOMAIN g
  BY <1>1
<1>3. \A i \in DOMAIN f : f[i] = g[i]
  <2> TAKE i \in DOMAIN f
  <2>1. <<f[i]>> = <<g[i]>>
    BY <1>2 DEF At
  <2> QED BY <2>1
<1>4. [i \in DOMAIN f |-> f[i]] = [i \in DOMAIN g |-> g[i]]
  BY <1>2, <1>3
<1> QED BY <1>4

\* What a changed map has of an item.
LEMMA AtWith == \A map, x, v, i : At(With(map, x, v), i) = IF i = x THEN <<v>> ELSE At(map, i)
BY DEF At, With

\* An item that is deleted is not there.
LEMMA AtWithout ==
  \A map, xs, i : At(Without(map, xs), i) = IF i \in xs THEN Deletion ELSE At(map, i)
BY DEF At, Without

\* What is written to a store is what its transaction shows.
LEMMA AtWritten == \A map, t, i : At(Written(map, t), i) = View(t, map, i)
BY DEF At, Written, View

\* The functions see the transaction over the partition.
LEMMA SeenWritten ==
  /\ transaction.status \in {"started", "prepared"} =>
         Seen = Written(partition.items, transaction)
  /\ transaction'.status \in {"started", "prepared"} =>
         Seen' = Written(partition'.items, transaction')
<1>1. ASSUME transaction.status \in {"started", "prepared"}
      PROVE  Seen = Written(partition.items, transaction)
  <2>1. {i \in DOMAIN partition.items \cup DOMAIN transaction.updated : Exists(transaction, i)}
            = (DOMAIN partition.items \cup DOMAIN transaction.updated) \ transaction.deleted
    BY DEF Exists
  <2> QED BY <1>1, <2>1 DEF Seen, Written, Get
<1>2. ASSUME transaction'.status \in {"started", "prepared"}
      PROVE  Seen' = Written(partition'.items, transaction')
  <2>1. {i \in DOMAIN partition'.items \cup DOMAIN transaction'.updated : Exists(transaction, i)'}
            = (DOMAIN partition'.items \cup DOMAIN transaction'.updated) \ transaction'.deleted
    BY DEF Exists
  <2> QED BY <1>2, <2>1 DEF Seen, Written, Get
<1> QED BY <1>1, <1>2

\* The types of records, of transactions, and of the state of a function.
Record == [item : StateItem, value : {Deletion} \cup {<<v>> : v \in Int}, committed : BOOLEAN]

StateTransactions ==
    [status : {"none", "started", "prepared", "committed", "failed"}, updated : ItemMap,
     deleted : {E \in SUBSET StateItem : IsFiniteSet(E)}, empty : BOOLEAN, counter : Int]

StateTypes ==
    /\ transaction \in StateTransactions
    /\ partition \in [items : ItemMap, offset : Int]
    /\ changelog \in Seq(Record)
    /\ lastOffset \in Int
    /\ partition.offset \in Unset..Len(changelog) - 1

\* The partition is what the records of the changelog before its offset have made of it.
StoreReplayed == \A i : At(partition.items, i) = Replay(changelog, partition.offset + 1, i)

\* A partition with its records behind its offset applied.
RestoredOf(p, log) ==
    LET records == {n \in p.offset + 2..Len(log) : log[n].committed}
        items   == {log[n].item : n \in records}
        value   == [i \in items |-> log[Max({n \in records : log[n].item = i})].value]
        present == (DOMAIN p.items \ items) \cup {i \in items : value[i] # Deletion}
    IN  [i \in present |-> IF i \in items THEN value[i][1] ELSE p.items[i]]

\* Restored is that of the partition and the changelog.
LEMMA RestoredIs ==
  /\ Restored = RestoredOf(partition, changelog)
  /\ Restored' = RestoredOf(partition', changelog')
BY DEF Restored, RestoredOf

\* The partition, once recovered, is what all records make of it.
LEMMA RestoredReplay ==
  ASSUME NEW p \in [items : ItemMap, offset : Int], NEW log \in Seq(Record),
         p.offset \in Unset..Len(log) - 1,
         \A i : At(p.items, i) = Replay(log, p.offset + 1, i)
  PROVE  \A i : At(RestoredOf(p, log), i) = Replay(log, Len(log), i)
<1> TAKE i
<1> DEFINE last == Len(log)
           base == p.offset + 1
           records == {n \in p.offset + 2..last : log[n].committed}
           items == {log[n].item : n \in records}
           of(x) == {n \in records : log[n].item = x}
           value == [x \in items |-> log[Max(of(x))].value]
           present == (DOMAIN p.items \ items) \cup {x \in items : value[x] # Deletion}
<1>1. RestoredOf(p, log) = [x \in present |-> IF x \in items THEN value[x][1] ELSE p.items[x]]
  BY DEF RestoredOf
<1>2. last \in Nat /\ base \in Nat /\ base <= last /\ p.offset \in Int
  BY DEF Unset
<1>3. \A n \in 1..last : log[n] \in Record
  OBVIOUS
<1>4. CASE i \in items
  <2>1. of(i) # {} /\ of(i) \subseteq 0..last
    BY <1>2, <1>4
  <2>2. PICK n \in of(i) : n = Max(of(i)) /\ \A m \in of(i) : m <= n
    <3> HIDE DEF of, last
    <3> QED BY <1>2, <2>1, Greatest, Zenon
  <2>3. n \in RecordsFor(log, last, i)
    BY <1>2, <2>2 DEF RecordsFor
  <2>4. \A m \in RecordsFor(log, last, i) : m <= n
    BY <1>2, <2>2 DEF RecordsFor
  <2>5. Replay(log, last, i) = log[n].value
    <3> HIDE DEF last
    <3> QED BY <1>2, <2>3, <2>4, ReplayLast
  <2>6. value[i] = log[n].value
    BY <1>4, <2>2
  <2>7. n \in 1..last
    BY <1>2, <2>2
  <2>8. value[i] = Deletion \/ \E v \in Int : value[i] = <<v>>
    BY <1>3, <2>6, <2>7 DEF Record
  <2>9. i \in present <=> value[i] # Deletion
    BY <1>4
  <2>10. At(RestoredOf(p, log), i) = IF i \in present THEN <<value[i][1]>> ELSE Deletion
    <3> HIDE DEF present, value, items
    <3> QED BY <1>1, <1>4 DEF At
  <2>11. At(RestoredOf(p, log), i) = value[i]
    <3> HIDE DEF present, value, items
    <3>1. CASE value[i] = Deletion
      BY <2>9, <2>10, <3>1, Zenon
    <3>2. CASE \E v \in Int : value[i] = <<v>>
      <4>1. PICK v \in Int : value[i] = <<v>>
        BY <3>2
      <4>2. <<value[i][1]>> = value[i] /\ value[i] # Deletion
        <5>1. <<v>>[1] = v /\ <<v>> # Deletion
          BY DEF Deletion
        <5> QED BY <4>1, <5>1, Zenon
      <4> QED BY <2>9, <2>10, <4>2, Zenon
    <3> QED BY <2>8, <3>1, <3>2
  <2> HIDE DEF value, items, records, present
  <2> QED BY <2>5, <2>6, <2>11, Zenon
<1>5. CASE i \notin items
  <2>1. \A n \in base + 1..last : ~(log[n].committed /\ log[n].item = i)
    BY <1>2, <1>5
  <2>2. Replay(log, last, i) = Replay(log, base, i)
    <3> HIDE DEF last, base
    <3> QED BY <1>2, <2>1, ReplaySame
  <2>3. i \in present <=> i \in DOMAIN p.items
    BY <1>5
  <2>4. At(RestoredOf(p, log), i) = At(p.items, i)
    <3> HIDE DEF present, value, items
    <3> QED BY <1>1, <1>5, <2>3 DEF At
  <2> QED BY <2>2, <2>4
<1> QED BY <1>4, <1>5

\* What a transaction has is as its calls leave it: each item once, and the counter, which
\* is written when the transaction is prepared, not below that of any collected value.
TransactionOK(t) ==
    /\ t \in StateTransactions
    /\ DOMAIN t.updated \cap t.deleted = {}
    /\ t.empty <=> DOMAIN t.updated = {} /\ t.deleted = {}
    /\ t.counter \in Nat \cup {Unset}
    /\ \A i \in t.deleted : i.cf \in {"default", "values"}
    /\ \A i \in DOMAIN t.updated :
          \/ i.cf \in {"default", "values"}
          \/ t.status # "started" /\ t.counter # Unset /\ i = GlobalCounter
                /\ t.updated[i] = t.counter
    /\ t.counter = Unset => \A i \in DOMAIN t.updated : i.cf = "default"
    /\ t.counter # Unset =>
          /\ \A i \in DOMAIN t.updated \cup DOMAIN partition.items :
                i.cf = "values" => i.count <= t.counter
          /\ t.status # "started" => GlobalCounter \in DOMAIN t.updated

\* The changelog behind the partition's offset is what the transaction has prepared.
PreparedOK ==
    /\ \A n \in partition.offset + 2..Len(changelog) :
          /\ changelog[n].committed = (transaction.status = "committed")
          /\ changelog[n].item \in DOMAIN transaction.updated \cup transaction.deleted
          /\ changelog[n].value = View(transaction, <<>>, changelog[n].item)
    /\ \A i \in DOMAIN transaction.updated \cup transaction.deleted :
          \E n \in partition.offset + 2..Len(changelog) : changelog[n].item = i
    /\ lastOffset = Len(changelog) - 1 \/ partition.offset = Len(changelog) - 1

\* The transaction in each of its stages.
ActiveOK ==
    /\ transaction.status \in {"started", "prepared", "committed"} => TransactionOK(transaction)
    /\ transaction.status = "started" => partition.offset = Len(changelog) - 1
    /\ transaction.status \in {"prepared", "committed"} => PreparedOK

\* The counter of a partition is not below that of any collected value.
CounterAbove(map) ==
    /\ GlobalCounter \in DOMAIN map => map[GlobalCounter] \in Nat
    /\ \A i \in DOMAIN map :
          i.cf = "values" => GlobalCounter \in DOMAIN map /\ i.count <= map[GlobalCounter]

\* A store in memory holds no value that it would take for a deletion.
MemoryOK ==
    definition.backend = "memory" =>
        /\ transaction.counter = Unset
        /\ \A i \in DOMAIN transaction.updated : transaction.updated[i] # EmptyBytes
        /\ \A n \in 1..Len(changelog) : changelog[n].value # <<EmptyBytes>>

\* The requests are a sequence.
RequestsOK == arrived \in Seq({arrived[n] : n \in DOMAIN arrived})

\* The inductive invariant.
StateInv ==
    /\ definition \in Definitions
    /\ Stating => /\ RequestsOK /\ StateTypes /\ StoreReplayed /\ ActiveOK
                  /\ CounterAbove(Restored) /\ MemoryOK

\* No definition stores an empty value in memory.
NoEmptyBytesInMemory ==
    \A d \in Definitions : d.kind = "state" /\ d.backend = "memory" => EmptyBytes \notin d.values

-----------------------------------------------------------------------------
\* A definition of a function with state is one of no other kind.
LEMMA StatingDefinition ==
  ASSUME definition \in Definitions, Stating
  PROVE  /\ StateDefinition(definition)
         /\ Keys(definition) \subseteq Key
         /\ ~Windowed /\ ~Aggregating /\ ~Joined /\ ~TableLookup /\ ~Configured
BY DefinitionAssumption DEF Stating, AggregatesDefinition, JoinDefinition, TableDefinition,
   ConfigurationDefinition, Windowed, Aggregating, Joined, TableLookup, Configured

\* Maps have numbers, and as many items as a step adds.
LEMMA MapTypes ==
  /\ <<>> \in ItemMap
  /\ \A m \in ItemMap : /\ DOMAIN m \subseteq StateItem /\ IsFiniteSet(DOMAIN m)
                        /\ m = [i \in DOMAIN m |-> m[i]] /\ \A i \in DOMAIN m : m[i] \in Int
  /\ \A D : D \subseteq StateItem /\ IsFiniteSet(D) => \A m \in [D -> Int] : m \in ItemMap
<1>1. <<>> \in ItemMap
  <2>1. IsFiniteSet({}) /\ {} \subseteq StateItem
    BY FS_EmptySet
  <2>2. <<>> \in [{} -> Int]
    OBVIOUS
  <2> QED BY <2>1, <2>2 DEF ItemMap
<1>2. ASSUME NEW m \in ItemMap
      PROVE  /\ DOMAIN m \subseteq StateItem /\ IsFiniteSet(DOMAIN m)
             /\ m = [i \in DOMAIN m |-> m[i]] /\ \A i \in DOMAIN m : m[i] \in Int
  <2>1. PICK D \in SUBSET StateItem : IsFiniteSet(D) /\ m \in [D -> Int]
    BY DEF ItemMap
  <2> QED BY <2>1
<1>3. ASSUME NEW D, D \subseteq StateItem, IsFiniteSet(D), NEW m \in [D -> Int]
      PROVE  m \in ItemMap
  BY <1>3 DEF ItemMap
<1> QED BY <1>1, <1>2, <1>3

\* Changed maps are maps.
LEMMA MapChanges ==
  ASSUME NEW m \in ItemMap
  PROVE  /\ \A x \in StateItem, v \in Int : With(m, x, v) \in ItemMap
         /\ \A xs : Without(m, xs) \in ItemMap
<1>1. DOMAIN m \subseteq StateItem /\ IsFiniteSet(DOMAIN m) /\ \A i \in DOMAIN m : m[i] \in Int
  BY MapTypes
<1>2. ASSUME NEW x \in StateItem, NEW v \in Int
      PROVE  With(m, x, v) \in ItemMap
  <2>1. IsFiniteSet(DOMAIN m \cup {x}) /\ DOMAIN m \cup {x} \subseteq StateItem
    BY <1>1, FS_AddElement
  <2>2. With(m, x, v) \in [DOMAIN m \cup {x} -> Int]
    BY <1>1 DEF With
  <2> QED BY <2>1, <2>2, MapTypes
<1>3. ASSUME NEW xs
      PROVE  Without(m, xs) \in ItemMap
  <2>1. IsFiniteSet(DOMAIN m \ xs) /\ DOMAIN m \ xs \subseteq StateItem
    BY <1>1, FS_Subset
  <2>2. Without(m, xs) \in [DOMAIN m \ xs -> Int]
    BY <1>1 DEF Without
  <2> QED BY <2>1, <2>2, MapTypes
<1> QED BY <1>2, <1>3

-----------------------------------------------------------------------------
(* What the calls of functions do to a transaction. *)

\* PartitionTransactionCache.set(), field by field.
LEMMA CacheSetFields ==
  ASSUME NEW t \in StateTransactions, NEW x \in StateItem, NEW v \in Int
  PROVE  /\ CacheSet(t, x, v) \in StateTransactions
         /\ CacheSet(t, x, v).updated = With(t.updated, x, v)
         /\ CacheSet(t, x, v).deleted = t.deleted \ {x}
         /\ CacheSet(t, x, v).empty = FALSE
         /\ CacheSet(t, x, v).status = t.status
         /\ CacheSet(t, x, v).counter = t.counter
<1>1. t.updated \in ItemMap /\ t.deleted \in SUBSET StateItem /\ IsFiniteSet(t.deleted)
  BY DEF StateTransactions
<1>2. PICK u \in ItemMap : u = With(t.updated, x, v)
  BY <1>1, MapChanges
<1>3. PICK d \in {E \in SUBSET StateItem : IsFiniteSet(E)} : d = t.deleted \ {x}
  BY <1>1, FS_RemoveElement
<1>4. CacheSet(t, x, v) = [t EXCEPT !.updated = u, !.deleted = d, !.empty = FALSE]
  BY <1>2, <1>3, Zenon DEF CacheSet
<1>5. PICK c : c = [t EXCEPT !.updated = u, !.deleted = d, !.empty = FALSE]
  OBVIOUS
<1>6. /\ c \in StateTransactions
      /\ c.updated = u /\ c.deleted = d
      /\ c.empty = FALSE /\ c.status = t.status /\ c.counter = t.counter
  BY <1>5 DEF StateTransactions
<1> QED BY <1>2, <1>3, <1>4, <1>5, <1>6, Zenon

\* PartitionTransactionCache.delete(), field by field.
LEMMA CacheDeleteFields ==
  ASSUME NEW t \in StateTransactions, NEW xs \in SUBSET StateItem, IsFiniteSet(xs)
  PROVE  /\ CacheDelete(t, xs) \in StateTransactions
         /\ CacheDelete(t, xs).updated = Without(t.updated, xs)
         /\ CacheDelete(t, xs).deleted = t.deleted \cup xs
         /\ CacheDelete(t, xs).empty <=> t.empty /\ xs = {}
         /\ CacheDelete(t, xs).status = t.status
         /\ CacheDelete(t, xs).counter = t.counter
<1>1. /\ t.updated \in ItemMap /\ t.deleted \in SUBSET StateItem /\ IsFiniteSet(t.deleted)
      /\ t.empty \in BOOLEAN
  BY DEF StateTransactions
<1>2. PICK u \in ItemMap : u = Without(t.updated, xs)
  BY <1>1, MapChanges
<1>3. PICK d \in {E \in SUBSET StateItem : IsFiniteSet(E)} : d = t.deleted \cup xs
  BY <1>1, FS_Union
<1>4. PICK e \in BOOLEAN : e = (t.empty /\ xs = {})
  BY <1>1
<1>5. CacheDelete(t, xs) = [t EXCEPT !.updated = u, !.deleted = d, !.empty = e]
  BY <1>2, <1>3, <1>4, Zenon DEF CacheDelete
<1>6. PICK c : c = [t EXCEPT !.updated = u, !.deleted = d, !.empty = e]
  OBVIOUS
<1>7. /\ c \in StateTransactions
      /\ c.updated = u /\ c.deleted = d
      /\ c.empty = e /\ c.status = t.status /\ c.counter = t.counter
  BY <1>6 DEF StateTransactions
<1>8. c = CacheDelete(t, xs)
  BY <1>5, <1>6
<1> QED BY <1>2, <1>3, <1>4, <1>7, <1>8, Zenon

\* After set() functions see the value.
LEMMA CacheSetOK ==
  ASSUME NEW t, TransactionOK(t), t.status = "started", NEW x \in StateItem, NEW v \in Int,
         \/ x.cf = "default"
         \/ x.cf = "values" /\ t.counter # Unset /\ x.count <= t.counter
  PROVE  /\ TransactionOK(CacheSet(t, x, v))
         /\ CacheSet(t, x, v).status = "started" /\ CacheSet(t, x, v).counter = t.counter
         /\ CacheSet(t, x, v).updated = With(t.updated, x, v)
         /\ \A map, i : View(CacheSet(t, x, v), map, i) = IF i = x THEN <<v>> ELSE View(t, map, i)
<1>1. PICK c : c = CacheSet(t, x, v)
  OBVIOUS
<1>2. /\ c \in StateTransactions
      /\ c.updated = With(t.updated, x, v) /\ c.deleted = t.deleted \ {x}
      /\ c.empty = FALSE /\ c.status = t.status /\ c.counter = t.counter
  <2>1. t \in StateTransactions
    BY DEF TransactionOK
  <2> QED BY <1>1, <2>1, CacheSetFields, Zenon
<1>3. DOMAIN c.updated = DOMAIN t.updated \cup {x}
  BY <1>2 DEF With
<1>4. TransactionOK(c)
  <2>1. c.empty <=> DOMAIN c.updated = {} /\ c.deleted = {}
    BY <1>2, <1>3
  <2>2. DOMAIN c.updated \cap c.deleted = {}
    BY <1>2, <1>3 DEF TransactionOK
  <2>3. \A i \in DOMAIN c.updated : i.cf \in {"default", "values"}
    BY <1>3 DEF TransactionOK
  <2>4. c.counter = Unset => \A i \in DOMAIN c.updated : i.cf = "default"
    BY <1>2, <1>3 DEF TransactionOK
  <2>5. c.counter # Unset => \A i \in DOMAIN c.updated \cup DOMAIN partition.items :
                i.cf = "values" => i.count <= c.counter
    BY <1>2, <1>3 DEF TransactionOK
  <2> QED BY <1>2, <2>1, <2>2, <2>3, <2>4, <2>5 DEF TransactionOK
<1>5. ASSUME NEW map, NEW i
      PROVE  View(c, map, i) = IF i = x THEN <<v>> ELSE View(t, map, i)
  <2>1. i \in DOMAIN c.updated => c.updated[i] = IF i = x THEN v ELSE t.updated[i]
    BY <1>2 DEF With
  <2> QED BY <1>2, <1>3, <2>1 DEF View
<1> QED BY <1>1, <1>2, <1>4, <1>5, Zenon

\* After delete() functions do not see the items.
LEMMA CacheDeleteOK ==
  ASSUME NEW t, TransactionOK(t), t.status = "started",
         NEW xs \in SUBSET StateItem, IsFiniteSet(xs), \A x \in xs : x.cf \in {"default", "values"}
  PROVE  /\ TransactionOK(CacheDelete(t, xs))
         /\ CacheDelete(t, xs).status = "started" /\ CacheDelete(t, xs).counter = t.counter
         /\ CacheDelete(t, xs).updated = Without(t.updated, xs)
         /\ \A map, i : View(CacheDelete(t, xs), map, i) =
                            IF i \in xs THEN Deletion ELSE View(t, map, i)
<1>1. PICK c : c = CacheDelete(t, xs)
  OBVIOUS
<1>2. /\ c \in StateTransactions
      /\ c.updated = Without(t.updated, xs) /\ c.deleted = t.deleted \cup xs
      /\ (c.empty <=> t.empty /\ xs = {}) /\ c.status = t.status /\ c.counter = t.counter
  <2>1. t \in StateTransactions
    BY DEF TransactionOK
  <2> QED BY <1>1, <2>1, CacheDeleteFields, Zenon
<1>3. /\ DOMAIN c.updated = DOMAIN t.updated \ xs
      /\ \A i \in DOMAIN c.updated : c.updated[i] = t.updated[i]
  BY <1>2 DEF Without
<1>4. TransactionOK(c)
  <2>1. c.empty <=> DOMAIN c.updated = {} /\ c.deleted = {}
    <3>1. t.empty <=> DOMAIN t.updated = {} /\ t.deleted = {}
      BY DEF TransactionOK
    <3> QED BY <1>2, <1>3, <3>1
  <2>2. DOMAIN c.updated \cap c.deleted = {}
    BY <1>2, <1>3 DEF TransactionOK
  <2>3. \A i \in DOMAIN c.updated : i.cf \in {"default", "values"}
    BY <1>3 DEF TransactionOK
  <2>4. c.counter = Unset => \A i \in DOMAIN c.updated : i.cf = "default"
    BY <1>2, <1>3 DEF TransactionOK
  <2>5. c.counter # Unset => \A i \in DOMAIN c.updated \cup DOMAIN partition.items :
                i.cf = "values" => i.count <= c.counter
    BY <1>2, <1>3 DEF TransactionOK
  <2>6. \A i \in c.deleted : i.cf \in {"default", "values"}
    BY <1>2 DEF TransactionOK
  <2>7. c.counter \in Nat \cup {Unset} /\ c.status = "started"
    BY <1>2 DEF TransactionOK
  <2> QED BY <1>2, <2>1, <2>2, <2>3, <2>4, <2>5, <2>6, <2>7 DEF TransactionOK
<1>5. ASSUME NEW map, NEW i
      PROVE  View(c, map, i) = IF i \in xs THEN Deletion ELSE View(t, map, i)
  BY <1>2, <1>3 DEF View
<1> QED BY <1>1, <1>2, <1>4, <1>5, Zenon

\* The items of a range, which are in the partition or in the transaction.
LEMMA GetItemsTypes ==
  ASSUME StateTypes, NEW key, NEW from, NEW to
  PROVE  /\ GetItems(transaction, key, from, to) \subseteq StateItem
         /\ IsFiniteSet(GetItems(transaction, key, from, to))
         /\ \A x \in GetItems(transaction, key, from, to) : x.cf = "values"
<1>1. /\ DOMAIN partition.items \subseteq StateItem /\ IsFiniteSet(DOMAIN partition.items)
      /\ DOMAIN transaction.updated \subseteq StateItem /\ IsFiniteSet(DOMAIN transaction.updated)
  BY MapTypes DEF StateTypes, StateTransactions
<1>2. PICK D : D = DOMAIN partition.items \cup DOMAIN transaction.updated
  OBVIOUS
<1>3. D \subseteq StateItem /\ IsFiniteSet(D)
  BY <1>1, <1>2, FS_Union
<1>4. PICK xs : xs = GetItems(transaction, key, from, to)
  OBVIOUS
<1>5. xs \subseteq D /\ \A x \in xs : x.cf = "values"
  BY <1>2, <1>4 DEF GetItems
<1>6. IsFiniteSet(xs)
  BY <1>3, <1>5, FS_Subset
<1> QED BY <1>3, <1>4, <1>5, <1>6

-----------------------------------------------------------------------------
(* The invariant. *)

\* A store in memory takes no value of the transaction for a deletion.
MemoryFits(t) ==
    definition.backend = "memory" =>
        t.counter = Unset /\ \A i \in DOMAIN t.updated : t.updated[i] # EmptyBytes

\* A step that changes nothing but the transaction.
LEMMA TransactionKeeps ==
  ASSUME StateInv, Stating, definition' = definition, RequestsOK',
         NEW t \in StateTransactions, Becomes(t), MemoryFits(t),
         \/ t.status \in {"none", "failed"}
         \/ t.status = "started" /\ TransactionOK(t) /\ partition.offset = Len(changelog) - 1
  PROVE  StateInv'
<1>1. /\ transaction' = t /\ partition' = partition /\ changelog' = changelog
      /\ lastOffset' = lastOffset
  BY DEF Becomes
<1>2. StateTypes'
  BY <1>1 DEF StateInv, StateTypes
<1>3. StoreReplayed'
  BY <1>1 DEF StateInv, StoreReplayed
<1>4. Restored' = Restored
  BY <1>1 DEF Restored
<1>5. ActiveOK'
  BY <1>1 DEF ActiveOK, TransactionOK
<1>6. MemoryOK'
  BY <1>1 DEF StateInv, MemoryOK, MemoryFits
<1> QED BY <1>2, <1>3, <1>4, <1>5, <1>6 DEF StateInv, CounterAbove

\* One more request.
LEMMA OneMoreRequest ==
  ASSUME RequestsOK, NEW m, Arrives(m)
  PROVE  /\ RequestsOK'
         /\ Len(arrived') = Len(arrived) + 1 /\ arrived'[Len(arrived')] = m
         /\ SubSeq(arrived', 1, Len(arrived)) = SubSeq(arrived, 1, Len(arrived))
<1>1. PICK S : S = {arrived[n] : n \in DOMAIN arrived} \cup {m}
  OBVIOUS
<1>2. arrived \in Seq(S) /\ m \in S
  BY <1>1 DEF RequestsOK
<1>3. PICK q : q = Append(arrived, m)
  OBVIOUS
<1>4. /\ q \in Seq(S) /\ Len(q) = Len(arrived) + 1 /\ q[Len(arrived) + 1] = m
      /\ \A n \in 1..Len(arrived) : q[n] = arrived[n]
  BY <1>2, <1>3, AppendProperties
<1>5. q \in Seq({q[n] : n \in DOMAIN q})
  BY <1>4
<1>6. arrived' = q
  BY <1>3 DEF Arrives
<1>7. SubSeq(q, 1, Len(arrived)) = SubSeq(arrived, 1, Len(arrived))
  <2>1. SubSeq(q, 1, Len(arrived)) = arrived
    BY <1>2, <1>3, AppendProperties, SMT
  <2>2. SubSeq(arrived, 1, Len(arrived)) = arrived
    BY <1>2
  <2> QED BY <2>1, <2>2
<1> QED BY <1>4, <1>5, <1>6, <1>7 DEF RequestsOK

\* What the invariant says of an open transaction.
LEMMA StartedFacts ==
  ASSUME StateInv, Stating, Started
  PROVE  /\ TransactionOK(transaction) /\ transaction \in StateTransactions
         /\ transaction.status = "started"
         /\ partition.offset = Len(changelog) - 1 /\ MemoryFits(transaction) /\ RequestsOK
         /\ StateTypes /\ StoreReplayed
BY DEF StateInv, ActiveOK, Started, TransactionOK, MemoryOK, MemoryFits

-----------------------------------------------------------------------------
(* The requests. *)

\* What functions see of a transaction over a partition: all but the counter.
Shown(items, t) == Without(Written(items, t), {GlobalCounter})

\* What is shown of an item.
LEMMA ShownAt ==
  ASSUME NEW items, NEW t
  PROVE  /\ \A i : At(Shown(items, t), i) =
                       IF i = GlobalCounter THEN Deletion ELSE View(t, items, i)
         /\ Shown(items, t) = [i \in DOMAIN Shown(items, t) |-> Shown(items, t)[i]]
<1>1. \A i : At(Shown(items, t), i) =
                 IF i \in {GlobalCounter} THEN Deletion ELSE At(Written(items, t), i)
  BY AtWithout, Zenon DEF Shown
<1>2. \A i : At(Written(items, t), i) = View(t, items, i)
  BY AtWritten, Zenon
<1>3. PICK m : m = Written(items, t)
  OBVIOUS
<1>4. Without(m, {GlobalCounter}) =
          [i \in DOMAIN Without(m, {GlobalCounter}) |-> Without(m, {GlobalCounter})[i]]
  BY DEF Without
<1> QED BY <1>1, <1>2, <1>3, <1>4 DEF Shown

\* The maps of the specification, before and after a step.
LEMMA Mapped ==
  ASSUME Stating, definition' = definition
  PROVE  /\ Ours(Seen) = Without(Seen, {GlobalCounter})
         /\ Ours(Seen)' = Without(Seen', {GlobalCounter})
         /\ Ours(Restored) = Without(Restored, {GlobalCounter})
         /\ Ours(Restored)' = Without(Restored', {GlobalCounter})
         /\ (IF Stating THEN arrived ELSE <<>>) = arrived
         /\ (IF Stating THEN arrived ELSE <<>>)' = arrived'
BY DEF Ours, Stating, Without

\* A request, as functions see it.
LEMMA RequestMapped ==
  ASSUME StateInv, Stating, Started, definition' = definition,
         NEW t, t.status = "started", Becomes(t)
  PROVE  /\ Ours(Seen) = Shown(partition.items, transaction)
         /\ Ours(Seen)' = Shown(partition.items, t)
         /\ Ours(Restored)' = Ours(Restored)
<1>1. transaction' = t /\ partition' = partition /\ changelog' = changelog
  BY DEF Becomes
<1>2. /\ Seen = Written(partition.items, transaction)
      /\ Seen' = Written(partition'.items, transaction')
  BY <1>1, SeenWritten DEF Started
<1>3. Restored' = Restored
  BY <1>1, RestoredIs
<1> QED BY <1>1, <1>2, <1>3, Mapped DEF Shown

\* A step with one more request is one of the specification, if its operation is.
LEMMA RequestRefines ==
  ASSUME Stating, definition' = definition, RequestsOK, NEW m, Arrives(m),
         Ours(Restored)' = Ours(Restored),
         Map!Set(m) \/ Map!Delete(m) \/ Map!Get(m) \/ Map!Add(m) \/ Map!RemoveBetween(m)
            \/ Map!Read(m)
  PROVE  Map!Next
<1>1. /\ Len(arrived') = Len(arrived) + 1 /\ arrived'[Len(arrived')] = m
      /\ SubSeq(arrived', 1, Len(arrived)) = SubSeq(arrived, 1, Len(arrived))
      /\ Len(arrived) \in Nat
  <2>1. Len(arrived) \in Nat
    BY DEF RequestsOK
  <2> QED BY <2>1, OneMoreRequest, Zenon
<1>2. Map!IsPrefix(arrived, arrived') /\ Map!Last(arrived') = m
  BY <1>1 DEF Map!IsPrefix, Map!Last
<1>3. Map!Request
  BY <1>1, <1>2, Mapped DEF Map!Request
<1> QED BY <1>3 DEF Map!Next

\* Items have their places in the store.
LEMMA ItemTypes ==
  /\ \A key \in Key, id \in Nat : Named(key, id) \in StateItem /\ Named(key, id).cf = "default"
  /\ \A key \in Key, id \in Nat, count \in Int :
        Collected(key, id, count) \in StateItem /\ Collected(key, id, count).cf = "values"
  /\ GlobalCounter \in StateItem /\ GlobalCounter.cf = "counter"
<1>1. ASSUME NEW key \in Key, NEW id \in Nat
      PROVE  Named(key, id) \in StateItem /\ Named(key, id).cf = "default"
  <2>1. Named(key, id).cf = "default"
    BY DEF Named
  <2>2. PICK zero \in Int : zero = 0
    OBVIOUS
  <2>3. [cf |-> "default", key |-> key, id |-> id, count |-> zero] \in StateItem
    BY DEF StateItem
  <2> QED BY <2>1, <2>2, <2>3 DEF Named
<1>2. ASSUME NEW key \in Key, NEW id \in Nat, NEW count \in Int
      PROVE  Collected(key, id, count) \in StateItem /\ Collected(key, id, count).cf = "values"
  BY DEF Collected, StateItem
<1>3. GlobalCounter \in StateItem /\ GlobalCounter.cf = "counter"
  BY DEF GlobalCounter, StateItem
<1> QED BY <1>1, <1>2, <1>3

\* A request that leaves an open transaction open: the invariant, and what functions see.
LEMMA RequestKeeps ==
  ASSUME StateInv, Stating, Started, definition' = definition,
         NEW m, Arrives(m),
         NEW t, Becomes(t), TransactionOK(t), t.status = "started", MemoryFits(t)
  PROVE  /\ StateInv'
         /\ Ours(Seen) = Shown(partition.items, transaction)
         /\ Ours(Seen)' = Shown(partition.items, t)
         /\ Ours(Restored)' = Ours(Restored)
<1>1. partition.offset = Len(changelog) - 1 /\ RequestsOK
  BY StartedFacts
<1>2. RequestsOK'
  BY <1>1, OneMoreRequest, Zenon
<1>3. t \in StateTransactions
  BY DEF TransactionOK
<1>4. StateInv'
  BY <1>1, <1>2, <1>3, TransactionKeeps, Zenon
<1>5. /\ Ours(Seen) = Shown(partition.items, transaction)
      /\ Ours(Seen)' = Shown(partition.items, t)
      /\ Ours(Restored)' = Ours(Restored)
  BY RequestMapped
<1> QED BY <1>4, <1>5, Zenon

\* A request that changes nothing.
LEMMA RequestKeepsAll ==
  ASSUME StateInv, Stating, Started, definition' = definition,
         NEW m, Arrives(m), UNCHANGED stateVars
  PROVE  /\ StateInv'
         /\ Ours(Seen) = Shown(partition.items, transaction)
         /\ Ours(Seen)' = Ours(Seen)
         /\ Ours(Restored)' = Ours(Restored)
<1>1. PICK t : t = transaction
  OBVIOUS
<1>2. TransactionOK(t) /\ t.status = "started" /\ MemoryFits(t)
  BY <1>1, StartedFacts
<1>3. Becomes(t)
  BY <1>1 DEF stateVars, Becomes
<1>4. /\ StateInv'
      /\ Ours(Seen) = Shown(partition.items, transaction)
      /\ Ours(Seen)' = Shown(partition.items, t)
      /\ Ours(Restored)' = Ours(Restored)
  BY <1>2, <1>3, RequestKeeps, Zenon
<1> QED BY <1>1, <1>4, Zenon

\* Maps that show the same of every item but the counter are the same.
LEMMA ShownSame ==
  ASSUME NEW items, NEW t, NEW g, g = [i \in DOMAIN g |-> g[i]],
         \A i : At(g, i) = IF i = GlobalCounter THEN Deletion ELSE View(t, items, i)
  PROVE  Shown(items, t) = g
<1>1. PICK f : f = Shown(items, t)
  OBVIOUS
<1>2. IsMap(f) /\ IsMap(g)
  BY <1>1, ShownAt DEF IsMap
<1>3. SameAt(f, g)
  BY <1>1, ShownAt DEF SameAt
<1>4. f = g
  BY <1>2, <1>3, SameMap
<1> QED BY <1>1, <1>4

\* A value is set: the map has it.
LEMMA SetRefines ==
  ASSUME StateInv, NoEmptyBytesInMemory, Stating, definition' = definition,
         NEW key \in Key, NEW value \in definition.values, SetState(key, 0, value)
  PROVE  StateInv' /\ Map!Next
<1> DEFINE x == Named(key, 0)
           m == [op |-> "set", key |-> key, id |-> 0, value |-> value]
<1>1. Started /\ Becomes(CacheSet(transaction, x, value)) /\ Arrives(m)
  BY DEF SetState
<1>2. PICK p : p = transaction
  OBVIOUS
<1>3. TransactionOK(p) /\ p.status = "started" /\ MemoryFits(p) /\ RequestsOK
  BY <1>1, <1>2, StartedFacts
<1>4. x \in StateItem /\ x.cf = "default" /\ x # GlobalCounter
  BY ItemTypes DEF GlobalCounter
<1>5. value \in Int /\ (definition.backend = "memory" => value # EmptyBytes)
  BY StatingDefinition DEF StateInv, StateDefinition, Stating, NoEmptyBytesInMemory
<1> HIDE DEF x
<1>6. PICK t : t = CacheSet(p, x, value)
  OBVIOUS
<1>7. /\ TransactionOK(t) /\ t.status = "started" /\ t.counter = p.counter
      /\ t.updated = With(p.updated, x, value)
      /\ \A map, i : View(t, map, i) = IF i = x THEN <<value>> ELSE View(p, map, i)
  BY <1>3, <1>4, <1>5, <1>6, CacheSetOK
<1>8. MemoryFits(t)
  BY <1>3, <1>5, <1>7 DEF MemoryFits, With
<1>9. Becomes(t)
  BY <1>1, <1>2, <1>6
<1>10. /\ StateInv'
       /\ Ours(Seen) = Shown(partition.items, p)
       /\ Ours(Seen)' = Shown(partition.items, t)
       /\ Ours(Restored)' = Ours(Restored)
  BY <1>1, <1>2, <1>7, <1>8, <1>9, RequestKeeps, Zenon
<1>11. Shown(partition.items, t) = With(Shown(partition.items, p), x, value)
  <2>1. PICK h : h = Shown(partition.items, p)
    OBVIOUS
  <2>2. PICK g : g = With(h, x, value)
    OBVIOUS
  <2>3. g = [i \in DOMAIN g |-> g[i]]
    BY <2>2 DEF With
  <2>4. ASSUME NEW i
        PROVE  At(g, i) = IF i = GlobalCounter THEN Deletion ELSE View(t, partition.items, i)
    <3>1. At(h, i) = IF i = GlobalCounter THEN Deletion ELSE View(p, partition.items, i)
      BY <2>1, ShownAt
    <3>2. At(g, i) = IF i = x THEN <<value>> ELSE At(h, i)
      BY <2>2, AtWith
    <3> QED BY <1>4, <1>7, <3>1, <3>2
  <2> QED BY <2>1, <2>2, <2>3, <2>4, ShownSame
<1>12. Map!Set(m)
  BY <1>10, <1>11 DEF Map!Set, Map!With, With, Map!Named, Named, x
<1>13. Map!Next
  BY <1>1, <1>3, <1>10, <1>12, RequestRefines, Zenon
<1> QED BY <1>10, <1>13

\* Items are deleted: the map is without them.
LEMMA DeletionRefines ==
  ASSUME StateInv, Stating, Started, definition' = definition,
         NEW m, Arrives(m), NEW xs \in SUBSET StateItem, IsFiniteSet(xs),
         \A i \in xs : i.cf \in {"default", "values"},
         Becomes(CacheDelete(transaction, xs)),
         Ours(Seen)' = Without(Ours(Seen), xs) =>
             Map!Delete(m) \/ Map!RemoveBetween(m)
  PROVE  StateInv' /\ Map!Next
<1>1. PICK p : p = transaction
  OBVIOUS
<1>2. TransactionOK(p) /\ p.status = "started" /\ MemoryFits(p) /\ RequestsOK
  BY <1>1, StartedFacts
<1>3. PICK t : t = CacheDelete(p, xs)
  OBVIOUS
<1>4. /\ TransactionOK(t) /\ t.status = "started" /\ t.counter = p.counter
      /\ t.updated = Without(p.updated, xs)
      /\ \A map, i : View(t, map, i) = IF i \in xs THEN Deletion ELSE View(p, map, i)
  BY <1>2, <1>3, CacheDeleteOK
<1>5. MemoryFits(t)
  BY <1>2, <1>4 DEF MemoryFits, Without
<1>6. Becomes(t)
  BY <1>1, <1>3
<1>7. /\ StateInv'
      /\ Ours(Seen) = Shown(partition.items, p)
      /\ Ours(Seen)' = Shown(partition.items, t)
      /\ Ours(Restored)' = Ours(Restored)
  BY <1>1, <1>4, <1>5, <1>6, RequestKeeps, Zenon
<1>8. Shown(partition.items, t) = Without(Shown(partition.items, p), xs)
  <2>1. PICK h : h = Shown(partition.items, p)
    OBVIOUS
  <2>2. PICK g : g = Without(h, xs)
    OBVIOUS
  <2>3. g = [i \in DOMAIN g |-> g[i]]
    BY <2>2 DEF Without
  <2>4. ASSUME NEW i
        PROVE  At(g, i) = IF i = GlobalCounter THEN Deletion ELSE View(t, partition.items, i)
    <3>1. At(h, i) = IF i = GlobalCounter THEN Deletion ELSE View(p, partition.items, i)
      BY <2>1, ShownAt
    <3>2. At(g, i) = IF i \in xs THEN Deletion ELSE At(h, i)
      BY <2>2, AtWithout
    <3> QED BY <1>4, <3>1, <3>2
  <2> QED BY <2>1, <2>2, <2>3, <2>4, ShownSame
<1>9. Map!Delete(m) \/ Map!RemoveBetween(m)
  BY <1>7, <1>8
<1> QED BY <1>2, <1>7, <1>9, RequestRefines, Zenon

\* A value is deleted: the map is without it.
LEMMA DeleteRefines ==
  ASSUME StateInv, Stating, definition' = definition,
         NEW key \in Key, DeleteState(key, 0)
  PROVE  StateInv' /\ Map!Next
<1> DEFINE x == Named(key, 0)
           m == [op |-> "delete", key |-> key, id |-> 0]
<1>1. Started /\ Becomes(CacheDelete(transaction, {x})) /\ Arrives(m)
  BY DEF DeleteState
<1>2. PICK p : p = transaction
  OBVIOUS
<1>3. TransactionOK(p) /\ p.status = "started" /\ MemoryFits(p) /\ RequestsOK
  BY <1>1, <1>2, StartedFacts
<1>4. x \in StateItem /\ x.cf = "default"
  BY ItemTypes
<1> HIDE DEF x
<1>5. PICK xs : xs = {x}
  OBVIOUS
<1>6. xs \in SUBSET StateItem /\ IsFiniteSet(xs) /\ \A i \in xs : i.cf \in {"default", "values"}
  BY <1>4, <1>5, FS_Singleton
<1>7. Ours(Seen)' = Without(Ours(Seen), xs) => Map!Delete(m)
  BY <1>5 DEF Map!Delete, Map!Without, Without, Map!Named, Named, x
<1>8. Becomes(CacheDelete(transaction, xs))
  BY <1>1, <1>5
<1> HIDE DEF m
<1> QED BY <1>1, <1>6, <1>7, <1>8, DeletionRefines, Zenon

\* A value is read, as the map has it.
LEMMA GetRefines ==
  ASSUME StateInv, Stating, definition' = definition,
         NEW key \in Key, GetState(key, 0)
  PROVE  StateInv' /\ Map!Next
<1> DEFINE x == Named(key, 0)
           result == IF Exists(transaction, x) THEN <<Get(transaction, x)>> ELSE <<>>
           m == [op |-> "get", key |-> key, id |-> 0, result |-> result]
<1>1. Started /\ UNCHANGED stateVars /\ Arrives(m)
  BY DEF GetState
<1>2. PICK r : r = m
  OBVIOUS
<1>3. Arrives(r) /\ RequestsOK
  BY <1>1, <1>2, StartedFacts
<1>4. /\ StateInv'
      /\ Ours(Seen) = Shown(partition.items, transaction)
      /\ Ours(Seen)' = Ours(Seen)
      /\ Ours(Restored)' = Ours(Restored)
  BY <1>1, <1>3, RequestKeepsAll, Zenon
<1>5. x # GlobalCounter /\ x = Map!Named(r)
  BY <1>2 DEF Named, GlobalCounter, Map!Named
<1>6. result = View(transaction, partition.items, x)
  BY DEF View, Exists, Get, At, Deletion
<1>7. PICK h : h = Ours(Seen)
  OBVIOUS
<1>8. At(h, x) = result
  BY <1>4, <1>5, <1>6, <1>7, ShownAt
<1>9. r.op = "get" /\ r.result = result
  BY <1>2
<1> HIDE DEF x, result
<1>10. Map!Get(r)
  BY <1>4, <1>5, <1>7, <1>8, <1>9 DEF Map!Get, At, Deletion
<1>11. Map!Next
  BY <1>3, <1>4, <1>10, RequestRefines, Zenon
<1> QED BY <1>4, <1>11

\* The range of a request, in the store and in the map.
LEMMA RangeIsBetween ==
  ASSUME StateInv, Stating, Started, NEW m, m.from \in Int, m.to \in Int, m.from < m.to
  PROVE  /\ GetItems(transaction, m.key, m.from, m.to) = Map!Between(Ours(Seen), m)
         /\ \A i \in Map!Between(Ours(Seen), m) : Ours(Seen)[i] = Get(transaction, i)
<1>1. PICK h : h = Ours(Seen)
  OBVIOUS
<1>2. h = Shown(partition.items, transaction)
  BY <1>1, SeenWritten DEF Ours, Shown, Started
<1>3. /\ DOMAIN h = ((DOMAIN partition.items \cup DOMAIN transaction.updated) \ transaction.deleted)
                        \ {GlobalCounter}
      /\ \A i \in DOMAIN h : h[i] = Get(transaction, i)
  BY <1>2 DEF Shown, Without, Written, Get
<1>4. ~(m.from > m.to) /\ \A i : i.cf = "values" => i # GlobalCounter
  <2>1. ~(m.from > m.to)
    OBVIOUS
  <2>2. GlobalCounter.cf = "counter"
    BY ItemTypes
  <2>3. \A i : i.cf = "values" => i # GlobalCounter
    BY <2>2
  <2> QED BY <2>1, <2>3
<1>5. PICK xs : xs = GetItems(transaction, m.key, m.from, m.to)
  OBVIOUS
<1>6. xs = {i \in (DOMAIN partition.items \cup DOMAIN transaction.updated) \ transaction.deleted :
                i.cf = "values" /\ i.key = m.key /\ i.id >= m.from /\ i.id < m.to}
  BY <1>4, <1>5 DEF GetItems
<1>7. \A i \in DOMAIN h : i.id \in Int
  <2>1. StateTypes
    BY StartedFacts
  <2>2. DOMAIN partition.items \subseteq StateItem /\ DOMAIN transaction.updated \subseteq StateItem
    BY <2>1, MapTypes DEF StateTypes, StateTransactions
  <2>3. \A i \in StateItem : i.id \in Nat
    BY Zenon DEF StateItem
  <2> QED BY <1>3, <2>2, <2>3
<1>8. xs = Map!Between(h, m)
  BY <1>3, <1>4, <1>6, <1>7 DEF Map!Between
<1>9. \A i \in Map!Between(h, m) : h[i] = Get(transaction, i)
  BY <1>3 DEF Map!Between
<1> QED BY <1>1, <1>5, <1>8, <1>9

\* The members of a range are removed: the map is without them.
LEMMA RemoveRefines ==
  ASSUME StateInv, Stating, definition' = definition,
         NEW key \in Key, NEW from \in definition.ids, NEW to \in definition.ids, from < to,
         RemoveCollected(key, from, to)
  PROVE  StateInv' /\ Map!Next
<1> DEFINE m == [op |-> "remove", key |-> key, from |-> from, to |-> to]
<1>1. /\ Started /\ Becomes(CacheDelete(transaction, GetItems(transaction, key, from, to)))
      /\ Arrives(m)
  BY DEF RemoveCollected
<1>2. PICK xs : xs = GetItems(transaction, key, from, to)
  OBVIOUS
<1>3. /\ xs \in SUBSET StateItem /\ IsFiniteSet(xs)
      /\ \A i \in xs : i.cf \in {"default", "values"}
  BY <1>1, <1>2, StartedFacts, GetItemsTypes
<1>4. Becomes(CacheDelete(transaction, xs))
  BY <1>1, <1>2
<1>5. from \in Int /\ to \in Int
  BY StatingDefinition DEF StateInv, StateDefinition
<1>6. xs = Map!Between(Ours(Seen), m)
  <2>1. m.key = key /\ m.from = from /\ m.to = to
    OBVIOUS
  <2> HIDE DEF m
  <2> QED BY <1>1, <1>2, <1>5, <2>1, RangeIsBetween
<1>7. Ours(Seen)' = Without(Ours(Seen), xs) => Map!RemoveBetween(m)
  <2>1. m.op = "remove"
    OBVIOUS
  <2> HIDE DEF m
  <2> QED BY <1>6, <2>1 DEF Map!RemoveBetween, Map!Without, Without
<1> HIDE DEF m
<1> QED BY <1>1, <1>3, <1>4, <1>7, DeletionRefines, Zenon

\* The members of a range are read, in the order of the map.
LEMMA ReadRefines ==
  ASSUME StateInv, Stating, definition' = definition,
         NEW key \in Key, NEW from \in definition.ids, NEW to \in definition.ids, from < to,
         ReadCollected(key, from, to)
  PROVE  StateInv' /\ Map!Next
<1> DEFINE found == {[item |-> i, value |-> Get(transaction, i)] :
                        i \in GetItems(transaction, key, from, to)}
           result == [n \in DOMAIN Sorted(found) |-> Sorted(found)[n].value]
           m == [op |-> "read", key |-> key, from |-> from, to |-> to, result |-> result]
<1>1. Started /\ UNCHANGED stateVars /\ Arrives(m)
  BY DEF ReadCollected
<1>2. PICK r : r = m
  OBVIOUS
<1>3. /\ r.op = "read" /\ r.key = key /\ r.from = from /\ r.to = to
      /\ r.result = result
  BY <1>2
<1>4. Arrives(r) /\ RequestsOK
  BY <1>1, <1>2, StartedFacts
<1>5. /\ StateInv'
      /\ Ours(Seen)' = Ours(Seen)
      /\ Ours(Restored)' = Ours(Restored)
  BY <1>1, <1>4, RequestKeepsAll, Zenon
<1>6. from \in Int /\ to \in Int
  BY StatingDefinition DEF StateInv, StateDefinition
<1>7. /\ GetItems(transaction, key, from, to) = Map!Between(Ours(Seen), r)
      /\ \A i \in Map!Between(Ours(Seen), r) : Ours(Seen)[i] = Get(transaction, i)
  BY <1>1, <1>3, <1>6, RangeIsBetween
<1>8. found = {[item |-> i, value |-> Ours(Seen)[i]] : i \in Map!Between(Ours(Seen), r)}
  <2>1. PICK xs : xs = Map!Between(Ours(Seen), r)
    OBVIOUS
  <2>2. /\ GetItems(transaction, key, from, to) = xs
        /\ \A i \in xs : Ours(Seen)[i] = Get(transaction, i)
    BY <1>7, <2>1
  <2>3. found = {[item |-> i, value |-> Ours(Seen)[i]] : i \in xs}
    BY <2>2, Zenon
  <2> QED BY <2>1, <2>3
<1> HIDE DEF found
<1>9. Sorted(found) = Map!InOrder(found)
  BY Zenon DEF Sorted, Map!InOrder, SetToSeqs, Map!SetToSeqs, Precedes, Map!Precedes,
               Cardinality, Map!Cardinality
<1>10. Map!Read(r)
  BY <1>3, <1>5, <1>8, <1>9, Zenon DEF Map!Read
<1>11. Map!Next
  BY <1>4, <1>5, <1>10, RequestRefines, Zenon
<1> QED BY <1>5, <1>11

\* What the partition will be once it is recovered, in the terms of the changelog.
LEMMA RestoredAt ==
  /\ StateTypes /\ StoreReplayed =>
        /\ \A i : At(Restored, i) = Replay(changelog, Len(changelog), i)
        /\ Restored = [i \in DOMAIN Restored |-> Restored[i]]
  /\ StateTypes' /\ StoreReplayed' =>
        /\ \A i : At(Restored', i) = Replay(changelog', Len(changelog'), i)
        /\ Restored' = [i \in DOMAIN Restored' |-> Restored'[i]]
<1>1. ASSUME NEW p, NEW log
      PROVE  RestoredOf(p, log) = [i \in DOMAIN RestoredOf(p, log) |-> RestoredOf(p, log)[i]]
  BY DEF RestoredOf
<1>2. ASSUME StateTypes, StoreReplayed
      PROVE  /\ \A i : At(Restored, i) = Replay(changelog, Len(changelog), i)
             /\ Restored = [i \in DOMAIN Restored |-> Restored[i]]
  <2>1. PICK p : p = partition
    OBVIOUS
  <2>2. PICK log : log = changelog
    OBVIOUS
  <2>3. /\ p \in [items : ItemMap, offset : Int] /\ log \in Seq(Record)
        /\ p.offset \in Unset..Len(log) - 1
        /\ \A i : At(p.items, i) = Replay(log, p.offset + 1, i)
    BY <1>2, <2>1, <2>2 DEF StateTypes, StoreReplayed
  <2>4. Restored = RestoredOf(p, log)
    BY <2>1, <2>2, RestoredIs
  <2>5. \A i : At(RestoredOf(p, log), i) = Replay(log, Len(log), i)
    BY <2>3, RestoredReplay
  <2> QED BY <1>1, <2>2, <2>4, <2>5
<1>3. ASSUME StateTypes', StoreReplayed'
      PROVE  /\ \A i : At(Restored', i) = Replay(changelog', Len(changelog'), i)
             /\ Restored' = [i \in DOMAIN Restored' |-> Restored'[i]]
  <2>1. PICK p : p = partition'
    OBVIOUS
  <2>2. PICK log : log = changelog'
    OBVIOUS
  <2>3. /\ p \in [items : ItemMap, offset : Int] /\ log \in Seq(Record)
        /\ p.offset \in Unset..Len(log) - 1
        /\ \A i : At(p.items, i) = Replay(log, p.offset + 1, i)
    BY <1>3, <2>1, <2>2 DEF StateTypes, StoreReplayed
  <2>4. Restored' = RestoredOf(p, log)
    BY <2>1, <2>2, RestoredIs
  <2>5. \A i : At(RestoredOf(p, log), i) = Replay(log, Len(log), i)
    BY <2>3, RestoredReplay
  <2> QED BY <1>1, <2>2, <2>4, <2>5
<1> QED BY <1>2, <1>3, Zenon

\* A partition without records that are to be applied.
LEMMA RestoredRecovered ==
  ASSUME StateTypes, StoreReplayed,
         \A n \in partition.offset + 2..Len(changelog) : ~changelog[n].committed
  PROVE  Restored = partition.items
<1>1. PICK m : m = partition.items
  OBVIOUS
<1>2. m = [i \in DOMAIN m |-> m[i]]
  BY <1>1, MapTypes DEF StateTypes
<1>3. ASSUME NEW i
      PROVE  At(Restored, i) = At(m, i)
  <2>1. /\ partition.offset + 1 \in Nat /\ Len(changelog) \in Nat
        /\ partition.offset + 1 <= Len(changelog)
        /\ partition.offset \in Int
    BY DEF StateTypes, Unset
  <2>2. Replay(changelog, Len(changelog), i) = Replay(changelog, partition.offset + 1, i)
    <3>1. PICK base : base = partition.offset + 1
      OBVIOUS
    <3>2. PICK log : log = changelog
      OBVIOUS
    <3>3. PICK end : end = Len(changelog)
      OBVIOUS
    <3>4. /\ base \in Nat /\ end \in Nat /\ base <= end
          /\ \A n \in base + 1..end : ~(log[n].committed /\ log[n].item = i)
      BY <2>1, <3>1, <3>2, <3>3
    <3>5. Replay(log, end, i) = Replay(log, base, i)
      BY <3>4, ReplaySame
    <3> QED BY <3>1, <3>2, <3>3, <3>5
  <2> QED BY <1>1, <2>2, RestoredAt DEF StoreReplayed
<1>4. PICK f : f = Restored
  OBVIOUS
<1>5. f = [i \in DOMAIN f |-> f[i]] /\ \A i : At(f, i) = At(m, i)
  BY <1>3, <1>4, RestoredAt
<1>6. IsMap(f) /\ IsMap(m) /\ SameAt(f, m)
  BY <1>2, <1>5 DEF IsMap, SameAt
<1>7. f = m
  BY <1>6, SameMap
<1> QED BY <1>1, <1>4, <1>7

\* The counter of the next member is above that of each that the functions see.
LEMMA NextCounterAbove ==
  ASSUME StateInv, Stating, Started
  PROVE  /\ NextCounter(transaction) \in Nat
         /\ \A i \in DOMAIN transaction.updated \cup DOMAIN partition.items :
               i.cf = "values" => i.count < NextCounter(transaction)
<1>1. /\ TransactionOK(transaction) /\ StateTypes /\ StoreReplayed
      /\ transaction.status = "started" /\ partition.offset = Len(changelog) - 1
  BY StartedFacts
<1>2. PICK u : u = DOMAIN transaction.updated
  OBVIOUS
<1>3. PICK s : s = DOMAIN partition.items
  OBVIOUS
<1>4. PICK c : c = transaction.counter
  OBVIOUS
<1>5. PICK k : k = NextCounter(transaction)
  OBVIOUS
<1>6. \A i \in u \cup s : i.count \in Int
  <2>1. u \subseteq StateItem /\ s \subseteq StateItem
    BY <1>1, <1>2, <1>3, MapTypes DEF StateTypes, StateTransactions
  <2>2. \A i \in StateItem : i.count \in Int
    BY Zenon DEF StateItem
  <2> QED BY <2>1, <2>2
<1>7. CASE c # Unset
  <2>1. c \in Nat /\ k = 1 + c
    BY <1>1, <1>4, <1>5, <1>7 DEF TransactionOK, NextCounter
  <2>2. \A i \in u \cup s : i.cf = "values" => i.count <= c
    BY <1>1, <1>2, <1>3, <1>4, <1>7 DEF TransactionOK
  <2>3. k \in Nat /\ \A i \in u \cup s : i.cf = "values" => i.count < k
    BY <1>6, <2>1, <2>2
  <2> QED BY <1>2, <1>3, <1>5, <2>3
<1>8. CASE c = Unset
  <2>1. \A n \in partition.offset + 2..Len(changelog) : ~changelog[n].committed
    BY <1>1 DEF StateTypes
  <2>2. Restored = partition.items
    BY <1>1, <2>1, RestoredRecovered
  <2>3. CounterAbove(partition.items)
    BY <2>2 DEF StateInv
  <2>4. (\A i \in u : i.cf = "default") /\ GlobalCounter \notin transaction.deleted
    BY <1>1, <1>2, <1>4, <1>8, ItemTypes DEF TransactionOK
  <2>5. GlobalCounter \notin u
    BY <2>4, ItemTypes
  <2>6. k = 1 + IF GlobalCounter \in s THEN partition.items[GlobalCounter] ELSE -1
    BY <1>2, <1>3, <1>4, <1>5, <1>8, <2>4, <2>5 DEF NextCounter, Exists, Get
  <2>7. /\ GlobalCounter \in s => partition.items[GlobalCounter] \in Nat
        /\ \A i \in s : i.cf = "values" =>
              GlobalCounter \in s /\ i.count <= partition.items[GlobalCounter]
    BY <1>3, <2>3 DEF CounterAbove
  <2>8. k \in Nat /\ \A i \in s : i.cf = "values" => i.count < k
    BY <1>6, <2>6, <2>7
  <2>9. \A i \in u : i.cf # "values"
    BY <2>4
  <2> QED BY <1>2, <1>3, <1>5, <2>8, <2>9
<1> QED BY <1>7, <1>8

\* A value is collected: the map has one more member, after those of its id.
LEMMA AddRefines ==
  ASSUME StateInv, Stating, definition' = definition,
         NEW key \in Key, NEW value \in definition.values, NEW id \in definition.ids,
         AddCollected(key, id, value)
  PROVE  StateInv' /\ Map!Next
<1>1. PICK p : p = transaction
  OBVIOUS
<1>2. PICK c : c = NextCounter(transaction)
  OBVIOUS
<1>3. PICK x : x = Collected(key, id, c)
  OBVIOUS
<1>4. PICK m : m = [op |-> "add", key |-> key, id |-> id, value |-> value, result |-> c]
  OBVIOUS
<1>5. Started /\ Becomes(CacheSet([p EXCEPT !.counter = c], x, value)) /\ Arrives(m)
  BY <1>1, <1>2, <1>3, <1>4 DEF AddCollected
<1>6. TransactionOK(p) /\ p.status = "started" /\ MemoryFits(p) /\ RequestsOK
  BY <1>1, <1>5, StartedFacts
<1>7. /\ c \in Nat
      /\ \A i \in DOMAIN p.updated \cup DOMAIN partition.items : i.cf = "values" => i.count < c
  BY <1>1, <1>2, <1>5, NextCounterAbove
<1>8. value \in Int /\ id \in Nat /\ definition.backend # "memory"
  BY StatingDefinition DEF StateInv, StateDefinition
<1>9. x \in StateItem /\ x.cf = "values" /\ x.count = c /\ x # GlobalCounter
  <2>1. x \in StateItem /\ x.cf = "values"
    BY <1>3, <1>7, <1>8, ItemTypes
  <2>2. x.count = c
    BY <1>3 DEF Collected
  <2>3. x # GlobalCounter
    BY <2>1, ItemTypes
  <2> QED BY <2>1, <2>2, <2>3
<1>10. PICK q : q = [p EXCEPT !.counter = c]
  OBVIOUS
<1>11. /\ q \in StateTransactions /\ q.counter = c /\ q.status = "started"
       /\ q.updated = p.updated /\ q.deleted = p.deleted /\ q.empty = p.empty
  <2>1. p \in StateTransactions
    BY <1>6 DEF TransactionOK
  <2> QED BY <1>6, <1>7, <1>10, <2>1 DEF StateTransactions
<1>12. TransactionOK(q)
  <2>1. \A i \in DOMAIN p.updated \cup DOMAIN partition.items : i.cf = "values" => i.count <= c
    <3>1. \A i \in DOMAIN p.updated \cup DOMAIN partition.items : i.count \in Int
      <4>1. DOMAIN p.updated \subseteq StateItem /\ DOMAIN partition.items \subseteq StateItem
        BY <1>1, <1>5, StartedFacts, MapTypes DEF StateTypes, StateTransactions
      <4>2. \A i \in StateItem : i.count \in Int
        BY Zenon DEF StateItem
      <4> QED BY <4>1, <4>2
    <3> QED BY <1>7, <3>1
  <2>2. c # Unset
    BY <1>7 DEF Unset
  <2>3. \A i \in DOMAIN p.updated : i.cf \in {"default", "values"}
    BY <1>6 DEF TransactionOK
  <2>4. /\ DOMAIN p.updated \cap p.deleted = {}
        /\ \A i \in p.deleted : i.cf \in {"default", "values"}
        /\ p.empty <=> DOMAIN p.updated = {} /\ p.deleted = {}
    BY <1>6 DEF TransactionOK
  <2> QED BY <1>7, <1>11, <2>1, <2>2, <2>3, <2>4 DEF TransactionOK
<1>13. PICK t : t = CacheSet(q, x, value)
  OBVIOUS
<1>14. /\ TransactionOK(t) /\ t.status = "started"
       /\ \A map, i : View(t, map, i) = IF i = x THEN <<value>> ELSE View(q, map, i)
  <2>1. x.cf = "values" /\ q.counter # Unset /\ x.count <= q.counter
    BY <1>7, <1>9, <1>11 DEF Unset
  <2> QED BY <1>8, <1>9, <1>11, <1>12, <1>13, <2>1, CacheSetOK
<1>15. \A map, i : View(q, map, i) = View(p, map, i)
  BY <1>11 DEF View
<1>16. MemoryFits(t) /\ Becomes(t)
  BY <1>5, <1>8, <1>10, <1>13 DEF MemoryFits
<1>17. /\ StateInv'
       /\ Ours(Seen) = Shown(partition.items, p)
       /\ Ours(Seen)' = Shown(partition.items, t)
       /\ Ours(Restored)' = Ours(Restored)
  BY <1>1, <1>5, <1>14, <1>16, RequestKeeps, Zenon
<1>18. Shown(partition.items, t) = With(Shown(partition.items, p), x, value)
  <2>1. PICK h : h = Shown(partition.items, p)
    OBVIOUS
  <2>2. PICK g : g = With(h, x, value)
    OBVIOUS
  <2>3. g = [i \in DOMAIN g |-> g[i]]
    BY <2>2 DEF With
  <2>4. ASSUME NEW i
        PROVE  At(g, i) = IF i = GlobalCounter THEN Deletion ELSE View(t, partition.items, i)
    <3>1. At(h, i) = IF i = GlobalCounter THEN Deletion ELSE View(p, partition.items, i)
      BY <2>1, ShownAt
    <3>2. At(g, i) = IF i = x THEN <<value>> ELSE At(h, i)
      BY <2>2, AtWith
    <3> QED BY <1>9, <1>14, <1>15, <3>1, <3>2
  <2> QED BY <2>1, <2>2, <2>3, <2>4, ShownSame
<1>19. \A i \in DOMAIN Ours(Seen) : i.cf = "values" => i.count < c
  <2>1. DOMAIN Ours(Seen) \subseteq DOMAIN p.updated \cup DOMAIN partition.items
    BY <1>17 DEF Shown, Without, Written
  <2> QED BY <1>7, <2>1
<1>20. Map!Add(m)
  <2>1. m.op = "add" /\ m.key = key /\ m.id = id /\ m.value = value /\ m.result = c
    BY <1>4
  <2>2. x = [cf |-> "values", key |-> m.key, id |-> m.id, count |-> m.result]
    BY <1>3, <2>1 DEF Collected
  <2> QED BY <1>17, <1>18, <1>19, <2>1, <2>2 DEF Map!Add, Map!With, With
<1>21. Map!Next
  BY <1>5, <1>6, <1>17, <1>20, RequestRefines, Zenon
<1> QED BY <1>17, <1>21

-----------------------------------------------------------------------------
(* Checkpoint and recovery. *)

\* Steps that functions do not see, that take back what is not committed, and that commit.
LEMMA StepsMapped ==
  ASSUME Stating, definition' = definition, arrived' = arrived
  PROVE  /\ Ours(Seen)' = Ours(Seen) /\ Restored' = Restored => UNCHANGED Map!vars
         /\ Seen' = Restored /\ Restored' = Restored => Map!Lose
         /\ Seen' = Seen /\ Restored' = Seen => Map!Commit
<1>1. ASSUME Ours(Seen)' = Ours(Seen), Restored' = Restored
      PROVE  UNCHANGED Map!vars
  BY <1>1, Mapped DEF Map!vars
<1>2. ASSUME Seen' = Restored, Restored' = Restored
      PROVE  Map!Lose
  BY <1>2, Mapped DEF Map!Lose
<1>3. ASSUME Seen' = Seen, Restored' = Seen
      PROVE  Map!Commit
  BY <1>3, Mapped DEF Map!Commit
<1> QED BY <1>1, <1>2, <1>3

\* What all records make of the items stays the same.
LEMMA RestoredSame ==
  ASSUME StateTypes, StoreReplayed, StateTypes', StoreReplayed',
         \A i : Replay(changelog', Len(changelog'), i) = Replay(changelog, Len(changelog), i)
  PROVE  Restored' = Restored
<1>1. PICK f : f = Restored'
  OBVIOUS
<1>2. PICK g : g = Restored
  OBVIOUS
<1>3. f = [i \in DOMAIN f |-> f[i]] /\ g = [i \in DOMAIN g |-> g[i]]
  BY <1>1, <1>2, RestoredAt
<1>4. \A i : At(f, i) = At(g, i)
  BY <1>1, <1>2, RestoredAt
<1>5. IsMap(f) /\ IsMap(g) /\ SameAt(f, g)
  BY <1>3, <1>4 DEF IsMap, SameAt
<1>6. f = g
  BY <1>5, SameMap
<1> QED BY <1>1, <1>2, <1>6

\* The functions see what all records make of the items, if nothing is cached.
LEMMA SeenEmpty ==
  ASSUME StateTypes', StoreReplayed', transaction' = NewTransaction,
         partition'.offset = Len(changelog') - 1
  PROVE  Seen' = Restored'
<1>1. PICK f : f = Seen'
  OBVIOUS
<1>2. PICK g : g = Restored'
  OBVIOUS
<1>3. PICK m : m = partition'.items
  OBVIOUS
<1>4. f = Written(m, NewTransaction)
  BY <1>1, <1>3, SeenWritten DEF NewTransaction
<1>5. \A i : At(f, i) = At(m, i)
  <2>1. \A i : View(NewTransaction, m, i) = At(m, i)
    BY DEF View, NewTransaction
  <2> QED BY <1>4, <2>1, AtWritten
<1>6. \A i : At(g, i) = At(m, i)
  <2>1. partition'.offset + 1 = Len(changelog')
    BY DEF StateTypes
  <2> QED BY <1>2, <1>3, <2>1, RestoredAt DEF StoreReplayed
<1>7. f = [i \in DOMAIN f |-> f[i]] /\ g = [i \in DOMAIN g |-> g[i]]
  BY <1>2, <1>4, RestoredAt DEF Written
<1>8. \A i : At(f, i) = At(g, i)
  BY <1>5, <1>6
<1>9. IsMap(f) /\ IsMap(g) /\ SameAt(f, g)
  BY <1>7, <1>8 DEF IsMap, SameAt
<1>10. f = g
  BY <1>9, SameMap
<1> QED BY <1>1, <1>2, <1>10

\* There is nothing in a new transaction, and in none.
LEMMA EmptyTransactions ==
  /\ NewTransaction \in StateTransactions /\ TransactionOK(NewTransaction)
  /\ NoTransaction \in StateTransactions /\ NoTransaction.status = "none"
  /\ NoTransaction.counter = Unset /\ NoTransaction.updated = <<>>
<1>1. NewTransaction \in StateTransactions
  BY MapTypes, FS_EmptySet DEF NewTransaction, StateTransactions, Unset
<1>2. TransactionOK(NewTransaction)
  BY <1>1 DEF NewTransaction, TransactionOK, Unset
<1>3. PICK q \in StateTransactions : q = NewTransaction
  BY <1>1
<1>4. q.counter = Unset /\ q.updated = <<>>
  BY <1>3 DEF NewTransaction
<1>5. PICK t : t = [q EXCEPT !.status = "none"]
  OBVIOUS
<1>6. /\ t \in StateTransactions /\ t.status = "none"
      /\ t.counter = q.counter /\ t.updated = q.updated
  BY <1>5 DEF StateTransactions
<1>7. t = NoTransaction
  BY <1>3, <1>5 DEF NoTransaction
<1> QED BY <1>1, <1>2, <1>4, <1>6, <1>7

\* A transaction is begun.
LEMMA BeginRefines ==
  ASSUME StateInv, Stating, definition' = definition, BeginState
  PROVE  StateInv' /\ UNCHANGED Map!vars
<1>1. /\ transaction.status = "none" /\ partition.offset = Len(changelog) - 1
      /\ Becomes(NewTransaction) /\ arrived' = arrived
  BY DEF BeginState
<1>2. /\ transaction' = NewTransaction /\ partition' = partition /\ changelog' = changelog
      /\ lastOffset' = lastOffset
  BY <1>1 DEF Becomes
<1>3. StateTypes /\ StoreReplayed /\ RequestsOK
  BY DEF StateInv
<1>4. TransactionOK(NewTransaction)
  BY EmptyTransactions
<1>5. NewTransaction \in StateTransactions /\ NewTransaction.status = "started"
  BY <1>4 DEF TransactionOK, NewTransaction
<1>6. MemoryFits(NewTransaction) /\ RequestsOK'
  BY <1>1, <1>3 DEF MemoryFits, NewTransaction, RequestsOK
<1>7. StateInv'
  BY <1>1, <1>4, <1>5, <1>6, TransactionKeeps
<1>8. StateTypes' /\ StoreReplayed' /\ partition'.offset = Len(changelog') - 1
  <2>1. Stating'
    BY DEF Stating
  <2> QED BY <1>1, <1>2, <1>7, <2>1 DEF StateInv
<1>9. Restored' = Restored
  BY <1>2, RestoredIs
<1>10. Seen' = Restored'
  BY <1>2, <1>8, SeenEmpty
<1>11. Seen = Restored
  BY <1>1 DEF Seen
<1>12. Ours(Seen)' = Ours(Seen)
  BY <1>9, <1>10, <1>11, Mapped
<1> QED BY <1>1, <1>7, <1>9, <1>12, StepsMapped

\* A transaction fails or is given up.
LEMMA LoseRefines ==
  ASSUME StateInv, Stating, definition' = definition, arrived' = arrived,
         NEW t \in StateTransactions, t.status \in {"none", "failed"}, Becomes(t), MemoryFits(t)
  PROVE  StateInv' /\ Map!Lose
<1>1. transaction' = t /\ partition' = partition /\ changelog' = changelog
  BY DEF Becomes
<1>2. RequestsOK'
  BY DEF StateInv, RequestsOK
<1>3. StateInv'
  BY <1>2, TransactionKeeps
<1>4. Restored' = Restored
  BY <1>1, RestoredIs
<1>5. Seen' = Restored'
  BY <1>1 DEF Seen
<1> QED BY <1>3, <1>4, <1>5, StepsMapped

\* A checkpoint is given up, or fails.
LEMMA GiveUpRefines ==
  ASSUME StateInv, Stating, definition' = definition, SetStateFails \/ GiveUpState
  PROVE  StateInv' /\ Map!Lose
<1>1. CASE SetStateFails
  <2>1. PICK p : p = transaction
    OBVIOUS
  <2>2. PICK t : t = [p EXCEPT !.status = "failed"]
    OBVIOUS
  <2>3. Started /\ Becomes(t) /\ arrived' = arrived
    BY <1>1, <2>1, <2>2 DEF SetStateFails
  <2>4. p \in StateTransactions /\ MemoryFits(p)
    BY <2>1, <2>3, StartedFacts
  <2>5. /\ t \in StateTransactions /\ t.status = "failed"
        /\ t.counter = p.counter /\ t.updated = p.updated
    BY <2>2, <2>4 DEF StateTransactions
  <2>6. MemoryFits(t)
    BY <2>4, <2>5 DEF MemoryFits
  <2> QED BY <2>3, <2>5, <2>6, LoseRefines
<1>2. CASE GiveUpState
  <2>1. Becomes(NoTransaction) /\ arrived' = arrived
    BY <1>2 DEF GiveUpState
  <2>2. NoTransaction \in StateTransactions /\ NoTransaction.status = "none"
    BY EmptyTransactions
  <2>3. MemoryFits(NoTransaction)
    BY EmptyTransactions DEF MemoryFits
  <2> QED BY <2>1, <2>2, <2>3, LoseRefines
<1> QED BY <1>1, <1>2

\* A restart that leaves a store of what the changelog has.
LEMMA RestartKeeps ==
  ASSUME StateInv, Stating, definition' = definition, arrived' = arrived, changelog' = changelog,
         transaction' = NoTransaction, StateTypes', StoreReplayed'
  PROVE  StateInv' /\ Map!Lose
<1>1. /\ NoTransaction.status = "none" /\ NoTransaction.counter = Unset
      /\ NoTransaction.updated = <<>>
  BY EmptyTransactions
<1>2. /\ StateTypes /\ StoreReplayed /\ RequestsOK /\ CounterAbove(Restored) /\ MemoryOK
      /\ definition \in Definitions
  BY DEF StateInv
<1>3. Restored' = Restored
  BY <1>2, RestoredSame
<1>4. ActiveOK'
  BY <1>1 DEF ActiveOK
<1>5. MemoryOK'
  BY <1>1, <1>2 DEF MemoryOK
<1>6. CounterAbove(Restored')
  BY <1>2, <1>3
<1>7. StateInv'
  BY <1>2, <1>4, <1>5, <1>6 DEF StateInv, CounterAbove, RequestsOK
<1>8. Seen' = Restored'
  BY <1>1 DEF Seen
<1> QED BY <1>3, <1>7, <1>8, StepsMapped

\* The process restarts, with or without its store: the changelog has what it had.
LEMMA RestartRefines ==
  ASSUME StateInv, Stating, definition' = definition, RestartState
  PROVE  StateInv' /\ Map!Lose
<1>1. /\ transaction' = NoTransaction /\ lastOffset' = Unset
      /\ partition' \in {partition, EmptyPartition}
      /\ changelog' = changelog /\ arrived' = arrived
  BY DEF RestartState
<1>2. /\ StateTypes /\ StoreReplayed /\ RequestsOK /\ CounterAbove(Restored) /\ MemoryOK
      /\ definition \in Definitions
  BY DEF StateInv
<1>3. /\ NoTransaction \in StateTransactions /\ NoTransaction.status = "none"
      /\ NoTransaction.counter = Unset /\ NoTransaction.updated = <<>>
  BY EmptyTransactions
<1>4. CASE partition' = partition
  <2>1. StateTypes'
    BY <1>1, <1>2, <1>3, <1>4 DEF StateTypes, Unset
  <2>2. StoreReplayed'
    BY <1>1, <1>2, <1>4 DEF StoreReplayed
  <2> QED BY <1>1, <1>2, <1>3, <2>1, <2>2, RestartKeeps
<1>5. CASE partition' = EmptyPartition
  <2>1. StateTypes'
    <3>1. /\ partition'.items = <<>> /\ partition'.offset = Unset
          /\ partition' \in [items : ItemMap, offset : Int]
      BY <1>5, MapTypes DEF EmptyPartition, Unset
    <3>2. Len(changelog) \in Nat
      BY <1>2 DEF StateTypes
    <3>3. Unset \in Int /\ Unset \in Unset..Len(changelog) - 1
      BY <3>2 DEF Unset
    <3> QED BY <1>1, <1>2, <1>3, <3>1, <3>3 DEF StateTypes
  <2>2. StoreReplayed'
    <3>1. \A i : At(<<>>, i) = Deletion
      BY DEF At
    <3>2. \A i : Replay(changelog, 0, i) = Deletion
      BY DEF Replay, RecordsFor
    <3>3. partition'.items = <<>> /\ partition'.offset + 1 = 0
      BY <1>5 DEF EmptyPartition, Unset
    <3> QED BY <1>1, <3>1, <3>2, <3>3 DEF StoreReplayed
  <2> QED BY <1>1, <1>2, <1>3, <2>1, <2>2, RestartKeeps
<1> QED BY <1>1, <1>4, <1>5

\* What of the records of a checkpoint has been applied is what its transaction has made.
LEMMA AppliedReplay ==
  ASSUME NEW log \in Seq(Record), NEW base \in Nat, base <= Len(log), NEW t, NEW items,
         \A i : At(items, i) = Replay(log, base, i),
         \A n \in base + 1..Len(log) :
             /\ log[n].committed
             /\ log[n].item \in DOMAIN t.updated \cup t.deleted
             /\ log[n].value = View(t, <<>>, log[n].item),
         \A i \in DOMAIN t.updated \cup t.deleted : \E n \in base + 1..Len(log) : log[n].item = i
  PROVE  \A i : Replay(log, Len(log), i) = View(t, items, i)
<1> TAKE i
<1>1. PICK last \in Nat : last = Len(log)
  OBVIOUS
<1>2. CASE i \in DOMAIN t.updated \cup t.deleted
  <2>1. PICK ns : ns = RecordsFor(log, last, i)
    OBVIOUS
  <2>2. PICK k \in base + 1..last : log[k].item = i
    BY <1>1, <1>2
  <2>3. k \in ns /\ ns \subseteq 0..last /\ ns # {}
    BY <1>1, <2>1, <2>2 DEF RecordsFor
  <2>4. Max(ns) \in ns /\ \A m \in ns : m <= Max(ns)
    BY <2>3, Greatest
  <2>5. Max(ns) \in base + 1..last /\ log[Max(ns)].item = i
    <3>1. Max(ns) \in 1..last /\ log[Max(ns)].item = i /\ k <= Max(ns)
      BY <2>1, <2>3, <2>4 DEF RecordsFor
    <3> QED BY <2>2, <3>1
  <2>6. log[Max(ns)].value = View(t, <<>>, i)
    BY <1>1, <2>5
  <2>7. View(t, <<>>, i) = View(t, items, i)
    BY <1>2 DEF View
  <2>8. Replay(log, last, i) = log[Max(ns)].value
    BY <2>1, <2>3 DEF Replay
  <2> QED BY <1>1, <2>6, <2>7, <2>8
<1>3. CASE i \notin DOMAIN t.updated \cup t.deleted
  <2>1. \A n \in base + 1..last : ~(log[n].committed /\ log[n].item = i)
    BY <1>1, <1>3
  <2>2. Replay(log, last, i) = Replay(log, base, i)
    BY <1>1, <2>1, ReplaySame
  <2>3. View(t, items, i) = At(items, i)
    BY <1>3 DEF View
  <2> QED BY <1>1, <2>2, <2>3
<1> QED BY <1>2, <1>3

\* What a checkpoint writes to a store.
LEMMA WrittenType ==
  ASSUME NEW items \in ItemMap, NEW t \in StateTransactions
  PROVE  /\ Written(items, t) \in ItemMap
         /\ DOMAIN Written(items, t) = (DOMAIN items \cup DOMAIN t.updated) \ t.deleted
<1>1. PICK D : D = (DOMAIN items \cup DOMAIN t.updated) \ t.deleted
  OBVIOUS
<1>2. /\ DOMAIN items \subseteq StateItem /\ IsFiniteSet(DOMAIN items)
      /\ \A i \in DOMAIN items : items[i] \in Int
  BY MapTypes
<1>3. /\ DOMAIN t.updated \subseteq StateItem /\ IsFiniteSet(DOMAIN t.updated)
      /\ \A i \in DOMAIN t.updated : t.updated[i] \in Int
  BY MapTypes DEF StateTransactions
<1>4. IsFiniteSet(D) /\ D \subseteq StateItem
  <2>1. IsFiniteSet(DOMAIN items \cup DOMAIN t.updated)
    BY <1>2, <1>3, FS_Union
  <2> QED BY <1>1, <1>2, <1>3, <2>1, FS_Subset
<1>5. Written(items, t) \in [D -> Int]
  BY <1>1, <1>2, <1>3 DEF Written
<1>6. Written(items, t) \in ItemMap
  BY <1>4, <1>5, MapTypes
<1> QED BY <1>1, <1>5, <1>6

\* The counter that a checkpoint writes is not below that of any member.
LEMMA WrittenCounter ==
  ASSUME NEW items \in ItemMap, items = partition.items, CounterAbove(items),
         NEW t, TransactionOK(t), t.status # "started"
  PROVE  CounterAbove(Written(items, t))
<1>1. t \in StateTransactions /\ DOMAIN t.updated \cap t.deleted = {}
  BY DEF TransactionOK
<1>2. PICK w : w = Written(items, t)
  OBVIOUS
<1>3. /\ DOMAIN w = (DOMAIN items \cup DOMAIN t.updated) \ t.deleted
      /\ \A i \in DOMAIN w : w[i] = IF i \in DOMAIN t.updated THEN t.updated[i] ELSE items[i]
  BY <1>2 DEF Written
<1>4. GlobalCounter \notin t.deleted /\ GlobalCounter.cf = "counter"
  BY ItemTypes DEF TransactionOK
<1>5. GlobalCounter \in DOMAIN t.updated =>
          t.counter \in Nat /\ t.counter # Unset /\ t.updated[GlobalCounter] = t.counter
  BY <1>4, ItemTypes DEF TransactionOK
<1>6. GlobalCounter \in DOMAIN w => w[GlobalCounter] \in Nat
  BY <1>3, <1>5 DEF CounterAbove
<1>7. ASSUME NEW i \in DOMAIN w, i.cf = "values"
      PROVE  GlobalCounter \in DOMAIN w /\ i.count <= w[GlobalCounter]
  <2>1. CASE t.counter = Unset
    <3>1. \A j \in DOMAIN t.updated : j.cf = "default"
      BY <2>1 DEF TransactionOK
    <3>2. i \in DOMAIN items /\ GlobalCounter \notin DOMAIN t.updated
      BY <1>3, <1>4, <1>7, <3>1
    <3>3. GlobalCounter \in DOMAIN items /\ i.count <= items[GlobalCounter]
      BY <1>7, <3>2 DEF CounterAbove
    <3> QED BY <1>3, <1>4, <3>2, <3>3
  <2>2. CASE t.counter # Unset
    <3>1. GlobalCounter \in DOMAIN t.updated
      BY <2>2 DEF TransactionOK
    <3>2. i.count <= t.counter
      BY <1>3, <1>7, <2>2 DEF TransactionOK
    <3> QED BY <1>3, <1>4, <1>5, <3>1, <3>2
  <2> QED BY <2>1, <2>2
<1> QED BY <1>2, <1>6, <1>7 DEF CounterAbove

\* A record that is committed.
LEMMA CommittedRecord ==
  ASSUME NEW r \in Record
  PROVE  /\ [r EXCEPT !.committed = TRUE] \in Record
         /\ [r EXCEPT !.committed = TRUE].item = r.item
         /\ [r EXCEPT !.committed = TRUE].value = r.value
         /\ [r EXCEPT !.committed = TRUE].committed
BY DEF Record

\* The checkpoint is committed: the map is what functions saw.
LEMMA CommitRefines ==
  ASSUME StateInv, Stating, definition' = definition, CommitState
  PROVE  StateInv' /\ Map!Commit
<1>1. /\ transaction.status = "prepared"
      /\ changelog' = [n \in DOMAIN changelog |->
                          IF n \in Pending THEN [changelog[n] EXCEPT !.committed = TRUE]
                          ELSE changelog[n]]
      /\ transaction' = [transaction EXCEPT !.status = "committed"]
      /\ partition' = partition /\ lastOffset' = lastOffset /\ arrived' = arrived
  BY DEF CommitState
<1>2. /\ StateTypes /\ StoreReplayed /\ RequestsOK /\ CounterAbove(Restored) /\ MemoryOK
      /\ definition \in Definitions /\ TransactionOK(transaction) /\ PreparedOK
  BY <1>1 DEF StateInv, ActiveOK
<1>3. PICK p \in StateTransactions : p = transaction
  BY <1>2 DEF StateTypes
<1>4. PICK t : t = [p EXCEPT !.status = "committed"]
  OBVIOUS
<1>5. /\ transaction' = t /\ t \in StateTransactions /\ t.status = "committed"
      /\ t.updated = p.updated /\ t.deleted = p.deleted /\ t.empty = p.empty
      /\ t.counter = p.counter
  BY <1>1, <1>3, <1>4 DEF StateTransactions
<1>6. PICK log : log = changelog
  OBVIOUS
<1>7. PICK new : new = changelog'
  OBVIOUS
<1>8. PICK base : base = partition.offset + 1
  OBVIOUS
<1>9. PICK items \in ItemMap : items = partition.items
  BY <1>2 DEF StateTypes
<1>10. log \in Seq(Record) /\ base \in Nat /\ base <= Len(log) /\ partition.offset = base - 1
  BY <1>2, <1>6, <1>8 DEF StateTypes, Unset
<1>11. \A n \in 1..Len(log) : n \in Pending <=> n > base
  <2>1. \A n \in base + 1..Len(log) : ~log[n].committed
    <3>1. \A n \in partition.offset + 2..Len(log) : log[n].committed = FALSE
      BY <1>1, <1>2, <1>6 DEF PreparedOK
    <3> QED BY <1>10, <3>1
  <2> QED BY <1>6, <1>10, <2>1 DEF Pending
<1>12. /\ new \in Seq(Record) /\ Len(new) = Len(log)
       /\ \A n \in 1..Len(log) :
             /\ new[n].item = log[n].item /\ new[n].value = log[n].value
             /\ n > base => new[n].committed
             /\ n <= base => new[n] = log[n]
  <2>1. new = [n \in 1..Len(log) |->
                  IF n \in Pending THEN [log[n] EXCEPT !.committed = TRUE] ELSE log[n]]
    BY <1>1, <1>6, <1>7, <1>10
  <2>2. \A n \in 1..Len(log) : log[n] \in Record
    BY <1>10
  <2>3. \A n \in 1..Len(log) :
           /\ new[n] \in Record
           /\ new[n].item = log[n].item /\ new[n].value = log[n].value
           /\ n \in Pending => new[n].committed
           /\ n \notin Pending => new[n] = log[n]
    <3> TAKE n \in 1..Len(log)
    <3>1. PICK r \in Record : r = log[n]
      BY <2>2
    <3>2. CASE n \in Pending
      <4>1. new[n] = [r EXCEPT !.committed = TRUE]
        BY <2>1, <3>1, <3>2
      <4> QED BY <3>1, <3>2, <4>1, CommittedRecord
    <3>3. CASE n \notin Pending
      BY <2>1, <2>2, <3>3
    <3> QED BY <3>2, <3>3
  <2>4. new \in Seq(Record) /\ Len(new) = Len(log)
    BY <1>10, <2>1, <2>3
  <2>5. \A n \in 1..Len(log) : n <= base => n \notin Pending
    BY <1>10, <1>11
  <2> QED BY <1>11, <2>3, <2>4, <2>5
<1>13. \A i : At(items, i) = Replay(new, base, i)
  <2> TAKE i
  <2>1. At(items, i) = Replay(log, base, i)
    BY <1>2, <1>6, <1>8, <1>9 DEF StoreReplayed
  <2>2. \A n \in 1..base : new[n] = log[n]
    BY <1>10, <1>12
  <2>3. PICK end \in Nat : end = base
    BY <1>10
  <2>4. Replay(new, base, i) = Replay(log, base, i)
    <3>1. end <= base /\ \A n \in end + 1..base : ~(new[n].committed /\ new[n].item = i)
      BY <2>3
    <3>2. \A n \in 1..end : new[n] = log[n]
      BY <2>2, <2>3
    <3>3. Replay(new, base, i) = Replay(log, end, i)
      BY <1>10, <3>1, <3>2, ReplaySame
    <3> QED BY <2>3, <3>3
  <2> QED BY <2>1, <2>4
<1>14. /\ \A n \in base + 1..Len(new) :
             /\ new[n].committed
             /\ new[n].item \in DOMAIN p.updated \cup p.deleted
             /\ new[n].value = View(p, <<>>, new[n].item)
       /\ \A i \in DOMAIN p.updated \cup p.deleted : \E n \in base + 1..Len(new) : new[n].item = i
  <2>1. /\ \A n \in base + 1..Len(log) :
              /\ log[n].item \in DOMAIN p.updated \cup p.deleted
              /\ log[n].value = View(p, <<>>, log[n].item)
        /\ \A i \in DOMAIN p.updated \cup p.deleted : \E n \in base + 1..Len(log) : log[n].item = i
    <3>1. partition.offset + 2 = base + 1
      BY <1>10
    <3> QED BY <1>2, <1>3, <1>6, <3>1 DEF PreparedOK
  <2>2. \A n \in base + 1..Len(log) : n \in 1..Len(log) /\ n > base
    BY <1>10
  <2> QED BY <1>12, <2>1, <2>2
<1>15. StateTypes' /\ StoreReplayed'
  <2>1. StateTypes'
    BY <1>1, <1>2, <1>5, <1>6, <1>7, <1>12 DEF StateTypes
  <2>2. StoreReplayed'
    BY <1>1, <1>7, <1>8, <1>9, <1>13 DEF StoreReplayed
  <2> QED BY <2>1, <2>2
<1>16. Restored' = Written(items, p)
  <2>1. PICK f : f = Restored'
    OBVIOUS
  <2>2. PICK g : g = Written(items, p)
    OBVIOUS
  <2>3. \A i : At(f, i) = Replay(new, Len(new), i)
    BY <1>7, <1>15, <2>1, RestoredAt
  <2>4. base <= Len(new)
    BY <1>10, <1>12
  <2>5. \A i : Replay(new, Len(new), i) = View(p, items, i)
    BY <1>10, <1>12, <1>13, <1>14, <2>4, AppliedReplay
  <2>6. \A i : At(g, i) = View(p, items, i)
    BY <2>2, AtWritten
  <2>7. f = [i \in DOMAIN f |-> f[i]] /\ g = [i \in DOMAIN g |-> g[i]]
    BY <1>15, <2>1, <2>2, RestoredAt DEF Written
  <2>8. \A i : At(f, i) = At(g, i)
    BY <2>3, <2>5, <2>6
  <2>9. IsMap(f) /\ IsMap(g) /\ SameAt(f, g)
    BY <2>7, <2>8 DEF IsMap, SameAt
  <2>10. f = g
    BY <2>9, SameMap
  <2> QED BY <2>1, <2>2, <2>10
<1>17. Seen = Written(items, p) /\ Seen' = Restored'
  <2>1. Seen = Written(items, p)
    BY <1>1, <1>3, <1>9, SeenWritten
  <2>2. Seen' = Restored'
    BY <1>5 DEF Seen
  <2> QED BY <2>1, <2>2
<1>18. CounterAbove(Restored')
  <2>1. \A n \in partition.offset + 2..Len(changelog) : ~changelog[n].committed
    BY <1>1, <1>2 DEF PreparedOK
  <2>2. CounterAbove(items)
    BY <1>2, <1>9, <2>1, RestoredRecovered
  <2>3. TransactionOK(p) /\ p.status # "started"
    BY <1>1, <1>2, <1>3
  <2> QED BY <1>9, <1>16, <2>2, <2>3, WrittenCounter
<1>19. ActiveOK'
  <2>1. TransactionOK(transaction)'
    <3>1. /\ p.status # "started" /\ t.status # "started"
          /\ partition'.items = partition.items
      BY <1>1, <1>3, <1>5
    <3> QED BY <1>2, <1>3, <1>5, <3>1 DEF TransactionOK
  <2>2. PreparedOK'
    <3>1. /\ partition'.offset + 2 = base + 1 /\ Len(changelog') = Len(changelog)
          /\ transaction'.status = "committed"
          /\ \A map, i : View(t, map, i) = View(p, map, i)
      BY <1>1, <1>5, <1>6, <1>7, <1>10, <1>12 DEF View
    <3>2. lastOffset' = Len(changelog') - 1 \/ partition'.offset = Len(changelog') - 1
      BY <1>1, <1>2, <3>1 DEF PreparedOK
    <3>3. \A n \in base + 1..Len(new) : new[n].committed = TRUE
      <4>1. \A n \in base + 1..Len(new) : new[n].committed /\ new[n].committed \in BOOLEAN
        <5>1. \A n \in base + 1..Len(new) : new[n] \in Record
          BY <1>10, <1>12
        <5> QED BY <1>14, <5>1 DEF Record
      <4> QED BY <4>1
    <3>4. /\ \A n \in base + 1..Len(new) :
                /\ new[n].committed = (t.status = "committed")
                /\ new[n].item \in DOMAIN t.updated \cup t.deleted
                /\ new[n].value = View(t, <<>>, new[n].item)
          /\ \A i \in DOMAIN t.updated \cup t.deleted : \E n \in base + 1..Len(new) :
                new[n].item = i
      <4>1. \A n \in base + 1..Len(new) : new[n].committed = (t.status = "committed")
        BY <1>5, <3>3, Zenon
      <4>2. \A n \in base + 1..Len(new) : new[n].value = View(t, <<>>, new[n].item)
        BY <1>14, <3>1, Zenon
      <4> QED BY <1>5, <1>14, <4>1, <4>2, Zenon
    <3> QED BY <1>5, <1>7, <3>1, <3>2, <3>4 DEF PreparedOK, View
  <2> QED BY <1>5, <2>1, <2>2 DEF ActiveOK
<1>20. MemoryOK'
  <2>1. \A n \in 1..Len(new) : new[n].value = log[n].value
    BY <1>12
  <2> QED BY <1>2, <1>3, <1>5, <1>6, <1>7, <1>12, <2>1 DEF MemoryOK
<1>21. StateInv'
  BY <1>1, <1>2, <1>15, <1>18, <1>19, <1>20 DEF StateInv, CounterAbove, RequestsOK
<1>22. Map!Commit
  BY <1>1, <1>16, <1>17, StepsMapped
<1> QED BY <1>21, <1>22

\* A committed checkpoint is written to the store, which then is up to date; no flush fails.
LEMMA FlushRefines ==
  ASSUME StateInv, Stating, definition' = definition, FlushState
  PROVE  StateInv' /\ UNCHANGED Map!vars
<1>1. /\ transaction.status = "committed"
      /\ changelog' = changelog /\ lastOffset' = lastOffset /\ arrived' = arrived
  BY DEF FlushState
<1>2. /\ StateTypes /\ StoreReplayed /\ RequestsOK /\ CounterAbove(Restored) /\ MemoryOK
      /\ definition \in Definitions /\ TransactionOK(transaction) /\ PreparedOK
  BY <1>1 DEF StateInv, ActiveOK
<1>3. PICK p \in StateTransactions : p = transaction
  BY <1>2 DEF StateTypes
<1>4. PICK log : log = changelog
  OBVIOUS
<1>5. PICK base : base = partition.offset + 1
  OBVIOUS
<1>6. PICK items \in ItemMap : items = partition.items
  BY <1>2 DEF StateTypes
<1>7. /\ log \in Seq(Record) /\ base \in Nat /\ base <= Len(log) /\ partition.offset = base - 1
      /\ lastOffset \in Int
  BY <1>2, <1>4, <1>5 DEF StateTypes, Unset
<1>8. /\ \A n \in base + 1..Len(log) :
            /\ log[n].committed
            /\ log[n].item \in DOMAIN p.updated \cup p.deleted
            /\ log[n].value = View(p, <<>>, log[n].item)
      /\ \A i \in DOMAIN p.updated \cup p.deleted : \E n \in base + 1..Len(log) : log[n].item = i
  <2>1. partition.offset + 2 = base + 1
    BY <1>7
  <2> QED BY <1>1, <1>2, <1>3, <1>4, <2>1 DEF PreparedOK
<1>9. \A i : At(items, i) = Replay(log, base, i)
  BY <1>2, <1>4, <1>5, <1>6 DEF StoreReplayed
<1>10. \A i : Replay(log, Len(log), i) = View(p, items, i)
  BY <1>7, <1>8, <1>9, AppliedReplay
<1>11. p.empty <=> DOMAIN p.updated = {} /\ p.deleted = {}
  BY <1>2, <1>3 DEF TransactionOK
<1>12. ~p.empty => lastOffset = Len(log) - 1
  <2> SUFFICES ASSUME ~p.empty PROVE lastOffset = Len(log) - 1
    OBVIOUS
  <2>1. PICK n \in base + 1..Len(log) : TRUE
    BY <1>8, <1>11
  <2>2. partition.offset # Len(log) - 1
    BY <1>7, <2>1
  <2> QED BY <1>2, <1>4, <2>2 DEF PreparedOK
<1>13. ~(~p.empty /\ lastOffset < partition.offset)
  BY <1>7, <1>12
<1>14. /\ transaction' = NoTransaction
       /\ partition' = IF p.empty THEN partition
                       ELSE [items |-> Written(items, p), offset |-> lastOffset]
  BY <1>3, <1>6, <1>13 DEF FlushState
<1>15. StateTypes' /\ StoreReplayed'
  <2>1. CASE p.empty
    BY <1>1, <1>2, <1>14, <2>1, EmptyTransactions DEF StateTypes, StoreReplayed
  <2>2. CASE ~p.empty
    <3>1. PICK w \in ItemMap : w = Written(items, p)
      BY WrittenType
    <3>2. PICK q : q = [items |-> w, offset |-> lastOffset]
      OBVIOUS
    <3>3. /\ partition' = q /\ q \in [items : ItemMap, offset : Int]
          /\ q.items = w /\ q.offset = lastOffset
      BY <1>7, <1>14, <2>2, <3>1, <3>2
    <3>4. lastOffset = Len(log) - 1 /\ lastOffset \in Unset..Len(log) - 1
      BY <1>7, <1>12, <2>2 DEF Unset
    <3>5. StateTypes'
      BY <1>1, <1>2, <1>4, <1>14, <3>3, <3>4, EmptyTransactions DEF StateTypes
    <3>6. StoreReplayed'
      <4>1. \A i : At(w, i) = View(p, items, i)
        BY <3>1, AtWritten
      <4>2. q.offset + 1 = Len(log)
        BY <1>7, <3>3, <3>4
      <4>3. \A i : At(w, i) = Replay(log, q.offset + 1, i)
        BY <1>10, <4>1, <4>2
      <4> QED BY <1>1, <1>4, <3>3, <4>3 DEF StoreReplayed
    <3> QED BY <3>5, <3>6
  <2> QED BY <2>1, <2>2
<1>16. Restored' = Restored
  BY <1>1, <1>2, <1>15, RestoredSame
<1>17. Seen = Restored /\ Seen' = Restored'
  <2>1. transaction'.status = "none"
    BY <1>14, EmptyTransactions
  <2> QED BY <1>1, <2>1 DEF Seen
<1>18. Ours(Seen)' = Ours(Seen)
  BY <1>16, <1>17, Mapped
<1>19. ActiveOK' /\ MemoryOK'
  BY <1>1, <1>2, <1>14, EmptyTransactions DEF ActiveOK, MemoryOK
<1>20. CounterAbove(Restored')
  BY <1>2, <1>16
<1>21. StateInv'
  BY <1>1, <1>2, <1>15, <1>19, <1>20 DEF StateInv, CounterAbove, RequestsOK
<1> QED BY <1>1, <1>16, <1>18, <1>21, StepsMapped

\* Recovery applies the next record of the changelog to the store.
LEMMA RecoverRefines ==
  ASSUME StateInv, Stating, definition' = definition, RecoverRecord
  PROVE  StateInv' /\ UNCHANGED Map!vars
<1>1. /\ transaction.status = "none" /\ partition.offset < Len(changelog) - 1
      /\ transaction' = transaction /\ changelog' = changelog /\ lastOffset' = lastOffset
      /\ arrived' = arrived
  BY DEF RecoverRecord
<1>2. /\ StateTypes /\ StoreReplayed /\ RequestsOK /\ CounterAbove(Restored) /\ MemoryOK
      /\ definition \in Definitions
  BY DEF StateInv
<1>3. PICK log : log = changelog
  OBVIOUS
<1>4. PICK base : base = partition.offset + 1
  OBVIOUS
<1>5. PICK items \in ItemMap : items = partition.items
  BY <1>2 DEF StateTypes
<1>6. /\ log \in Seq(Record) /\ base \in Nat /\ base < Len(log)
      /\ partition.offset = base - 1 /\ partition.offset + 2 = base + 1
  BY <1>1, <1>2, <1>3, <1>4 DEF StateTypes, Unset
<1>7. PICK r \in Record : r = log[base + 1]
  BY <1>6
<1>8. PICK w : w = IF r.committed THEN Recovered(items, r) ELSE items
  OBVIOUS
<1>9. partition' = [items |-> w, offset |-> base]
  BY <1>3, <1>5, <1>6, <1>7, <1>8 DEF RecoverRecord
<1>10. r.item \in StateItem /\ (r.value = Deletion \/ \E v \in Int : r.value = <<v>>)
  BY DEF Record
<1>11. Deletes(r.value) <=> r.value = Deletion
  <2>1. definition.backend = "memory" => r.value # <<EmptyBytes>>
    BY <1>2, <1>3, <1>6, <1>7 DEF MemoryOK
  <2> QED BY <2>1 DEF Deletes, DeletesTruthy
<1>12. w \in ItemMap
  <2>1. CASE ~r.committed
    BY <1>8, <2>1
  <2>2. CASE r.committed /\ r.value = Deletion
    BY <1>8, <1>11, <2>2, MapChanges DEF Recovered
  <2>3. CASE r.committed /\ r.value # Deletion
    <3>1. w = With(items, r.item, r.value[1]) /\ r.value[1] \in Int
      BY <1>8, <1>10, <1>11, <2>3 DEF Recovered
    <3> QED BY <1>10, <3>1, MapChanges
  <2> QED BY <2>1, <2>2, <2>3
<1>13. \A i : At(w, i) = IF r.committed /\ i = r.item THEN r.value ELSE At(items, i)
  <2> TAKE i
  <2>1. CASE ~r.committed
    BY <1>8, <2>1
  <2>2. CASE r.committed /\ r.value = Deletion
    <3>1. w = Without(items, {r.item})
      BY <1>8, <1>11, <2>2 DEF Recovered
    <3> QED BY <2>2, <3>1, AtWithout
  <2>3. CASE r.committed /\ r.value # Deletion
    <3>1. w = With(items, r.item, r.value[1]) /\ <<r.value[1]>> = r.value
      BY <1>8, <1>10, <1>11, <2>3 DEF Recovered
    <3> QED BY <2>3, <3>1, AtWith
  <2> QED BY <2>1, <2>2, <2>3
<1>14. \A i : At(items, i) = Replay(log, base, i)
  BY <1>2, <1>3, <1>4, <1>5 DEF StoreReplayed
<1>15. \A i : At(w, i) = Replay(log, base + 1, i)
  <2> TAKE i
  <2>1. CASE r.committed /\ i = r.item
    <3>1. base + 1 \in RecordsFor(log, base + 1, i)
      BY <1>6, <1>7, <2>1 DEF RecordsFor
    <3>2. \A m \in RecordsFor(log, base + 1, i) : m <= base + 1
      BY <1>6 DEF RecordsFor
    <3>3. PICK end \in Nat : end = base + 1
      BY <1>6
    <3>4. Replay(log, end, i) = log[end].value
      BY <3>1, <3>2, <3>3, ReplayLast
    <3> QED BY <1>7, <1>13, <2>1, <3>3, <3>4
  <2>2. CASE ~(r.committed /\ i = r.item)
    <3>1. PICK end \in Nat : end = base + 1
      BY <1>6
    <3>2. \A n \in base + 1..end : ~(log[n].committed /\ log[n].item = i)
      BY <1>6, <1>7, <2>2, <3>1
    <3>3. Replay(log, end, i) = Replay(log, base, i)
      BY <1>6, <3>1, <3>2, ReplaySame
    <3> QED BY <1>13, <1>14, <2>2, <3>1, <3>3
  <2> QED BY <2>1, <2>2
<1>16. PICK q : q = [items |-> w, offset |-> base]
  OBVIOUS
<1>17. /\ partition' = q /\ q.items = w /\ q.offset = base
       /\ q \in [items : ItemMap, offset : Int] /\ base \in Unset..Len(log) - 1
  BY <1>6, <1>9, <1>12, <1>16 DEF Unset
<1>18. StateTypes'
  BY <1>1, <1>2, <1>3, <1>17 DEF StateTypes
<1>19. StoreReplayed'
  BY <1>1, <1>3, <1>15, <1>17 DEF StoreReplayed
<1>20. Restored' = Restored
  BY <1>1, <1>2, <1>18, <1>19, RestoredSame
<1>21. Seen = Restored /\ Seen' = Restored'
  BY <1>1 DEF Seen
<1>22. Ours(Seen)' = Ours(Seen)
  BY <1>20, <1>21, Mapped
<1>23. ActiveOK' /\ MemoryOK'
  BY <1>1, <1>2 DEF ActiveOK, MemoryOK
<1>24. CounterAbove(Restored')
  BY <1>2, <1>20
<1>25. StateInv'
  BY <1>1, <1>2, <1>18, <1>19, <1>23, <1>24 DEF StateInv, CounterAbove, RequestsOK
<1> QED BY <1>1, <1>20, <1>22, <1>25, StepsMapped

\* The records of a checkpoint: one for each of its changes.
LEMMA RecordsOK ==
  ASSUME NEW t \in StateTransactions, DOMAIN t.updated \cap t.deleted = {}
  PROVE  /\ Records(t) \in Seq(Record)
         /\ \A n \in 1..Len(Records(t)) :
               /\ Records(t)[n].committed = FALSE
               /\ Records(t)[n].item \in DOMAIN t.updated \cup t.deleted
               /\ Records(t)[n].value = View(t, <<>>, Records(t)[n].item)
         /\ \A i \in DOMAIN t.updated \cup t.deleted :
               \E n \in 1..Len(Records(t)) : Records(t)[n].item = i
<1> DEFINE D == DOMAIN t.updated \cup t.deleted
           rec(i) == [item |-> i, value |-> View(t, <<>>, i), committed |-> FALSE]
           S == {rec(i) : i \in D}
           f == [i \in D |-> rec(i)]
<1>1. /\ D \subseteq StateItem /\ IsFiniteSet(D)
      /\ \A i \in DOMAIN t.updated : t.updated[i] \in Int
  <2>1. /\ DOMAIN t.updated \subseteq StateItem /\ IsFiniteSet(DOMAIN t.updated)
        /\ \A i \in DOMAIN t.updated : t.updated[i] \in Int
    BY MapTypes DEF StateTransactions
  <2>2. t.deleted \subseteq StateItem /\ IsFiniteSet(t.deleted)
    BY DEF StateTransactions
  <2> QED BY <2>1, <2>2, FS_Union
<1>2. IsFiniteSet(S)
  <2>1. f \in Surjection(D, S)
    <3> HIDE DEF rec, D
    <3> QED BY Zenon DEF Surjection
  <2> HIDE DEF D, S, f
  <2> QED BY <1>1, <2>1, FS_Surjection
<1>3. Records(t) = SetToSeq(S)
  <2>1. \A i \in DOMAIN t.updated : View(t, <<>>, i) = <<t.updated[i]>>
    BY DEF View
  <2>2. \A i \in t.deleted : View(t, <<>>, i) = Deletion
    BY DEF View
  <2>3. S = {[item |-> i, value |-> <<t.updated[i]>>, committed |-> FALSE] : i \in DOMAIN t.updated}
            \cup {[item |-> i, value |-> Deletion, committed |-> FALSE] : i \in t.deleted}
    BY <2>1, <2>2
  <2> QED BY <2>3, Zenon DEF Records
<1>4. \A i \in D : /\ rec(i) \in Record
                   /\ rec(i).item = i /\ rec(i).committed = FALSE
                   /\ rec(i).value = View(t, <<>>, i)
  <2> TAKE i \in D
  <2>1. View(t, <<>>, i) \in {Deletion} \cup {<<v>> : v \in Int}
    BY <1>1 DEF View
  <2>2. i \in StateItem
    BY <1>1
  <2> HIDE DEF D
  <2> QED BY <2>1, <2>2 DEF Record
<1>5. PICK q : q = SetToSeq(S)
  OBVIOUS
<1> HIDE DEF S, rec, f, D
<1>6. q \in Seq(S) /\ \A e \in S : \E n \in 1..Len(q) : q[n] = e
  BY <1>2, <1>5, SequenceOfSet
<1>7. \A n \in 1..Len(q) : \E i \in D : q[n] = rec(i)
  <2>1. \A n \in 1..Len(q) : q[n] \in S
    BY <1>6
  <2> QED BY <2>1 DEF S
<1>8. \A n \in 1..Len(q) : q[n] \in Record
  BY <1>4, <1>7
<1>9. q \in Seq(Record)
  BY <1>6, <1>8
<1>10. \A n \in 1..Len(q) : /\ q[n].committed = FALSE /\ q[n].item \in D
                            /\ q[n].value = View(t, <<>>, q[n].item)
  BY <1>4, <1>7
<1>11. \A i \in D : \E n \in 1..Len(q) : q[n].item = i
  <2> TAKE i \in D
  <2>1. rec(i) \in S
    BY DEF S
  <2>2. PICK n \in 1..Len(q) : q[n] = rec(i)
    BY <1>6, <2>1
  <2> QED BY <1>4, <2>2
<1> QED BY <1>3, <1>5, <1>9, <1>10, <1>11 DEF D

\* The transaction of a checkpoint that has been prepared.
Prepared(t) == [WithCounter(t) EXCEPT !.status = "prepared"]

\* It has the counter, unless nothing was collected, and shows what it did before.
LEMMA PreparedTransaction ==
  ASSUME NEW p, TransactionOK(p), p.status = "started"
  PROVE  /\ TransactionOK(Prepared(p)) /\ Prepared(p).status = "prepared"
         /\ Prepared(p).counter = p.counter
         /\ p.counter = Unset => Prepared(p).updated = p.updated
         /\ Records(WithCounter(p)) = Records(Prepared(p))
         /\ \A map, i : i # GlobalCounter => View(Prepared(p), map, i) = View(p, map, i)
<1>1. p \in StateTransactions
  BY DEF TransactionOK
<1>2. PICK w : w = WithCounter(p)
  OBVIOUS
<1>3. PICK t : t = Prepared(p)
  OBVIOUS
<1>4. /\ w \in StateTransactions /\ w.status = "started" /\ w.counter = p.counter
      /\ p.counter = Unset => w = p
      /\ p.counter # Unset =>
            /\ w.updated = With(p.updated, GlobalCounter, p.counter)
            /\ w.deleted = p.deleted \ {GlobalCounter} /\ w.empty = FALSE
  <2>1. CASE p.counter = Unset
    BY <1>1, <1>2, <2>1 DEF WithCounter
  <2>2. CASE p.counter # Unset
    <3>1. PICK c \in Int : c = p.counter
      BY <1>1 DEF StateTransactions
    <3>2. w = CacheSet(p, GlobalCounter, c)
      BY <1>2, <2>2, <3>1 DEF WithCounter
    <3>3. GlobalCounter \in StateItem
      BY ItemTypes
    <3>4. /\ CacheSet(p, GlobalCounter, c) \in StateTransactions
          /\ CacheSet(p, GlobalCounter, c).updated = With(p.updated, GlobalCounter, c)
          /\ CacheSet(p, GlobalCounter, c).deleted = p.deleted \ {GlobalCounter}
          /\ CacheSet(p, GlobalCounter, c).empty = FALSE
          /\ CacheSet(p, GlobalCounter, c).status = p.status
          /\ CacheSet(p, GlobalCounter, c).counter = p.counter
      BY <1>1, <3>3, CacheSetFields
    <3> QED BY <2>2, <3>1, <3>2, <3>4
  <2> QED BY <2>1, <2>2
<1>5. /\ t \in StateTransactions /\ t.status = "prepared" /\ t.counter = p.counter
      /\ t.updated = w.updated /\ t.deleted = w.deleted /\ t.empty = w.empty
  BY <1>2, <1>4, <1>3 DEF StateTransactions, Prepared
<1>6. Records(w) = Records(t)
  BY <1>5, Zenon DEF Records
<1>7. /\ GlobalCounter \notin p.deleted /\ GlobalCounter \notin DOMAIN p.updated
      /\ \A i \in DOMAIN p.updated : i.cf \in {"default", "values"}
  <2>1. \A i \in DOMAIN p.updated : i.cf \in {"default", "values"}
    BY DEF TransactionOK
  <2>2. \A i \in p.deleted : i.cf \in {"default", "values"}
    BY DEF TransactionOK
  <2> QED BY <2>1, <2>2, ItemTypes
<1>8. CASE p.counter = Unset
  <2>1. t.updated = p.updated /\ t.deleted = p.deleted /\ t.empty = p.empty
    BY <1>4, <1>5, <1>8
  <2>2. \A map, i : View(t, map, i) = View(p, map, i)
    BY <2>1 DEF View
  <2>3. TransactionOK(t)
    <3>1. /\ DOMAIN p.updated \cap p.deleted = {}
          /\ \A i \in p.deleted : i.cf \in {"default", "values"}
          /\ p.empty <=> DOMAIN p.updated = {} /\ p.deleted = {}
          /\ p.counter \in Nat \cup {Unset}
          /\ \A i \in DOMAIN p.updated : i.cf = "default"
      BY <1>8 DEF TransactionOK
    <3> QED BY <1>5, <1>8, <2>1, <3>1 DEF TransactionOK
  <2> QED BY <1>2, <1>5, <1>6, <1>3, <2>1, <2>2, <2>3
<1>9. CASE p.counter # Unset
  <2>1. /\ t.updated = With(p.updated, GlobalCounter, p.counter)
        /\ t.deleted = p.deleted /\ t.empty = FALSE
    BY <1>4, <1>5, <1>7, <1>9
  <2>2. /\ DOMAIN t.updated = DOMAIN p.updated \cup {GlobalCounter}
        /\ \A i \in DOMAIN t.updated :
              t.updated[i] = IF i = GlobalCounter THEN p.counter ELSE p.updated[i]
    BY <2>1 DEF With
  <2>3. \A map, i : i # GlobalCounter => View(t, map, i) = View(p, map, i)
    BY <2>1, <2>2 DEF View
  <2>4. TransactionOK(t)
    <3>1. /\ DOMAIN p.updated \cap p.deleted = {}
          /\ \A i \in p.deleted : i.cf \in {"default", "values"}
          /\ p.counter \in Nat
          /\ \A i \in DOMAIN p.updated \cup DOMAIN partition.items :
                i.cf = "values" => i.count <= p.counter
      BY <1>9 DEF TransactionOK
    <3>2. \A i \in DOMAIN t.updated \cup DOMAIN partition.items : i.cf = "values" =>
             i.count <= t.counter
      BY <1>5, <2>2, <3>1, ItemTypes
    <3>3. \A i \in DOMAIN t.updated :
              \/ i.cf \in {"default", "values"}
              \/ i = GlobalCounter /\ t.updated[i] = t.counter
      BY <1>5, <1>7, <2>2
    <3>4. /\ DOMAIN t.updated \cap t.deleted = {}
          /\ t.empty <=> DOMAIN t.updated = {} /\ t.deleted = {}
          /\ GlobalCounter \in DOMAIN t.updated
      BY <1>7, <2>1, <2>2, <3>1
    <3> QED BY <1>5, <1>9, <2>1, <3>1, <3>2, <3>3, <3>4 DEF TransactionOK
  <2> QED BY <1>2, <1>5, <1>6, <1>9, <1>3, <2>3, <2>4
<1> QED BY <1>8, <1>9

\* Logs that agree up to a record, records that are not committed, and equal replays.
Agree(log, longer, upto) == \A n \in 1..upto : longer[n] = log[n]

Uncommitted(log, from, to) == \A n \in from..to : ~log[n].committed

SameReplay(log, longer, base, end) == \A i : Replay(longer, end, i) = Replay(log, base, i)

\* Records that are not committed change nothing.
LEMMA UncommittedReplay ==
  ASSUME NEW log, NEW longer, NEW base \in Nat, NEW end \in Nat, base <= end,
         Agree(log, longer, base), Uncommitted(longer, base + 1, end)
  PROVE  SameReplay(log, longer, base, end)
<1>1. \A n \in 1..base : longer[n] = log[n]
  BY DEF Agree
<1>2. ASSUME NEW i
      PROVE  Replay(longer, end, i) = Replay(log, base, i)
  <2>1. \A n \in base + 1..end : ~(longer[n].committed /\ longer[n].item = i)
    BY DEF Uncommitted
  <2> QED BY <1>1, <2>1, ReplaySame
<1> QED BY <1>2 DEF SameReplay

\* Nor do they when they are appended.
LEMMA AppendedReplay ==
  ASSUME NEW log \in Seq(Record), NEW rs \in Seq(Record),
         \A n \in 1..Len(rs) : rs[n].committed = FALSE
  PROVE  /\ log \o rs \in Seq(Record) /\ Len(log \o rs) = Len(log) + Len(rs)
         /\ \A n \in 1..Len(log) : (log \o rs)[n] = log[n]
         /\ \A n \in Len(log) + 1..Len(log \o rs) : \E k \in 1..Len(rs) : (log \o rs)[n] = rs[k]
         /\ \A k \in 1..Len(rs) : \E n \in Len(log) + 1..Len(log \o rs) : (log \o rs)[n] = rs[k]
         /\ SameReplay(log, log \o rs, Len(log), Len(log))
         /\ SameReplay(log, log \o rs, Len(log), Len(log \o rs))
<1>1. log \o rs \in Seq(Record) /\ Len(log \o rs) = Len(log) + Len(rs)
  OBVIOUS
<1>2. \A n \in 1..Len(log) : (log \o rs)[n] = log[n]
  OBVIOUS
<1>3. \A n \in Len(log) + 1..Len(log \o rs) :
          n - Len(log) \in 1..Len(rs) /\ (log \o rs)[n] = rs[n - Len(log)]
  BY <1>1
<1>4. \A k \in 1..Len(rs) :
          k + Len(log) \in Len(log) + 1..Len(log \o rs) /\ (log \o rs)[k + Len(log)] = rs[k]
  BY <1>1
<1>5. PICK new : new = log \o rs
  OBVIOUS
<1>6. PICK base \in Nat : base = Len(log)
  OBVIOUS
<1>7. PICK end \in Nat : end = Len(new)
  BY <1>1, <1>5
<1>8. base <= end
  BY <1>1, <1>5, <1>6, <1>7
<1>9. Agree(log, new, base)
  BY <1>2, <1>5, <1>6 DEF Agree
<1>10. Uncommitted(new, base + 1, end)
  BY <1>3, <1>5, <1>6, <1>7 DEF Uncommitted
<1>11. SameReplay(log, new, base, end) /\ SameReplay(log, new, base, base)
  <2>1. SameReplay(log, new, base, end)
    BY <1>8, <1>9, <1>10, UncommittedReplay
  <2>2. base <= base /\ Uncommitted(new, base + 1, base)
    BY DEF Uncommitted
  <2>3. SameReplay(log, new, base, base)
    BY <1>9, <2>2, UncommittedReplay
  <2> QED BY <2>1, <2>3
<1>12. /\ \A n \in Len(log) + 1..Len(log \o rs) : \E k \in 1..Len(rs) : (log \o rs)[n] = rs[k]
       /\ \A k \in 1..Len(rs) : \E n \in Len(log) + 1..Len(log \o rs) : (log \o rs)[n] = rs[k]
  BY <1>3, <1>4, Zenon
<1> QED BY <1>1, <1>2, <1>5, <1>6, <1>7, <1>11, <1>12, Zenon

\* A checkpoint is prepared: its records are in the changelog, and not yet committed.
LEMMA PrepareRefines ==
  ASSUME StateInv, Stating, definition' = definition, PrepareState
  PROVE  StateInv' /\ UNCHANGED Map!vars
<1>1. PICK p : p = transaction
  OBVIOUS
<1>2. PICK t : t = Prepared(p)
  OBVIOUS
<1>3. PICK rs : rs = Records(WithCounter(p))
  OBVIOUS
<1>4. /\ Started /\ transaction' = t /\ changelog' = changelog \o rs
      /\ lastOffset' = IF rs = <<>> THEN lastOffset ELSE Len(changelog') - 1
      /\ partition' = partition /\ arrived' = arrived
  BY <1>1, <1>2, <1>3 DEF PrepareState, Prepared
<1>5. /\ TransactionOK(p) /\ p.status = "started" /\ partition.offset = Len(changelog) - 1
      /\ MemoryFits(p) /\ StateTypes /\ StoreReplayed /\ RequestsOK
      /\ CounterAbove(Restored) /\ MemoryOK /\ definition \in Definitions
  BY <1>1, <1>4, StartedFacts DEF StateInv
<1>6. /\ TransactionOK(t) /\ t.status = "prepared" /\ t.counter = p.counter
      /\ p.counter = Unset => t.updated = p.updated
      /\ rs = Records(t)
      /\ \A map, i : i # GlobalCounter => View(t, map, i) = View(p, map, i)
  BY <1>2, <1>3, <1>5, PreparedTransaction
<1>7. /\ rs \in Seq(Record)
      /\ \A n \in 1..Len(rs) :
            /\ rs[n].committed = FALSE
            /\ rs[n].item \in DOMAIN t.updated \cup t.deleted
            /\ rs[n].value = View(t, <<>>, rs[n].item)
      /\ \A i \in DOMAIN t.updated \cup t.deleted : \E n \in 1..Len(rs) : rs[n].item = i
  <2>1. t \in StateTransactions /\ DOMAIN t.updated \cap t.deleted = {}
    BY <1>6 DEF TransactionOK
  <2> QED BY <1>6, <2>1, RecordsOK
<1>8. PICK log : log = changelog
  OBVIOUS
<1>9. log \in Seq(Record) /\ partition.offset = Len(log) - 1
  BY <1>5, <1>8 DEF StateTypes
<1>10. PICK new : new = log \o rs
  OBVIOUS
<1>11. /\ new \in Seq(Record) /\ Len(new) = Len(log) + Len(rs)
       /\ \A n \in 1..Len(log) : new[n] = log[n]
       /\ \A n \in Len(log) + 1..Len(new) : \E k \in 1..Len(rs) : new[n] = rs[k]
       /\ \A k \in 1..Len(rs) : \E n \in Len(log) + 1..Len(new) : new[n] = rs[k]
       /\ SameReplay(log, new, Len(log), Len(log)) /\ SameReplay(log, new, Len(log), Len(new))
  <2>1. log \in Seq(Record) /\ rs \in Seq(Record) /\ \A n \in 1..Len(rs) : rs[n].committed = FALSE
    BY <1>7, <1>9
  <2>2. /\ log \o rs \in Seq(Record) /\ Len(log \o rs) = Len(log) + Len(rs)
        /\ \A n \in 1..Len(log) : (log \o rs)[n] = log[n]
        /\ \A n \in Len(log) + 1..Len(log \o rs) : \E k \in 1..Len(rs) : (log \o rs)[n] = rs[k]
        /\ \A k \in 1..Len(rs) : \E n \in Len(log) + 1..Len(log \o rs) : (log \o rs)[n] = rs[k]
        /\ SameReplay(log, log \o rs, Len(log), Len(log))
        /\ SameReplay(log, log \o rs, Len(log), Len(log \o rs))
    BY <2>1, AppendedReplay, Zenon
  <2> QED BY <1>10, <2>2, Zenon
<1>12. changelog' = new /\ changelog = log
  BY <1>4, <1>8, <1>10
<1>13. StateTypes'
  <2>1. t \in StateTransactions
    BY <1>6 DEF TransactionOK
  <2>2. lastOffset' \in Int /\ partition.offset \in Unset..Len(new) - 1
    <3>1. lastOffset \in Int
      BY <1>5 DEF StateTypes
    <3> QED BY <1>4, <1>9, <1>11, <1>12, <3>1 DEF Unset
  <2> QED BY <1>4, <1>5, <1>11, <1>12, <2>1, <2>2 DEF StateTypes
<1>14. StoreReplayed'
  <2>1. partition.offset + 1 = Len(log)
    BY <1>9
  <2> QED BY <1>4, <1>5, <1>11, <1>12, <2>1 DEF StoreReplayed, SameReplay
<1>15. Restored' = Restored
  <2>1. \A i : Replay(changelog', Len(changelog'), i) = Replay(changelog, Len(changelog), i)
    BY <1>9, <1>11, <1>12 DEF SameReplay
  <2> QED BY <1>5, <1>13, <1>14, <2>1, RestoredSame
<1>16. ActiveOK'
  <2>1. TransactionOK(transaction)'
    BY <1>4, <1>6 DEF TransactionOK
  <2>2. PreparedOK'
    <3>1. partition'.offset + 2 = Len(log) + 1 /\ transaction'.status # "committed"
      BY <1>4, <1>6, <1>9
    <3>2. \A n \in Len(log) + 1..Len(new) :
             /\ new[n].committed = FALSE
             /\ new[n].item \in DOMAIN t.updated \cup t.deleted
             /\ new[n].value = View(t, <<>>, new[n].item)
      <4> TAKE n \in Len(log) + 1..Len(new)
      <4>1. PICK k \in 1..Len(rs) : new[n] = rs[k]
        BY <1>11
      <4> QED BY <1>7, <4>1
    <3>3. \A i \in DOMAIN t.updated \cup t.deleted :
              \E n \in Len(log) + 1..Len(new) : new[n].item = i
      <4> TAKE i \in DOMAIN t.updated \cup t.deleted
      <4>1. PICK k \in 1..Len(rs) : rs[k].item = i
        BY <1>7
      <4> QED BY <1>11, <4>1
    <3>4. lastOffset' = Len(new) - 1 \/ partition'.offset = Len(new) - 1
      <4>1. CASE rs = <<>>
        BY <1>4, <1>9, <1>11, <4>1
      <4>2. CASE rs # <<>>
        BY <1>4, <1>12, <4>2
      <4> QED BY <4>1, <4>2
    <3>5. \A n \in Len(log) + 1..Len(new) : new[n].committed = (transaction'.status = "committed")
      BY <3>1, <3>2, Zenon
    <3> QED BY <1>4, <1>12, <3>1, <3>2, <3>3, <3>4, <3>5 DEF PreparedOK, View
  <2> QED BY <1>4, <1>6, <2>1, <2>2 DEF ActiveOK
<1>17. MemoryOK'
  <2> SUFFICES ASSUME definition.backend = "memory"
               PROVE  /\ t.counter = Unset
                      /\ \A i \in DOMAIN t.updated : t.updated[i] # EmptyBytes
                      /\ \A n \in 1..Len(new) : new[n].value # <<EmptyBytes>>
    BY <1>4, <1>12 DEF MemoryOK
  <2>1. t.counter = Unset /\ \A i \in DOMAIN t.updated : t.updated[i] # EmptyBytes
    BY <1>5, <1>6 DEF MemoryFits
  <2>2. ASSUME NEW n \in 1..Len(new)
        PROVE  new[n].value # <<EmptyBytes>>
    <3>1. CASE n <= Len(log)
      <4>1. n \in 1..Len(log) /\ new[n] = log[n]
        BY <1>11, <3>1
      <4> QED BY <1>5, <1>12, <4>1 DEF MemoryOK
    <3>2. CASE n > Len(log)
      <4>1. PICK k \in 1..Len(rs) : new[n] = rs[k]
        <5>1. n \in Len(log) + 1..Len(new)
          BY <1>9, <3>2
        <5> QED BY <1>11, <5>1
      <4>2. rs[k].value = View(t, <<>>, rs[k].item)
        BY <1>7
      <4> QED BY <2>1, <4>1, <4>2 DEF View, At, Deletion
    <3> QED BY <3>1, <3>2
  <2> QED BY <2>1, <2>2
<1>18. StateInv'
  BY <1>4, <1>5, <1>13, <1>14, <1>15, <1>16, <1>17 DEF StateInv, CounterAbove, RequestsOK
<1>19. Ours(Seen)' = Ours(Seen)
  <2>1. PICK items : items = partition.items
    OBVIOUS
  <2>2. Seen = Written(items, p) /\ Seen' = Written(items, t)
    BY <1>1, <1>4, <1>5, <1>6, <2>1, SeenWritten
  <2>3. Ours(Seen) = Shown(items, p) /\ Ours(Seen)' = Shown(items, t)
    BY <2>2, Mapped DEF Shown
  <2>4. PICK g : g = Shown(items, p)
    OBVIOUS
  <2>5. g = [i \in DOMAIN g |-> g[i]]
    BY <2>4, ShownAt
  <2>6. \A i : At(g, i) = IF i = GlobalCounter THEN Deletion ELSE View(t, items, i)
    BY <1>6, <2>4, ShownAt
  <2>7. Shown(items, t) = g
    BY <2>5, <2>6, ShownSame
  <2> QED BY <2>3, <2>4, <2>7
<1>20. arrived' = arrived
  BY <1>4
<1> QED BY <1>15, <1>18, <1>19, <1>20, StepsMapped

-----------------------------------------------------------------------------
\* In the beginning the map is empty.
LEMMA InitRefines ==
  ASSUME Init
  PROVE  StateInv /\ Map!Init
<1>1. /\ definition \in Definitions /\ arrived = <<>> /\ transaction = NoTransaction
      /\ partition = EmptyPartition /\ changelog = <<>> /\ lastOffset = Unset
  BY DEF Init, StateInit
<1>2. /\ NoTransaction \in StateTransactions /\ NoTransaction.status = "none"
      /\ NoTransaction.counter = Unset /\ NoTransaction.updated = <<>>
  BY EmptyTransactions
<1>3. /\ partition.items = <<>> /\ partition.offset = -1
      /\ partition \in [items : ItemMap, offset : Int]
  BY <1>1, MapTypes DEF EmptyPartition, Unset
<1>4. StateTypes
  BY <1>1, <1>2, <1>3 DEF StateTypes, Unset
<1>5. StoreReplayed
  BY <1>1, <1>3 DEF StoreReplayed, Replay, RecordsFor, At
<1>6. Restored = <<>>
  <2>1. \A n \in partition.offset + 2..Len(changelog) : ~changelog[n].committed
    BY <1>1, <1>3
  <2> QED BY <1>3, <1>4, <1>5, <2>1, RestoredRecovered
<1>7. Seen = <<>>
  BY <1>1, <1>2, <1>6 DEF Seen
<1>8. Ours(<<>>) = <<>>
  BY DEF Ours, Without
<1>9. StateInv
  <2>1. RequestsOK
    BY <1>1 DEF RequestsOK
  <2>2. ActiveOK
    BY <1>1, <1>2 DEF ActiveOK
  <2>3. CounterAbove(Restored)
    BY <1>6 DEF CounterAbove
  <2>4. MemoryOK
    BY <1>1, <1>2 DEF MemoryOK
  <2> QED BY <1>1, <1>4, <1>5, <2>1, <2>2, <2>3, <2>4 DEF StateInv
<1>10. Map!Init
  BY <1>1, <1>6, <1>7, <1>8 DEF Map!Init
<1> QED BY <1>9, <1>10

\* Every step of a function with state is one of the map, or none.
LEMMA StateNextRefines ==
  ASSUME NoEmptyBytesInMemory, StateInv, StateNext
  PROVE  StateInv' /\ (Map!Next \/ UNCHANGED Map!vars)
<1>1. Stating /\ definition' = definition
  BY DEF StateNext
<1>2. Keys(definition) \subseteq Key
  BY <1>1, StatingDefinition DEF StateInv
<1>3. ASSUME NEW key \in Keys(definition), GetState(key, 0)
      PROVE  StateInv' /\ Map!Next
  BY <1>1, <1>2, <1>3, GetRefines
<1>4. ASSUME NEW key \in Keys(definition), DeleteState(key, 0)
      PROVE  StateInv' /\ Map!Next
  BY <1>1, <1>2, <1>4, DeleteRefines
<1>5. ASSUME NEW key \in Keys(definition), NEW value \in definition.values, SetState(key, 0, value)
      PROVE  StateInv' /\ Map!Next
  BY <1>1, <1>2, <1>5, SetRefines
<1>6. ASSUME NEW key \in Keys(definition), NEW value \in definition.values,
             NEW id \in definition.ids, AddCollected(key, id, value)
      PROVE  StateInv' /\ Map!Next
  BY <1>1, <1>2, <1>6, AddRefines
<1>7. ASSUME NEW key \in Keys(definition), NEW from \in definition.ids, NEW to \in definition.ids,
             from < to, ReadCollected(key, from, to) \/ RemoveCollected(key, from, to)
      PROVE  StateInv' /\ Map!Next
  BY <1>1, <1>2, <1>7, ReadRefines, RemoveRefines
<1>8. CASE BeginState \/ PrepareState \/ FlushState \/ RecoverRecord
  BY <1>1, <1>8, BeginRefines, PrepareRefines, FlushRefines, RecoverRefines
<1>9. CASE SetStateFails \/ GiveUpState \/ RestartState
  BY <1>1, <1>9, GiveUpRefines, RestartRefines DEF Map!Next
<1>10. CASE CommitState
  BY <1>1, <1>10, CommitRefines DEF Map!Next
<1> QED BY <1>3, <1>4, <1>5, <1>6, <1>7, <1>8, <1>9, <1>10, Zenon DEF StateNext

\* The other operations keep their definition.
LEMMA DefinitionStays ==
  WindowNext \/ AggregationNext \/ JoinNext \/ TableNext \/ ConfigNext => definition' = definition
<1>1. WindowNext => definition' = definition
  <2>1. ASSUME NEW key, NEW stamp, NEW fired, ProcessTimeWindow(key, stamp, fired)
        PROVE  definition' = definition
    BY <2>1, Zenon DEF ProcessTimeWindow
  <2>2. ASSUME NEW key, NEW stamp, ProcessSlidingWindow(key, stamp)
        PROVE  definition' = definition
    BY <2>2, Zenon DEF ProcessSlidingWindow
  <2>3. ASSUME NEW key, NEW stamp, ProcessCountWindow(key, stamp)
        PROVE  definition' = definition
    BY <2>3, Zenon DEF ProcessCountWindow
  <2> QED BY <2>1, <2>2, <2>3, Zenon DEF WindowNext, ProcessWindow
<1>2. AggregationNext => definition' = definition
  BY Zenon DEF AggregationNext, ProcessAggregate, Redeploy
<1>3. JoinNext => definition' = definition
  BY Zenon DEF JoinNext, ProcessJoin, CommitJoin
<1>4. TableNext => definition' = definition
  BY Zenon DEF TableNext, JoinTable, TableChanges
<1>5. ConfigNext => definition' = definition
  BY Zenon DEF ConfigNext, ConfigurationNext, FindConfiguration, ClockTicks, ConsumeEvent,
       ResetVersions, ReadsOnly, AssignVersions, ReturnVersion, CachedContent, FetchContent
<1> QED BY <1>1, <1>2, <1>3, <1>4, <1>5

\* The other operations of a dataframe have no state of this kind.
LEMMA OthersRefine ==
  ASSUME StateInv, WindowNext \/ AggregationNext \/ JoinNext \/ TableNext \/ ConfigNext
  PROVE  StateInv' /\ UNCHANGED Map!vars
<1>1. ~Stating
  BY StatingDefinition DEF StateInv, WindowNext, AggregationNext, JoinNext, TableNext, ConfigNext
<1>2. definition' = definition
  BY DefinitionStays
<1>3. ~Stating'
  BY <1>1, <1>2 DEF Stating
<1>4. StateInv'
  BY <1>2, <1>3 DEF StateInv
<1>5. UNCHANGED Map!vars
  BY <1>1, <1>3 DEF Map!vars, Ours
<1> QED BY <1>4, <1>5

\* A step that changes nothing.
LEMMA StutterRefines ==
  ASSUME StateInv, UNCHANGED dataframeVars
  PROVE  StateInv' /\ UNCHANGED Map!vars
<1>1. /\ definition' = definition /\ arrived' = arrived /\ transaction' = transaction
      /\ partition' = partition /\ changelog' = changelog /\ lastOffset' = lastOffset
  BY DEF dataframeVars, stateVars
<1>2. Restored' = Restored
  BY <1>1, RestoredIs
<1>3. Seen' = Seen
  BY <1>1, <1>2 DEF Seen, Get, Exists
<1>4. StateInv'
  BY <1>1, <1>2 DEF StateInv, RequestsOK, StateTypes, StoreReplayed, ActiveOK, TransactionOK,
     PreparedOK, CounterAbove, MemoryOK, Stating
<1>5. UNCHANGED Map!vars
  BY <1>1, <1>2, <1>3 DEF Map!vars, Ours, Stating
<1> QED BY <1>4, <1>5

\* The state is a map whose functions see their own changes, and which is what the last
\* committed checkpoint has made it.
THEOREM StateIsMapHolds ==
  ASSUME NoEmptyBytesInMemory
  PROVE  Spec => StateIsMap
<1>1. Init => StateInv /\ Map!Init
  BY InitRefines
<1>2. StateInv /\ [Next]_dataframeVars => StateInv' /\ [Map!Next]_Map!vars
  <2> SUFFICES ASSUME StateInv, [Next]_dataframeVars
               PROVE  StateInv' /\ [Map!Next]_Map!vars
    OBVIOUS
  <2>1. CASE StateNext
    BY <2>1, StateNextRefines
  <2>2. CASE WindowNext \/ AggregationNext \/ JoinNext \/ TableNext \/ ConfigNext
    BY <2>2, OthersRefine
  <2>3. CASE UNCHANGED dataframeVars
    BY <2>3, StutterRefines
  <2> QED BY <2>1, <2>2, <2>3 DEF Next
<1> QED BY <1>1, <1>2, PTL DEF Spec, StateIsMap, Map!Spec

-----------------------------------------------------------------------------
(* Uses of the cache of a lookup in tables. *)

\* The fields of a lookup, the messages that have been enriched, and the entries of the cache.
TableField == [name : STRING, ttl : Nat, query : BOOLEAN, rows : BOOLEAN]
TableResult == [field : TableField, value : 0..2, queried : BOOLEAN]
TableMessage == [on : Row, row : Row, at : Nat, results : Seq(TableResult)]
TableEntry == [field : STRING, on : Row, since : Nat, value : 0..2]

\* A message has the result of a field.
LookedUp(log, n, i) == n \in 1..Len(log) /\ i \in 1..Len(log[n].results)

\* The uses of the cache: <<message, field>>
Uses(d, log) ==
    {u \in (1..Len(log)) \X (1..Len(d.fields)) :
        LookedUp(log, u[1], u[2]) /\ d.fields[u[2]].ttl > 0}

\* The key of the cache that is used, and that of an entry.
KeyUsed(d, log, u) == <<d.fields[u[2]].name, log[u[1]].on>>
KeyOfEntry(e) == <<e.field, e.on>>

\* A use comes after another one.
UsedAfter(u, v) == u[1] < v[1] \/ (u[1] = v[1] /\ u[2] < v[2])

\* The keys that are used after a use.
UsedSince(d, log, u) == {KeyUsed(d, log, v) : v \in {w \in Uses(d, log) : UsedAfter(u, w)}}

\* What a query for a field of a message gave.
Source(d, t, log, m, i) ==
    t[log[m].at][IF d.fields[i].query THEN log[m].row ELSE log[m].on]

\* A result is that of a query within the time to live.
ResultFresh(d, t, log, n, i) ==
    ~d.fields[i].rows =>
        \E m \in 1..n : /\ LookedUp(log, m, i)
                        /\ log[m].on = log[n].on /\ log[m].results[i].queried
                        /\ log[n].at - log[m].at < Max({1, d.fields[i].ttl})
                        /\ log[n].results[i].value = Source(d, t, log, m, i)

\* The fields that are cached.
Cacheable(d) == {j \in DOMAIN d.fields : d.fields[j].ttl > 0}

\* The keys that are used between two messages of a target key.
UsedBetween(d, log, l, n, i) ==
    {<<d.fields[p[2]].name, log[p[1]].on>> :
        p \in {q \in (l..n) \X Cacheable(d) : \/ l < q[1] /\ q[1] < n
                                              \/ q[1] = l /\ q[2] > i
                                              \/ q[1] = n /\ q[2] < i}}

\* A query within the time to live of another one comes after enough other keys.
QuerySaved(d, log, n, i) ==
    /\ d.fields[i].ttl > 0 /\ log[n].results[i].queried
    /\ \E m \in 1..n - 1 : /\ LookedUp(log, m, i)
                           /\ log[m].on = log[n].on /\ log[m].results[i].queried
                           /\ log[n].at - log[m].at < d.fields[i].ttl
    => \A l \in 1..n - 1 :
          log[l].on = log[n].on => Cardinality(UsedBetween(d, log, l, n, i)) >= d.cacheSize

\* The messages are right.
EnrichedOK(d, t, log) ==
    /\ log \in Seq(TableMessage)
    /\ \A n \in 1..Len(log) : /\ log[n].at \in 1..Len(t)
                              /\ Len(log[n].results) <= Len(d.fields)
                              /\ n < Len(log) => Len(log[n].results) = Len(d.fields)
    /\ \A n, i : LookedUp(log, n, i) => ResultFresh(d, t, log, n, i) /\ QuerySaved(d, log, n, i)

\* An entry has what a query gave.
EntryQueried(d, t, log, e) ==
    \E m, i : /\ LookedUp(log, m, i)
              /\ d.fields[i].name = e.field /\ d.fields[i].ttl > 0
              /\ log[m].on = e.on /\ log[m].results[i].queried /\ log[m].at = e.since
              /\ ~d.fields[i].rows => e.value = Source(d, t, log, m, i)

\* A key has one entry.
OneEntry(es) == \A p, q \in 1..Len(es) : KeyOfEntry(es[p]) = KeyOfEntry(es[q]) => p = q

\* After a use of the key of an entry come those of all entries behind it; the entry
\* is that of the last query.
EntryUsed(d, log, es, p, u) ==
    KeyUsed(d, log, u) = KeyOfEntry(es[p]) =>
        /\ \A q \in 1..Len(es) : p < q => KeyOfEntry(es[q]) \in UsedSince(d, log, u)
        /\ log[u[1]].results[u[2]].queried => log[u[1]].at <= es[p].since

\* A key without an entry is left behind by as many others as the cache can hold.
Dropped(d, log, es, u) ==
    (\A p \in 1..Len(es) : KeyOfEntry(es[p]) # KeyUsed(d, log, u))
        => Cardinality(UsedSince(d, log, u)) >= d.cacheSize

\* The cache is right.
TableCacheOK(d, t, log, es) ==
    /\ es \in Seq(TableEntry) /\ Len(es) <= d.cacheSize /\ OneEntry(es)
    /\ \A p \in 1..Len(es) : EntryQueried(d, t, log, es[p])
    /\ \A p \in 1..Len(es) : \A u \in Uses(d, log) : EntryUsed(d, log, es, p, u)
    /\ \A u \in Uses(d, log) : Dropped(d, log, es, u)

\* A log goes on: with another message, or another result of the last one.
Longer(log, new) ==
    /\ Len(log) <= Len(new)
    /\ \A n \in 1..Len(log) :
          /\ new[n].on = log[n].on /\ new[n].row = log[n].row /\ new[n].at = log[n].at
          /\ Len(log[n].results) <= Len(new[n].results)
          /\ \A i \in 1..Len(log[n].results) : new[n].results[i] = log[n].results[i]

\* The contents of the tables go on.
LaterTables(t, new) == Len(t) <= Len(new) /\ \A n \in 1..Len(t) : new[n] = t[n]

\* Results stay where they are.
LEMMA AnswersStay ==
  ASSUME NEW log \in Seq(TableMessage), NEW new \in Seq(TableMessage), Longer(log, new)
  PROVE  /\ \A n, i : LookedUp(log, n, i) =>
                /\ LookedUp(new, n, i) /\ new[n].on = log[n].on /\ new[n].at = log[n].at
                /\ new[n].row = log[n].row /\ new[n].results[i] = log[n].results[i]
         /\ \A n \in 1..Len(log) : n \in 1..Len(new) /\ new[n].on = log[n].on
                                   /\ new[n].at = log[n].at /\ new[n].row = log[n].row
<1>1. PICK l \in Nat : l = Len(log)
  OBVIOUS
<1>2. PICK k \in Nat : k = Len(new)
  OBVIOUS
<1>3. \A n \in 1..l : n \in 1..k
  BY <1>1, <1>2 DEF Longer
<1>4. ASSUME NEW n \in 1..l PROVE \A i \in 1..Len(log[n].results) : i \in 1..Len(new[n].results)
  <2>1. log[n] \in TableMessage /\ new[n] \in TableMessage
    BY <1>1, <1>2, <1>3
  <2>2. Len(log[n].results) \in Nat /\ Len(new[n].results) \in Nat
    BY <2>1 DEF TableMessage
  <2> QED BY <1>1, <2>2 DEF Longer
<1> QED BY <1>1, <1>2, <1>3, <1>4 DEF Longer, LookedUp

\* What a query gave stays the same.
LEMMA SourceStays ==
  ASSUME NEW d, NEW t, NEW t2, LaterTables(t, t2),
         NEW log \in Seq(TableMessage), NEW new \in Seq(TableMessage), Longer(log, new),
         \A n \in 1..Len(log) : log[n].at \in 1..Len(t)
  PROVE  \A m, i : LookedUp(log, m, i) => Source(d, t2, new, m, i) = Source(d, t, log, m, i)
<1> SUFFICES ASSUME NEW m, NEW i, LookedUp(log, m, i)
             PROVE  Source(d, t2, new, m, i) = Source(d, t, log, m, i)
  OBVIOUS
<1>1. new[m].on = log[m].on /\ new[m].at = log[m].at /\ new[m].row = log[m].row
  BY AnswersStay
<1>2. log[m].at \in 1..Len(t)
  BY DEF LookedUp
<1>3. t2[log[m].at] = t[log[m].at]
  BY <1>2 DEF LaterTables
<1> QED BY <1>1, <1>3 DEF Source

\* Results that are right stay so.
LEMMA FreshStays ==
  ASSUME NEW d, NEW t, NEW t2, LaterTables(t, t2),
         NEW log \in Seq(TableMessage), NEW new \in Seq(TableMessage), Longer(log, new),
         \A n \in 1..Len(log) : log[n].at \in 1..Len(t),
         NEW n, NEW i, LookedUp(log, n, i), ResultFresh(d, t, log, n, i)
  PROVE  ResultFresh(d, t2, new, n, i)
<1> SUFFICES ASSUME ~d.fields[i].rows
             PROVE  ResultFresh(d, t2, new, n, i)
  BY DEF ResultFresh
<1>1. PICK m \in 1..n : /\ LookedUp(log, m, i)
                        /\ log[m].on = log[n].on /\ log[m].results[i].queried
                        /\ log[n].at - log[m].at < Max({1, d.fields[i].ttl})
                        /\ log[n].results[i].value = Source(d, t, log, m, i)
  BY DEF ResultFresh
<1>2. Source(d, t2, new, m, i) = Source(d, t, log, m, i)
  BY <1>1, SourceStays
<1>3. /\ LookedUp(new, m, i) /\ new[m].on = log[m].on /\ new[m].at = log[m].at
      /\ new[m].results[i] = log[m].results[i]
  BY <1>1, AnswersStay
<1>4. new[n].on = log[n].on /\ new[n].at = log[n].at /\ new[n].results[i] = log[n].results[i]
  BY AnswersStay
<1> QED BY <1>1, <1>2, <1>3, <1>4 DEF ResultFresh

\* The keys between two messages stay the same.
LEMMA BetweenStays ==
  ASSUME NEW d, NEW log \in Seq(TableMessage), NEW new \in Seq(TableMessage), Longer(log, new),
         NEW n \in 1..Len(log), NEW l \in 1..n, NEW i
  PROVE  UsedBetween(d, new, l, n, i) = UsedBetween(d, log, l, n, i)
<1>1. \A m \in l..n : new[m].on = log[m].on
  BY AnswersStay
<1> DEFINE P == {q \in (l..n) \X Cacheable(d) : \/ l < q[1] /\ q[1] < n
                                                \/ q[1] = l /\ q[2] > i
                                                \/ q[1] = n /\ q[2] < i}
<1>2. \A p \in P : p[1] \in l..n
  OBVIOUS
<1> HIDE DEF P
<1>3. \A p \in P : <<d.fields[p[2]].name, new[p[1]].on>> = <<d.fields[p[2]].name, log[p[1]].on>>
  BY <1>1, <1>2
<1>4. {<<d.fields[p[2]].name, new[p[1]].on>> : p \in P}
        = {<<d.fields[p[2]].name, log[p[1]].on>> : p \in P}
  BY <1>3
<1> QED BY <1>4 DEF UsedBetween, P

\* Queries that were not needless stay so.
LEMMA SavedStays ==
  ASSUME NEW d, NEW log \in Seq(TableMessage), NEW new \in Seq(TableMessage), Longer(log, new),
         NEW n, NEW i, LookedUp(log, n, i), QuerySaved(d, log, n, i),
         \A m \in 1..n - 1 : i \in 1..Len(log[m].results)
  PROVE  QuerySaved(d, new, n, i)
<1>1. n \in 1..Len(log)
  BY DEF LookedUp
<1>2. \A m \in 1..n - 1 : m \in 1..Len(log) /\ m \in 1..n
  BY <1>1
<1>3. \A m \in 1..n - 1 : LookedUp(log, m, i)
  BY <1>2 DEF LookedUp
<1>4. \A m \in 1..n - 1 : /\ LookedUp(log, m, i) /\ new[m].on = log[m].on /\ new[m].at = log[m].at
                          /\ new[m].results[i] = log[m].results[i]
  BY <1>3, AnswersStay
<1>5. new[n].on = log[n].on /\ new[n].at = log[n].at /\ new[n].results[i] = log[n].results[i]
  BY AnswersStay
<1>6. \A l \in 1..n - 1 : UsedBetween(d, new, l, n, i) = UsedBetween(d, log, l, n, i)
  BY <1>1, <1>2, BetweenStays
<1> QED BY <1>4, <1>5, <1>6 DEF QuerySaved

\* An entry that has what a query gave.
LEMMA QueriedStays ==
  ASSUME NEW d, NEW t, NEW t2, LaterTables(t, t2),
         NEW log \in Seq(TableMessage), NEW new \in Seq(TableMessage), Longer(log, new),
         \A n \in 1..Len(log) : log[n].at \in 1..Len(t),
         NEW e, EntryQueried(d, t, log, e)
  PROVE  EntryQueried(d, t2, new, e)
<1>1. PICK m, i : /\ LookedUp(log, m, i)
                  /\ d.fields[i].name = e.field /\ d.fields[i].ttl > 0
                  /\ log[m].on = e.on /\ log[m].results[i].queried /\ log[m].at = e.since
                  /\ ~d.fields[i].rows => e.value = Source(d, t, log, m, i)
  BY DEF EntryQueried
<1>2. Source(d, t2, new, m, i) = Source(d, t, log, m, i)
  BY <1>1, SourceStays
<1>3. /\ LookedUp(new, m, i) /\ new[m].on = log[m].on /\ new[m].at = log[m].at
      /\ new[m].results[i] = log[m].results[i]
  BY <1>1, AnswersStay
<1> QED BY <1>1, <1>2, <1>3 DEF EntryQueried

-----------------------------------------------------------------------------
(* One more result. *)

\* The last message gets its next result.
Answering(d, log, new, i, r) ==
    LET n == Len(log)
    IN  /\ n \in 1..n /\ Len(log[n].results) = i - 1 /\ i \in 1..Len(d.fields)
        /\ new = [log EXCEPT ![n].results = Append(@, r)]

\* The log with one more result of its last message.
WithResult(log, new, i, r, n) ==
    /\ n \in Nat \ {0} /\ new \in Seq(TableMessage) /\ Len(new) = n /\ Longer(log, new)
    /\ new[n].on = log[n].on /\ new[n].row = log[n].row /\ new[n].at = log[n].at
    /\ Len(new[n].results) = i /\ new[n].results[i] = r
    /\ \A m \in 1..n : m # n => new[m] = log[m]
    /\ \A m, j : LookedUp(new, m, j) <=> LookedUp(log, m, j) \/ (m = n /\ j = i)
    /\ ~LookedUp(log, n, i)

\* The result is behind the others.
LEMMA AnsweredIs ==
  ASSUME NEW d, d.fields \in Seq(TableField), NEW log \in Seq(TableMessage), NEW new,
         NEW i \in Nat, NEW r \in TableResult, Answering(d, log, new, i, r), NEW n, n = Len(log)
  PROVE  WithResult(log, new, i, r, n)
<1>1. n \in Nat \ {0} /\ log[n] \in TableMessage
  BY DEF Answering
<1>2. PICK rs : rs = log[n].results
  OBVIOUS
<1>3. rs \in Seq(TableResult) /\ Len(rs) = i - 1
  BY <1>1, <1>2 DEF TableMessage, Answering
<1>4. PICK ts : ts = Append(rs, r)
  OBVIOUS
<1>5. /\ ts \in Seq(TableResult) /\ Len(ts) = i /\ ts[i] = r
      /\ \A j \in 1..i - 1 : ts[j] = rs[j]
  BY <1>3, <1>4, AppendProperties
<1>6. PICK e : e = [log[n] EXCEPT !.results = ts]
  OBVIOUS
<1>7. e \in TableMessage /\ e.on = log[n].on /\ e.row = log[n].row /\ e.at = log[n].at /\ e.results = ts
  BY <1>1, <1>5, <1>6 DEF TableMessage
<1>8. new = [log EXCEPT ![n] = e]
  BY <1>2, <1>4, <1>6 DEF Answering
<1>9. /\ new \in Seq(TableMessage) /\ Len(new) = n /\ new[n] = e
      /\ \A m \in 1..n : m # n => new[m] = log[m]
  BY <1>1, <1>7, <1>8
<1>10. \A m \in 1..n : m # n => log[m] \in TableMessage
  OBVIOUS
<1>11. ASSUME NEW m \in 1..n
       PROVE  /\ new[m].on = log[m].on /\ new[m].row = log[m].row /\ new[m].at = log[m].at
              /\ Len(log[m].results) <= Len(new[m].results)
              /\ \A j \in 1..Len(log[m].results) : new[m].results[j] = log[m].results[j]
  <2>1. CASE m = n
    BY <1>2, <1>3, <1>5, <1>7, <1>9, <2>1
  <2>2. CASE m # n
    <3>1. new[m] = log[m] /\ Len(log[m].results) \in Nat
      BY <1>9, <1>10, <2>2 DEF TableMessage
    <3> QED BY <3>1
  <2> QED BY <2>1, <2>2
<1>12. Longer(log, new)
  BY <1>1, <1>9, <1>11 DEF Longer
<1>13. ASSUME NEW m, NEW j
       PROVE  LookedUp(new, m, j) <=> LookedUp(log, m, j) \/ (m = n /\ j = i)
  <2>1. CASE m = n
    <3>1. LookedUp(new, n, j) <=> j \in 1..i
      BY <1>1, <1>5, <1>7, <1>9 DEF LookedUp
    <3>2. LookedUp(log, n, j) <=> j \in 1..i - 1
      BY <1>1, <1>2, <1>3 DEF LookedUp
    <3>3. j \in 1..i <=> j \in 1..i - 1 \/ j = i
      BY <1>3 DEF Answering
    <3> QED BY <2>1, <3>1, <3>2, <3>3
  <2>2. CASE m # n
    BY <1>9, <2>2 DEF LookedUp
  <2> QED BY <2>1, <2>2
<1>14. ~LookedUp(log, n, i)
  BY <1>2, <1>3 DEF LookedUp
<1> QED BY <1>1, <1>5, <1>7, <1>9, <1>12, <1>13, <1>14 DEF WithResult

\* The uses of the cache with that of the result.
WithUse(d, log, new, i, n, K) ==
    /\ \A u : u \in Uses(d, new) <=> \/ u \in Uses(d, log)
                                     \/ u = <<n, i>> /\ d.fields[i].ttl > 0
    /\ \A u \in Uses(d, log) : KeyUsed(d, new, u) = KeyUsed(d, log, u)
    /\ KeyUsed(d, new, <<n, i>>) = K
    /\ \A u \in Uses(d, log) :
          UsedSince(d, new, u) = UsedSince(d, log, u)
                                   \cup (IF d.fields[i].ttl > 0 THEN {K} ELSE {})

\* Its key comes behind all that have been used before.
LEMMA UsesAnswered ==
  ASSUME NEW d, d.fields \in Seq(TableField), NEW log \in Seq(TableMessage), NEW new,
         NEW i \in Nat, NEW r \in TableResult, Answering(d, log, new, i, r), NEW n, n = Len(log),
         NEW K, K = <<d.fields[i].name, log[n].on>>
  PROVE  WithUse(d, log, new, i, n, K)
<1>1. /\ n \in Nat \ {0} /\ new \in Seq(TableMessage) /\ Len(new) = n /\ Longer(log, new)
      /\ new[n].on = log[n].on /\ new[n].row = log[n].row /\ new[n].at = log[n].at
      /\ Len(new[n].results) = i /\ new[n].results[i] = r
      /\ \A m \in 1..n : m # n => new[m] = log[m]
      /\ \A m, j : LookedUp(new, m, j) <=> LookedUp(log, m, j) \/ (m = n /\ j = i)
      /\ ~LookedUp(log, n, i)
  <2>1. WithResult(log, new, i, r, n)
    BY AnsweredIs
  <2> QED BY <2>1 DEF WithResult
<1>2. i \in 1..Len(d.fields) /\ Len(d.fields) \in Nat
  BY DEF Answering
<1>3. \A m \in 1..n : new[m].on = log[m].on
  BY <1>1
<1>4. ASSUME NEW u PROVE u \in Uses(d, new) <=> \/ u \in Uses(d, log)
                                                \/ u = <<n, i>> /\ d.fields[i].ttl > 0
  <2>1. CASE u \in (1..n) \X (1..Len(d.fields))
    <3>1. PICK m \in 1..n, j \in 1..Len(d.fields) : u = <<m, j>>
      BY <2>1
    <3> QED BY <1>1, <3>1 DEF Uses
  <2>2. CASE u \notin (1..n) \X (1..Len(d.fields))
    <3>1. <<n, i>> \in (1..n) \X (1..Len(d.fields))
      BY <1>1, <1>2
    <3>2. u # <<n, i>>
      BY <2>2, <3>1
    <3> QED BY <1>1, <2>2, <3>2 DEF Uses
  <2> QED BY <2>1, <2>2
<1>5. \A u \in Uses(d, log) : u[1] \in 1..n /\ u[2] \in 1..Len(d.fields) /\ LookedUp(log, u[1], u[2])
  BY DEF Uses
<1>6. \A u \in Uses(d, log) : KeyUsed(d, new, u) = KeyUsed(d, log, u)
  BY <1>3, <1>5 DEF KeyUsed
<1>7. KeyUsed(d, new, <<n, i>>) = K
  BY <1>1 DEF KeyUsed
<1>8. \A u \in Uses(d, log) : UsedAfter(u, <<n, i>>)
  <2> TAKE u \in Uses(d, log)
  <2>1. CASE u[1] = n
    <3>1. u[2] \in 1..i - 1
      BY <1>1, <1>5, <2>1 DEF LookedUp, Answering
    <3> QED BY <2>1, <3>1 DEF UsedAfter
  <2>2. CASE u[1] # n
    <3>1. u[1] < n
      BY <1>1, <1>5, <2>2
    <3> QED BY <3>1 DEF UsedAfter
  <2> QED BY <2>1, <2>2
<1>9. ASSUME NEW u \in Uses(d, log), NEW k
      PROVE  k \in UsedSince(d, new, u) <=>
                 k \in UsedSince(d, log, u) \cup (IF d.fields[i].ttl > 0 THEN {K} ELSE {})
  <2>1. k \in UsedSince(d, new, u) <=> \E w \in Uses(d, new) : UsedAfter(u, w) /\ k = KeyUsed(d, new, w)
    BY DEF UsedSince
  <2>2. k \in UsedSince(d, log, u) <=> \E w \in Uses(d, log) : UsedAfter(u, w) /\ k = KeyUsed(d, log, w)
    BY DEF UsedSince
  <2>3. CASE d.fields[i].ttl > 0
    BY <1>4, <1>6, <1>7, <1>8, <2>1, <2>2, <2>3
  <2>4. CASE ~(d.fields[i].ttl > 0)
    BY <1>4, <1>6, <2>1, <2>2, <2>4
  <2> QED BY <2>3, <2>4
<1>10. \A u \in Uses(d, log) :
               UsedSince(d, new, u) = UsedSince(d, log, u)
                                        \cup (IF d.fields[i].ttl > 0 THEN {K} ELSE {})
  BY <1>9
<1> QED BY <1>4, <1>6, <1>7, <1>10 DEF WithUse

\* There are finitely many.
LEMMA UsedFinite ==
  ASSUME NEW d, d.fields \in Seq(TableField), NEW log \in Seq(TableMessage), NEW u
  PROVE  IsFiniteSet(UsedSince(d, log, u)) /\ Cardinality(UsedSince(d, log, u)) \in Nat
<1>1. IsFiniteSet(1..Len(log)) /\ IsFiniteSet(1..Len(d.fields))
  BY FS_Interval
<1>2. IsFiniteSet((1..Len(log)) \X (1..Len(d.fields)))
  BY <1>1, FS_Product
<1>3. PICK W : W = {w \in Uses(d, log) : UsedAfter(u, w)}
  OBVIOUS
<1>4. W \subseteq (1..Len(log)) \X (1..Len(d.fields))
  BY <1>3 DEF Uses
<1>5. IsFiniteSet(W)
  BY <1>2, <1>4, FS_Subset
<1>6. PICK f : f = [w \in W |-> KeyUsed(d, log, w)]
  OBVIOUS
<1>7. UsedSince(d, log, u) = {f[w] : w \in W}
  BY <1>3, <1>6 DEF UsedSince
<1>8. f \in Surjection(W, UsedSince(d, log, u))
  BY <1>6, <1>7 DEF Surjection
<1>9. IsFiniteSet(UsedSince(d, log, u))
  BY <1>5, <1>8, FS_Surjection
<1> QED BY <1>9, FS_CardinalityType

\* A key that is used, and those of all entries but the first, are as many as there are entries.
LEMMA ManyUsed ==
  ASSUME NEW es \in Seq(TableEntry), OneEntry(es), NEW U, IsFiniteSet(U), NEW K \in U,
         \A p \in 1..Len(es) : KeyOfEntry(es[p]) # K,
         \A p \in 1..Len(es) : p # 1 => KeyOfEntry(es[p]) \in U
  PROVE  Cardinality(U) >= Len(es)
<1>1. PICK l \in Nat : l = Len(es)
  OBVIOUS
<1>2. PICK f : f = [p \in 1..l |-> IF p = 1 THEN K ELSE KeyOfEntry(es[p])]
  OBVIOUS
<1>3. f \in [1..l -> U] /\ \A p \in 1..l : f[p] = IF p = 1 THEN K ELSE KeyOfEntry(es[p])
  BY <1>1, <1>2
<1>4. \A p, q \in 1..l : f[p] = f[q] => p = q
  <2> SUFFICES ASSUME NEW p \in 1..l, NEW q \in 1..l, f[p] = f[q] PROVE p = q
    OBVIOUS
  <2>1. CASE p = 1 \/ q = 1
    BY <1>1, <1>3, <2>1
  <2>2. CASE p # 1 /\ q # 1
    BY <1>1, <1>3, <2>2 DEF OneEntry
  <2> QED BY <2>1, <2>2
<1>5. f \in Injection(1..l, U)
  BY <1>3, <1>4 DEF Injection, IsInjective
<1>6. Cardinality(1..l) <= Cardinality(U)
  BY <1>5, FS_Injection
<1>7. Cardinality(1..l) = l
  BY FS_Interval
<1>8. Cardinality(U) \in Nat
  BY FS_CardinalityType
<1> QED BY <1>1, <1>6, <1>7, <1>8

-----------------------------------------------------------------------------
(* An entry goes to the end of the cache. *)

\* The entries in their order, without that of a key.
InOrderWithout(t, es, K) ==
    /\ t \in Seq(TableEntry)
    /\ \A a \in 1..Len(t) : KeyOfEntry(t[a]) # K
    /\ \A a \in 1..Len(t) : \E p \in 1..Len(es) : t[a] = es[p]
    /\ \A a, b \in 1..Len(t) :
          a < b => \E p, q \in 1..Len(es) : p < q /\ t[a] = es[p] /\ t[b] = es[q]

\* All entries, without that of a key.
AllWithout(t, es, K) ==
    /\ InOrderWithout(t, es, K)
    /\ \A p \in 1..Len(es) : KeyOfEntry(es[p]) # K => \E a \in 1..Len(t) : t[a] = es[p]

\* Keys have one entry still.
LEMMA WithoutOne ==
  ASSUME NEW es \in Seq(TableEntry), OneEntry(es), NEW t, NEW K, InOrderWithout(t, es, K)
  PROVE  OneEntry(t)
<1> SUFFICES ASSUME NEW a \in 1..Len(t), NEW b \in 1..Len(t), KeyOfEntry(t[a]) = KeyOfEntry(t[b]),
                    a < b
             PROVE  FALSE
  <2>1. Len(t) \in Nat
    BY DEF InOrderWithout
  <2> QED BY <2>1 DEF OneEntry
<1>1. PICK p, q \in 1..Len(es) : p < q /\ t[a] = es[p] /\ t[b] = es[q]
  BY DEF InOrderWithout
<1>2. p = q
  BY <1>1 DEF OneEntry
<1> QED BY <1>1, <1>2

\* The first entry may be dropped.
LEMMA WithoutHead ==
  ASSUME NEW es \in Seq(TableEntry), NEW t, NEW K, InOrderWithout(t, es, K), Len(t) > 0
  PROVE  /\ InOrderWithout(Tail(t), es, K) /\ Len(Tail(t)) = Len(t) - 1
         /\ \A a \in 1..Len(t) : a # 1 => a - 1 \in 1..Len(Tail(t)) /\ Tail(t)[a - 1] = t[a]
<1>1. PICK l \in Nat : l = Len(t)
  BY DEF InOrderWithout
<1>2. PICK r : r = Tail(t)
  OBVIOUS
<1>3. r \in Seq(TableEntry) /\ Len(r) = l - 1 /\ \A a \in 1..l - 1 : r[a] = t[a + 1]
  <2>1. t \in Seq(TableEntry) /\ t # <<>>
    BY DEF InOrderWithout
  <2> QED BY <1>1, <1>2, <2>1, HeadTailProperties
<1>4. \A a \in 1..l - 1 : a + 1 \in 1..l
  OBVIOUS
<1>5. ASSUME NEW a \in 1..l - 1, NEW b \in 1..l - 1, a < b
      PROVE  \E p, q \in 1..Len(es) : p < q /\ r[a] = es[p] /\ r[b] = es[q]
  <2>1. a + 1 \in 1..l /\ b + 1 \in 1..l /\ a + 1 < b + 1
    BY <1>5
  <2>2. \E p, q \in 1..Len(es) : p < q /\ t[a + 1] = es[p] /\ t[b + 1] = es[q]
    BY <1>1, <2>1 DEF InOrderWithout
  <2> QED BY <1>3, <2>2
<1>6. InOrderWithout(r, es, K)
  <2>1. \A a \in 1..l - 1 : KeyOfEntry(r[a]) # K /\ \E p \in 1..Len(es) : r[a] = es[p]
    BY <1>1, <1>3, <1>4 DEF InOrderWithout
  <2>2. \A a, b \in 1..Len(r) :
           a < b => \E p, q \in 1..Len(es) : p < q /\ r[a] = es[p] /\ r[b] = es[q]
    <3> SUFFICES ASSUME NEW a \in 1..Len(r), NEW b \in 1..Len(r), a < b
                 PROVE  \E p, q \in 1..Len(es) : p < q /\ r[a] = es[p] /\ r[b] = es[q]
      OBVIOUS
    <3>1. a \in 1..l - 1 /\ b \in 1..l - 1
      BY <1>3
    <3> QED BY <1>5, <3>1
  <2>3. \A a \in 1..Len(r) : KeyOfEntry(r[a]) # K /\ \E p \in 1..Len(es) : r[a] = es[p]
    BY <1>3, <2>1
  <2> QED BY <1>3, <2>2, <2>3, Zenon DEF InOrderWithout
<1>7. \A a \in 1..l : a # 1 => a - 1 \in 1..l - 1 /\ r[a - 1] = t[a]
  <2> TAKE a \in 1..l
  <2>1. CASE a # 1
    <3>1. a - 1 \in 1..l - 1 /\ (a - 1) + 1 = a
      BY <2>1
    <3> QED BY <1>3, <3>1
  <2> QED BY <2>1
<1> QED BY <1>1, <1>2, <1>3, <1>6, <1>7

\* An entry of the key that is used goes to the end of the others, without the first one
\* if the cache is full.
GoesToEnd(d, tt, log, new, i, r, es, t, t2, e) ==
    LET n == Len(log)
        K == <<d.fields[i].name, log[n].on>>
    IN  /\ AllWithout(t, es, K)
        /\ t2 = t \/ (t2 = Tail(t) /\ Len(t) >= d.cacheSize)
        /\ Len(t2) < d.cacheSize
        /\ e \in TableEntry /\ KeyOfEntry(e) = K /\ EntryQueried(d, tt, new, e)
        /\ r.queried => log[n].at <= e.since
        /\ \A u \in Uses(d, log) : KeyUsed(d, log, u) = K /\ log[u[1]].results[u[2]].queried
                                      => log[u[1]].at <= e.since

\* The cache stays right when an entry goes to its end.
LEMMA EntryToEnd ==
  ASSUME NEW d, d.fields \in Seq(TableField), d.cacheSize \in Nat \ {0}, NEW tt,
         NEW log \in Seq(TableMessage), NEW new, NEW i \in Nat, NEW r \in TableResult,
         Answering(d, log, new, i, r), d.fields[i].ttl > 0,
         \A m \in 1..Len(log) : log[m].at \in 1..Len(tt),
         NEW es, TableCacheOK(d, tt, log, es),
         NEW t, NEW t2, NEW e, GoesToEnd(d, tt, log, new, i, r, es, t, t2, e)
  PROVE  TableCacheOK(d, tt, new, Append(t2, e))
<1>n. PICK n : n = Len(log)
  OBVIOUS
<1>k. PICK K : K = <<d.fields[i].name, log[n].on>>
  OBVIOUS
<1>e. /\ AllWithout(t, es, K)
      /\ t2 = t \/ (t2 = Tail(t) /\ Len(t) >= d.cacheSize)
      /\ Len(t2) < d.cacheSize
      /\ e \in TableEntry /\ KeyOfEntry(e) = K /\ EntryQueried(d, tt, new, e)
      /\ r.queried => log[n].at <= e.since
      /\ \A u \in Uses(d, log) : KeyUsed(d, log, u) = K /\ log[u[1]].results[u[2]].queried
                                    => log[u[1]].at <= e.since
  BY <1>n, <1>k DEF GoesToEnd
<1> USE <1>n, <1>k, <1>e
<1>1. /\ n \in Nat \ {0} /\ new \in Seq(TableMessage) /\ Len(new) = n /\ Longer(log, new)
      /\ new[n].on = log[n].on /\ new[n].row = log[n].row /\ new[n].at = log[n].at
      /\ Len(new[n].results) = i /\ new[n].results[i] = r
      /\ \A m \in 1..n : m # n => new[m] = log[m]
      /\ \A m, j : LookedUp(new, m, j) <=> LookedUp(log, m, j) \/ (m = n /\ j = i)
      /\ ~LookedUp(log, n, i)
  <2>1. WithResult(log, new, i, r, n)
    BY AnsweredIs
  <2> QED BY <2>1 DEF WithResult
<1>2. /\ \A u : u \in Uses(d, new) <=> u \in Uses(d, log) \/ u = <<n, i>>
      /\ \A u \in Uses(d, log) : KeyUsed(d, new, u) = KeyUsed(d, log, u)
      /\ KeyUsed(d, new, <<n, i>>) = K
      /\ \A u \in Uses(d, log) : UsedSince(d, new, u) = UsedSince(d, log, u) \cup {K}
  <2>1. WithUse(d, log, new, i, n, K)
    BY UsesAnswered
  <2> QED BY <2>1 DEF WithUse
<1>3. es \in Seq(TableEntry) /\ OneEntry(es)
  BY DEF TableCacheOK
<1>4. InOrderWithout(t, es, K) /\ t \in Seq(TableEntry) /\ Len(t) \in Nat
  BY DEF AllWithout, InOrderWithout
<1>5. InOrderWithout(t2, es, K)
  <2>1. CASE t2 = t
    BY <1>4, <2>1
  <2>2. CASE t2 = Tail(t) /\ Len(t) >= d.cacheSize
    <3>1. Len(t) > 0
      BY <1>4, <2>2
    <3> QED BY <1>3, <1>4, <2>2, <3>1, WithoutHead
  <2> QED BY <2>1, <2>2
<1>6. t2 \in Seq(TableEntry)
  BY <1>5 DEF InOrderWithout
<1>7. PICK l \in Nat : l = Len(t2)
  BY <1>6
<1>8. PICK es2 : es2 = Append(t2, e)
  OBVIOUS
<1>9. /\ es2 \in Seq(TableEntry) /\ Len(es2) = l + 1 /\ es2[l + 1] = e
      /\ \A a \in 1..l : es2[a] = t2[a]
  BY <1>6, <1>7, <1>8, AppendProperties
<1>10. \A a \in 1..l + 1 : a \in 1..l \/ a = l + 1
  BY <1>7
<1>11. Len(es2) <= d.cacheSize
  BY <1>7, <1>9
<1>12. OneEntry(t2) /\ \A a \in 1..l : KeyOfEntry(t2[a]) # K
  BY <1>3, <1>5, <1>7, WithoutOne DEF InOrderWithout
<1>13. OneEntry(es2)
  <2> SUFFICES ASSUME NEW a \in 1..l + 1, NEW b \in 1..l + 1,
                      KeyOfEntry(es2[a]) = KeyOfEntry(es2[b])
               PROVE  a = b
    BY <1>9 DEF OneEntry
  <2>1. CASE a \in 1..l /\ b \in 1..l
    BY <1>7, <1>9, <1>12, <2>1 DEF OneEntry
  <2>2. CASE a = l + 1 \/ b = l + 1
    BY <1>9, <1>10, <1>12, <2>2
  <2> QED BY <1>10, <2>1, <2>2
<1>14. \A a \in 1..l : \E p \in 1..Len(es) : t2[a] = es[p]
  BY <1>5, <1>7 DEF InOrderWithout
<1>15. \A a \in 1..l + 1 : EntryQueried(d, tt, new, es2[a])
  <2> TAKE a \in 1..l + 1
  <2>1. CASE a = l + 1
    BY <1>9, <2>1
  <2>2. CASE a \in 1..l
    <3>1. PICK p \in 1..Len(es) : t2[a] = es[p]
      BY <1>14, <2>2
    <3>2. EntryQueried(d, tt, log, es[p])
      BY DEF TableCacheOK
    <3>3. LaterTables(tt, tt)
      BY <1>1 DEF LaterTables
    <3>4. EntryQueried(d, tt, new, es[p])
      BY <1>1, <3>2, <3>3, QueriedStays
    <3> QED BY <1>9, <2>2, <3>1, <3>4
  <2> QED BY <1>10, <2>1, <2>2
<1>16. \A u \in Uses(d, log) : /\ new[u[1]].at = log[u[1]].at
                               /\ new[u[1]].results[u[2]] = log[u[1]].results[u[2]]
  <2>1. \A u \in Uses(d, log) : LookedUp(log, u[1], u[2])
    BY DEF Uses
  <2> QED BY <1>1, <2>1, AnswersStay
<1>17. ASSUME NEW a \in 1..l + 1, NEW u \in Uses(d, new)
       PROVE  EntryUsed(d, new, es2, a, u)
  <2> SUFFICES ASSUME KeyUsed(d, new, u) = KeyOfEntry(es2[a])
               PROVE  /\ \A b \in 1..l + 1 : a < b => KeyOfEntry(es2[b]) \in UsedSince(d, new, u)
                      /\ new[u[1]].results[u[2]].queried => new[u[1]].at <= es2[a].since
    BY <1>9 DEF EntryUsed
  <2>1. CASE a = l + 1
    <3>1. \A b \in 1..l + 1 : ~(a < b)
      BY <2>1
    <3>2. new[u[1]].results[u[2]].queried => new[u[1]].at <= es2[a].since
      <4>1. CASE u \in Uses(d, log)
        BY <1>2, <1>9, <1>16, <2>1, <4>1
      <4>2. CASE u = <<n, i>>
        BY <1>1, <1>9, <2>1, <4>2
      <4> QED BY <1>2, <4>1, <4>2
    <3> QED BY <3>1, <3>2
  <2>2. CASE a \in 1..l
    <3>1. es2[a] = t2[a] /\ KeyOfEntry(t2[a]) # K
      BY <1>9, <1>12, <2>2
    <3>2. u \in Uses(d, log) /\ KeyUsed(d, log, u) = KeyOfEntry(t2[a])
      BY <1>2, <3>1
    <3>3. PICK p \in 1..Len(es) : t2[a] = es[p]
      BY <1>14, <2>2
    <3>4. EntryUsed(d, log, es, p, u)
      BY <3>2 DEF TableCacheOK
    <3>5. new[u[1]].results[u[2]].queried => new[u[1]].at <= es2[a].since
      BY <1>16, <3>1, <3>2, <3>3, <3>4 DEF EntryUsed
    <3>6. ASSUME NEW b \in 1..l + 1, a < b
          PROVE  KeyOfEntry(es2[b]) \in UsedSince(d, new, u)
      <4>1. CASE b = l + 1
        BY <1>2, <1>9, <3>2, <4>1
      <4>2. CASE b \in 1..l
        <5>1. PICK p2, q2 \in 1..Len(es) : p2 < q2 /\ t2[a] = es[p2] /\ t2[b] = es[q2]
          BY <1>5, <1>7, <2>2, <3>6, <4>2 DEF InOrderWithout
        <5>2. EntryUsed(d, log, es, p2, u)
          BY <3>2 DEF TableCacheOK
        <5>3. KeyOfEntry(es[q2]) \in UsedSince(d, log, u)
          BY <3>2, <5>1, <5>2 DEF EntryUsed
        <5> QED BY <1>2, <1>9, <3>2, <4>2, <5>1, <5>3
      <4> QED BY <1>10, <4>1, <4>2
    <3> QED BY <3>5, <3>6
  <2> QED BY <1>10, <2>1, <2>2
<1>18. ASSUME NEW u \in Uses(d, new)
       PROVE  Dropped(d, new, es2, u)
  <2> SUFFICES ASSUME \A a \in 1..l + 1 : KeyOfEntry(es2[a]) # KeyUsed(d, new, u)
               PROVE  Cardinality(UsedSince(d, new, u)) >= d.cacheSize
    BY <1>9 DEF Dropped
  <2>1. KeyUsed(d, new, u) # K
    <3>1. l + 1 \in 1..l + 1
      BY <1>7
    <3> QED BY <1>9, <3>1
  <2>2. u \in Uses(d, log) /\ KeyUsed(d, log, u) = KeyUsed(d, new, u)
    BY <1>2, <2>1
  <2>3. PICK U : U = UsedSince(d, new, u)
    OBVIOUS
  <2>4. PICK V : V = UsedSince(d, log, u)
    OBVIOUS
  <2>5. V \subseteq U /\ K \in U
    BY <1>2, <2>2, <2>3, <2>4
  <2>6. IsFiniteSet(U) /\ IsFiniteSet(V) /\ Cardinality(U) \in Nat /\ Cardinality(V) \in Nat
    BY <1>1, <2>3, <2>4, UsedFinite
  <2>7. CASE \A p \in 1..Len(es) : KeyOfEntry(es[p]) # KeyUsed(d, log, u)
    <3>1. Cardinality(V) >= d.cacheSize
      BY <2>2, <2>4, <2>7 DEF TableCacheOK, Dropped
    <3>2. Cardinality(V) <= Cardinality(U)
      BY <2>5, <2>6, FS_Subset
    <3> QED BY <2>3, <2>6, <3>1, <3>2
  <2>8. ASSUME NEW p \in 1..Len(es), KeyOfEntry(es[p]) = KeyUsed(d, log, u)
        PROVE  Cardinality(U) >= d.cacheSize
    <3>1. PICK a \in 1..Len(t) : t[a] = es[p]
      BY <2>1, <2>2, <2>8 DEF AllWithout
    <3>2. \A b \in 1..l : t2[b] # t[a]
      BY <1>9, <1>10, <2>2, <2>8, <3>1
    <3>3. t2 = Tail(t) /\ Len(t) >= d.cacheSize
      BY <1>7, <3>1, <3>2
    <3>4. Len(t) > 0
      BY <1>4, <3>3
    <3>5. a = 1
      BY <1>3, <1>4, <1>7, <3>2, <3>3, <3>4, WithoutHead
    <3>6. OneEntry(t) /\ \A b \in 1..Len(t) : KeyOfEntry(t[b]) # K
      BY <1>3, <1>4, WithoutOne DEF InOrderWithout
    <3>7. ASSUME NEW b \in 1..Len(t), b # 1
          PROVE  KeyOfEntry(t[b]) \in U
      <4>1. a < b
        BY <1>4, <3>5, <3>7
      <4>2. PICK p2, q2 \in 1..Len(es) : p2 < q2 /\ t[a] = es[p2] /\ t[b] = es[q2]
        BY <1>4, <4>1 DEF InOrderWithout
      <4>3. EntryUsed(d, log, es, p2, u)
        BY <2>2 DEF TableCacheOK
      <4>4. KeyOfEntry(es[q2]) \in UsedSince(d, log, u)
        BY <2>8, <3>1, <4>2, <4>3 DEF EntryUsed
      <4> QED BY <2>4, <2>5, <4>2, <4>4
    <3>8. Cardinality(U) >= Len(t)
      BY <1>4, <2>5, <2>6, <3>6, <3>7, ManyUsed
    <3> QED BY <1>4, <2>6, <3>3, <3>8
  <2> QED BY <2>3, <2>7, <2>8
<1> QED BY <1>8, <1>9, <1>11, <1>13, <1>15, <1>17, <1>18 DEF TableCacheOK

\* A sequence without one of its elements.
LEMMA RemoveAtIs ==
  ASSUME NEW S, NEW es \in Seq(S), NEW k \in 1..Len(es)
  PROVE  /\ RemoveAt(es, k) \in Seq(S) /\ Len(RemoveAt(es, k)) = Len(es) - 1
         /\ \A i \in 1..Len(es) - 1 : RemoveAt(es, k)[i] = IF i < k THEN es[i] ELSE es[i + 1]
<1>1. PICK l \in Nat : l = Len(es)
  OBVIOUS
<1>2. PICK p : p = SubSeq(es, 1, k - 1)
  OBVIOUS
<1>3. PICK q : q = SubSeq(es, k + 1, l)
  OBVIOUS
<1>4. \A i \in 1..l : es[i] \in S
  BY <1>1
<1>5. p \in Seq(S) /\ Len(p) = k - 1 /\ \A i \in 1..k - 1 : p[i] = es[i]
  <2>1. \A i \in 1..k - 1 : es[i] \in S
    BY <1>1, <1>4
  <2>2. /\ p \in Seq(S) /\ Len(p) = (IF 1 <= k - 1 THEN (k - 1) - 1 + 1 ELSE 0)
        /\ \A i \in 1..(k - 1) - 1 + 1 : p[i] = es[1 + i - 1]
    BY <1>1, <1>2, <2>1, SubSeqProperties
  <2>3. Len(p) = k - 1 /\ (k - 1) - 1 + 1 = k - 1
    BY <1>1, <2>2
  <2>4. ASSUME NEW i \in 1..k - 1 PROVE p[i] = es[i]
    <3>1. p[i] = es[1 + i - 1] /\ 1 + i - 1 = i
      BY <1>1, <2>2, <2>3
    <3> QED BY <3>1
  <2> QED BY <2>2, <2>3, <2>4
<1>6. q \in Seq(S) /\ Len(q) = l - k /\ \A i \in 1..l - k : q[i] = es[i + k]
  <2>1. \A i \in k + 1..l : es[i] \in S
    BY <1>1, <1>4
  <2>2. /\ q \in Seq(S) /\ Len(q) = (IF k + 1 <= l THEN l - (k + 1) + 1 ELSE 0)
        /\ \A i \in 1..l - (k + 1) + 1 : q[i] = es[(k + 1) + i - 1]
    BY <1>1, <1>3, <2>1, SubSeqProperties
  <2>3. Len(q) = l - k /\ l - (k + 1) + 1 = l - k
    BY <1>1, <2>2
  <2>4. ASSUME NEW i \in 1..l - k PROVE q[i] = es[i + k]
    <3>1. q[i] = es[(k + 1) + i - 1] /\ (k + 1) + i - 1 = i + k
      BY <1>1, <2>2, <2>3
    <3> QED BY <3>1
  <2> QED BY <2>2, <2>3, <2>4
<1>7. PICK r : r = p \o q
  OBVIOUS
<1>8. /\ r \in Seq(S) /\ Len(r) = Len(p) + Len(q)
      /\ \A i \in 1..Len(p) + Len(q) : r[i] = IF i <= Len(p) THEN p[i] ELSE q[i - Len(p)]
  BY <1>5, <1>6, <1>7, ConcatProperties
<1>9. Len(r) = l - 1 /\ \A i \in 1..l - 1 : r[i] = IF i < k THEN es[i] ELSE es[i + 1]
  <2>1. Len(r) = l - 1
    BY <1>1, <1>5, <1>6, <1>8
  <2>2. ASSUME NEW i \in 1..l - 1
        PROVE  r[i] = IF i < k THEN es[i] ELSE es[i + 1]
    <3>1. r[i] = IF i <= k - 1 THEN p[i] ELSE q[i - (k - 1)]
      BY <1>1, <1>5, <1>6, <1>8
    <3>2. CASE i < k
      BY <1>1, <1>5, <3>1, <3>2
    <3>3. CASE ~(i < k)
      <4>1. i - (k - 1) \in 1..l - k
        BY <1>1, <3>3
      <4>2. q[i - (k - 1)] = es[(i - (k - 1)) + k]
        BY <1>6, <4>1
      <4>3. (i - (k - 1)) + k = i + 1
        BY <1>1
      <4> QED BY <1>1, <3>1, <3>3, <4>2, <4>3
    <3> QED BY <3>2, <3>3
  <2> QED BY <2>1, <2>2
<1>10. RemoveAt(es, k) = r
  BY <1>1, <1>2, <1>3, <1>7 DEF RemoveAt
<1> QED BY <1>1, <1>8, <1>9, <1>10

\* An entry is taken out of the cache; it may have got another value before.
LEMMA EntryRemoved ==
  ASSUME NEW es \in Seq(TableEntry), OneEntry(es), NEW k \in 1..Len(es),
         NEW es3 \in Seq(TableEntry), Len(es3) = Len(es),
         \A p \in 1..Len(es) : p # k => es3[p] = es[p],
         NEW K, K = KeyOfEntry(es[k])
  PROVE  AllWithout(RemoveAt(es3, k), es, K) /\ Len(RemoveAt(es3, k)) = Len(es) - 1
<1>1. PICK l \in Nat : l = Len(es)
  OBVIOUS
<1>2. PICK t : t = RemoveAt(es3, k)
  OBVIOUS
<1>3. /\ t \in Seq(TableEntry) /\ Len(t) = l - 1
      /\ \A a \in 1..l - 1 : t[a] = IF a < k THEN es3[a] ELSE es3[a + 1]
  BY <1>1, <1>2, RemoveAtIs
<1>4. PICK at : at = [a \in 1..l - 1 |-> IF a < k THEN a ELSE a + 1]
  OBVIOUS
<1>5. ASSUME NEW a \in 1..l - 1
      PROVE  at[a] \in 1..l /\ at[a] # k /\ t[a] = es[at[a]]
  <2>1. CASE a < k
    BY <1>1, <1>3, <1>4, <2>1
  <2>2. CASE ~(a < k)
    <3>1. at[a] = a + 1 /\ t[a] = es3[a + 1] /\ a + 1 \in 1..l /\ a + 1 # k
      BY <1>1, <1>3, <1>4, <2>2
    <3> QED BY <1>1, <3>1
  <2> QED BY <2>1, <2>2
<1>6. \A a, b \in 1..l - 1 : a < b => at[a] < at[b]
  BY <1>1, <1>4
<1>7. ASSUME NEW a \in 1..l - 1 PROVE KeyOfEntry(t[a]) # K
  BY <1>1, <1>5 DEF OneEntry
<1>8. ASSUME NEW p \in 1..l, KeyOfEntry(es[p]) # K PROVE \E a \in 1..l - 1 : t[a] = es[p]
  <2>1. p # k
    BY <1>8
  <2>2. PICK a : a = IF p < k THEN p ELSE p - 1
    OBVIOUS
  <2>3. a \in 1..l - 1 /\ at[a] = p
    BY <1>1, <1>4, <2>1, <2>2
  <2> QED BY <1>5, <2>3
<1>9. InOrderWithout(t, es, K)
  <2>1. \A a \in 1..Len(t) : a \in 1..l - 1
    BY <1>3
  <2>2. \A a \in 1..Len(t) : KeyOfEntry(t[a]) # K /\ \E p \in 1..Len(es) : t[a] = es[p]
    BY <1>1, <1>5, <1>7, <2>1
  <2>3. ASSUME NEW a \in 1..Len(t), NEW b \in 1..Len(t), a < b
        PROVE  \E p, q \in 1..Len(es) : p < q /\ t[a] = es[p] /\ t[b] = es[q]
    <3>1. at[a] \in 1..Len(es) /\ at[b] \in 1..Len(es) /\ at[a] < at[b]
      BY <1>1, <1>5, <1>6, <2>1, <2>3
    <3> QED BY <1>5, <2>1, <3>1
  <2> QED BY <1>3, <2>2, <2>3 DEF InOrderWithout
<1>10. AllWithout(t, es, K)
  <2>1. \A p \in 1..Len(es) : KeyOfEntry(es[p]) # K => \E a \in 1..Len(t) : t[a] = es[p]
    BY <1>1, <1>3, <1>8
  <2> QED BY <1>9, <2>1 DEF AllWithout
<1> QED BY <1>1, <1>2, <1>3, <1>10

\* A key without an entry.
LEMMA NothingRemoved ==
  ASSUME NEW es \in Seq(TableEntry), NEW K, \A p \in 1..Len(es) : KeyOfEntry(es[p]) # K
  PROVE  AllWithout(es, es, K)
<1>1. \A a, b \in 1..Len(es) :
          a < b => \E p, q \in 1..Len(es) : p < q /\ es[a] = es[p] /\ es[b] = es[q]
  OBVIOUS
<1>2. \A a \in 1..Len(es) : \E p \in 1..Len(es) : es[a] = es[p]
  OBVIOUS
<1> QED BY <1>1, <1>2 DEF AllWithout, InOrderWithout

\* A cache of a size has an entry behind the others, which may have lost the first.
StoredBehind(es, size, K, e, stored) ==
    \E t, t2 : /\ AllWithout(t, es, K)
               /\ t2 = t \/ (t2 = Tail(t) /\ Len(t) >= size)
               /\ Len(t2) < size
               /\ stored = Append(t2, e)

\* _set_cache() leaves the other entries in their order, up to the first.
LEMMA StoredIs ==
  ASSUME NEW es \in Seq(TableEntry), OneEntry(es), Len(es) <= definition.cacheSize,
         definition.cacheSize \in Nat \ {0}, NEW f, NEW on, NEW v
  PROVE  StoredBehind(es, definition.cacheSize, <<f.name, on>>,
                      [field |-> f.name, on |-> on, since |-> Now, value |-> v],
                      Stored(es, f, on, v))
<1>1. PICK K : K = <<f.name, on>>
  OBVIOUS
<1>e. PICK e : e = [field |-> f.name, on |-> on, since |-> Now, value |-> v]
  OBVIOUS
<1>2. PICK size \in Nat \ {0} : size = definition.cacheSize
  OBVIOUS
<1>3. PICK t : t = Others(es, f, on)
  OBVIOUS
<1>4. PICK there : there = Entry(es, f, on)
  OBVIOUS
<1>5. /\ Len(es) \in Nat /\ DOMAIN es = 1..Len(es)
      /\ \A p \in 1..Len(es) : p \in there <=> KeyOfEntry(es[p]) = K
      /\ there \subseteq 1..Len(es)
  BY <1>1, <1>4 DEF Entry, KeyOfEntry
<1>6. AllWithout(t, es, K) /\ Len(t) <= Len(es)
  <2>1. CASE there = {}
    <3>1. t = es
      BY <1>3, <1>4, <2>1 DEF Others
    <3>2. \A p \in 1..Len(es) : KeyOfEntry(es[p]) # K
      BY <1>5, <2>1
    <3> QED BY <1>5, <3>1, <3>2, NothingRemoved
  <2>2. CASE there # {}
    <3>1. PICK k : k = CHOOSE p \in there : TRUE
      OBVIOUS
    <3>2. k \in there
      BY <2>2, <3>1
    <3>3. t = RemoveAt(es, k)
      BY <1>3, <1>4, <2>2, <3>1 DEF Others
    <3>4. k \in 1..Len(es) /\ K = KeyOfEntry(es[k])
      BY <1>5, <3>2
    <3>5. AllWithout(t, es, K) /\ Len(t) = Len(es) - 1
      BY <3>3, <3>4, EntryRemoved
    <3> QED BY <1>5, <3>5
  <2> QED BY <2>1, <2>2
<1>7. InOrderWithout(t, es, K) /\ Len(t) \in Nat
  <2>1. InOrderWithout(t, es, K)
    BY <1>6 DEF AllWithout
  <2>2. t \in Seq(TableEntry)
    BY <2>1 DEF InOrderWithout
  <2> QED BY <2>1, <2>2
<1>8. PICK t2 : t2 = IF Len(t) >= size THEN Tail(t) ELSE t
  OBVIOUS
<1>9. Len(t2) < size
  <2>1. CASE Len(t) >= size
    <3>1. Len(t) > 0 /\ Len(t) = size
      BY <1>2, <1>5, <1>6, <1>7, <2>1
    <3>2. Len(t2) = Len(t) - 1
      BY <1>7, <1>8, <2>1, <3>1, WithoutHead
    <3> QED BY <1>2, <3>1, <3>2
  <2>2. CASE ~(Len(t) >= size)
    BY <1>7, <1>8, <2>2
  <2> QED BY <2>1, <2>2
<1>10. Stored(es, f, on, v) = Append(t2, e)
  BY <1>2, <1>3, <1>8, <1>e DEF Stored
<1>11. t2 = t \/ (t2 = Tail(t) /\ Len(t) >= size)
  BY <1>8
<1>12. PICK stored : stored = Stored(es, f, on, v)
  OBVIOUS
<1>13. StoredBehind(es, size, K, e, stored)
  BY <1>6, <1>9, <1>10, <1>11, <1>12 DEF StoredBehind
<1> QED BY <1>1, <1>2, <1>e, <1>12, <1>13

-----------------------------------------------------------------------------
(* One field of a message. *)

\* A lookup in tables.
TablesOK(d, t) ==
    /\ TableDefinition(d)
    /\ t \in Seq([Row -> 0..1]) /\ Len(t) > 0

\* A message that is being enriched, with the results of the fields before one.
Enriching(d, t, log, es, i) ==
    /\ EnrichedOK(d, t, log) /\ TableCacheOK(d, t, log, es)
    /\ Len(log) > 0 /\ log[Len(log)].at = Len(t)
    /\ i \in 1..Len(d.fields) /\ Len(log[Len(log)].results) = i - 1

\* A result is what a query gives, or what an entry has that is fresh.
ResultIs(d, t, log, es, n, i, r) ==
    LET K == <<d.fields[i].name, log[n].on>>
    IN  \/ /\ r.queried /\ r.value = Source(d, t, log, n, i)
           /\ d.fields[i].ttl > 0 =>
                 \A p \in 1..Len(es) :
                    KeyOfEntry(es[p]) = K => ~(Len(t) - es[p].since < d.fields[i].ttl)
        \/ /\ ~r.queried /\ d.fields[i].ttl > 0
           /\ \E p \in 1..Len(es) : /\ KeyOfEntry(es[p]) = K /\ r.value = es[p].value
                                    /\ Len(t) - es[p].since < d.fields[i].ttl

\* Its fields.
LEMMA FieldTypes ==
  ASSUME NEW d, NEW t, TablesOK(d, t)
  PROVE  /\ d.fields \in Seq(TableField) /\ DOMAIN d.fields = 1..Len(d.fields)
         /\ Len(d.fields) \in Nat
         /\ \A i \in 1..Len(d.fields) : d.fields[i] \in TableField
<1>1. d.fields \in Seq(TableField)
  BY DEF TablesOK, TableDefinition, TableField
<1> QED BY <1>1

\* The next result is fresh.
LEMMA ResultIsFresh ==
  ASSUME NEW d, NEW t, TablesOK(d, t), NEW log, NEW new, NEW es, NEW i \in Nat, NEW r \in TableResult,
         Enriching(d, t, log, es, i), Answering(d, log, new, i, r), NEW n, n = Len(log),
         ResultIs(d, t, log, es, n, i, r)
  PROVE  ResultFresh(d, t, new, n, i)
<1>1. log \in Seq(TableMessage) /\ \A m \in 1..Len(log) : log[m].at \in 1..Len(t)
  BY DEF Enriching, EnrichedOK
<1>2. d.fields \in Seq(TableField) /\ i \in 1..Len(d.fields) /\ d.fields[i] \in TableField
  BY FieldTypes DEF Enriching
<1>3. /\ n \in Nat \ {0} /\ new \in Seq(TableMessage) /\ Len(new) = n /\ Longer(log, new)
      /\ new[n].on = log[n].on /\ new[n].row = log[n].row /\ new[n].at = log[n].at
      /\ Len(new[n].results) = i /\ new[n].results[i] = r
      /\ \A m \in 1..n : m # n => new[m] = log[m]
      /\ \A m, j : LookedUp(new, m, j) <=> LookedUp(log, m, j) \/ (m = n /\ j = i)
      /\ ~LookedUp(log, n, i)
  <2>1. WithResult(log, new, i, r, n)
    BY <1>1, <1>2, AnsweredIs
  <2> QED BY <2>1 DEF WithResult
<1>4. PICK now \in Nat : now = Len(t)
  BY DEF TablesOK
<1>5. log[n].at = now
  BY <1>4 DEF Enriching
<1>6. PICK ttl \in Nat : ttl = d.fields[i].ttl
  BY <1>2 DEF TableField
<1>7. PICK limit : limit = Max({1, ttl})
  OBVIOUS
<1>8. limit \in Nat /\ limit >= 1 /\ limit >= ttl
  BY <1>6, <1>7, MaxOfTwo
<1>9. CASE r.queried
  <2>1. r.value = Source(d, t, log, n, i)
    BY <1>9 DEF ResultIs
  <2>2. Source(d, t, new, n, i) = Source(d, t, log, n, i)
    BY <1>3 DEF Source
  <2>3. LookedUp(new, n, i) /\ n \in 1..n
    BY <1>3
  <2>4. new[n].at - new[n].at < limit
    BY <1>3, <1>5, <1>8
  <2> QED BY <1>3, <1>6, <1>7, <1>9, <2>1, <2>2, <2>3, <2>4 DEF ResultFresh
<1>10. CASE ~r.queried
  <2> SUFFICES ASSUME ~d.fields[i].rows
               PROVE  ResultFresh(d, t, new, n, i)
    BY DEF ResultFresh
  <2>1. PICK p \in 1..Len(es) : /\ KeyOfEntry(es[p]) = <<d.fields[i].name, log[n].on>>
                                /\ r.value = es[p].value /\ now - es[p].since < ttl
    BY <1>4, <1>6, <1>10 DEF ResultIs
  <2>2. es \in Seq(TableEntry) /\ EntryQueried(d, t, log, es[p])
    BY DEF Enriching, TableCacheOK
  <2>3. PICK m, j : /\ LookedUp(log, m, j)
                    /\ d.fields[j].name = es[p].field /\ d.fields[j].ttl > 0
                    /\ log[m].on = es[p].on /\ log[m].results[j].queried
                    /\ log[m].at = es[p].since
                    /\ ~d.fields[j].rows => es[p].value = Source(d, t, log, m, j)
    BY <2>2 DEF EntryQueried
  <2>4. m \in 1..n /\ j \in 1..Len(log[m].results)
    BY <2>3 DEF LookedUp
  <2>5. j \in 1..Len(d.fields)
    <3>1. log[m] \in TableMessage /\ Len(log[m].results) <= Len(d.fields)
      BY <1>1, <2>4 DEF Enriching, EnrichedOK
    <3>2. Len(log[m].results) \in Nat /\ Len(d.fields) \in Nat
      BY <1>2, <3>1 DEF TableMessage
    <3> QED BY <2>4, <3>1, <3>2
  <2>6. j = i
    <3>1. d.fields[j].name = d.fields[i].name
      BY <2>1, <2>3 DEF KeyOfEntry
    <3>2. DOMAIN d.fields = 1..Len(d.fields)
      BY <1>2
    <3> QED BY <1>2, <2>5, <3>1, <3>2 DEF TablesOK, TableDefinition
  <2>7. LookedUp(new, m, i) /\ new[m].results[i] = log[m].results[i] /\ new[m].on = log[m].on
        /\ new[m].at = log[m].at /\ new[m].row = log[m].row
    BY <1>1, <1>3, <2>3, <2>6, AnswersStay
  <2>8. Source(d, t, new, m, i) = Source(d, t, log, m, i)
    BY <2>7 DEF Source
  <2>9. log[m].on = log[n].on
    BY <2>1, <2>3 DEF KeyOfEntry
  <2>10. new[n].at - new[m].at < limit
    <3>1. log[m].at \in Nat
      BY <1>1, <1>4, <2>4
    <3> QED BY <1>3, <1>5, <1>8, <2>1, <2>3, <2>7, <3>1
  <2> QED BY <1>3, <1>6, <1>7, <2>1, <2>3, <2>4, <2>6, <2>7, <2>8, <2>9, <2>10 DEF ResultFresh
<1> QED BY <1>9, <1>10

\* What is used after an earlier message is what is used in between.
LEMMA SinceIsBetween ==
  ASSUME NEW d, NEW t, TablesOK(d, t), NEW log, NEW es, NEW i \in Nat,
         Enriching(d, t, log, es, i), NEW n, n = Len(log), NEW l \in 1..n - 1
  PROVE  <<l, i>> \in (1..n) \X (1..Len(d.fields)) /\ LookedUp(log, l, i)
         /\ UsedSince(d, log, <<l, i>>) = UsedBetween(d, log, l, n, i)
<1>1. log \in Seq(TableMessage) /\ n \in Nat /\ n > 0
  BY DEF Enriching, EnrichedOK
<1>2. d.fields \in Seq(TableField) /\ i \in 1..Len(d.fields) /\ Len(d.fields) \in Nat
      /\ DOMAIN d.fields = 1..Len(d.fields)
  BY FieldTypes DEF Enriching
<1>3. \A m \in 1..n - 1 : Len(log[m].results) = Len(d.fields)
  BY <1>1 DEF Enriching, EnrichedOK
<1>4. Len(log[n].results) = i - 1
  BY DEF Enriching
<1>5. <<l, i>> \in (1..n) \X (1..Len(d.fields)) /\ LookedUp(log, l, i)
  BY <1>1, <1>2, <1>3 DEF LookedUp
<1>6. ASSUME NEW a, NEW b
      PROVE  <<a, b>> \in Uses(d, log) /\ UsedAfter(<<l, i>>, <<a, b>>)
                <=> /\ a \in l..n /\ b \in Cacheable(d)
                    /\ \/ l < a /\ a < n
                       \/ a = l /\ b > i
                       \/ a = n /\ b < i
  <2>1. b \in Cacheable(d) <=> b \in 1..Len(d.fields) /\ d.fields[b].ttl > 0
    BY <1>2 DEF Cacheable
  <2>2. <<a, b>> \in Uses(d, log) <=> /\ a \in 1..n /\ b \in 1..Len(d.fields)
                                      /\ b \in 1..Len(log[a].results) /\ d.fields[b].ttl > 0
    BY DEF Uses, LookedUp
  <2>3. UsedAfter(<<l, i>>, <<a, b>>) <=> l < a \/ (l = a /\ i < b)
    BY DEF UsedAfter
  <2>4. CASE a = n
    BY <1>1, <1>2, <1>4, <2>1, <2>2, <2>3, <2>4
  <2>5. CASE a \in 1..n - 1
    <3>1. Len(log[a].results) = Len(d.fields)
      BY <1>3, <2>5
    <3> QED BY <1>1, <1>2, <2>1, <2>2, <2>3, <2>5, <3>1
  <2>6. CASE a \notin 1..n
    <3>1. a \notin l..n
      BY <1>1, <2>6
    <3> QED BY <2>2, <2>6, <3>1
  <2>7. a = n \/ a \in 1..n - 1 \/ a \notin 1..n
    BY <1>1
  <2> QED BY <2>4, <2>5, <2>6, <2>7
<1>7. ASSUME NEW k
      PROVE  k \in UsedSince(d, log, <<l, i>>) <=> k \in UsedBetween(d, log, l, n, i)
  <2>1. k \in UsedSince(d, log, <<l, i>>) <=>
            \E a, b : /\ <<a, b>> \in Uses(d, log) /\ UsedAfter(<<l, i>>, <<a, b>>)
                      /\ k = <<d.fields[b].name, log[a].on>>
    <3>1. k \in UsedSince(d, log, <<l, i>>) <=>
            \E w \in Uses(d, log) : UsedAfter(<<l, i>>, w) /\ k = KeyUsed(d, log, w)
      BY DEF UsedSince
    <3>2. \A w \in Uses(d, log) : w = <<w[1], w[2]>>
      BY DEF Uses
    <3> QED BY <3>1, <3>2 DEF KeyUsed
  <2>2. k \in UsedBetween(d, log, l, n, i) <=>
            \E a, b : /\ a \in l..n /\ b \in Cacheable(d)
                      /\ \/ l < a /\ a < n
                         \/ a = l /\ b > i
                         \/ a = n /\ b < i
                      /\ k = <<d.fields[b].name, log[a].on>>
    <3>1. PICK P : P = {q \in (l..n) \X Cacheable(d) : \/ l < q[1] /\ q[1] < n
                                                       \/ q[1] = l /\ q[2] > i
                                                       \/ q[1] = n /\ q[2] < i}
      OBVIOUS
    <3>2. k \in UsedBetween(d, log, l, n, i) <=>
              \E q \in P : k = <<d.fields[q[2]].name, log[q[1]].on>>
      BY <3>1 DEF UsedBetween
    <3>3. \A q \in P : /\ q[1] \in l..n /\ q[2] \in Cacheable(d)
                       /\ \/ l < q[1] /\ q[1] < n
                          \/ q[1] = l /\ q[2] > i
                          \/ q[1] = n /\ q[2] < i
      BY <3>1
    <3>4. ASSUME NEW a \in l..n, NEW b \in Cacheable(d),
                 \/ l < a /\ a < n
                 \/ a = l /\ b > i
                 \/ a = n /\ b < i
          PROVE  <<a, b>> \in P
      BY <3>1, <3>4
    <3>5. ASSUME NEW q \in P, k = <<d.fields[q[2]].name, log[q[1]].on>>
          PROVE  \E a, b : /\ a \in l..n /\ b \in Cacheable(d)
                           /\ \/ l < a /\ a < n
                              \/ a = l /\ b > i
                              \/ a = n /\ b < i
                           /\ k = <<d.fields[b].name, log[a].on>>
      BY <3>3, <3>5
    <3>6. ASSUME NEW a, NEW b, a \in l..n, b \in Cacheable(d),
                 \/ l < a /\ a < n
                 \/ a = l /\ b > i
                 \/ a = n /\ b < i,
                 k = <<d.fields[b].name, log[a].on>>
          PROVE  \E q \in P : k = <<d.fields[q[2]].name, log[q[1]].on>>
      <4>1. <<a, b>> \in P /\ <<a, b>>[1] = a /\ <<a, b>>[2] = b
        BY <3>4, <3>6
      <4> QED BY <3>6, <4>1
    <3> QED BY <3>2, <3>5, <3>6
  <2> QED BY <1>6, <2>1, <2>2
<1>8. UsedSince(d, log, <<l, i>>) = UsedBetween(d, log, l, n, i)
  BY <1>7
<1> QED BY <1>5, <1>8

\* The next query is not needless.
LEMMA ResultIsSaved ==
  ASSUME NEW d, NEW t, TablesOK(d, t), NEW log, NEW new, NEW es, NEW i \in Nat, NEW r \in TableResult,
         Enriching(d, t, log, es, i), Answering(d, log, new, i, r), NEW n, n = Len(log),
         ResultIs(d, t, log, es, n, i, r)
  PROVE  QuerySaved(d, new, n, i)
<1>1. log \in Seq(TableMessage) /\ \A m \in 1..Len(log) : log[m].at \in 1..Len(t)
  BY DEF Enriching, EnrichedOK
<1>2. d.fields \in Seq(TableField) /\ i \in 1..Len(d.fields) /\ d.fields[i] \in TableField
  BY FieldTypes DEF Enriching
<1>3. /\ n \in Nat \ {0} /\ new \in Seq(TableMessage) /\ Len(new) = n /\ Longer(log, new)
      /\ new[n].on = log[n].on /\ new[n].row = log[n].row /\ new[n].at = log[n].at
      /\ Len(new[n].results) = i /\ new[n].results[i] = r
      /\ \A m \in 1..n : m # n => new[m] = log[m]
      /\ \A m, j : LookedUp(new, m, j) <=> LookedUp(log, m, j) \/ (m = n /\ j = i)
      /\ ~LookedUp(log, n, i)
  <2>1. WithResult(log, new, i, r, n)
    BY <1>1, <1>2, AnsweredIs
  <2> QED BY <2>1 DEF WithResult
<1>4. PICK now \in Nat : now = Len(t)
  BY DEF TablesOK
<1>5. log[n].at = now
  BY <1>4 DEF Enriching
<1>6. PICK ttl \in Nat : ttl = d.fields[i].ttl
  BY <1>2 DEF TableField
<1> SUFFICES ASSUME ttl > 0, r.queried,
                    NEW m \in 1..n - 1, LookedUp(new, m, i), new[m].on = new[n].on,
                    new[m].results[i].queried, new[n].at - new[m].at < ttl,
                    NEW l \in 1..n - 1, new[l].on = new[n].on
             PROVE  Cardinality(UsedBetween(d, new, l, n, i)) >= d.cacheSize
  BY <1>3, <1>6 DEF QuerySaved
<1>7. new[m] = log[m] /\ new[l] = log[l] /\ m \in 1..n /\ l \in 1..n
  BY <1>3
<1>8. PICK K : K = <<d.fields[i].name, log[n].on>>
  OBVIOUS
<1>9. es \in Seq(TableEntry)
  BY DEF Enriching, TableCacheOK
<1>10. \A u \in {<<m, i>>, <<l, i>>} : u \in Uses(d, log) /\ KeyUsed(d, log, u) = K
  <2>1. <<m, i>> \in (1..n) \X (1..Len(d.fields)) /\ LookedUp(log, m, i)
    BY SinceIsBetween
  <2>2. <<l, i>> \in (1..n) \X (1..Len(d.fields)) /\ LookedUp(log, l, i)
    BY SinceIsBetween
  <2>3. log[m].on = log[n].on /\ log[l].on = log[n].on
    BY <1>3, <1>7
  <2> QED BY <1>6, <1>8, <2>1, <2>2, <2>3 DEF Uses, KeyUsed
<1>11. ASSUME NEW p \in 1..Len(es), KeyOfEntry(es[p]) = K
       PROVE  FALSE
  <2>1. EntryUsed(d, log, es, p, <<m, i>>)
    BY <1>10 DEF Enriching, TableCacheOK
  <2>2. log[m].at <= es[p].since
    BY <1>7, <1>10, <1>11, <2>1 DEF EntryUsed
  <2>3. ~(now - es[p].since < ttl)
    BY <1>4, <1>6, <1>8, <1>11 DEF ResultIs
  <2>4. es[p].since \in Nat /\ log[m].at \in Nat
    <3>1. es[p] \in TableEntry
      BY <1>9
    <3>2. log[m] \in TableMessage
      BY <1>1, <1>7
    <3> QED BY <3>1, <3>2 DEF TableEntry, TableMessage
  <2>5. now - log[m].at < ttl
    BY <1>3, <1>5, <1>7
  <2> QED BY <2>2, <2>3, <2>4, <2>5
<1>12. Dropped(d, log, es, <<l, i>>)
  BY <1>10 DEF Enriching, TableCacheOK
<1>13. Cardinality(UsedSince(d, log, <<l, i>>)) >= d.cacheSize
  BY <1>10, <1>11, <1>12 DEF Dropped
<1>14. UsedSince(d, log, <<l, i>>) = UsedBetween(d, log, l, n, i)
  BY SinceIsBetween
<1>15. UsedBetween(d, new, l, n, i) = UsedBetween(d, log, l, n, i)
  <2>1. n \in 1..Len(log) /\ l \in 1..n
    BY <1>3, <1>7
  <2> QED BY <1>1, <1>3, <2>1, BetweenStays
<1> QED BY <1>13, <1>14, <1>15

\* Messages stay right with the next result.
LEMMA EnrichedStays ==
  ASSUME NEW d, NEW t, TablesOK(d, t), NEW log, NEW new, NEW es, NEW i \in Nat, NEW r \in TableResult,
         Enriching(d, t, log, es, i), Answering(d, log, new, i, r),
         ResultIs(d, t, log, es, Len(log), i, r)
  PROVE  EnrichedOK(d, t, new)
<1>1. PICK n : n = Len(log)
  OBVIOUS
<1>2. log \in Seq(TableMessage) /\ EnrichedOK(d, t, log)
  BY DEF Enriching, EnrichedOK
<1>3. /\ d.fields \in Seq(TableField) /\ i \in 1..Len(d.fields) /\ Len(d.fields) \in Nat
  BY FieldTypes DEF Enriching
<1>4. /\ n \in Nat \ {0} /\ new \in Seq(TableMessage) /\ Len(new) = n /\ Longer(log, new)
      /\ new[n].on = log[n].on /\ new[n].row = log[n].row /\ new[n].at = log[n].at
      /\ Len(new[n].results) = i /\ new[n].results[i] = r
      /\ \A m \in 1..n : m # n => new[m] = log[m]
      /\ \A m, j : LookedUp(new, m, j) <=> LookedUp(log, m, j) \/ (m = n /\ j = i)
      /\ ~LookedUp(log, n, i)
  <2>1. WithResult(log, new, i, r, n)
    BY <1>1, <1>2, <1>3, AnsweredIs
  <2> QED BY <2>1 DEF WithResult
<1>5. /\ \A m \in 1..n : /\ log[m].at \in 1..Len(t) /\ Len(log[m].results) <= Len(d.fields)
                         /\ m < n => Len(log[m].results) = Len(d.fields)
      /\ \A m, j : LookedUp(log, m, j) => ResultFresh(d, t, log, m, j) /\ QuerySaved(d, log, m, j)
  BY <1>1, <1>2 DEF EnrichedOK
<1>6. ASSUME NEW m \in 1..n
      PROVE  /\ new[m].at \in 1..Len(t) /\ Len(new[m].results) <= Len(d.fields)
             /\ m < n => Len(new[m].results) = Len(d.fields)
  <2>1. CASE m = n
    BY <1>3, <1>4, <1>5, <2>1
  <2>2. CASE m # n
    <3>1. new[m] = log[m]
      BY <1>4, <2>2
    <3> QED BY <1>5, <3>1
  <2> QED BY <2>1, <2>2
<1>7. ASSUME NEW m, NEW j, LookedUp(new, m, j)
      PROVE  ResultFresh(d, t, new, m, j) /\ QuerySaved(d, new, m, j)
  <2>1. CASE m = n /\ j = i
    BY <1>1, <2>1, ResultIsFresh, ResultIsSaved
  <2>2. CASE LookedUp(log, m, j)
    <3>1. LaterTables(t, t)
      BY DEF LaterTables, TablesOK
    <3>2. ResultFresh(d, t, new, m, j)
      BY <1>1, <1>2, <1>4, <1>5, <2>2, <3>1, FreshStays
    <3>3. m \in 1..n /\ j \in 1..Len(log[m].results) /\ Len(log[m].results) \in Nat
      <4>1. m \in 1..n /\ j \in 1..Len(log[m].results)
        BY <1>1, <2>2 DEF LookedUp
      <4>2. log[m] \in TableMessage
        BY <1>1, <1>2, <4>1
      <4> QED BY <4>1, <4>2 DEF TableMessage
    <3>4. \A a \in 1..m - 1 : a \in 1..n /\ a < n
      BY <1>4, <3>3
    <3>5. j \in 1..Len(d.fields)
      BY <1>3, <1>5, <3>3
    <3>6. \A a \in 1..m - 1 : j \in 1..Len(log[a].results)
      BY <1>5, <3>4, <3>5
    <3>7. QuerySaved(d, new, m, j)
      BY <1>2, <1>4, <1>5, <2>2, <3>6, SavedStays
    <3> QED BY <3>2, <3>7
  <2> QED BY <1>4, <1>7, <2>1, <2>2
<1> QED BY <1>4, <1>6, <1>7 DEF EnrichedOK

\* A field that is not cached leaves the cache right.
LEMMA CacheUntouched ==
  ASSUME NEW d, NEW t, TablesOK(d, t), NEW log, NEW new, NEW es, NEW i \in Nat, NEW r \in TableResult,
         Enriching(d, t, log, es, i), Answering(d, log, new, i, r), ~(d.fields[i].ttl > 0)
  PROVE  TableCacheOK(d, t, new, es)
<1>1. PICK n : n = Len(log)
  OBVIOUS
<1>2. PICK K : K = <<d.fields[i].name, log[n].on>>
  OBVIOUS
<1>3. log \in Seq(TableMessage) /\ \A m \in 1..Len(log) : log[m].at \in 1..Len(t)
  BY DEF Enriching, EnrichedOK
<1>4. d.fields \in Seq(TableField)
  BY FieldTypes
<1>5. /\ n \in Nat \ {0} /\ new \in Seq(TableMessage) /\ Len(new) = n /\ Longer(log, new)
  <2>1. WithResult(log, new, i, r, n)
    BY <1>1, <1>3, <1>4, AnsweredIs
  <2> QED BY <2>1 DEF WithResult
<1>6. /\ \A u : u \in Uses(d, new) <=> u \in Uses(d, log)
      /\ \A u \in Uses(d, log) : KeyUsed(d, new, u) = KeyUsed(d, log, u)
      /\ \A u \in Uses(d, log) : UsedSince(d, new, u) = UsedSince(d, log, u)
  <2>1. WithUse(d, log, new, i, n, K)
    BY <1>1, <1>2, <1>3, <1>4, UsesAnswered
  <2> QED BY <2>1 DEF WithUse
<1>7. /\ es \in Seq(TableEntry) /\ Len(es) <= d.cacheSize /\ OneEntry(es)
      /\ \A p \in 1..Len(es) : EntryQueried(d, t, log, es[p])
      /\ \A p \in 1..Len(es) : \A u \in Uses(d, log) : EntryUsed(d, log, es, p, u)
      /\ \A u \in Uses(d, log) : Dropped(d, log, es, u)
  BY DEF Enriching, TableCacheOK
<1>8. LaterTables(t, t)
  BY DEF LaterTables, TablesOK
<1>9. \A p \in 1..Len(es) : EntryQueried(d, t, new, es[p])
  BY <1>3, <1>5, <1>7, <1>8, QueriedStays
<1>10. \A u \in Uses(d, log) : /\ new[u[1]].at = log[u[1]].at
                               /\ new[u[1]].results[u[2]] = log[u[1]].results[u[2]]
  <2>1. \A u \in Uses(d, log) : LookedUp(log, u[1], u[2])
    BY DEF Uses
  <2> QED BY <1>3, <1>5, <2>1, AnswersStay
<1>11. \A p \in 1..Len(es) : \A u \in Uses(d, new) : EntryUsed(d, new, es, p, u)
  BY <1>6, <1>7, <1>10 DEF EntryUsed
<1>12. \A u \in Uses(d, new) : Dropped(d, new, es, u)
  BY <1>6, <1>7 DEF Dropped
<1> QED BY <1>7, <1>9, <1>11, <1>12 DEF TableCacheOK

\* A hit moves the entry to the end.
LEMMA HitKeeps ==
  ASSUME NEW d, NEW t, TablesOK(d, t), NEW log, NEW new, NEW es, NEW i \in Nat, NEW r \in TableResult,
         Enriching(d, t, log, es, i), Answering(d, log, new, i, r), d.fields[i].ttl > 0, ~r.queried,
         NEW n, n = Len(log), NEW k \in 1..Len(es),
         KeyOfEntry(es[k]) = <<d.fields[i].name, log[n].on>>, NEW kept \in 0..2,
         ~d.fields[i].rows => kept = es[k].value, NEW es3, es3 = [es EXCEPT ![k].value = kept]
  PROVE  TableCacheOK(d, t, new, Moved(es3, k))
<1>1. PICK K : K = <<d.fields[i].name, log[n].on>>
  OBVIOUS
<1>2. log \in Seq(TableMessage) /\ \A m \in 1..Len(log) : log[m].at \in 1..Len(t)
  BY DEF Enriching, EnrichedOK
<1>3. /\ d.fields \in Seq(TableField) /\ i \in 1..Len(d.fields) /\ DOMAIN d.fields = 1..Len(d.fields)
      /\ Len(d.fields) \in Nat
  BY FieldTypes DEF Enriching
<1>4. /\ n \in Nat \ {0} /\ new \in Seq(TableMessage) /\ Len(new) = n /\ Longer(log, new)
      /\ new[n].on = log[n].on /\ new[n].row = log[n].row /\ new[n].at = log[n].at
      /\ Len(new[n].results) = i /\ new[n].results[i] = r
  <2>1. WithResult(log, new, i, r, n)
    BY <1>2, <1>3, AnsweredIs
  <2> QED BY <2>1 DEF WithResult
<1>5. /\ es \in Seq(TableEntry) /\ Len(es) <= d.cacheSize /\ OneEntry(es)
      /\ \A p \in 1..Len(es) : EntryQueried(d, t, log, es[p])
      /\ \A p \in 1..Len(es) : \A u \in Uses(d, log) : EntryUsed(d, log, es, p, u)
      /\ TableCacheOK(d, t, log, es)
  BY DEF Enriching, TableCacheOK
<1>6. d.cacheSize \in Nat \ {0}
  BY DEF TablesOK, TableDefinition
<1>7. PICK old : old = es[k]
  OBVIOUS
<1>8. PICK e : e = [old EXCEPT !.value = kept]
  OBVIOUS
<1>9. old \in TableEntry
  BY <1>5, <1>7
<1>10. e \in TableEntry /\ e.field = old.field /\ e.on = old.on /\ e.since = old.since /\ e.value = kept
  BY <1>8, <1>9 DEF TableEntry
<1>11. es3 = [es EXCEPT ![k] = e]
  BY <1>7, <1>8
<1>12. /\ es3 \in Seq(TableEntry) /\ Len(es3) = Len(es) /\ es3[k] = e
       /\ \A p \in 1..Len(es) : p # k => es3[p] = es[p]
  <2>1. es \in Seq(TableEntry) /\ e \in TableEntry
    BY <1>5, <1>10
  <2> HIDE DEF TableEntry
  <2> QED BY <1>11, <2>1
<1>13. KeyOfEntry(e) = K /\ K = KeyOfEntry(es[k])
  BY <1>1, <1>7, <1>10 DEF KeyOfEntry
<1>14. PICK rest : rest = RemoveAt(es3, k)
  OBVIOUS
<1>15. AllWithout(rest, es, K) /\ Len(rest) = Len(es) - 1
  BY <1>5, <1>12, <1>13, <1>14, EntryRemoved
<1>16. Len(rest) < d.cacheSize
  BY <1>5, <1>6, <1>15
<1>17. EntryQueried(d, t, new, e)
  <2>1. LaterTables(t, t)
    BY DEF LaterTables, TablesOK
  <2>2. EntryQueried(d, t, new, old)
    BY <1>2, <1>4, <1>5, <1>7, <2>1, QueriedStays
  <2>3. PICK m, j : /\ LookedUp(log, m, j)
                    /\ d.fields[j].name = old.field /\ d.fields[j].ttl > 0
                    /\ log[m].on = old.on /\ log[m].results[j].queried /\ log[m].at = old.since
                    /\ ~d.fields[j].rows => old.value = Source(d, t, log, m, j)
    BY <1>5, <1>7 DEF EntryQueried
  <2>4. m \in 1..n /\ j \in 1..Len(log[m].results)
    BY <2>3 DEF LookedUp
  <2>5. j \in 1..Len(d.fields)
    <3>1. log[m] \in TableMessage /\ Len(log[m].results) <= Len(d.fields)
      BY <1>2, <2>4 DEF Enriching, EnrichedOK
    <3>2. Len(log[m].results) \in Nat
      BY <3>1 DEF TableMessage
    <3> QED BY <1>3, <2>4, <3>1, <3>2
  <2>6. j = i
    <3>1. d.fields[j].name = d.fields[i].name
      BY <1>1, <1>13, <1>7, <2>3 DEF KeyOfEntry
    <3> QED BY <1>3, <2>5, <3>1 DEF TablesOK, TableDefinition
  <2>7. LookedUp(new, m, j) /\ new[m].results[j] = log[m].results[j] /\ new[m].on = log[m].on
        /\ new[m].at = log[m].at /\ new[m].row = log[m].row
    BY <1>2, <1>4, <2>3, AnswersStay
  <2>8. Source(d, t, new, m, j) = Source(d, t, log, m, j)
    BY <2>7 DEF Source
  <2>9. ~d.fields[j].rows => e.value = Source(d, t, new, m, j)
    BY <1>7, <1>10, <2>3, <2>6, <2>8
  <2> QED BY <1>10, <2>3, <2>7, <2>9 DEF EntryQueried
<1>18. \A u \in Uses(d, log) : KeyUsed(d, log, u) = K /\ log[u[1]].results[u[2]].queried
                                    => log[u[1]].at <= e.since
  BY <1>5, <1>7, <1>10, <1>13 DEF EntryUsed
<1>19. GoesToEnd(d, t, log, new, i, r, es, rest, rest, e)
  BY <1>1, <1>10, <1>13, <1>15, <1>16, <1>17, <1>18 DEF GoesToEnd
<1>20. TableCacheOK(d, t, new, Append(rest, e))
  BY <1>2, <1>3, <1>5, <1>6, <1>19, EntryToEnd
<1> QED BY <1>12, <1>14, <1>20 DEF Moved

\* A miss puts an entry to the end.
LEMMA MissKeeps ==
  ASSUME NEW d, d = definition, NEW t, t = tables, TablesOK(d, t), NEW log, NEW new, NEW es,
         NEW i \in Nat, NEW r \in TableResult,
         Enriching(d, t, log, es, i), Answering(d, log, new, i, r), d.fields[i].ttl > 0, r.queried,
         NEW n, n = Len(log), NEW on, on = log[n].on, NEW kept \in 0..2,
         ~d.fields[i].rows => kept = Source(d, t, log, n, i)
  PROVE  TableCacheOK(d, t, new, Stored(es, d.fields[i], on, kept))
<1>1. PICK K : K = <<d.fields[i].name, log[n].on>>
  OBVIOUS
<1>2. log \in Seq(TableMessage) /\ \A m \in 1..Len(log) : log[m].at \in 1..Len(t)
  BY DEF Enriching, EnrichedOK
<1>3. /\ d.fields \in Seq(TableField) /\ i \in 1..Len(d.fields) /\ d.fields[i] \in TableField
      /\ DOMAIN d.fields = 1..Len(d.fields)
  BY FieldTypes DEF Enriching
<1>4. /\ n \in Nat \ {0} /\ new \in Seq(TableMessage) /\ Len(new) = n /\ Longer(log, new)
      /\ new[n].on = log[n].on /\ new[n].row = log[n].row /\ new[n].at = log[n].at
      /\ Len(new[n].results) = i /\ new[n].results[i] = r
      /\ \A m, j : LookedUp(new, m, j) <=> LookedUp(log, m, j) \/ (m = n /\ j = i)
  <2>1. WithResult(log, new, i, r, n)
    BY <1>2, <1>3, AnsweredIs
  <2> QED BY <2>1 DEF WithResult
<1>5. es \in Seq(TableEntry) /\ Len(es) <= d.cacheSize /\ OneEntry(es) /\ TableCacheOK(d, t, log, es)
  BY DEF Enriching, TableCacheOK
<1>6. d.cacheSize \in Nat \ {0}
  BY DEF TablesOK, TableDefinition
<1>7. PICK now \in Nat : now = Len(t)
  BY DEF TablesOK
<1>8. Now = now /\ log[n].at = now
  BY <1>7 DEF Now, Enriching
<1>9. PICK e : e = [field |-> d.fields[i].name, on |-> on, since |-> Now, value |-> kept]
  OBVIOUS
<1>10. e \in TableEntry /\ KeyOfEntry(e) = K /\ e.since = now /\ e.value = kept
  <2>1. log[n] \in TableMessage
    BY <1>2, <1>4
  <2>2. on \in Row /\ d.fields[i].name \in STRING
    BY <1>3, <2>1 DEF TableMessage, TableField
  <2> QED BY <1>1, <1>8, <1>9, <2>2 DEF TableEntry, KeyOfEntry
<1>11. PICK rest, rest2 : /\ AllWithout(rest, es, K)
                          /\ rest2 = rest \/ (rest2 = Tail(rest) /\ Len(rest) >= d.cacheSize)
                          /\ Len(rest2) < d.cacheSize
                          /\ Stored(es, d.fields[i], on, kept) = Append(rest2, e)
  <2>1. Len(es) <= definition.cacheSize /\ definition.cacheSize \in Nat \ {0}
    BY <1>5, <1>6
  <2>2. PICK f : f = d.fields[i]
    OBVIOUS
  <2>3. StoredBehind(es, definition.cacheSize, <<f.name, on>>,
                     [field |-> f.name, on |-> on, since |-> Now, value |-> kept],
                     Stored(es, f, on, kept))
    BY <1>5, <2>1, StoredIs
  <2>4. <<f.name, on>> = K /\ [field |-> f.name, on |-> on, since |-> Now, value |-> kept] = e
    BY <1>1, <1>9, <2>2
  <2>5. StoredBehind(es, d.cacheSize, K, e, Stored(es, d.fields[i], on, kept))
    BY <2>2, <2>3, <2>4, Zenon
  <2> HIDE DEF Stored, AllWithout
  <2> QED BY <2>5 DEF StoredBehind
<1>12. EntryQueried(d, t, new, e)
  <2>1. LookedUp(new, n, i) /\ new[n].results[i].queried
    BY <1>4
  <2>2. Source(d, t, new, n, i) = Source(d, t, log, n, i)
    BY <1>4 DEF Source
  <2>3. d.fields[i].name = e.field /\ new[n].on = e.on /\ new[n].at = e.since
    BY <1>4, <1>8, <1>9
  <2> QED BY <1>10, <2>1, <2>2, <2>3 DEF EntryQueried
<1>13. \A u \in Uses(d, log) : log[u[1]].at <= e.since
  <2>1. \A u \in Uses(d, log) : u[1] \in 1..Len(log)
    BY DEF Uses
  <2>2. \A u \in Uses(d, log) : log[u[1]].at \in 1..now
    BY <1>2, <1>7, <2>1
  <2> QED BY <1>7, <1>10, <2>2
<1>14. log[n].at <= e.since
  BY <1>8, <1>10
<1>15. GoesToEnd(d, t, log, new, i, r, es, rest, rest2, e)
  BY <1>1, <1>10, <1>11, <1>12, <1>13, <1>14 DEF GoesToEnd
<1>16. TableCacheOK(d, t, new, Append(rest2, e))
  BY <1>2, <1>3, <1>5, <1>6, <1>15, EntryToEnd
<1> QED BY <1>11, <1>16

\* What join() has when it comes to a field: the cache, the results, and the columns of
\* the message.
ComesToField(log, es, state, message) ==
    LET last == log[Len(log)]
    IN  /\ state.entries = es /\ state.results = last.results
        /\ message.on = last.on /\ message.row = last.row

\* The result is behind the others, and messages and cache stay right.
FieldJoined(d, t, log, i, after) ==
    \E r, new : /\ r \in TableResult /\ Answering(d, log, new, i, r)
                /\ after.results = Append(log[Len(log)].results, r)
                /\ EnrichedOK(d, t, new) /\ TableCacheOK(d, t, new, after.entries)

\* join() does that for a field.
LEMMA FieldKeeps ==
  ASSUME NEW d, d = definition, NEW t, t = tables, TablesOK(d, t), NEW log, NEW es,
         NEW i \in Nat, Enriching(d, t, log, es, i),
         NEW state, NEW message, ComesToField(log, es, state, message)
  PROVE  FieldJoined(d, t, log, i, JoinField(state, d.fields[i], message))
<1>1. PICK n \in Nat \ {0} : n = Len(log)
  <2>1. Len(log) \in Nat
    BY DEF Enriching, EnrichedOK
  <2> QED BY <2>1 DEF Enriching
<1>2. /\ log \in Seq(TableMessage) /\ log[n] \in TableMessage /\ log[n].at = Len(t)
      /\ i \in 1..Len(d.fields) /\ TableCacheOK(d, t, log, es)
  BY <1>1 DEF Enriching, EnrichedOK
<1>3. PICK field : field = d.fields[i]
  OBVIOUS
<1>4. field \in TableField /\ field.ttl \in Nat
  BY <1>2, <1>3, FieldTypes DEF TableField
<1>5. PICK on, row : on = log[n].on /\ row = log[n].row
  OBVIOUS
<1>6. on \in Row /\ row \in Row /\ message.on = on /\ message.row = row
  BY <1>1, <1>2, <1>5 DEF TableMessage, ComesToField
<1>7. PICK now \in Nat \ {0} : now = Len(t)
  BY DEF TablesOK
<1>8. Now = now /\ t[now] \in [Row -> 0..1]
  BY <1>7 DEF Now, TablesOK
<1>9. PICK K : K = <<field.name, on>>
  OBVIOUS
<1>10. PICK hits : hits = Cached(es, field, on)
  OBVIOUS
<1>11. /\ es \in Seq(TableEntry) /\ DOMAIN es = 1..Len(es)
       /\ \A p \in 1..Len(es) : es[p] \in TableEntry
  BY <1>2 DEF TableCacheOK
<1>12. \A p : p \in hits <=> /\ p \in 1..Len(es) /\ KeyOfEntry(es[p]) = K
                             /\ now - es[p].since < field.ttl
  BY <1>8, <1>9, <1>10, <1>11 DEF Cached, Entry, KeyOfEntry
<1>13. PICK index : index = CHOOSE p \in hits : TRUE
  OBVIOUS
<1>14. hits # {} => index \in hits
  BY <1>13
<1>15. PICK asked : asked = Queried(field, message)
  OBVIOUS
<1>16. asked \in 0..1 /\ asked = Source(d, t, log, n, i)
  <2>1. asked = t[now][IF field.query THEN row ELSE on]
    BY <1>6, <1>8, <1>15 DEF Queried
  <2>2. Source(d, t, log, n, i) = t[now][IF field.query THEN row ELSE on]
    BY <1>2, <1>3, <1>5, <1>7 DEF Source
  <2> QED BY <1>6, <1>8, <2>1, <2>2
<1>17. PICK after : after = JoinField(state, field, message)
  OBVIOUS
<1>18. state.entries = es /\ state.results = log[n].results
  BY <1>1 DEF ComesToField
<1>19. PICK kept : kept = IF field.rows /\ message.mutates THEN Changed ELSE asked
  OBVIOUS
<1>20. kept \in 0..2 /\ (~field.rows => kept = Source(d, t, log, n, i))
  BY <1>16, <1>19 DEF Changed
<1>21. PICK found : found = es[index].value
  OBVIOUS
<1>22. PICK kept2 : kept2 = IF field.rows /\ message.mutates THEN Changed ELSE found
  OBVIOUS
<1>23. hits # {} => /\ found \in 0..2 /\ index \in 1..Len(es) /\ KeyOfEntry(es[index]) = K
                    /\ kept2 \in 0..2 /\ (~field.rows => kept2 = es[index].value)
                    /\ now - es[index].since < field.ttl
  <2> SUFFICES ASSUME hits # {} PROVE <1>23!2
    OBVIOUS
  <2>1. index \in 1..Len(es) /\ KeyOfEntry(es[index]) = K /\ now - es[index].since < field.ttl
    BY <1>12, <1>14
  <2>2. found \in 0..2
    BY <1>11, <1>21, <2>1 DEF TableEntry
  <2> QED BY <1>21, <1>22, <2>1, <2>2 DEF Changed
<1>24. ASSUME NEW r, r \in TableResult, ResultIs(d, t, log, es, n, i, r),
              after.results = Append(log[n].results, r),
              \A new : Answering(d, log, new, i, r) => TableCacheOK(d, t, new, after.entries)
       PROVE  FieldJoined(d, t, log, i, after)
  <2>1. PICK new : new = [log EXCEPT ![n].results = Append(@, r)]
    OBVIOUS
  <2>2. Answering(d, log, new, i, r)
    BY <1>1, <1>2, <2>1 DEF Answering, Enriching
  <2>3. EnrichedOK(d, t, new)
    BY <1>1, <1>24, <2>2, EnrichedStays
  <2>4. TableCacheOK(d, t, new, after.entries)
    BY <1>24, <2>2
  <2>5. after.results = Append(log[Len(log)].results, r)
    BY <1>1, <1>24
  <2> QED BY <1>24, <2>2, <2>3, <2>4, <2>5 DEF FieldJoined
<1>25. CASE field.ttl > 0 /\ hits # {}
  <2>1. PICK r : r = [field |-> field, value |-> found, queried |-> FALSE]
    OBVIOUS
  <2>2. r \in TableResult /\ ~r.queried /\ r.value = found
    BY <1>4, <1>23, <1>25, <2>1 DEF TableResult
  <2>3. after.results = Append(log[n].results, r)
    BY <1>6, <1>10, <1>13, <1>17, <1>18, <1>21, <1>25, <2>1 DEF JoinField
  <2>e. after.entries = Moved([es EXCEPT ![index].value = kept2], index)
    <3>1. Cached(state.entries, field, message.on) = hits
      BY <1>6, <1>10, <1>18
    <3>2. (CHOOSE p \in Cached(state.entries, field, message.on) : TRUE) = index
      BY <1>13, <3>1
    <3>3. Cached(state.entries, field, message.on) # {} /\ field.ttl > 0 /\ field.ttl # 0
      BY <1>4, <1>25, <3>1
    <3>4. PICK kept3 : kept3 = IF field.rows /\ message.mutates THEN Changed
                               ELSE state.entries[index].value
      OBVIOUS
    <3>5. kept3 = kept2
      BY <1>18, <1>21, <1>22, <3>4
    <3>6. after.entries = Moved([state.entries EXCEPT ![index].value = kept3], index)
      BY <1>17, <3>2, <3>3, <3>4, Zenon DEF JoinField
    <3> QED BY <1>18, <3>5, <3>6, Zenon
  <2>4. ResultIs(d, t, log, es, n, i, r)
    BY <1>3, <1>5, <1>7, <1>9, <1>21, <1>23, <1>25, <2>2 DEF ResultIs
  <2>5. ASSUME NEW new, Answering(d, log, new, i, r)
        PROVE  TableCacheOK(d, t, new, after.entries)
    <3>1. PICK es3 : es3 = [es EXCEPT ![index].value = kept2]
      OBVIOUS
    <3>2. KeyOfEntry(es[index]) = <<d.fields[i].name, log[n].on>>
      BY <1>3, <1>5, <1>9, <1>23, <1>25
    <3>3. d.fields[i].ttl > 0 /\ (~d.fields[i].rows => kept2 = es[index].value)
      BY <1>3, <1>23, <1>25
    <3>4. TableCacheOK(d, t, new, Moved(es3, index))
      BY <1>1, <1>23, <1>25, <2>2, <2>5, <3>1, <3>2, <3>3, HitKeeps
    <3> QED BY <2>e, <3>1, <3>4
  <2>6. FieldJoined(d, t, log, i, after)
    BY <1>24, <2>2, <2>3, <2>4, <2>5
  <2> QED BY <1>3, <1>17, <2>6
<1>26. CASE ~(field.ttl > 0 /\ hits # {})
  <2>1. PICK r : r = [field |-> field, value |-> asked, queried |-> TRUE]
    OBVIOUS
  <2>2. r \in TableResult /\ r.queried /\ r.value = asked
    BY <1>4, <1>16, <2>1 DEF TableResult
  <2>3. /\ after.entries = IF field.ttl = 0 THEN es ELSE Stored(es, field, on, kept)
        /\ after.results = Append(log[n].results, r)
    BY <1>4, <1>6, <1>10, <1>15, <1>17, <1>18, <1>19, <1>26, <2>1 DEF JoinField
  <2>4. ResultIs(d, t, log, es, n, i, r)
    <3>1. field.ttl > 0 => \A p \in 1..Len(es) : KeyOfEntry(es[p]) = K
                                                  => ~(now - es[p].since < field.ttl)
      BY <1>12, <1>26
    <3> QED BY <1>3, <1>5, <1>7, <1>9, <1>16, <2>2, <3>1 DEF ResultIs
  <2>5. ASSUME NEW new, Answering(d, log, new, i, r)
        PROVE  TableCacheOK(d, t, new, after.entries)
    <3>1. CASE field.ttl = 0
      <4>1. ~(d.fields[i].ttl > 0)
        BY <1>3, <3>1
      <4>2. TableCacheOK(d, t, new, es)
        BY <2>2, <2>5, <4>1, CacheUntouched
      <4> QED BY <2>3, <3>1, <4>2
    <3>2. CASE field.ttl # 0
      <4>1. d.fields[i].ttl > 0
        BY <1>3, <1>4, <3>2
      <4>2. ~d.fields[i].rows => kept = Source(d, t, log, n, i)
        BY <1>3, <1>20
      <4>3. TableCacheOK(d, t, new, Stored(es, d.fields[i], on, kept))
        BY <1>1, <1>5, <1>20, <2>2, <2>5, <4>1, <4>2, MissKeeps
      <4> QED BY <1>3, <2>3, <3>2, <4>3
    <3> QED BY <3>1, <3>2
  <2>6. FieldJoined(d, t, log, i, after)
    BY <1>24, <2>2, <2>3, <2>4, <2>5
  <2> QED BY <1>3, <1>17, <2>6
<1> QED BY <1>25, <1>26

-----------------------------------------------------------------------------
(* All fields of a message. *)

\* Nothing is looked up: time passes, or a message comes without results.
NoUse(d, t2, log, new) ==
    /\ Longer(log, new) /\ \A m, j : LookedUp(new, m, j) <=> LookedUp(log, m, j)
    /\ \A m \in 1..Len(new) : /\ new[m].at \in 1..Len(t2)
                              /\ Len(new[m].results) <= Len(d.fields)
                              /\ m < Len(new) => Len(new[m].results) = Len(d.fields)

\* Messages and cache stay right then.
LEMMA NoUseKeeps ==
  ASSUME NEW d, NEW t, NEW t2, TablesOK(d, t), LaterTables(t, t2), NEW log, NEW es,
         EnrichedOK(d, t, log), TableCacheOK(d, t, log, es),
         NEW new \in Seq(TableMessage), NoUse(d, t2, log, new)
  PROVE  EnrichedOK(d, t2, new) /\ TableCacheOK(d, t2, new, es)
<1>1. log \in Seq(TableMessage) /\ \A m \in 1..Len(log) : log[m].at \in 1..Len(t)
  BY DEF EnrichedOK
<1>2. PICK l \in Nat : l = Len(log)
  BY <1>1
<1>3. PICK k \in Nat : k = Len(d.fields)
  BY FieldTypes
<1>4. Longer(log, new) /\ \A m, j : LookedUp(new, m, j) <=> LookedUp(log, m, j)
  BY DEF NoUse
<1>5. ASSUME NEW m, NEW j, LookedUp(new, m, j)
      PROVE  ResultFresh(d, t2, new, m, j) /\ QuerySaved(d, new, m, j)
  <2>1. LookedUp(log, m, j)
    BY <1>4, <1>5
  <2>2. ResultFresh(d, t, log, m, j) /\ QuerySaved(d, log, m, j)
    BY <2>1 DEF EnrichedOK
  <2>3. ResultFresh(d, t2, new, m, j)
    BY <1>1, <1>4, <2>1, <2>2, FreshStays
  <2>4. m \in 1..l /\ j \in 1..Len(log[m].results)
    BY <1>2, <2>1 DEF LookedUp
  <2>5. log[m] \in TableMessage /\ Len(log[m].results) <= k
    BY <1>1, <1>2, <1>3, <2>4 DEF EnrichedOK
  <2>6. j \in 1..k
    BY <2>4, <2>5 DEF TableMessage
  <2>7. \A a \in 1..m - 1 : a \in 1..l /\ a < l
    BY <2>4
  <2>8. \A a \in 1..m - 1 : j \in 1..Len(log[a].results)
    BY <1>2, <1>3, <2>6, <2>7 DEF EnrichedOK
  <2>9. QuerySaved(d, new, m, j)
    BY <1>1, <1>4, <2>1, <2>2, <2>8, SavedStays
  <2> QED BY <2>3, <2>9
<1>6. EnrichedOK(d, t2, new)
  BY <1>5 DEF EnrichedOK, NoUse
<1>7. ASSUME NEW u \in Uses(d, log)
      PROVE  /\ LookedUp(log, u[1], u[2]) /\ u[1] \in 1..Len(log)
             /\ new[u[1]].on = log[u[1]].on /\ new[u[1]].at = log[u[1]].at
             /\ new[u[1]].results[u[2]] = log[u[1]].results[u[2]]
  <2>1. LookedUp(log, u[1], u[2]) /\ u[1] \in 1..Len(log)
    BY DEF Uses
  <2> QED BY <1>1, <1>4, <2>1, AnswersStay
<1>8. Uses(d, new) = Uses(d, log)
  <2>1. ASSUME NEW u \in Uses(d, log) PROVE u \in Uses(d, new)
    <3>1. LookedUp(new, u[1], u[2])
      BY <1>4, <1>7
    <3> QED BY <3>1 DEF Uses, LookedUp
  <2>2. ASSUME NEW u \in Uses(d, new) PROVE u \in Uses(d, log)
    <3>1. LookedUp(new, u[1], u[2])
      BY DEF Uses
    <3>2. LookedUp(log, u[1], u[2])
      BY <1>4, <3>1
    <3> QED BY <3>2 DEF Uses, LookedUp
  <2> QED BY <2>1, <2>2
<1>9. \A u \in Uses(d, log) : KeyUsed(d, new, u) = KeyUsed(d, log, u)
  BY <1>7 DEF KeyUsed
<1>10. ASSUME NEW u \in Uses(d, log) PROVE UsedSince(d, new, u) = UsedSince(d, log, u)
  <2>1. PICK W : W = {w \in Uses(d, log) : UsedAfter(u, w)}
    OBVIOUS
  <2>2. W \subseteq Uses(d, log)
    BY <2>1
  <2>3. {KeyUsed(d, new, v) : v \in W} = {KeyUsed(d, log, v) : v \in W}
    <3> HIDE DEF KeyUsed
    <3> QED BY <1>9, <2>2
  <2> QED BY <1>8, <2>1, <2>3 DEF UsedSince
<1>11. /\ es \in Seq(TableEntry) /\ Len(es) <= d.cacheSize /\ OneEntry(es)
       /\ \A p \in 1..Len(es) : EntryQueried(d, t, log, es[p])
       /\ \A p \in 1..Len(es) : \A u \in Uses(d, log) : EntryUsed(d, log, es, p, u)
       /\ \A u \in Uses(d, log) : Dropped(d, log, es, u)
  BY DEF TableCacheOK
<1>12. \A p \in 1..Len(es) : EntryQueried(d, t2, new, es[p])
  BY <1>1, <1>4, <1>11, QueriedStays
<1>13. \A p \in 1..Len(es) : \A u \in Uses(d, new) : EntryUsed(d, new, es, p, u)
  BY <1>7, <1>8, <1>9, <1>10, <1>11 DEF EntryUsed
<1>14. \A u \in Uses(d, new) : Dropped(d, new, es, u)
  BY <1>8, <1>9, <1>10, <1>11 DEF Dropped
<1>15. TableCacheOK(d, t2, new, es)
  BY <1>11, <1>12, <1>13, <1>14 DEF TableCacheOK
<1> QED BY <1>6, <1>15

\* What join() has after each of the first fields.
JoinRuns(message, k, g) ==
    g = [i \in 0..k |-> IF i = 0 THEN [entries |-> cache, results |-> <<>>]
                                 ELSE JoinField(g[i - 1], definition.fields[i], message)]

\* There is such a function, whatever the number of fields.
LEMMA JoinRunsThere ==
  ASSUME NEW message, NEW n \in Nat
  PROVE  \E g : JoinRuns(message, n, g)
<1>1. PICK start : start = [entries |-> cache, results |-> <<>>]
  OBVIOUS
<1> DEFINE F(x, i) == JoinField(x, definition.fields[i], message)
<1> HIDE DEF F
<1>2. \A k, g : JoinRuns(message, k, g) <=>
                  g = [i \in 0..k |-> IF i = 0 THEN start ELSE F(g[i - 1], i)]
  BY <1>1, Zenon DEF JoinRuns, F
<1>3. PICK B : B = {k \in Nat : ~\E g : JoinRuns(message, k, g)}
  OBVIOUS
<1>4. SUFFICES ASSUME B # {} PROVE FALSE
  BY <1>3
<1>5. PICK k \in B : \A m \in B : k <= m
  BY <1>3, <1>4, Least
<1>6. k \in Nat /\ ~\E g : JoinRuns(message, k, g)
  BY <1>3, <1>5
<1>7. k # 0
  <2>1. PICK g : g = [i \in 0..0 |-> start]
    OBVIOUS
  <2>2. g = [i \in 0..0 |-> IF i = 0 THEN start ELSE F(g[i - 1], i)]
    BY <2>1
  <2> QED BY <1>2, <1>6, <2>2
<1>8. k - 1 \in Nat /\ k - 1 \notin B
  BY <1>5, <1>6, <1>7
<1>9. PICK g : g = [i \in 0..(k - 1) |-> IF i = 0 THEN start ELSE F(g[i - 1], i)]
  BY <1>2, <1>3, <1>8
<1>10. PICK h : h = [i \in 0..k |-> IF i = k THEN F(g[k - 1], k) ELSE g[i]]
  OBVIOUS
<1>11. \A i \in 0..k : h[i] = IF i = 0 THEN start ELSE F(h[i - 1], i)
  <2> SUFFICES ASSUME NEW i \in 0..k PROVE h[i] = IF i = 0 THEN start ELSE F(h[i - 1], i)
    OBVIOUS
  <2>1. CASE i = k
    <3>1. h[k] = F(g[k - 1], k) /\ h[k - 1] = g[k - 1]
      BY <1>6, <1>7, <1>10
    <3> QED BY <1>7, <2>1, <3>1
  <2>2. CASE i # k
    <3>1. i \in 0..(k - 1) /\ h[i] = g[i]
      BY <1>6, <1>10, <2>2
    <3>2. i # 0 => h[i - 1] = g[i - 1]
      BY <1>6, <1>10, <2>2
    <3> QED BY <1>9, <3>1, <3>2
  <2> QED BY <2>1, <2>2
<1>12. h = [i \in 0..k |-> IF i = 0 THEN start ELSE F(h[i - 1], i)]
  BY <1>10, <1>11
<1> QED BY <1>2, <1>6, <1>12

\* It is what join() computes.
LEMMA JoinedFieldsAre ==
  ASSUME NEW message, Len(definition.fields) \in Nat
  PROVE  /\ JoinedFields(message)[0] = [entries |-> cache, results |-> <<>>]
         /\ \A i \in 1..Len(definition.fields) :
               JoinedFields(message)[i] =
                  JoinField(JoinedFields(message)[i - 1], definition.fields[i], message)
<1>1. PICK n \in Nat : n = Len(definition.fields)
  OBVIOUS
<1>2. JoinedFields(message) = CHOOSE g : JoinRuns(message, n, g)
  BY <1>1 DEF JoinedFields, JoinRuns
<1>3. PICK f : f = JoinedFields(message)
  OBVIOUS
<1>4. JoinRuns(message, n, f)
  BY <1>2, <1>3, JoinRunsThere
<1> DEFINE F(x, i) == JoinField(x, definition.fields[i], message)
<1>5. f = [i \in 0..n |-> IF i = 0 THEN [entries |-> cache, results |-> <<>>] ELSE F(f[i - 1], i)]
  BY <1>4, Zenon DEF JoinRuns
<1> HIDE DEF F
<1>6. /\ f[0] = [entries |-> cache, results |-> <<>>]
      /\ \A i \in 1..n : f[i] = F(f[i - 1], i)
  <2>1. PICK start : start = [entries |-> cache, results |-> <<>>]
    OBVIOUS
  <2>2. f = [i \in 0..n |-> IF i = 0 THEN start ELSE F(f[i - 1], i)]
    BY <1>5, <2>1
  <2> QED BY <2>1, <2>2
<1> QED BY <1>1, <1>3, <1>6 DEF F

\* The messages, with one more that has results for some fields.
WithMessage(log, on, row, at, results) ==
    Append(log, [on |-> on, row |-> row, at |-> at, results |-> results])

\* All messages have results for all fields.
AllFields(d, log) == \A n \in 1..Len(log) : Len(log[n].results) = Len(d.fields)

\* What join() has after some fields is right.
JoinedOK(d, t, log, on, row, k, after) ==
    LET new == WithMessage(log, on, row, Len(t), after.results)
    IN  /\ after.results \in Seq(TableResult) /\ Len(after.results) = k
        /\ EnrichedOK(d, t, new) /\ TableCacheOK(d, t, new, after.entries)

\* The message is behind the others.
Behind(log, on, row, at, results, new) ==
    /\ new \in Seq(TableMessage) /\ Len(new) = Len(log) + 1
    /\ new[Len(log) + 1].on = on /\ new[Len(log) + 1].row = row
    /\ new[Len(log) + 1].at = at /\ new[Len(log) + 1].results = results
    /\ \A n \in 1..Len(log) : new[n] = log[n]

\* The message is put there.
LEMMA MessageBehind ==
  ASSUME NEW log \in Seq(TableMessage), NEW on \in Row, NEW row \in Row, NEW at \in Nat,
         NEW rs \in Seq(TableResult)
  PROVE  Behind(log, on, row, at, rs, WithMessage(log, on, row, at, rs))
<1>1. PICK m : m = [on |-> on, row |-> row, at |-> at, results |-> rs]
  OBVIOUS
<1>2. m \in TableMessage
  BY <1>1 DEF TableMessage
<1>3. PICK new : new = WithMessage(log, on, row, at, rs)
  OBVIOUS
<1>4. new = Append(log, m)
  BY <1>1, <1>3 DEF WithMessage
<1>5. /\ new \in Seq(TableMessage) /\ Len(new) = Len(log) + 1 /\ new[Len(log) + 1] = m
      /\ \A n \in 1..Len(log) : new[n] = log[n]
  <2> HIDE DEF TableMessage
  <2> QED BY <1>2, <1>4, AppendProperties
<1> QED BY <1>1, <1>3, <1>5 DEF Behind

\* At first it has no results.
LEMMA NoFieldJoined ==
  ASSUME NEW d, NEW t, TablesOK(d, t), NEW log, NEW es,
         EnrichedOK(d, t, log), TableCacheOK(d, t, log, es), AllFields(d, log),
         NEW on \in Row, NEW row \in Row, NEW after, after = [entries |-> es, results |-> <<>>]
  PROVE  JoinedOK(d, t, log, on, row, 0, after)
<1>1. log \in Seq(TableMessage) /\ Len(log) \in Nat /\ \A m \in 1..Len(log) : log[m].at \in 1..Len(t)
  BY DEF EnrichedOK
<1>2. PICK now \in Nat \ {0} : now = Len(t)
  BY DEF TablesOK
<1>3. PICK rs : rs = <<>>
  OBVIOUS
<1>4. rs \in Seq(TableResult) /\ Len(rs) = 0 /\ after.results = rs /\ after.entries = es
  BY <1>3
<1>5. PICK new : new = WithMessage(log, on, row, now, rs)
  OBVIOUS
<1>6. PICK l \in Nat : l = Len(log)
  BY <1>1
<1>7. /\ new \in Seq(TableMessage) /\ Len(new) = l + 1
      /\ new[l + 1].at = now /\ new[l + 1].results = rs
      /\ \A n \in 1..l : new[n] = log[n]
  <2>1. Behind(log, on, row, now, rs, WithMessage(log, on, row, now, rs))
    BY <1>1, <1>2, <1>4, MessageBehind
  <2> QED BY <1>5, <1>6, <2>1 DEF Behind
<1>8. PICK k \in Nat : k = Len(d.fields)
  BY FieldTypes
<1>9. Longer(log, new)
  <2>1. \A n \in 1..l : log[n] \in TableMessage
    BY <1>1, <1>6
  <2>2. \A n \in 1..l : Len(log[n].results) \in Nat
    BY <2>1 DEF TableMessage
  <2> QED BY <1>6, <1>7, <2>2 DEF Longer
<1>10. ASSUME NEW m, NEW j PROVE LookedUp(new, m, j) <=> LookedUp(log, m, j)
  <2>1. CASE m = l + 1
    <3>1. ~LookedUp(new, m, j)
      BY <1>4, <1>7, <2>1 DEF LookedUp
    <3>2. ~LookedUp(log, m, j)
      BY <1>6, <2>1 DEF LookedUp
    <3> QED BY <3>1, <3>2
  <2>2. CASE m \in 1..l
    BY <1>6, <1>7, <2>2 DEF LookedUp
  <2>3. CASE m \notin 1..l + 1
    BY <1>6, <1>7, <2>3 DEF LookedUp
  <2> QED BY <2>1, <2>2, <2>3
<1>11. ASSUME NEW m \in 1..l + 1
       PROVE  /\ new[m].at \in 1..now /\ Len(new[m].results) <= k
              /\ m < l + 1 => Len(new[m].results) = k
  <2>1. CASE m = l + 1
    BY <1>4, <1>7, <2>1
  <2>2. CASE m \in 1..l
    BY <1>1, <1>2, <1>6, <1>7, <1>8, <2>2 DEF AllFields
  <2> QED BY <2>1, <2>2
<1>12. NoUse(d, t, log, new)
  BY <1>2, <1>7, <1>8, <1>9, <1>10, <1>11 DEF NoUse
<1>13. EnrichedOK(d, t, new) /\ TableCacheOK(d, t, new, es)
  <2>1. LaterTables(t, t)
    BY DEF LaterTables, TablesOK
  <2> QED BY <1>7, <1>12, <2>1, NoUseKeeps
<1> QED BY <1>2, <1>4, <1>5, <1>13 DEF JoinedOK

\* The next field adds its result.
LEMMA OneFieldJoined ==
  ASSUME NEW d, d = definition, NEW t, t = tables, TablesOK(d, t), NEW log \in Seq(TableMessage),
         NEW on \in Row, NEW row \in Row, NEW mutates,
         NEW k \in 0..(Len(d.fields) - 1), NEW before, JoinedOK(d, t, log, on, row, k, before),
         NEW after, after = JoinField(before, d.fields[k + 1],
                                      [on |-> on, row |-> row, mutates |-> mutates])
  PROVE  JoinedOK(d, t, log, on, row, k + 1, after)
<1>1. PICK now \in Nat \ {0} : now = Len(t)
  BY DEF TablesOK
<1>2. PICK rs : rs = before.results
  OBVIOUS
<1>3. PICK cur : cur = WithMessage(log, on, row, now, rs)
  OBVIOUS
<1>4. /\ rs \in Seq(TableResult) /\ Len(rs) = k
      /\ EnrichedOK(d, t, cur) /\ TableCacheOK(d, t, cur, before.entries)
  BY <1>1, <1>2, <1>3 DEF JoinedOK
<1>5. PICK l \in Nat : l = Len(log)
  OBVIOUS
<1>6. /\ cur \in Seq(TableMessage) /\ Len(cur) = l + 1
      /\ cur[l + 1].on = on /\ cur[l + 1].row = row
      /\ cur[l + 1].at = now /\ cur[l + 1].results = rs
      /\ \A n \in 1..l : cur[n] = log[n]
  <2>1. Behind(log, on, row, now, rs, WithMessage(log, on, row, now, rs))
    BY <1>1, <1>4, MessageBehind
  <2> QED BY <1>3, <1>5, <2>1 DEF Behind
<1>7. PICK i \in Nat : i = k + 1
  OBVIOUS
<1>8. i \in 1..Len(d.fields)
  <2>1. Len(d.fields) \in Nat
    BY FieldTypes
  <2> QED BY <1>7, <2>1
<1>9. Enriching(d, t, cur, before.entries, i)
  BY <1>1, <1>4, <1>6, <1>7, <1>8 DEF Enriching
<1>10. PICK message : message = [on |-> on, row |-> row, mutates |-> mutates]
  OBVIOUS
<1>11. ComesToField(cur, before.entries, before, message)
  BY <1>2, <1>6, <1>10 DEF ComesToField
<1>12. FieldJoined(d, t, cur, i, after)
  <2>1. FieldJoined(d, t, cur, i, JoinField(before, d.fields[i], message))
    BY <1>9, <1>11, FieldKeeps
  <2> QED BY <1>7, <1>10, <2>1
<1>13. PICK r, new : /\ r \in TableResult /\ Answering(d, cur, new, i, r)
                     /\ after.results = Append(rs, r)
                     /\ EnrichedOK(d, t, new) /\ TableCacheOK(d, t, new, after.entries)
  BY <1>6, <1>12 DEF FieldJoined
<1>p. PICK more : more = Append(rs, r)
  OBVIOUS
<1>14. more \in Seq(TableResult) /\ Len(more) = i /\ after.results = more
  <2>1. rs \in Seq(TableResult) /\ r \in TableResult
    BY <1>4, <1>13
  <2>2. more \in Seq(TableResult) /\ Len(more) = Len(rs) + 1
    <3> HIDE DEF TableResult
    <3> QED BY <1>p, <2>1, AppendProperties
  <2> QED BY <1>4, <1>7, <1>13, <1>p, <2>2
<1>15. new = WithMessage(log, on, row, now, after.results)
  <2>1. PICK new2 : new2 = WithMessage(log, on, row, now, more)
    OBVIOUS
  <2>2. /\ new2 \in Seq(TableMessage) /\ Len(new2) = l + 1
        /\ \A n \in 1..l : new2[n] = log[n]
    <3>1. Behind(log, on, row, now, more, WithMessage(log, on, row, now, more))
      BY <1>1, <1>14, MessageBehind
    <3> QED BY <1>5, <2>1, <3>1 DEF Behind
  <2>4. new = [cur EXCEPT ![l + 1].results = Append(@, r)]
    BY <1>6, <1>13 DEF Answering
  <2>5. PICK last : last = [on |-> on, row |-> row, at |-> now, results |-> rs]
    OBVIOUS
  <2>6. cur = Append(log, last)
    BY <1>3, <2>5 DEF WithMessage
  <2>7. PICK next : next = [on |-> on, row |-> row, at |-> now, results |-> more]
    OBVIOUS
  <2>8. next = [last EXCEPT !.results = Append(@, r)]
    <3>1. next = [last EXCEPT !.results = more]
      BY <2>5, <2>7
    <3>2. more = Append(last.results, r)
      BY <1>p, <2>5
    <3> QED BY <3>1, <3>2
  <2>9. last \in TableMessage /\ next \in TableMessage
    BY <1>4, <1>14, <2>5, <2>7 DEF TableMessage
  <2>10. cur[l + 1] = last
    <3> HIDE DEF TableMessage
    <3> QED BY <1>5, <2>6, <2>9, AppendProperties
  <2>11. new = [cur EXCEPT ![l + 1] = next]
    BY <2>4, <2>8, <2>10
  <2>12. new2 = Append(log, next)
    BY <2>1, <2>7 DEF WithMessage
  <2>13. new2[l + 1] = next
    <3> HIDE DEF TableMessage
    <3> QED BY <1>5, <2>9, <2>12, AppendProperties
  <2>14. /\ new \in Seq(TableMessage) /\ Len(new) = l + 1
         /\ \A n \in 1..(l + 1) : new[n] = IF n = l + 1 THEN next ELSE cur[n]
    <3> HIDE DEF TableMessage
    <3> QED BY <1>6, <2>9, <2>11
  <2>15. \A n \in 1..(l + 1) : new[n] = new2[n]
    BY <1>6, <2>2, <2>13, <2>14
  <2>16. new = new2
    <3> HIDE DEF TableMessage
    <3> QED BY <2>2, <2>14, <2>15, SeqEqual
  <2> QED BY <1>14, <2>1, <2>16
<1> QED BY <1>1, <1>7, <1>13, <1>14, <1>15 DEF JoinedOK

\* So do all, one after the other.
LEMMA AllFieldsJoined ==
  ASSUME NEW d, d = definition, NEW t, t = tables, TablesOK(d, t), NEW log,
         EnrichedOK(d, t, log), TableCacheOK(d, t, log, cache), AllFields(d, log),
         NEW on \in Row, NEW row \in Row, NEW mutates, NEW message,
         message = [on |-> on, row |-> row, mutates |-> mutates]
  PROVE  JoinedOK(d, t, log, on, row, Len(d.fields), JoinedFields(message)[Len(d.fields)])
<1>1. PICK n \in Nat : n = Len(d.fields)
  BY FieldTypes
<1>2. PICK f : f = JoinedFields(message)
  OBVIOUS
<1>3. /\ f[0] = [entries |-> cache, results |-> <<>>]
      /\ \A i \in 1..n : f[i] = JoinField(f[i - 1], d.fields[i], message)
  BY <1>1, <1>2, JoinedFieldsAre
<1>4. PICK B : B = {k \in 0..n : ~JoinedOK(d, t, log, on, row, k, f[k])}
  OBVIOUS
<1>5. SUFFICES ASSUME B # {} PROVE FALSE
  BY <1>1, <1>2, <1>4
<1>6. PICK k \in B : \A m \in B : k <= m
  <2>1. B \subseteq Nat
    BY <1>4
  <2> QED BY <1>5, <2>1, Least
<1>7. k \in 0..n /\ ~JoinedOK(d, t, log, on, row, k, f[k])
  BY <1>4, <1>6
<1>8. k # 0
  <2>1. PICK after : after = f[0]
    OBVIOUS
  <2>2. after = [entries |-> cache, results |-> <<>>]
    BY <1>3, <2>1
  <2>3. JoinedOK(d, t, log, on, row, 0, after)
    BY <2>2, NoFieldJoined
  <2> QED BY <1>7, <2>1, <2>3
<1>9. PICK j \in 0..(n - 1) : k = j + 1 /\ j \notin B
  <2>1. k - 1 \in 0..(n - 1) /\ k = (k - 1) + 1 /\ k - 1 \notin B
    BY <1>6, <1>7, <1>8
  <2> QED BY <2>1
<1>10. PICK before, after : before = f[j] /\ after = f[k]
  OBVIOUS
<1>11. JoinedOK(d, t, log, on, row, j, before)
  BY <1>4, <1>9, <1>10
<1>12. after = JoinField(before, d.fields[j + 1], [on |-> on, row |-> row, mutates |-> mutates])
  BY <1>3, <1>7, <1>9, <1>10
<1>13. log \in Seq(TableMessage)
  BY DEF EnrichedOK
<1>14. JoinedOK(d, t, log, on, row, j + 1, after)
  BY <1>1, <1>11, <1>12, <1>13, OneFieldJoined
<1> QED BY <1>7, <1>9, <1>10, <1>14

-----------------------------------------------------------------------------
(* The invariant. *)

\* The messages and the cache are right.
TableInv ==
    /\ definition \in Definitions
    /\ TableLookup => /\ tables \in Seq([Row -> 0..1]) /\ Len(tables) > 0
                      /\ EnrichedOK(definition, tables, arrived)
                      /\ TableCacheOK(definition, tables, arrived, cache)
                      /\ AllFields(definition, arrived)

\* A lookup in tables is nothing else.
LEMMA TableDefined ==
  ASSUME definition \in Definitions, TableLookup
  PROVE  /\ TableDefinition(definition)
         /\ ~Windowed /\ ~Aggregating /\ ~Stating /\ ~Configured /\ ~Joined
BY DefinitionAssumption DEF Stating, AggregatesDefinition, StateDefinition, ConfigurationDefinition,
   JoinDefinition, Windowed, Aggregating, Joined, TableLookup, Configured

\* At first there is nothing.
LEMMA InitTables == Init => TableInv
<1> SUFFICES ASSUME Init, TableLookup
             PROVE  TableInv
  BY DEF Init, TableInv
<1>1. PICK row0 : row0 = [r \in Row |-> 0]
  OBVIOUS
<1>2. definition \in Definitions /\ arrived = <<>> /\ tables = <<row0>> /\ cache = <<>>
  BY <1>1 DEF Init
<1>3. tables \in Seq([Row -> 0..1]) /\ Len(tables) = 1
  BY <1>1, <1>2
<1>4. arrived \in Seq(TableMessage) /\ Len(arrived) = 0 /\ cache \in Seq(TableEntry) /\ Len(cache) = 0
  BY <1>2
<1>5. definition.cacheSize \in Nat \ {0}
  BY <1>2, TableDefined DEF TableDefinition
<1>6. EnrichedOK(definition, tables, arrived)
  BY <1>4 DEF EnrichedOK, LookedUp
<1>7. Uses(definition, arrived) = {}
  BY <1>4 DEF Uses
<1>8. TableCacheOK(definition, tables, arrived, cache)
  BY <1>4, <1>5, <1>7 DEF TableCacheOK, OneEntry
<1> QED BY <1>2, <1>3, <1>4, <1>6, <1>8 DEF TableInv, AllFields

\* A message is enriched.
LEMMA JoinTableKeeps ==
  ASSUME TableInv, TableLookup, NEW on \in Row, NEW row \in Row, NEW mutates,
         JoinTable(on, row, mutates)
  PROVE  TableInv'
<1>1. PICK d : d = definition
  OBVIOUS
<1>2. PICK t : t = tables
  OBVIOUS
<1>3. PICK log : log = arrived
  OBVIOUS
<1>4. /\ TablesOK(d, t) /\ EnrichedOK(d, t, log) /\ TableCacheOK(d, t, log, cache)
      /\ AllFields(d, log)
  BY <1>1, <1>2, <1>3, TableDefined DEF TableInv, TablesOK
<1>5. PICK message : message = [on |-> on, row |-> row, mutates |-> mutates]
  OBVIOUS
<1>6. PICK k \in Nat : k = Len(d.fields)
  BY <1>4, FieldTypes
<1>7. PICK after : after = JoinedFields(message)[k]
  OBVIOUS
<1>8. JoinedOK(d, t, log, on, row, k, after)
  BY <1>1, <1>2, <1>4, <1>5, <1>6, <1>7, AllFieldsJoined
<1>9. /\ cache' = after.entries /\ definition' = d /\ tables' = t
      /\ arrived' = WithMessage(log, on, row, Len(t), after.results)
  BY <1>1, <1>2, <1>3, <1>5, <1>6, <1>7 DEF JoinTable, Arrives, WithMessage, Now
<1>10. PICK new : new = WithMessage(log, on, row, Len(t), after.results)
  OBVIOUS
<1>11. EnrichedOK(d, t, new) /\ TableCacheOK(d, t, new, after.entries)
  BY <1>8, <1>10 DEF JoinedOK
<1>12. AllFields(d, new)
  <2>1. after.results \in Seq(TableResult) /\ Len(after.results) = k
    BY <1>8 DEF JoinedOK
  <2>2. log \in Seq(TableMessage) /\ Len(t) \in Nat
    BY <1>4 DEF EnrichedOK, TablesOK
  <2>3. PICK l \in Nat : l = Len(log)
    BY <2>2
  <2>4. /\ Len(new) = l + 1 /\ new[l + 1].results = after.results
        /\ \A n \in 1..l : new[n] = log[n]
    <3>1. PICK rs, at : rs = after.results /\ at = Len(t)
      OBVIOUS
    <3>2. Behind(log, on, row, at, rs, WithMessage(log, on, row, at, rs))
      BY <2>1, <2>2, <3>1, MessageBehind
    <3> QED BY <1>10, <2>3, <3>1, <3>2 DEF Behind
  <2> QED BY <1>4, <1>6, <2>1, <2>3, <2>4 DEF AllFields
<1>14. arrived' = new /\ definition' = definition /\ tables' = tables
  BY <1>1, <1>2, <1>9, <1>10
<1>15. definition \in Definitions /\ tables \in Seq([Row -> 0..1]) /\ Len(tables) > 0
  BY DEF TableInv
<1> HIDE DEF EnrichedOK, TableCacheOK, AllFields
<1> QED BY <1>1, <1>2, <1>9, <1>11, <1>12, <1>14, <1>15 DEF TableInv

\* Time passes.
LEMMA TableChangesKeeps ==
  ASSUME TableInv, TableLookup, TableChanges
  PROVE  TableInv'
<1>1. PICK d : d = definition
  OBVIOUS
<1>2. PICK t : t = tables
  OBVIOUS
<1>3. PICK log : log = arrived
  OBVIOUS
<1>4. PICK es : es = cache
  OBVIOUS
<1>5. /\ TablesOK(d, t) /\ EnrichedOK(d, t, log) /\ TableCacheOK(d, t, log, es)
      /\ AllFields(d, log) /\ definition \in Definitions
  BY <1>1, <1>2, <1>3, <1>4, TableDefined DEF TableInv, TablesOK
<1>6. PICK rows : tables' = Append(tables, [row \in Row |->
               IF row \in rows THEN 1 - tables[Now][row] ELSE tables[Now][row]])
  BY DEF TableChanges
<1>7. PICK now \in Nat \ {0} : now = Len(t)
  BY <1>5 DEF TablesOK
<1>8. PICK next : next = [row \in Row |-> IF row \in rows THEN 1 - t[now][row] ELSE t[now][row]]
  OBVIOUS
<1>9. t \in Seq([Row -> 0..1]) /\ t[now] \in [Row -> 0..1] /\ next \in [Row -> 0..1]
  <2>1. t \in Seq([Row -> 0..1]) /\ t[now] \in [Row -> 0..1]
    BY <1>5, <1>7 DEF TablesOK
  <2> QED BY <1>8, <2>1
<1>10. PICK t2 : t2 = Append(t, next)
  OBVIOUS
<1>11. tables' = t2
  BY <1>2, <1>6, <1>7, <1>8, <1>10 DEF Now
<1>12. /\ t2 \in Seq([Row -> 0..1]) /\ Len(t2) = now + 1
       /\ \A n \in 1..now : t2[n] = t[n]
  BY <1>7, <1>9, <1>10, AppendProperties
<1>13. LaterTables(t, t2)
  BY <1>7, <1>12 DEF LaterTables
<1>14. log \in Seq(TableMessage) /\ \A m \in 1..Len(log) : log[m].at \in 1..now
  BY <1>5, <1>7 DEF EnrichedOK
<1>15. Longer(log, log)
  <2>1. \A n \in 1..Len(log) : Len(log[n].results) \in Nat
    BY <1>14 DEF TableMessage
  <2> QED BY <1>14, <2>1 DEF Longer
<1>16. NoUse(d, t2, log, log)
  <2>1. Len(d.fields) \in Nat
    BY <1>5, FieldTypes
  <2>2. \A m \in 1..Len(log) : log[m].at \in 1..Len(t2)
    BY <1>12, <1>14
  <2> QED BY <1>5, <1>15, <2>1, <2>2 DEF NoUse, AllFields
<1>17. EnrichedOK(d, t2, log) /\ TableCacheOK(d, t2, log, es)
  BY <1>5, <1>13, <1>14, <1>16, NoUseKeeps
<1>18. definition' = d /\ arrived' = log /\ cache' = es
  BY <1>1, <1>3, <1>4 DEF TableChanges
<1>19. definition' = definition /\ Len(t2) > 0
  BY <1>1, <1>12, <1>18
<1> HIDE DEF EnrichedOK, TableCacheOK, AllFields
<1> QED BY <1>1, <1>5, <1>11, <1>12, <1>17, <1>18, <1>19 DEF TableInv

\* The invariant holds.
LEMMA TablesHold == Spec => []TableInv
<1>1. ASSUME TableInv, [Next]_dataframeVars
      PROVE  TableInv'
  <2>1. CASE WindowNext \/ AggregationNext \/ JoinNext \/ ConfigNext \/ StateNext
    <3>1. definition' = definition
      BY <2>1, DefinitionStays DEF StateNext
    <3>2. ~TableLookup
      BY <1>1, <2>1, TableDefined
         DEF TableInv, WindowNext, AggregationNext, JoinNext, ConfigNext, StateNext
    <3> QED BY <1>1, <3>1, <3>2 DEF TableInv, TableLookup
  <2>2. CASE TableNext
    <3>1. TableLookup
      BY <2>2 DEF TableNext
    <3>2. CASE TableChanges
      BY <1>1, <3>1, <3>2, TableChangesKeeps
    <3>3. CASE ~TableChanges
      <4>1. PICK on \in Row, row \in Row, mutates \in BOOLEAN : JoinTable(on, row, mutates)
        BY <2>2, <3>3, Zenon DEF TableNext
      <4> QED BY <1>1, <3>1, <4>1, JoinTableKeeps
    <3> QED BY <3>2, <3>3
  <2>3. CASE UNCHANGED dataframeVars
    <3>1. UNCHANGED <<definition, tables, arrived, cache>>
      BY <2>3 DEF dataframeVars, lookupVars
    <3> QED BY <1>1, <3>1 DEF TableInv, TableLookup
  <2> QED BY <1>1, <2>1, <2>2, <2>3 DEF Next
<1> QED BY <1>1, InitTables, PTL DEF Spec

\* The messages say what the property does.
LEMMA TablesFollow == TableInv => CachedRowsFresh
<1> SUFFICES ASSUME TableInv, TableLookup
             PROVE  CachedRowsFresh
  BY DEF CachedRowsFresh, ResultsFresh, QueriedOncePerTTL
<1>1. PICK d : d = definition
  OBVIOUS
<1>2. PICK t : t = tables
  OBVIOUS
<1>3. PICK log : log = arrived
  OBVIOUS
<1>4. /\ TablesOK(d, t) /\ EnrichedOK(d, t, log) /\ AllFields(d, log)
  BY <1>1, <1>2, <1>3, TableDefined DEF TableInv, TablesOK
<1>5. /\ log \in Seq(TableMessage) /\ Message = 1..Len(log) /\ Len(log) \in Nat
      /\ DOMAIN definition.fields = 1..Len(d.fields)
  BY <1>1, <1>3, <1>4, FieldTypes DEF EnrichedOK, Message
<1>6. ASSUME NEW n \in Message, NEW i \in DOMAIN definition.fields
      PROVE  ResultFresh(d, t, log, n, i) /\ QuerySaved(d, log, n, i)
  <2>1. LookedUp(log, n, i)
    BY <1>4, <1>5 DEF LookedUp, AllFields
  <2> QED BY <1>4, <2>1 DEF EnrichedOK
<1>7. ResultsFresh
  <2> SUFFICES ASSUME NEW n \in Message, NEW i \in DOMAIN definition.fields,
                      ~definition.fields[i].rows
               PROVE  \E m \in 1..n :
                        /\ arrived[m].on = arrived[n].on
                        /\ arrived[m].results[i].queried
                        /\ arrived[n].at - arrived[m].at < Max({1, definition.fields[i].ttl})
                        /\ arrived[n].results[i].value =
                              tables[arrived[m].at][IF definition.fields[i].query
                                                    THEN arrived[m].row ELSE arrived[m].on]
    BY Zenon DEF ResultsFresh
  <2>1. PICK m \in 1..n : /\ log[m].on = log[n].on /\ log[m].results[i].queried
                          /\ log[n].at - log[m].at < Max({1, d.fields[i].ttl})
                          /\ log[n].results[i].value = Source(d, t, log, m, i)
    BY <1>1, <1>6 DEF ResultFresh
  <2> QED BY <1>1, <1>2, <1>3, <2>1 DEF Source
<1>8. ASSUME NEW n \in Message, NEW i \in DOMAIN definition.fields,
             definition.fields[i].ttl > 0, arrived[n].results[i].queried,
             NEW earlier, earlier = {m \in 1..n - 1 : arrived[m].on = arrived[n].on},
             \E m \in earlier : /\ arrived[m].results[i].queried
                                /\ arrived[n].at - arrived[m].at < definition.fields[i].ttl
      PROVE  Cardinality(UsedBetween(d, log, Max(earlier), n, i)) >= definition.cacheSize
  <2>1. n \in Nat \ {0} /\ n - 1 \in Nat
    BY <1>5
  <2>2. PICK m \in earlier : /\ arrived[m].results[i].queried
                             /\ arrived[n].at - arrived[m].at < definition.fields[i].ttl
    BY <1>8
  <2>3. earlier \subseteq 0..(n - 1) /\ earlier # {}
    BY <1>8, <2>1, <2>2
  <2>4. Max(earlier) \in earlier
    BY <2>1, <2>3, Greatest
  <2>5. PICK l \in 1..n - 1 : l = Max(earlier) /\ log[l].on = log[n].on
    BY <1>3, <1>8, <2>4
  <2>6. m \in 1..n - 1 /\ log[m].on = log[n].on
    BY <1>3, <1>8
  <2>7. LookedUp(log, m, i)
    <3>1. m \in 1..Len(log)
      BY <1>5, <2>6
    <3> QED BY <1>4, <1>5, <3>1 DEF LookedUp, AllFields
  <2>8. QuerySaved(d, log, n, i)
    BY <1>6
  <2>9. Cardinality(UsedBetween(d, log, l, n, i)) >= d.cacheSize
    BY <1>1, <1>3, <1>8, <2>2, <2>5, <2>6, <2>7, <2>8 DEF QuerySaved
  <2> QED BY <1>1, <2>5, <2>9
<1>9. QueriedOncePerTTL
  <2> SUFFICES ASSUME NEW n \in Message, NEW i \in DOMAIN definition.fields,
                      definition.fields[i].ttl > 0, arrived[n].results[i].queried,
                      \E m \in {k \in 1..n - 1 : arrived[k].on = arrived[n].on} :
                         /\ arrived[m].results[i].queried
                         /\ arrived[n].at - arrived[m].at < definition.fields[i].ttl
               PROVE  Cardinality(UsedBetween(definition, arrived,
                         Max({m \in 1..n - 1 : arrived[m].on = arrived[n].on}), n, i))
                      >= definition.cacheSize
    BY Zenon DEF QueriedOncePerTTL, UsedBetween, Cacheable
  <2>1. PICK earlier : earlier = {m \in 1..n - 1 : arrived[m].on = arrived[n].on}
    OBVIOUS
  <2>2. Cardinality(UsedBetween(d, log, Max(earlier), n, i)) >= definition.cacheSize
    BY <1>8, <2>1
  <2> QED BY <1>1, <1>3, <2>1, <2>2
<1> QED BY <1>7, <1>9 DEF CachedRowsFresh

\* A result is what a query for the same key gave within the time to live, and a key is
\* queried again within that time only after as many other keys as the cache can hold: of
\* any number of fields, with any times to live, in a cache of any size.
THEOREM CachedRowsFreshHolds == Spec => []CachedRowsFresh
BY TablesHold, TablesFollow, PTL
=============================================================================
