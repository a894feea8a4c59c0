----------------------------- MODULE JoinProofs ------------------------------
(***************************************************************************)
(* Proof that joins emit what their definitions name, neither more nor     *)
(* less (JoinResults), and that their stores lose the records behind the   *)
(* grace period, and no others (JoinStoreReclaimed, OnlyOldRecordsExpire), *)
(* for any keys, timestamps and grace periods, any number of messages, and *)
(* commits anywhere between them.                                          *)
(*                                                                         *)
(* A store is related to the messages that came (StoreOK): its records are *)
(* those of messages, one for each slot; no message that is not behind the *)
(* grace period is missing; and a record that is behind it will go with    *)
(* the next commit, by the minimal eligible timestamp that the transaction *)
(* has cached, unless it came when it was behind it already.  The cache is *)
(* above the disk and forgets the timestamp with a commit, so that the two *)
(* together are what StoreOK is about.  What a message emits depends on    *)
(* the stores when it comes, and is compared with the messages before it   *)
(* (AsOfExact, IntervalExact), which later messages do not change.         *)
(*                                                                         *)
(* The timestamps that expire the records of a key expire those of the     *)
(* keys that extend it too, which the theorems exclude (Extends = {}).     *)
(*                                                                         *)
(* Proof that lookups of configurations are exact: a message gets the      *)
(* newest version that is valid at its timestamp, and its content or, when *)
(* it could not be fetched, the defaults (ConfigurationsExact), for any    *)
(* configurations, versions, timestamps and sizes of the cache, and events *)
(* at any time between the messages and within the searches.               *)
(*                                                                         *)
(* Every object of versions belongs to a configuration (OwnedBy).  What it *)
(* has cached is what a search of all its versions finds for some time     *)
(* (IsFound), and answers for every other time that it is used for         *)
(* (CachedAnswers), as an event that adds a version clears it.  A message  *)
(* has a version that was announced and is valid (MessageOK), and the best *)
(* one if no event came amid its search and none deleted versions          *)
(* (Steady).  Defaults are in the cache of contents only for a version     *)
(* that was tried within the longest delay (ContentsOK).                   *)
(***************************************************************************)
EXTENDS DataframeProofs

-----------------------------------------------------------------------------
(* Records and stores. *)

\* The messages of a join.
JoinMessage == [side : Side, key : Key, stamp : Nat, truthy : BOOLEAN]

\* The records of its stores: the value is the number of the message.
JoinRecord == [key : Key, stamp : Nat, counter : Nat, value : Nat]

\* Its stores.
JoinStores ==
    [stored : SUBSET JoinRecord, updated : SUBSET JoinRecord, eligible : [Key -> Int]]

\* What a store has, the cache over the disk.
All(s) == Over(s.updated, s.stored)

\* The messages of a side and a key, of those that came before one.
From(log, side, key, last) ==
    {n \in 1..Len(log) : log[n].key = key /\ n < last /\ log[n].side = side}

\* A message that is not behind the grace period when the next one comes.
Timely(log, n, last, g) ==
    \A m \in From(log, log[n].side, log[n].key, last) : log[n].stamp >= log[m].stamp - g

\* A record is that of a message.
RecordOf(r, log, side, kind) ==
    /\ r.value \in From(log, side, r.key, Len(log) + 1)
    /\ r.stamp = log[r.value].stamp
    /\ r.counter = IF kind = "interval" THEN r.value ELSE 0

\* A record that stands for a message, which a later one may have replaced.
StandsFor(r, log, n, kind) ==
    /\ r.key = log[n].key /\ r.stamp = log[n].stamp /\ r.value >= n
    /\ (kind = "interval" => r.value = n)

\* The store of a side after the messages of a log: nothing is missing that is not behind the
\* grace period, and what is behind it goes with the next commit, unless it came too late.
StoreOK(s, log, side, g, kind) ==
    /\ s \in JoinStores
    /\ \A r \in s.stored \cup s.updated : RecordOf(r, log, side, kind)
    /\ \A r, q \in All(s) : SameSlot(r, q) => r = q
    /\ \A k \in Key :
          \/ s.eligible[k] <= 0
          \/ \E m \in From(log, side, k, Len(log) + 1) : s.eligible[k] = log[m].stamp - g
    /\ \A k \in Key : s.eligible[k] # Unknown => \E u \in s.updated : u.key = k
    /\ \A n \in 1..Len(log) :
          log[n].side = side /\ Timely(log, n, Len(log) + 1, g) =>
              \E r \in All(s) : StandsFor(r, log, n, kind)
    /\ \A r \in All(s) : \A n \in From(log, side, r.key, Len(log) + 1) :
          r.stamp < log[n].stamp - g => r.value > n \/ s.eligible[r.key] >= log[n].stamp - g

-----------------------------------------------------------------------------
(* Adding to a store, and committing it. *)

\* The minimal eligible timestamp of a key.
LEMMA MinEligibleIs ==
  ASSUME NEW s, NEW key, s.eligible[key] \in Int
  PROVE  MinEligible(s, key) = IF 0 >= s.eligible[key] THEN 0 ELSE s.eligible[key]
BY MaxWithZero, Zenon DEF MinEligible

\* A log that has one more message.
Grown(log, m, new, l) ==
    /\ l \in Nat /\ l = Len(log) /\ Len(new) = l + 1
    /\ m \in JoinMessage /\ new[l + 1] = m
    /\ \A n \in 1..l : new[n] = log[n] /\ log[n] \in JoinMessage

\* A log that gets a message has one more.
LEMMA Grows ==
  ASSUME NEW log \in Seq(JoinMessage), NEW m \in JoinMessage
  PROVE  Grown(log, m, Append(log, m), Len(log))
BY AppendProperties DEF Grown

\* The messages of a side and a key in a log that has one more.
LEMMA FromGrown ==
  ASSUME NEW log, NEW m, NEW new, NEW l, Grown(log, m, new, l), NEW side, NEW key
  PROVE  /\ \A last \in 1..l + 1 : From(new, side, key, last) = From(log, side, key, last)
         /\ From(log, side, key, l + 1) \subseteq 1..l
         /\ From(new, side, key, l + 2) =
                From(log, side, key, l + 1) \cup
                    (IF m.side = side /\ m.key = key THEN {l + 1} ELSE {})
BY DEF Grown, From

\* A message of another side changes nothing for a store.
LEMMA OtherMessage ==
  ASSUME NEW log, NEW m, NEW new, NEW l, Grown(log, m, new, l), NEW s, NEW side,
         NEW g \in Nat, NEW kind, StoreOK(s, log, side, g, kind), m.side # side
  PROVE  StoreOK(s, new, side, g, kind)
<1>1. /\ l \in Nat /\ l = Len(log) /\ Len(new) = l + 1
      /\ \A n \in 1..l : new[n] = log[n] /\ log[n] \in JoinMessage
      /\ new[l + 1] = m
  BY DEF Grown
<1>2. \A key : /\ From(new, side, key, l + 2) = From(log, side, key, l + 1)
              /\ From(log, side, key, l + 1) \subseteq 1..l
  <2> TAKE key
  <2>1. /\ From(log, side, key, l + 1) \subseteq 1..l
        /\ From(new, side, key, l + 2) = From(log, side, key, l + 1) \cup
               (IF m.side = side /\ m.key = key THEN {l + 1} ELSE {})
    BY FromGrown
  <2> QED BY <2>1
<1>3. \A key : From(new, side, key, Len(new) + 1) = From(log, side, key, Len(log) + 1)
  BY <1>1, <1>2
<1>4. \A key : \A n \in From(log, side, key, Len(log) + 1) : n \in 1..l /\ new[n] = log[n]
  BY <1>1, <1>2
<1>5. \A r \in s.stored \cup s.updated : RecordOf(r, new, side, kind)
  <2> TAKE r \in s.stored \cup s.updated
  <2>1. RecordOf(r, log, side, kind)
    BY DEF StoreOK
  <2>2. r.value \in From(log, side, r.key, Len(log) + 1)
    BY <2>1 DEF RecordOf
  <2>3. r.value \in From(new, side, r.key, Len(new) + 1) /\ new[r.value] = log[r.value]
    BY <1>3, <1>4, <2>2
  <2> QED BY <2>1, <2>3, Zenon DEF RecordOf
<1>6. \A k \in Key :
          \/ s.eligible[k] <= 0
          \/ \E n \in From(new, side, k, Len(new) + 1) : s.eligible[k] = new[n].stamp - g
  <2> TAKE k \in Key
  <2>1. \/ s.eligible[k] <= 0
        \/ \E n \in From(log, side, k, Len(log) + 1) : s.eligible[k] = log[n].stamp - g
    BY DEF StoreOK
  <2> QED BY <1>3, <1>4, <2>1
<1>7. ASSUME NEW n \in 1..Len(new), new[n].side = side, Timely(new, n, Len(new) + 1, g)
      PROVE  \E r \in All(s) : StandsFor(r, new, n, kind)
  <2>1. n \in 1..Len(log) /\ new[n] = log[n]
    BY <1>1, <1>7
  <2>2. Timely(log, n, Len(log) + 1, g)
    BY <1>3, <1>4, <1>7, <2>1 DEF Timely
  <2>3. PICK r \in All(s) : StandsFor(r, log, n, kind)
    BY <1>7, <2>1, <2>2 DEF StoreOK
  <2> QED BY <2>1, <2>3 DEF StandsFor
<1>8. \A r \in All(s) : \A n \in From(new, side, r.key, Len(new) + 1) :
          r.stamp < new[n].stamp - g => r.value > n \/ s.eligible[r.key] >= new[n].stamp - g
  <2> TAKE r \in All(s)
  <2> TAKE n \in From(new, side, r.key, Len(new) + 1)
  <2>1. n \in From(log, side, r.key, Len(log) + 1) /\ new[n] = log[n]
    BY <1>3, <1>4
  <2> QED BY <2>1 DEF StoreOK
<1>9. /\ s \in JoinStores
      /\ \A r, q \in All(s) : SameSlot(r, q) => r = q
      /\ \A k \in Key : s.eligible[k] # Unknown => \E u \in s.updated : u.key = k
  BY DEF StoreOK
<1> QED BY <1>5, <1>6, <1>7, <1>8, <1>9, Zenon DEF StoreOK

\* A store that got a record, field by field.
Put(s, t, r, g) ==
    /\ t \in JoinStores
    /\ t.stored = s.stored
    /\ t.updated = Over({r}, s.updated)
    /\ All(t) = Over({r}, All(s))
    /\ \A k \in Key \ {r.key} : t.eligible[k] = s.eligible[k]
    /\ t.eligible[r.key] \in {0, s.eligible[r.key], r.stamp - g}
    /\ t.eligible[r.key] >= 0 /\ t.eligible[r.key] >= s.eligible[r.key]
    /\ t.eligible[r.key] >= r.stamp - g

\* set_for_timestamp() puts a record.
LEMMA SetFields ==
  ASSUME NEW s \in JoinStores, NEW key \in Key, NEW stamp \in Nat, NEW counter \in Nat,
         NEW value \in Nat, NEW g \in Nat, NEW r, NEW t,
         r = [key |-> key, stamp |-> stamp, counter |-> counter, value |-> value],
         t = SetForTimestamp(s, key, stamp, counter, value, g)
  PROVE  Put(s, t, r, g)
<1>1. s.eligible[key] \in Int /\ s.stored \subseteq JoinRecord /\ s.updated \subseteq JoinRecord
  BY DEF JoinStores
<1>2. PICK e \in Int : e = Max({MinEligible(s, key), stamp - g})
  <2>1. MinEligible(s, key) \in Int
    BY <1>1, MinEligibleIs
  <2> QED BY <2>1, MaxOfTwo
<1>3. /\ e \in {0, s.eligible[key], stamp - g}
      /\ e >= 0 /\ e >= s.eligible[key] /\ e >= stamp - g
  <2>1. PICK o \in Int : o = MinEligible(s, key)
    BY <1>1, MinEligibleIs
  <2>2. o = IF 0 >= s.eligible[key] THEN 0 ELSE s.eligible[key]
    BY <1>1, <2>1, MinEligibleIs
  <2>3. e = IF o >= stamp - g THEN o ELSE stamp - g
    BY <1>2, <2>1, MaxOfTwo
  <2> QED BY <1>1, <2>2, <2>3
<1>4. PICK u : u = Over({r}, s.updated)
  OBVIOUS
<1>5. r \in JoinRecord
  BY DEF JoinRecord
<1>6. u \subseteq JoinRecord
  BY <1>1, <1>4, <1>5 DEF Over
<1>7. PICK new : new = [s EXCEPT !.updated = u, !.eligible[key] = e]
  OBVIOUS
<1>8. t = new
  BY <1>2, <1>4, <1>7 DEF SetForTimestamp
<1>9. /\ new \in JoinStores
      /\ new.stored = s.stored /\ new.updated = u
      /\ new.eligible = [s.eligible EXCEPT ![key] = e]
  BY <1>6, <1>7 DEF JoinStores
<1>10. /\ new.eligible[key] = e
       /\ \A k \in Key \ {key} : new.eligible[k] = s.eligible[k]
  <2>1. s.eligible \in [Key -> Int]
    BY DEF JoinStores
  <2> QED BY <1>9, <2>1
<1>11. All(new) = Over({r}, All(s))
  <2>1. All(new) = Over(Over({r}, s.updated), s.stored)
    BY <1>4, <1>9 DEF All
  <2>2. Over(Over({r}, s.updated), s.stored) = Over({r}, Over(s.updated, s.stored))
    <3>1. \A p, q : SameSlot(p, q) <=> SameSlot(q, p)
      BY DEF SameSlot
    <3>2. \A p, q, w : SameSlot(p, q) /\ SameSlot(q, w) => SameSlot(p, w)
      BY DEF SameSlot
    <3> QED BY <3>1, <3>2 DEF Over
  <2> QED BY <2>1, <2>2 DEF All
<1>12. r.key = key /\ r.stamp = stamp
  OBVIOUS
<1> QED BY <1>3, <1>4, <1>8, <1>9, <1>10, <1>11, <1>12, Zenon DEF Put

\* A record is put over those that it replaces.
LEMMA SetKeeps ==
  ASSUME NEW log, NEW m, NEW new, NEW l, Grown(log, m, new, l), NEW s, NEW side, m.side = side,
         NEW g \in Nat, NEW kind, StoreOK(s, log, side, g, kind),
         NEW t, t = SetForTimestamp(s, m.key, m.stamp,
                                    IF kind = "interval" THEN l + 1 ELSE 0, l + 1, g)
  PROVE  StoreOK(t, new, side, g, kind)
<1>1. l \in Nat /\ l = Len(log) /\ m \in JoinMessage
  BY DEF Grown
<1>2. /\ Len(new) = l + 1 /\ new[l + 1] = m
      /\ \A n \in 1..l : new[n] = log[n] /\ log[n] \in JoinMessage
      /\ \A key : From(new, side, key, l + 2) =
             From(log, side, key, l + 1) \cup (IF m.key = key THEN {l + 1} ELSE {})
  <2>1. ASSUME NEW key
        PROVE  From(new, side, key, l + 2) =
                   From(log, side, key, l + 1) \cup (IF m.key = key THEN {l + 1} ELSE {})
    <3>1. From(new, side, key, l + 2) = From(log, side, key, l + 1) \cup
              (IF m.side = side /\ m.key = key THEN {l + 1} ELSE {})
      BY FromGrown
    <3> QED BY <3>1
  <2> QED BY <2>1 DEF Grown
<1>3. \A key : From(log, side, key, l + 1) \subseteq 1..l
  BY FromGrown
<1>4. m.side \in Side /\ m.key \in Key /\ m.stamp \in Nat
  BY <1>1 DEF JoinMessage
<1>5. PICK counter \in Nat : counter = IF kind = "interval" THEN l + 1 ELSE 0
  BY <1>1
<1>6. PICK r : r = [key |-> m.key, stamp |-> m.stamp, counter |-> counter, value |-> l + 1]
  OBVIOUS
<1>7. r.key = m.key /\ r.stamp = m.stamp /\ r.counter = counter /\ r.value = l + 1
  BY <1>6
<1>8. t = SetForTimestamp(s, m.key, m.stamp, counter, l + 1, g)
  BY <1>5, Zenon
<1>9. s \in JoinStores /\ l + 1 \in Nat
  BY <1>1 DEF StoreOK
<1>10. /\ t \in JoinStores
       /\ t.stored = s.stored
       /\ t.updated = Over({r}, s.updated)
       /\ All(t) = Over({r}, All(s))
       /\ \A k \in Key \ {m.key} : t.eligible[k] = s.eligible[k]
       /\ t.eligible[m.key] \in {0, s.eligible[m.key], m.stamp - g}
       /\ t.eligible[m.key] >= 0 /\ t.eligible[m.key] >= s.eligible[m.key]
       /\ t.eligible[m.key] >= m.stamp - g
  <2>1. Put(s, t, r, g)
    BY <1>4, <1>6, <1>8, <1>9, SetFields
  <2> QED BY <1>7, <2>1, Zenon DEF Put
<1>11. /\ t.eligible \in [Key -> Int] /\ s.eligible \in [Key -> Int]
       /\ All(s) \subseteq s.stored \cup s.updated
  BY <1>9, <1>10 DEF JoinStores, All, Over
<1>12. All(t) \subseteq All(s) \cup {r} /\ r \in All(t)
  BY <1>10 DEF Over
<1>13. \A q \in s.stored \cup s.updated : RecordOf(q, log, side, kind)
  BY DEF StoreOK
<1>14. \A q \in s.stored \cup s.updated :
          /\ q.value \in 1..l /\ q.value \in From(log, side, q.key, l + 1)
          /\ q.stamp = log[q.value].stamp
  BY <1>1, <1>3, <1>13 DEF RecordOf
<1>15. \A q \in t.stored \cup t.updated : RecordOf(q, new, side, kind)
  <2>1. ASSUME NEW q \in s.stored \cup s.updated
        PROVE  RecordOf(q, new, side, kind)
    <3>1. RecordOf(q, log, side, kind) /\ q.value \in 1..l
      BY <1>13, <1>14
    <3>2. q.value \in From(new, side, q.key, Len(new) + 1) /\ new[q.value] = log[q.value]
      BY <1>1, <1>2, <1>14
    <3> QED BY <3>1, <3>2, Zenon DEF RecordOf
  <2>2. RecordOf(r, new, side, kind)
    <3>1. r.value \in From(new, side, r.key, Len(new) + 1)
      BY <1>1, <1>2, <1>7
    <3>2. r.stamp = new[r.value].stamp
      BY <1>2, <1>7
    <3>3. r.counter = IF kind = "interval" THEN r.value ELSE 0
      BY <1>5, <1>7
    <3> QED BY <3>1, <3>2, <3>3 DEF RecordOf
  <2> QED BY <1>10, <2>1, <2>2 DEF Over
<1>16. \A p, q \in All(t) : SameSlot(p, q) => p = q
  <2>1. \A p, q \in All(s) : SameSlot(p, q) => p = q
    BY DEF StoreOK
  <2> QED BY <1>10, <2>1 DEF Over, SameSlot
<1>17. \A k \in Key :
          \/ t.eligible[k] <= 0
          \/ \E n \in From(new, side, k, Len(new) + 1) : t.eligible[k] = new[n].stamp - g
  <2> TAKE k \in Key
  <2>1. \/ s.eligible[k] <= 0
        \/ \E n \in From(log, side, k, l + 1) : s.eligible[k] = log[n].stamp - g
    BY <1>1 DEF StoreOK
  <2>2. CASE t.eligible[k] = s.eligible[k]
    BY <1>1, <1>2, <1>3, <2>1, <2>2
  <2>3. CASE k = m.key /\ t.eligible[k] = m.stamp - g
    BY <1>1, <1>2, <2>3
  <2>4. CASE k = m.key /\ t.eligible[k] = 0
    BY <2>4
  <2> QED BY <1>10, <2>2, <2>3, <2>4
<1>18. \A k \in Key : t.eligible[k] # Unknown => \E u \in t.updated : u.key = k
  <2> TAKE k \in Key
  <2>1. CASE k = m.key
    BY <1>7, <1>10, <2>1 DEF Over
  <2>2. CASE k # m.key
    <3>1. s.eligible[k] # Unknown => \E u \in s.updated : u.key = k
      BY DEF StoreOK
    <3>2. \A u \in s.updated : u.key = k => u \in t.updated
      BY <1>7, <1>10, <2>2 DEF Over, SameSlot
    <3> QED BY <1>10, <2>2, <3>1, <3>2
  <2> QED BY <2>1, <2>2
<1>19. ASSUME NEW n \in 1..Len(new), new[n].side = side, Timely(new, n, Len(new) + 1, g)
       PROVE  \E q \in All(t) : StandsFor(q, new, n, kind)
  <2>1. CASE n = l + 1
    <3>1. StandsFor(r, new, n, kind)
      BY <1>1, <1>2, <1>7, <2>1 DEF StandsFor
    <3> QED BY <1>12, <3>1
  <2>2. CASE n \in 1..l
    <3>1. new[n] = log[n] /\ log[n] \in JoinMessage
      BY <1>2, <2>2
    <3>2. \A i \in From(log, side, log[n].key, l + 1) : new[n].stamp >= new[i].stamp - g
      BY <1>1, <1>2, <1>19, <3>1 DEF Timely
    <3>3. Timely(log, n, Len(log) + 1, g)
      BY <1>1, <1>2, <1>3, <1>19, <3>1, <3>2 DEF Timely
    <3>4. PICK q \in All(s) : StandsFor(q, log, n, kind)
      BY <1>1, <1>19, <2>2, <3>1, <3>3 DEF StoreOK
    <3>5. StandsFor(q, new, n, kind)
      BY <3>1, <3>4 DEF StandsFor
    <3>6. CASE ~SameSlot(r, q)
      BY <1>10, <3>4, <3>5, <3>6 DEF Over
    <3>7. CASE SameSlot(r, q)
      <4>1. q.counter = counter /\ q.key = r.key /\ q.stamp = r.stamp
        BY <1>7, <3>7 DEF SameSlot
      <4>2. RecordOf(q, log, side, kind) /\ q.value \in 1..l
        BY <1>11, <1>13, <1>14
      <4>3. kind # "interval"
        BY <1>1, <1>5, <4>1, <4>2 DEF RecordOf
      <4>4. StandsFor(r, new, n, kind)
        BY <1>1, <1>7, <2>2, <3>5, <4>1, <4>3 DEF StandsFor
      <4> QED BY <1>12, <4>4
    <3> QED BY <3>6, <3>7
  <2> QED BY <1>1, <1>2, <2>1, <2>2
<1>20. ASSUME NEW q \in All(t), NEW n \in From(new, side, q.key, Len(new) + 1),
              q.stamp < new[n].stamp - g
       PROVE  q.value > n \/ t.eligible[q.key] >= new[n].stamp - g
  <2>1. n \in From(log, side, q.key, l + 1) \/ (n = l + 1 /\ q.key = m.key)
    BY <1>1, <1>2
  <2>2. CASE n = l + 1 /\ q.key = m.key
    BY <1>2, <1>10, <2>2
  <2>3. CASE q = r /\ n \in From(log, side, q.key, l + 1)
    BY <1>1, <1>3, <1>7, <2>3
  <2>4. CASE q \in All(s) /\ n \in From(log, side, q.key, l + 1)
    <3>1. n \in 1..l /\ new[n] = log[n] /\ log[n].stamp \in Nat
      BY <1>2, <1>3, <2>4 DEF JoinMessage
    <3>2. q.value > n \/ s.eligible[q.key] >= log[n].stamp - g
      BY <1>1, <1>20, <2>4, <3>1 DEF StoreOK
    <3>3. q.key \in Key
      BY <1>9, <1>11, <2>4 DEF JoinStores, JoinRecord
    <3>4. t.eligible[q.key] >= s.eligible[q.key]
      <4>1. CASE q.key = m.key
        BY <1>10, <4>1
      <4>2. CASE q.key # m.key
        <5>1. t.eligible[q.key] = s.eligible[q.key] /\ s.eligible[q.key] \in Int
          BY <1>10, <1>11, <3>3, <4>2
        <5> QED BY <5>1
      <4> QED BY <4>1, <4>2
    <3>5. t.eligible[q.key] \in Int /\ s.eligible[q.key] \in Int
      BY <1>11, <3>3
    <3> QED BY <3>1, <3>2, <3>4, <3>5
  <2> QED BY <1>12, <2>1, <2>2, <2>3, <2>4
<1> QED BY <1>10, <1>15, <1>16, <1>17, <1>18, <1>19, <1>20, Zenon DEF StoreOK

\* A store after a commit, if no key extends another one.
LEMMA CommitFields ==
  ASSUME Extends = {}, NEW s \in JoinStores, NEW t, t = CommitStore(s)
  PROVE  /\ t \in JoinStores
         /\ t.updated = {}
         /\ t.stored = All(t)
         /\ \A k \in Key : t.eligible[k] = Unknown
         /\ All(t) = {r \in All(s) : \A q \in s.updated \cup s.stored :
                         (\E u \in s.updated : u.key = q.key) /\ SameSlot(r, q) =>
                             ~(q.stamp < MinEligible(s, q.key))}
<1>1. s.updated \subseteq JoinRecord /\ s.stored \subseteq JoinRecord
  BY DEF JoinStores
<1>2. PICK left : left = {r \in All(s) : \A q \in ExpiredRecords(s) : ~SameSlot(r, q)}
  OBVIOUS
<1>3. left \subseteq JoinRecord
  BY <1>1, <1>2 DEF All, Over
<1>4. PICK w : w = [s EXCEPT !.stored = left]
  OBVIOUS
<1>5. w \in JoinStores /\ w.stored = left
  BY <1>3, <1>4 DEF JoinStores
<1>6. t = Begin(w)
  BY <1>2, <1>4 DEF CommitStore, All
<1>7. /\ t.stored = left /\ t.updated = {} /\ t \in JoinStores
      /\ \A k \in Key : t.eligible[k] = Unknown
  <2>1. PICK none : none = [k \in Key |-> Unknown]
    OBVIOUS
  <2>2. none \in [Key -> Int] /\ \A k \in Key : none[k] = Unknown
    BY <2>1 DEF Unknown
  <2>3. t = [w EXCEPT !.updated = {}, !.eligible = [k \in Key |-> Unknown]]
    BY <1>6 DEF Begin
  <2>4. t = [w EXCEPT !.updated = {}, !.eligible = none]
    BY <2>1, <2>3, Zenon
  <2>5. t.stored = left /\ t.updated = {} /\ t.eligible = none /\ t \in JoinStores
    BY <1>3, <1>5, <2>2, <2>4 DEF JoinStores
  <2> QED BY <2>2, <2>5
<1>8. All(t) = left
  BY <1>7 DEF All, Over
<1>9. ExpiredRecords(s) = {q \in s.updated \cup s.stored :
          (\E v \in s.updated : v.key = q.key) /\ q.stamp < MinEligible(s, q.key)}
  BY DEF ExpiredRecords
<1>10. left = {r \in All(s) : \A q \in s.updated \cup s.stored :
                  (\E v \in s.updated : v.key = q.key) /\ SameSlot(r, q) =>
                      ~(q.stamp < MinEligible(s, q.key))}
  BY <1>2, <1>9
<1> QED BY <1>7, <1>8, <1>10

\* A commit removes what is behind the grace period, and nothing else.
LEMMA CommitKeeps ==
  ASSUME Extends = {}, NEW log \in Seq(JoinMessage), NEW s, NEW side, NEW g \in Nat,
         NEW kind, StoreOK(s, log, side, g, kind), NEW t, t = CommitStore(s)
  PROVE  StoreOK(t, log, side, g, kind)
<1>1. s \in JoinStores
  BY DEF StoreOK
<1>2. /\ t \in JoinStores
      /\ t.updated = {}
      /\ t.stored = All(t)
      /\ \A k \in Key : t.eligible[k] = Unknown
  BY <1>1, CommitFields
<1>3. All(t) = {r \in All(s) : \A q \in s.updated \cup s.stored :
                   (\E u \in s.updated : u.key = q.key) /\ SameSlot(r, q) =>
                       ~(q.stamp < MinEligible(s, q.key))}
  BY <1>1, CommitFields
<1>4. All(s) \subseteq s.updated \cup s.stored
  BY DEF All, Over
<1>5. s.eligible \in [Key -> Int] /\ s.updated \cup s.stored \subseteq JoinRecord
  BY <1>1 DEF JoinStores
<1>6. \A k \in Key : MinEligible(s, k) = IF 0 >= s.eligible[k] THEN 0 ELSE s.eligible[k]
  BY <1>5, MinEligibleIs
<1>7. \A r \in t.stored \cup t.updated : RecordOf(r, log, side, kind)
  BY <1>2, <1>3, <1>4 DEF StoreOK
<1>8. \A r, q \in All(t) : SameSlot(r, q) => r = q
  BY <1>3 DEF StoreOK
<1>9. \A k \in Key : t.eligible[k] <= 0 /\ ~(t.eligible[k] # Unknown)
  BY <1>2 DEF Unknown
<1>10. ASSUME NEW n \in 1..Len(log), log[n].side = side, Timely(log, n, Len(log) + 1, g)
       PROVE  \E r \in All(t) : StandsFor(r, log, n, kind)
  <2>1. PICK r \in All(s) : StandsFor(r, log, n, kind)
    BY <1>10 DEF StoreOK
  <2>2. ASSUME NEW q \in s.updated \cup s.stored, SameSlot(r, q), q.stamp < MinEligible(s, q.key)
        PROVE  FALSE
    <3>1. q.key = log[n].key /\ q.stamp = log[n].stamp
      BY <2>1, <2>2 DEF SameSlot, StandsFor
    <3>2. q.key \in Key /\ q.stamp \in Nat
      BY <1>5, <2>2 DEF JoinRecord
    <3>3. s.eligible[q.key] \in Int /\ s.eligible[q.key] > q.stamp /\ ~(s.eligible[q.key] <= 0)
      BY <1>5, <1>6, <2>2, <3>2
    <3>4. PICK m \in From(log, side, q.key, Len(log) + 1) : s.eligible[q.key] = log[m].stamp - g
      BY <3>2, <3>3 DEF StoreOK
    <3>5. log[n].stamp >= log[m].stamp - g
      BY <1>10, <3>1, <3>4 DEF Timely
    <3> QED BY <3>1, <3>2, <3>3, <3>4, <3>5
  <2>3. r \in All(t)
    BY <1>3, <2>1, <2>2
  <2> QED BY <2>1, <2>3
<1>11. ASSUME NEW r \in All(t), NEW n \in From(log, side, r.key, Len(log) + 1),
              r.stamp < log[n].stamp - g
       PROVE  r.value > n \/ t.eligible[r.key] >= log[n].stamp - g
  <2>1. r \in All(s) /\ r \in s.updated \cup s.stored /\ r.key \in Key /\ r.stamp \in Nat
    BY <1>3, <1>4, <1>5 DEF JoinRecord
  <2>2. r.value > n \/ s.eligible[r.key] >= log[n].stamp - g
    BY <1>11, <2>1 DEF StoreOK
  <2>3. CASE s.eligible[r.key] >= log[n].stamp - g
    <3>1. log[n].stamp \in Nat
      <4>1. n \in 1..Len(log)
        BY DEF From
      <4>2. log[n] \in JoinMessage
        BY <4>1
      <4> QED BY <4>2 DEF JoinMessage
    <3>2. s.eligible[r.key] \in Int /\ s.eligible[r.key] > r.stamp
      BY <1>5, <1>11, <2>1, <2>3, <3>1
    <3>3. \E u \in s.updated : u.key = r.key
      BY <2>1, <3>2 DEF StoreOK, Unknown
    <3>4. r.stamp < MinEligible(s, r.key)
      BY <1>6, <2>1, <3>2
    <3>5. SameSlot(r, r)
      BY DEF SameSlot
    <3> QED BY <1>3, <2>1, <3>3, <3>4, <3>5
  <2> QED BY <2>2, <2>3
<1> QED BY <1>2, <1>7, <1>8, <1>9, <1>10, <1>11, Zenon DEF StoreOK

-----------------------------------------------------------------------------
(* Reading a store. *)

\* A message that is not behind the grace period when the next one comes has a record that
\* stands for it, and which the reads do not pass over as expired.
LEMMA TimelyFound ==
  ASSUME NEW log \in Seq(JoinMessage), NEW s, NEW side, NEW g \in Nat, NEW kind,
         StoreOK(s, log, side, g, kind), NEW key \in Key,
         NEW n \in From(log, side, key, Len(log) + 1), Timely(log, n, Len(log) + 1, g)
  PROVE  \E r \in Visible(s, key) :
             StandsFor(r, log, n, kind) /\ MinEligible(s, key) <= r.stamp
<1>1. n \in 1..Len(log) /\ log[n].side = side /\ log[n].key = key
  BY DEF From
<1>2. log[n].stamp \in Nat
  <2>1. log[n] \in JoinMessage
    BY <1>1
  <2> QED BY <2>1 DEF JoinMessage
<1>3. PICK r \in All(s) : StandsFor(r, log, n, kind)
  BY <1>1 DEF StoreOK
<1>4. r \in Visible(s, key) /\ r.stamp = log[n].stamp
  BY <1>1, <1>3 DEF StandsFor, Visible, All
<1>5. s.eligible[key] \in Int
  BY DEF StoreOK, JoinStores
<1>6. PICK e \in Int : e = s.eligible[key]
  BY <1>5
<1>7. e <= 0 \/ \E q \in From(log, side, key, Len(log) + 1) : e = log[q].stamp - g
  BY <1>6 DEF StoreOK
<1>8. e <= 0 \/ e <= log[n].stamp
  <2>1. ASSUME NEW q \in From(log, side, key, Len(log) + 1), e = log[q].stamp - g
        PROVE  e <= log[n].stamp
    <3>1. log[n].stamp >= log[q].stamp - g
      BY <1>1 DEF Timely
    <3> QED BY <1>2, <1>6, <2>1, <3>1
  <2> QED BY <1>7, <2>1
<1>9. MinEligible(s, key) = IF 0 >= e THEN 0 ELSE e
  BY <1>5, <1>6, MinEligibleIs
<1>10. MinEligible(s, key) <= r.stamp
  BY <1>2, <1>4, <1>6, <1>8, <1>9
<1> QED BY <1>3, <1>4, <1>10

\* A record of a message of a side and a key.
MessageRecord(r, log, side, key, kind) ==
    /\ r.key = key /\ r.stamp \in Nat /\ r.counter \in Nat
    /\ r.value \in From(log, side, key, Len(log) + 1) /\ r.value \in 1..Len(log)
    /\ r.stamp = log[r.value].stamp
    /\ (kind = "interval" => r.counter = r.value) /\ (kind # "interval" => r.counter = 0)

\* The records that a read finds are those of messages.
LEMMA VisibleRecords ==
  ASSUME NEW log \in Seq(JoinMessage), NEW s, NEW side, NEW g, NEW kind,
         StoreOK(s, log, side, g, kind), NEW key, NEW r \in Visible(s, key)
  PROVE  r \in All(s) /\ MessageRecord(r, log, side, key, kind)
<1>1. r \in All(s) /\ r.key = key /\ r \in s.stored \cup s.updated
  BY DEF Visible, All, Over
<1>2. RecordOf(r, log, side, kind)
  BY <1>1 DEF StoreOK
<1>3. s.stored \subseteq JoinRecord /\ s.updated \subseteq JoinRecord
  BY DEF StoreOK, JoinStores
<1>4. r.stamp \in Nat /\ r.counter \in Nat
  BY <1>1, <1>3 DEF JoinRecord
<1>5. r.value \in 1..Len(log)
  BY <1>2 DEF RecordOf, From
<1> QED BY <1>1, <1>2, <1>4, <1>5 DEF RecordOf, MessageRecord

\* One of the records is the latest that has not expired.
IsLatest(L, log, side, key, stamp, g) ==
    /\ L = {} \/ \E r : L = {r}
    /\ \A r \in L : /\ r.value \in From(log, side, key, Len(log) + 1)
                    /\ log[r.value].stamp <= stamp
    /\ \A n \in From(log, side, key, Len(log) + 1) :
          log[n].stamp <= stamp /\ Timely(log, n, Len(log) + 1, g) =>
              /\ L # {}
              /\ \A r \in L : \/ log[n].stamp < log[r.value].stamp
                              \/ log[n].stamp = log[r.value].stamp /\ n <= r.value

\* get_latest() finds one record at most, and one that is as late as each message that has
\* not expired.
LEMMA LatestFound ==
  ASSUME NEW log \in Seq(JoinMessage), NEW s, NEW side, NEW g \in Nat,
         NEW kind, kind # "interval", StoreOK(s, log, side, g, kind),
         NEW key \in Key, NEW stamp \in Nat,
         NEW L, L = GetLatest(s, key, stamp)
  PROVE  IsLatest(L, log, side, key, stamp, g)
<1> DEFINE found == {r \in Visible(s, key) : MinEligible(s, key) <= r.stamp /\ r.stamp <= stamp}
<1>1. L = {r \in found : \A q \in found :
              q.stamp < r.stamp \/ (q.stamp = r.stamp /\ q.counter <= r.counter)}
  BY DEF GetLatest
<1>2. \A r \in found : /\ r \in All(s) /\ r.key = key /\ r.stamp \in 0..stamp
                       /\ r.value \in From(log, side, key, Len(log) + 1)
                       /\ r.value \in 1..Len(log)
                       /\ r.stamp = log[r.value].stamp /\ r.counter = 0
  <2> TAKE r \in found
  <2>1. r \in Visible(s, key) /\ r.stamp <= stamp
    OBVIOUS
  <2>2. /\ r \in All(s) /\ r.key = key /\ r.stamp \in Nat
        /\ r.value \in From(log, side, key, Len(log) + 1) /\ r.value \in 1..Len(log)
        /\ r.stamp = log[r.value].stamp /\ (kind # "interval" => r.counter = 0)
    BY <2>1, VisibleRecords DEF MessageRecord
  <2> QED BY <2>1, <2>2
<1>3. \A r, q \in found : r.stamp = q.stamp => r = q
  BY <1>2 DEF StoreOK, SameSlot
<1>4. \A n \in From(log, side, key, Len(log) + 1) :
          log[n].stamp <= stamp /\ Timely(log, n, Len(log) + 1, g) =>
              \E r \in found : r.stamp = log[n].stamp /\ r.value >= n
  <2> SUFFICES ASSUME NEW n \in From(log, side, key, Len(log) + 1),
                      log[n].stamp <= stamp, Timely(log, n, Len(log) + 1, g)
               PROVE  \E r \in found : r.stamp = log[n].stamp /\ r.value >= n
    OBVIOUS
  <2>1. PICK r \in Visible(s, key) : StandsFor(r, log, n, kind) /\ MinEligible(s, key) <= r.stamp
    BY TimelyFound
  <2> QED BY <2>1 DEF StandsFor
<1> HIDE DEF found
<1>5. ASSUME found # {}
      PROVE  L # {}
  <2> DEFINE B == {r.stamp : r \in found}
  <2>1. B \subseteq 0..stamp /\ B # {}
    BY <1>2, <1>5
  <2>2. Max(B) \in B /\ \A b \in B : b <= Max(B)
    <3> HIDE DEF B
    <3> QED BY <2>1, Greatest
  <2>3. PICK r \in found : r.stamp = Max(B)
    BY <2>2
  <2>4. \A q \in found : q.stamp <= r.stamp
    BY <2>2, <2>3
  <2>5. \A q \in found : q.stamp < r.stamp \/ (q.stamp = r.stamp /\ q.counter <= r.counter)
    BY <1>2, <2>4
  <2> QED BY <1>1, <2>5
<1>6. ASSUME NEW r \in L
      PROVE  /\ r \in found
             /\ \A q \in found : q.stamp < r.stamp \/ q = r
  BY <1>1, <1>2, <1>3
<1>7. \A r, q \in L : r = q
  <2> TAKE r, q \in L
  <2>1. r \in found /\ q \in found /\ (q.stamp < r.stamp \/ q = r) /\ (r.stamp < q.stamp \/ q = r)
    BY <1>6
  <2>2. r.stamp \in Int /\ q.stamp \in Int
    BY <1>2, <2>1
  <2> QED BY <2>1, <2>2
<1>8. L = {} \/ \E r : L = {r}
  <2> SUFFICES ASSUME L # {} PROVE \E r : L = {r}
    OBVIOUS
  <2>1. PICK r : r \in L
    OBVIOUS
  <2>2. L = {r}
    BY <1>7, <2>1
  <2> QED BY <2>2
<1>9. \A r \in L : /\ r.value \in From(log, side, key, Len(log) + 1)
                   /\ log[r.value].stamp <= stamp
  BY <1>2, <1>6
<1>10. ASSUME NEW n \in From(log, side, key, Len(log) + 1),
              log[n].stamp <= stamp, Timely(log, n, Len(log) + 1, g)
       PROVE  /\ L # {}
              /\ \A r \in L : \/ log[n].stamp < log[r.value].stamp
                              \/ log[n].stamp = log[r.value].stamp /\ n <= r.value
  <2>1. PICK q \in found : q.stamp = log[n].stamp /\ q.value >= n
    BY <1>4, <1>10
  <2>2. ASSUME NEW r \in L
        PROVE  \/ log[n].stamp < log[r.value].stamp
               \/ log[n].stamp = log[r.value].stamp /\ n <= r.value
    <3>1. r \in found /\ (q.stamp < r.stamp \/ q = r)
      BY <1>6
    <3>2. r.stamp = log[r.value].stamp
      BY <1>2, <3>1
    <3> QED BY <2>1, <3>1, <3>2
  <2> QED BY <1>5, <2>1, <2>2
<1> QED BY <1>8, <1>9, <1>10 DEF IsLatest

-----------------------------------------------------------------------------
(* What a message emits. *)

\* AsOfMatchesLatest of one left message.
AsOfExact(log, results, n, g, how) ==
    LET found     == {r \in results : r.left = n}
        rights    == {m \in From(log, "right", log[n].key, n) : log[m].stamp <= log[n].stamp}
        latest(m) == \A q \in rights : Timely(log, q, n, g) =>
                         \/ log[q].stamp < log[m].stamp
                         \/ log[q].stamp = log[m].stamp /\ q <= m
    IN  /\ found = {} \/ \E r : found = {r}
        /\ \A r \in found : r.right # NoRecord => r.right \in rights /\ latest(r.right)
        /\ \A m \in rights : latest(m) /\ Timely(log, m, n, g) /\ log[m].truthy =>
                                 \E r \in found : r.right = m
        /\ how = "left" => found # {}

\* The messages that are late for one message stay late.
LEMMA TimelyStays ==
  ASSUME NEW log, NEW m, NEW new, NEW l, Grown(log, m, new, l), NEW g,
         NEW n \in 1..l, NEW last \in 1..l + 1
  PROVE  Timely(new, n, last, g) <=> Timely(log, n, last, g)
<1>1. new[n] = log[n] /\ l \in Nat
  BY DEF Grown
<1>2. From(new, log[n].side, log[n].key, last) = From(log, log[n].side, log[n].key, last)
  BY FromGrown
<1>3. \A q \in From(log, log[n].side, log[n].key, last) : new[q] = log[q]
  BY <1>1 DEF From, Grown
<1> QED BY <1>1, <1>2, <1>3 DEF Timely

\* A left message keeps its results when the next message comes.
LEMMA AsOfStays ==
  ASSUME NEW log, NEW m, NEW new, NEW l, Grown(log, m, new, l), NEW g, NEW how,
         NEW n \in 1..l, NEW results, NEW more, \A r \in more : r.left = l + 1,
         AsOfExact(log, results, n, g, how)
  PROVE  AsOfExact(new, results \cup more, n, g, how)
<1>1. l \in Nat /\ new[n] = log[n] /\ \A q \in 1..l : new[q] = log[q]
  BY DEF Grown
<1>2. PICK rights :
         rights = {q \in From(log, "right", log[n].key, n) : log[q].stamp <= log[n].stamp}
  OBVIOUS
<1>3. \A q \in From(log, "right", log[n].key, n) : q \in 1..l
  BY <1>1 DEF From, Grown
<1>4. From(new, "right", log[n].key, n) = From(log, "right", log[n].key, n)
  BY <1>1, FromGrown
<1>5. rights = {q \in From(new, "right", new[n].key, n) : new[q].stamp <= new[n].stamp}
  BY <1>1, <1>2, <1>3, <1>4
<1>6. \A q \in rights : new[q] = log[q]
  BY <1>1, <1>2, <1>3
<1>7. \A q \in rights : Timely(new, q, n, g) <=> Timely(log, q, n, g)
  <2> TAKE q \in rights
  <2>1. q \in 1..l /\ n \in 1..l + 1
    BY <1>1, <1>2, <1>3
  <2> QED BY <2>1, TimelyStays
<1>8. PICK found : found = {r \in results : r.left = n}
  OBVIOUS
<1>9. found = {r \in results \cup more : r.left = n}
  BY <1>1, <1>8
<1>10. /\ found = {} \/ \E r : found = {r}
       /\ \A r \in found : r.right # NoRecord =>
             /\ r.right \in rights
             /\ \A q \in rights : Timely(log, q, n, g) =>
                   \/ log[q].stamp < log[r.right].stamp
                   \/ log[q].stamp = log[r.right].stamp /\ q <= r.right
       /\ \A i \in rights :
             /\ \A q \in rights : Timely(log, q, n, g) =>
                   \/ log[q].stamp < log[i].stamp
                   \/ log[q].stamp = log[i].stamp /\ q <= i
             /\ Timely(log, i, n, g) /\ log[i].truthy
             => \E r \in found : r.right = i
       /\ how = "left" => found # {}
  BY <1>2, <1>8, Zenon DEF AsOfExact
<1>11. /\ found = {} \/ \E r : found = {r}
       /\ \A r \in found : r.right # NoRecord =>
             /\ r.right \in rights
             /\ \A q \in rights : Timely(new, q, n, g) =>
                   \/ new[q].stamp < new[r.right].stamp
                   \/ new[q].stamp = new[r.right].stamp /\ q <= r.right
       /\ \A i \in rights :
             /\ \A q \in rights : Timely(new, q, n, g) =>
                   \/ new[q].stamp < new[i].stamp
                   \/ new[q].stamp = new[i].stamp /\ q <= i
             /\ Timely(new, i, n, g) /\ new[i].truthy
             => \E r \in found : r.right = i
       /\ how = "left" => found # {}
  BY <1>6, <1>7, <1>10
<1> QED BY <1>5, <1>9, <1>11, Zenon DEF AsOfExact

\* A left message is joined as the definition says.
LEMMA AsOfJoins ==
  ASSUME NEW log \in Seq(JoinMessage), NEW m, NEW new, NEW l, Grown(log, m, new, l),
         m.side = "left", NEW g \in Nat, NEW how, NEW s, NEW kind, kind # "interval",
         StoreOK(s, log, "right", g, kind),
         NEW results, \A r \in results : r.left # l + 1,
         NEW found, found = {r.value : r \in {q \in GetLatest(s, m.key, m.stamp) :
                                                 log[q.value].truthy}},
         NEW more,
         more = IF found # {} THEN {[left |-> l + 1, right |-> r, at |-> l + 1] : r \in found}
                ELSE IF how = "left" THEN {[left |-> l + 1, right |-> NoRecord, at |-> l + 1]}
                ELSE {}
  PROVE  AsOfExact(new, results \cup more, l + 1, g, how)
<1>1. /\ l \in Nat /\ l = Len(log) /\ m \in JoinMessage /\ new[l + 1] = m
      /\ \A q \in 1..l : new[q] = log[q]
  BY DEF Grown
<1>2. m.key \in Key /\ m.stamp \in Nat
  BY <1>1 DEF JoinMessage
<1>3. PICK key \in Key : key = m.key
  BY <1>2
<1>4. PICK stamp \in Nat : stamp = m.stamp
  BY <1>2
<1>5. PICK L : L = GetLatest(s, key, stamp)
  OBVIOUS
<1>6. PICK F : F = From(log, "right", key, Len(log) + 1)
  OBVIOUS
<1>7. /\ L = {} \/ \E r : L = {r}
      /\ \A r \in L : r.value \in F /\ log[r.value].stamp <= stamp
      /\ \A n \in F : log[n].stamp <= stamp /\ Timely(log, n, Len(log) + 1, g) =>
            /\ L # {}
            /\ \A r \in L : \/ log[n].stamp < log[r.value].stamp
                            \/ log[n].stamp = log[r.value].stamp /\ n <= r.value
  <2>1. IsLatest(L, log, "right", key, stamp, g)
    BY <1>5, LatestFound
  <2> QED BY <1>6, <2>1, Zenon DEF IsLatest
<1>8. F = From(new, "right", key, l + 1)
  BY <1>1, <1>6, FromGrown
<1>9. \A q \in F : q \in 1..l /\ new[q] = log[q] /\ log[q].stamp \in Nat
  <2> TAKE q \in F
  <2>1. q \in 1..l
    BY <1>1, <1>6 DEF From
  <2>2. log[q] \in JoinMessage
    BY <1>1, <2>1
  <2> QED BY <1>1, <2>1, <2>2 DEF JoinMessage
<1>10. \A q \in F : Timely(new, q, l + 1, g) <=> Timely(log, q, Len(log) + 1, g)
  <2> TAKE q \in F
  <2>1. q \in 1..l /\ l + 1 \in 1..l + 1
    BY <1>1, <1>9
  <2> QED BY <1>1, <2>1, TimelyStays
<1>11. PICK rights : rights = {q \in F : log[q].stamp <= stamp}
  OBVIOUS
<1>12. rights = {q \in From(new, "right", new[l + 1].key, l + 1) : new[q].stamp <= new[l + 1].stamp}
  BY <1>1, <1>3, <1>4, <1>8, <1>9, <1>11
<1>13. {r \in results \cup more : r.left = l + 1} = more
  OBVIOUS
<1>14. /\ found = {} \/ \E r \in L : found = {r.value} /\ log[r.value].truthy
       /\ \A r \in L : log[r.value].truthy => found = {r.value}
  BY <1>3, <1>4, <1>5, <1>7
<1>15. \A n \in found : n \in rights /\ n # NoRecord
  <2> TAKE n \in found
  <2>1. PICK r \in L : n = r.value
    BY <1>14
  <2>2. n \in F /\ log[n].stamp <= stamp /\ n \in 1..l
    BY <1>7, <1>9, <2>1
  <2> QED BY <1>1, <1>11, <2>2 DEF NoRecord
<1>16. /\ more = {} \/ \E r : more = {r}
       /\ \A r \in more : r.right # NoRecord => r.right \in found
       /\ \A n \in found : \E r \in more : r.right = n
       /\ how = "left" => more # {}
  <2>1. CASE found = {}
    <3>1. PICK none : none = [left |-> l + 1, right |-> NoRecord, at |-> l + 1]
      OBVIOUS
    <3>2. none.right = NoRecord
      BY <3>1
    <3>3. (how = "left" /\ more = {none}) \/ (how # "left" /\ more = {})
      BY <2>1, <3>1
    <3> QED BY <2>1, <3>2, <3>3
  <2>2. CASE found # {}
    <3>1. PICK n : found = {n}
      BY <1>14, <2>2
    <3>2. PICK one : one = [left |-> l + 1, right |-> n, at |-> l + 1]
      OBVIOUS
    <3>3. one.right = n
      BY <3>2
    <3>4. more = {one}
      BY <3>1, <3>2
    <3> QED BY <3>1, <3>3, <3>4
  <2> QED BY <2>1, <2>2
<1>17. \A r \in more : r.right # NoRecord =>
          /\ r.right \in rights
          /\ \A q \in rights : Timely(new, q, l + 1, g) =>
                \/ new[q].stamp < new[r.right].stamp
                \/ new[q].stamp = new[r.right].stamp /\ q <= r.right
  <2> SUFFICES ASSUME NEW n \in found
               PROVE  /\ n \in rights
                      /\ \A q \in rights : Timely(new, q, l + 1, g) =>
                            \/ new[q].stamp < new[n].stamp
                            \/ new[q].stamp = new[n].stamp /\ q <= n
    BY <1>16
  <2>1. n \in rights /\ \E r \in L : n = r.value
    BY <1>14, <1>15
  <2>2. \A q \in rights : q \in F /\ new[q] = log[q] /\ log[q].stamp <= stamp
    BY <1>9, <1>11
  <2> QED BY <1>7, <1>10, <2>1, <2>2
<1>18. \A n \in rights :
          /\ \A q \in rights : Timely(new, q, l + 1, g) =>
                \/ new[q].stamp < new[n].stamp
                \/ new[q].stamp = new[n].stamp /\ q <= n
          /\ Timely(new, n, l + 1, g) /\ new[n].truthy
          => \E r \in more : r.right = n
  <2> SUFFICES ASSUME NEW n \in rights,
                      \A q \in rights : Timely(new, q, l + 1, g) =>
                          \/ new[q].stamp < new[n].stamp
                          \/ new[q].stamp = new[n].stamp /\ q <= n,
                      Timely(new, n, l + 1, g), new[n].truthy
               PROVE  n \in found
    BY <1>16
  <2>1. n \in F /\ n \in 1..l /\ new[n] = log[n] /\ log[n].stamp <= stamp
    BY <1>9, <1>11
  <2>2. /\ L # {}
        /\ \A r \in L : \/ log[n].stamp < log[r.value].stamp
                        \/ log[n].stamp = log[r.value].stamp /\ n <= r.value
    BY <1>7, <1>10, <2>1
  <2>3. PICK r \in L : TRUE
    BY <2>2
  <2>4. PICK v : v = r.value
    OBVIOUS
  <2>5. v \in F /\ v \in rights /\ v \in 1..l /\ new[v] = log[v]
    BY <1>7, <1>9, <1>11, <2>4
  <2>6. log[v].stamp \in Nat /\ log[n].stamp \in Nat
    BY <1>9, <2>1, <2>5
  <2>7. log[n].stamp <= log[v].stamp
    BY <2>2, <2>4, <2>6
  <2>8. Timely(new, v, l + 1, g)
    <3>1. PICK G : G = From(new, "right", key, l + 1)
      OBVIOUS
    <3>2. new[v].side = "right" /\ new[v].key = key /\ new[n].side = "right" /\ new[n].key = key
      BY <1>6, <2>1, <2>5 DEF From
    <3>3. \A q \in G : new[n].stamp >= new[q].stamp - g
      BY <3>1, <3>2 DEF Timely
    <3>4. \A q \in G : new[q].stamp \in Nat
      BY <1>8, <1>9, <3>1
    <3>5. \A q \in G : new[v].stamp >= new[q].stamp - g
      <4> TAKE q \in G
      <4>1. new[n].stamp >= new[q].stamp - g /\ new[q].stamp \in Nat
        BY <3>3, <3>4
      <4>2. new[n].stamp <= new[v].stamp /\ new[n].stamp \in Nat /\ new[v].stamp \in Nat
        BY <2>1, <2>5, <2>6, <2>7
      <4> QED BY <4>1, <4>2
    <3> QED BY <3>1, <3>2, <3>5 DEF Timely
  <2>9. \/ log[v].stamp < log[n].stamp
        \/ log[v].stamp = log[n].stamp /\ v <= n
    BY <2>1, <2>5, <2>8
  <2>10. v = n
    BY <2>1, <2>2, <2>4, <2>5, <2>6, <2>7, <2>9
  <2> QED BY <1>14, <2>1, <2>4, <2>10
<1> QED BY <1>12, <1>13, <1>16, <1>17, <1>18, Zenon DEF AsOfExact

\* A result of a message and one of the other side.
Pair(side, n, m) == IF side = "left" THEN <<n, m>> ELSE <<m, n>>

\* The pairs of a message with its matches.
PairsAt(side, n, matches, how) ==
    IF matches # {} THEN {Pair(side, n, i) : i \in matches}
    ELSE IF how \in {side, "outer"} THEN {Pair(side, n, NoRecord)}
    ELSE {}

\* IntervalPairsExact of one message, of a side that looks back by so much.
IntervalExact(log, results, n, g, reach, how) ==
    LET side  == log[n].side
        pairs == {<<r.left, r.right>> : r \in {q \in results : q.at = n}}
        near  == {m \in From(log, Other(side), log[n].key, n) :
                      log[m].stamp \in log[n].stamp - reach..log[n].stamp}
        sure  == {m \in near : Timely(log, m, n, g)}
    IN  /\ {Pair(side, n, m) : m \in sure} \subseteq pairs
        /\ pairs \subseteq {Pair(side, n, m) : m \in near} \cup {Pair(side, n, NoRecord)}
        /\ Pair(side, n, NoRecord) \in pairs <=>
              pairs = {Pair(side, n, NoRecord)} /\ how \in {side, "outer"}
        /\ sure = {} /\ how \in {side, "outer"} => pairs # {}

\* A message keeps its results when the next message comes.
LEMMA IntervalStays ==
  ASSUME NEW log, NEW m, NEW new, NEW l, Grown(log, m, new, l), NEW g, NEW reach, NEW how,
         NEW n \in 1..l, NEW results, NEW more, \A r \in more : r.at = l + 1,
         IntervalExact(log, results, n, g, reach, how)
  PROVE  IntervalExact(new, results \cup more, n, g, reach, how)
<1>1. l \in Nat /\ new[n] = log[n] /\ \A q \in 1..l : new[q] = log[q]
  BY DEF Grown
<1>2. PICK side : side = log[n].side
  OBVIOUS
<1>3. PICK F : F = From(log, Other(side), log[n].key, n)
  OBVIOUS
<1>4. \A q \in F : q \in 1..l
  BY <1>1, <1>3 DEF From, Grown
<1>5. F = From(new, Other(side), log[n].key, n)
  BY <1>1, <1>3, FromGrown
<1>6. PICK near : near = {q \in F : log[q].stamp \in log[n].stamp - reach..log[n].stamp}
  OBVIOUS
<1>7. near = {q \in F : new[q].stamp \in new[n].stamp - reach..new[n].stamp}
  BY <1>1, <1>4, <1>6
<1>8. PICK sure : sure = {q \in near : Timely(log, q, n, g)}
  OBVIOUS
<1>9. sure = {q \in near : Timely(new, q, n, g)}
  <2>1. ASSUME NEW q \in near
        PROVE  Timely(new, q, n, g) <=> Timely(log, q, n, g)
    <3>1. q \in 1..l /\ n \in 1..l + 1
      BY <1>1, <1>4, <1>6
    <3> QED BY <3>1, TimelyStays
  <2> QED BY <1>8, <2>1
<1>10. {q \in results \cup more : q.at = n} = {q \in results : q.at = n}
  BY <1>1
<1> QED BY <1>1, <1>2, <1>3, <1>5, <1>6, <1>7, <1>8, <1>9, <1>10, Zenon DEF IntervalExact

\* A message is joined as the definition says.
LEMMA IntervalJoins ==
  ASSUME NEW log \in Seq(JoinMessage), NEW m, NEW new, NEW l, Grown(log, m, new, l),
         NEW g \in Nat, NEW reach \in Nat, NEW how, NEW s, NEW kind, kind = "interval",
         NEW side \in Side, m.side = side, StoreOK(s, log, Other(side), g, kind),
         NEW results,
         NEW matches,
         matches = {r.value : r \in GetInterval(s, m.key, m.stamp - reach, m.stamp + 1)},
         NEW pairs, pairs = {<<r.left, r.right>> : r \in {q \in results : q.at = l + 1}},
         pairs = PairsAt(side, l + 1, matches, how)
  PROVE  IntervalExact(new, results, l + 1, g, reach, how)
<1>1. /\ l \in Nat /\ l = Len(log) /\ m \in JoinMessage /\ new[l + 1] = m
      /\ \A q \in 1..l : new[q] = log[q]
  BY DEF Grown
<1>2. PICK key \in Key : key = m.key
  BY <1>1 DEF JoinMessage
<1>3. PICK stamp \in Nat : stamp = m.stamp
  BY <1>1 DEF JoinMessage
<1>4. PICK other : other = Other(side)
  OBVIOUS
<1>5. PICK F : F = From(log, other, key, Len(log) + 1)
  OBVIOUS
<1>6. F = From(new, other, key, l + 1)
  <2>1. From(new, other, key, l + 1) = From(log, other, key, l + 1)
    BY <1>1, FromGrown
  <2> QED BY <1>1, <1>5, <2>1
<1>7. \A q \in F : q \in 1..l /\ new[q] = log[q] /\ log[q].stamp \in Nat
  <2> TAKE q \in F
  <2>1. q \in 1..l
    BY <1>1, <1>5 DEF From
  <2>2. log[q] \in JoinMessage
    BY <1>1, <2>1
  <2> QED BY <1>1, <2>1, <2>2 DEF JoinMessage
<1>8. \A q \in F : Timely(new, q, l + 1, g) <=> Timely(log, q, Len(log) + 1, g)
  <2> TAKE q \in F
  <2>1. q \in 1..l /\ l + 1 \in 1..l + 1
    BY <1>1, <1>7
  <2> QED BY <1>1, <2>1, TimelyStays
<1>9. PICK near : near = {q \in F : new[q].stamp \in stamp - reach..stamp}
  OBVIOUS
<1>10. PICK sure : sure = {q \in near : Timely(new, q, l + 1, g)}
  OBVIOUS
<1>11. PICK low \in Int : low = stamp - reach
  OBVIOUS
<1>12. Max({0, low}) = IF 0 >= low THEN 0 ELSE low
  BY MaxWithZero, Zenon
<1>13. matches = {r.value : r \in {q \in Visible(s, key) :
                                       Max({0, low}) <= q.stamp /\ q.stamp < stamp + 1}}
  <2>1. matches = {r.value : r \in GetInterval(s, key, low, stamp + 1)}
    BY <1>2, <1>3, <1>11, Zenon
  <2> QED BY <2>1, Zenon DEF GetInterval
<1>14. matches \subseteq near
  <2> SUFFICES ASSUME NEW r \in Visible(s, key), Max({0, low}) <= r.stamp, r.stamp < stamp + 1
               PROVE  r.value \in near
    BY <1>13
  <2>1. r.stamp \in Nat /\ r.value \in F /\ r.stamp = log[r.value].stamp
    <3>1. StoreOK(s, log, other, g, kind)
      BY <1>4
    <3>2. MessageRecord(r, log, other, key, kind)
      BY <3>1, VisibleRecords, Zenon
    <3> QED BY <1>5, <3>2 DEF MessageRecord
  <2>2. low <= r.stamp /\ r.stamp <= stamp
    BY <1>12, <2>1
  <2> QED BY <1>7, <1>9, <1>11, <2>1, <2>2
<1>15. sure \subseteq matches
  <2> SUFFICES ASSUME NEW n \in sure PROVE n \in matches
    OBVIOUS
  <2>1. n \in F /\ new[n].stamp \in low..stamp /\ new[n] = log[n] /\ log[n].stamp \in Nat
        /\ Timely(log, n, Len(log) + 1, g)
    BY <1>7, <1>8, <1>9, <1>10, <1>11
  <2>2. PICK r \in Visible(s, key) : StandsFor(r, log, n, kind)
    BY <1>4, <1>5, <2>1, TimelyFound
  <2>3. r.value = n /\ r.stamp = log[n].stamp
    BY <2>2 DEF StandsFor
  <2>4. Max({0, low}) <= r.stamp /\ r.stamp < stamp + 1
    BY <1>12, <2>1, <2>3
  <2> QED BY <1>13, <2>3, <2>4
<1>16. \A n \in near : n # NoRecord /\ n # l + 1
  BY <1>1, <1>7, <1>9 DEF NoRecord
<1>17. \A i, k : Pair(side, l + 1, i) = Pair(side, l + 1, k) => i = k
  BY DEF Pair
<1>18. {Pair(side, l + 1, i) : i \in sure} \subseteq pairs
  BY <1>15 DEF PairsAt
<1>19. pairs \subseteq {Pair(side, l + 1, i) : i \in near} \cup {Pair(side, l + 1, NoRecord)}
  BY <1>14 DEF PairsAt
<1>20. Pair(side, l + 1, NoRecord) \in pairs <=>
           pairs = {Pair(side, l + 1, NoRecord)} /\ how \in {side, "outer"}
  BY <1>14, <1>16, <1>17 DEF PairsAt
<1>21. sure = {} /\ how \in {side, "outer"} => pairs # {}
  BY DEF PairsAt
<1>22. F = From(new, Other(side), new[l + 1].key, l + 1) /\ new[l + 1].side = side
       /\ near = {q \in F : new[q].stamp \in new[l + 1].stamp - reach..new[l + 1].stamp}
  BY <1>1, <1>2, <1>3, <1>4, <1>6, <1>9
<1> QED BY <1>10, <1>18, <1>19, <1>20, <1>21, <1>22, Zenon DEF IntervalExact

-----------------------------------------------------------------------------
(* A step keeps the stores and the results. *)

\* How far back a side looks for records of the other one.
Back(d, side) == IF side = "left" THEN d.backward ELSE d.forward

\* The stores of a join after the messages of a log.
StoresOK(log, stores, d) ==
    /\ stores = [side \in Side |-> stores[side]]
    /\ d.kind = "asof" =>
          /\ stores["left"] \in JoinStores
          /\ stores["left"].stored = {} /\ stores["left"].updated = {}
          /\ StoreOK(stores["right"], log, "right", d.grace, d.kind)
    /\ d.kind = "interval" =>
          \A side \in Side : StoreOK(stores[side], log, side, d.grace, d.kind)

\* A result is of the message with which it came, and of another one or none.
ResultOK(r, l, d) ==
    /\ r.left \in 0..l /\ r.right \in 0..l /\ r.at \in 1..l /\ r.at \in {r.left, r.right}
    /\ d.kind = "asof" => r.at = r.left

\* What is joined after the messages of a log, for some of the messages.
ResultsOK(log, results, d, some) ==
    /\ \A r \in results : ResultOK(r, Len(log), d)
    /\ d.kind = "asof" =>
          \A n \in some :
             log[n].side = "left" => AsOfExact(log, results, n, d.grace, d.how)
    /\ d.kind = "interval" =>
          \A n \in some :
             IntervalExact(log, results, n, d.grace, Back(d, log[n].side), d.how)

\* A result of the message that comes.
ResultAt(side, n, m) ==
    IF side = "left" THEN [left |-> n, right |-> m, at |-> n]
                     ELSE [left |-> m, right |-> n, at |-> n]

\* The results of the message that comes, with its matches.
NewResults(side, n, matches, how) ==
    IF matches # {} THEN {ResultAt(side, n, i) : i \in matches}
    ELSE IF how \in {side, "outer"} THEN {ResultAt(side, n, NoRecord)}
    ELSE {}

\* What is joined stays as it is when a message comes that may add to it.
LEMMA ResultsStay ==
  ASSUME NEW log, NEW m, NEW new, NEW l, Grown(log, m, new, l), NEW d,
         NEW results, ResultsOK(log, results, d, 1..l),
         NEW more, \A r \in more : ResultOK(r, l + 1, d) /\ r.at = l + 1
  PROVE  ResultsOK(new, results \cup more, d, 1..l)
<1>1. l \in Nat /\ l = Len(log) /\ Len(new) = l + 1 /\ \A n \in 1..l : new[n] = log[n]
  BY DEF Grown
<1>2. \A r \in results \cup more : ResultOK(r, Len(new), d)
  <2>1. \A r \in results : ResultOK(r, l, d)
    BY <1>1 DEF ResultsOK
  <2>2. \A r \in results : ResultOK(r, l + 1, d)
    BY <1>1, <2>1 DEF ResultOK
  <2> QED BY <1>1, <2>2
<1>3. ASSUME d.kind = "asof", NEW n \in 1..l, new[n].side = "left"
      PROVE  AsOfExact(new, results \cup more, n, d.grace, d.how)
  <2>1. AsOfExact(log, results, n, d.grace, d.how)
    BY <1>1, <1>3 DEF ResultsOK
  <2>2. \A r \in more : r.left = l + 1
    BY <1>3 DEF ResultOK
  <2> QED BY <2>1, <2>2, AsOfStays
<1>4. ASSUME d.kind = "interval", NEW n \in 1..l
      PROVE  IntervalExact(new, results \cup more, n, d.grace, Back(d, new[n].side), d.how)
  <2>1. new[n] = log[n]
    BY <1>1
  <2>2. IntervalExact(log, results, n, d.grace, Back(d, log[n].side), d.how)
    BY <1>1, <1>4 DEF ResultsOK
  <2>3. PICK b : b = Back(d, log[n].side)
    OBVIOUS
  <2>4. \A r \in more : r.at = l + 1
    OBVIOUS
  <2>5. IntervalExact(log, results, n, d.grace, b, d.how)
    BY <2>2, <2>3
  <2>6. IntervalExact(new, results \cup more, n, d.grace, b, d.how)
    BY <2>4, <2>5, IntervalStays
  <2> QED BY <2>1, <2>3, <2>6
<1> QED BY <1>2, <1>3, <1>4 DEF ResultsOK

\* A right message of join_asof() is stored.
LEMMA AsOfRightKeeps ==
  ASSUME NEW log, NEW m, NEW new, NEW l, Grown(log, m, new, l), m.side = "right",
         NEW d, d.kind = "asof", d.grace \in Nat,
         NEW stores, StoresOK(log, stores, d), NEW results, ResultsOK(log, results, d, 1..l),
         NEW t, t = SetForTimestamp(stores["right"], m.key, m.stamp, 0, l + 1, d.grace),
         NEW changed, changed = [stores EXCEPT !["right"] = t]
  PROVE  StoresOK(new, changed, d) /\ ResultsOK(new, results, d, 1..l + 1)
<1>1. StoreOK(stores["right"], log, "right", d.grace, d.kind)
  BY DEF StoresOK
<1>2. PICK c : c = IF d.kind = "interval" THEN l + 1 ELSE 0
  OBVIOUS
<1>3. t = SetForTimestamp(stores["right"], m.key, m.stamp, c, l + 1, d.grace)
  BY <1>2
<1>4. StoreOK(t, new, "right", d.grace, d.kind)
  BY <1>1, <1>2, <1>3, SetKeeps, Zenon
<1>5. changed["right"] = t /\ changed["left"] = stores["left"]
      /\ changed = [side \in Side |-> changed[side]]
  BY DEF StoresOK, Side
<1>6. StoresOK(new, changed, d)
  BY <1>4, <1>5 DEF StoresOK
<1>7. PICK more : more = {}
  OBVIOUS
<1>8. \A r \in more : ResultOK(r, l + 1, d) /\ r.at = l + 1
  BY <1>7
<1>9. ResultsOK(new, results, d, 1..l)
  <2>1. ResultsOK(new, results \cup more, d, 1..l)
    BY <1>8, ResultsStay
  <2>2. results \cup more = results
    BY <1>7
  <2> QED BY <2>1, <2>2
<1>10. l \in Nat /\ Len(new) = l + 1 /\ new[l + 1] = m
  BY DEF Grown
<1>11. \A n \in 1..l + 1 : new[n].side = "left" => n \in 1..l
  BY <1>10
<1>12. ResultsOK(new, results, d, 1..l + 1)
  BY <1>9, <1>11 DEF ResultsOK
<1> QED BY <1>6, <1>12

\* The results of a left message of join_asof().
LatestResults(log, m, n, s, how) ==
    LET found == {r.value : r \in {q \in GetLatest(s, m.key, m.stamp) : log[q.value].truthy}}
    IN  IF found # {} THEN {[left |-> n, right |-> r, at |-> n] : r \in found}
        ELSE IF how = "left" THEN {[left |-> n, right |-> NoRecord, at |-> n]}
        ELSE {}

\* A left message of join_asof() is joined.
LEMMA AsOfLeftKeeps ==
  ASSUME NEW log \in Seq(JoinMessage), NEW m, NEW new, NEW l, Grown(log, m, new, l),
         m.side = "left", NEW d, d.kind = "asof", d.grace \in Nat,
         NEW stores, StoresOK(log, stores, d), NEW results, ResultsOK(log, results, d, 1..l),
         NEW more, more = LatestResults(log, m, l + 1, stores["right"], d.how)
  PROVE  StoresOK(new, stores, d) /\ ResultsOK(new, results \cup more, d, 1..l + 1)
<1> DEFINE right == stores["right"]
<1>1. PICK found : found = {r.value : r \in {q \in GetLatest(right, m.key, m.stamp) :
                                                log[q.value].truthy}}
  OBVIOUS
<1>2. more = IF found # {} THEN {[left |-> l + 1, right |-> r, at |-> l + 1] : r \in found}
             ELSE IF d.how = "left" THEN {[left |-> l + 1, right |-> NoRecord, at |-> l + 1]}
             ELSE {}
  BY <1>1 DEF LatestResults
<1> USE <1>1, <1>2
<1>3. StoreOK(stores["right"], log, "right", d.grace, d.kind)
  BY DEF StoresOK
<1>4. l \in Nat /\ l = Len(log) /\ Len(new) = l + 1 /\ new[l + 1] = m /\ m \in JoinMessage
  BY DEF Grown
<1>5. StoreOK(stores["right"], new, "right", d.grace, d.kind)
  <2>1. m.side # "right"
    OBVIOUS
  <2> QED BY <1>3, <2>1, OtherMessage
<1>6. StoresOK(new, stores, d)
  BY <1>5 DEF StoresOK
<1>7. \A n \in found : n \in 1..l
  <2> SUFFICES ASSUME NEW r \in GetLatest(stores["right"], m.key, m.stamp)
               PROVE  r.value \in 1..l
    OBVIOUS
  <2>1. r \in Visible(stores["right"], m.key)
    BY DEF GetLatest
  <2>2. MessageRecord(r, log, "right", m.key, d.kind)
    BY <1>3, <2>1, VisibleRecords
  <2> QED BY <1>4, <2>2 DEF MessageRecord
<1>8. \A r \in more : ResultOK(r, l + 1, d) /\ r.at = l + 1 /\ r.left = l + 1
  <2>1. ASSUME NEW n \in 0..l, NEW r, r = [left |-> l + 1, right |-> n, at |-> l + 1]
        PROVE  ResultOK(r, l + 1, d) /\ r.at = l + 1 /\ r.left = l + 1
    BY <1>4, <2>1 DEF ResultOK
  <2>2. \A r \in more : \E n \in 0..l : r = [left |-> l + 1, right |-> n, at |-> l + 1]
    BY <1>4, <1>7 DEF NoRecord
  <2> QED BY <2>1, <2>2, Zenon
<1>9. ResultsOK(new, results \cup more, d, 1..l)
  BY <1>8, ResultsStay
<1>10. AsOfExact(new, results \cup more, l + 1, d.grace, d.how)
  <2>1. \A r \in results : r.left # l + 1
    BY <1>4 DEF ResultsOK, ResultOK
  <2>2. d.kind # "interval"
    OBVIOUS
  <2> QED BY <1>3, <2>1, <2>2, AsOfJoins, Zenon
<1>11. \A n \in 1..l + 1 : n \in 1..l \/ n = l + 1
  BY <1>4
<1>12. ResultsOK(new, results \cup more, d, 1..l + 1)
  BY <1>9, <1>10, <1>11 DEF ResultsOK
<1> QED BY <1>6, <1>12

\* A message of join_interval().
IntervalStep(m, n, side, d, stores, changed, more) ==
    LET matches == {r.value : r \in GetInterval(stores[Other(side)], m.key,
                                               m.stamp - Back(d, side), m.stamp + 1)}
    IN  /\ changed = [stores EXCEPT ![side] =
               SetForTimestamp(stores[side], m.key, m.stamp, n, n, d.grace)]
        /\ more = NewResults(side, n, matches, d.how)

\* A message of join_interval() is stored and joined.
LEMMA IntervalKeeps ==
  ASSUME NEW log \in Seq(JoinMessage), NEW m, NEW new, NEW l, Grown(log, m, new, l),
         NEW side \in Side, m.side = side, NEW d, d.kind = "interval", d.grace \in Nat,
         Back(d, side) \in Nat,
         NEW stores, StoresOK(log, stores, d), NEW results, ResultsOK(log, results, d, 1..l),
         NEW changed, NEW more, IntervalStep(m, l + 1, side, d, stores, changed, more)
  PROVE  StoresOK(new, changed, d) /\ ResultsOK(new, results \cup more, d, 1..l + 1)
<1>1. PICK reach \in Nat : reach = Back(d, side)
  OBVIOUS
<1>2. PICK t : t = SetForTimestamp(stores[side], m.key, m.stamp, l + 1, l + 1, d.grace)
  OBVIOUS
<1>3. PICK matches : matches = {r.value : r \in GetInterval(stores[Other(side)], m.key,
                                                           m.stamp - reach, m.stamp + 1)}
  OBVIOUS
<1>4. changed = [stores EXCEPT ![side] = t] /\ more = NewResults(side, l + 1, matches, d.how)
  BY <1>1, <1>2, <1>3 DEF IntervalStep
<1> USE <1>1, <1>2, <1>3, <1>4
<1>5. \A i \in Side : StoreOK(stores[i], log, i, d.grace, d.kind)
  BY DEF StoresOK
<1>6. l \in Nat /\ l = Len(log) /\ Len(new) = l + 1 /\ new[l + 1] = m /\ m \in JoinMessage
  BY DEF Grown
<1>7. StoreOK(t, new, side, d.grace, d.kind)
  <2>1. PICK c : c = IF d.kind = "interval" THEN l + 1 ELSE 0
    OBVIOUS
  <2>2. t = SetForTimestamp(stores[side], m.key, m.stamp, c, l + 1, d.grace)
    BY <2>1
  <2> QED BY <1>5, <2>1, <2>2, SetKeeps, Zenon
<1>8. \A i \in Side : i # side => StoreOK(stores[i], new, i, d.grace, d.kind)
  <2> TAKE i \in Side
  <2> HAVE i # side
  <2>1. StoreOK(stores[i], log, i, d.grace, d.kind) /\ m.side # i
    BY <1>5
  <2> QED BY <2>1, OtherMessage
<1>9. /\ changed[side] = t /\ \A i \in Side : i # side => changed[i] = stores[i]
      /\ changed = [i \in Side |-> changed[i]]
  BY DEF StoresOK
<1>10. StoresOK(new, changed, d)
  <2>1. \A i \in Side : StoreOK(changed[i], new, i, d.grace, d.kind)
    <3> TAKE i \in Side
    <3>1. CASE i = side
      BY <1>7, <1>9, <3>1
    <3>2. CASE i # side
      BY <1>8, <1>9, <3>2
    <3> QED BY <3>1, <3>2
  <2> QED BY <1>9, <2>1 DEF StoresOK
<1>11. Other(side) \in Side
  BY DEF Side, Other
<1>12. PICK s : s = stores[Other(side)]
  OBVIOUS
<1>13. StoreOK(s, log, Other(side), d.grace, d.kind)
  BY <1>5, <1>11, <1>12
<1>14. \A n \in matches : n \in 1..l
  <2> SUFFICES ASSUME NEW r \in GetInterval(s, m.key, m.stamp - reach, m.stamp + 1)
               PROVE  r.value \in 1..l
    BY <1>12
  <2>1. r \in Visible(s, m.key)
    BY DEF GetInterval
  <2>2. MessageRecord(r, log, Other(side), m.key, d.kind)
    BY <1>13, <2>1, VisibleRecords
  <2> QED BY <1>6, <2>2 DEF MessageRecord
<1>15. \A r \in more : \E n \in 0..l : r = ResultAt(side, l + 1, n)
  <2>1. NoRecord \in 0..l /\ \A n \in matches : n \in 0..l
    BY <1>6, <1>14 DEF NoRecord
  <2>2. more \subseteq {ResultAt(side, l + 1, i) : i \in matches \cup {NoRecord}}
    BY DEF NewResults
  <2> QED BY <2>1, <2>2
<1>16. ASSUME NEW n \in 0..l, NEW r, r = ResultAt(side, l + 1, n)
       PROVE  /\ ResultOK(r, l + 1, d) /\ r.at = l + 1
              /\ <<r.left, r.right>> = Pair(side, l + 1, n)
  <2>1. CASE side = "left"
    <3>1. r = [left |-> l + 1, right |-> n, at |-> l + 1] /\ Pair(side, l + 1, n) = <<l + 1, n>>
      BY <1>16, <2>1 DEF ResultAt, Pair
    <3>2. r.left = l + 1 /\ r.right = n /\ r.at = l + 1
      BY <3>1
    <3> QED BY <1>6, <3>1, <3>2 DEF ResultOK
  <2>2. CASE side # "left"
    <3>1. r = [left |-> n, right |-> l + 1, at |-> l + 1] /\ Pair(side, l + 1, n) = <<n, l + 1>>
      BY <1>16, <2>2 DEF ResultAt, Pair
    <3>2. r.left = n /\ r.right = l + 1 /\ r.at = l + 1
      BY <3>1
    <3> QED BY <1>6, <3>1, <3>2 DEF ResultOK
  <2> QED BY <2>1, <2>2
<1>17. \A r \in more : ResultOK(r, l + 1, d) /\ r.at = l + 1
  <2> TAKE r \in more
  <2>1. PICK n \in 0..l : r = ResultAt(side, l + 1, n)
    BY <1>15
  <2> QED BY <1>16, <2>1
<1>18. ResultsOK(new, results \cup more, d, 1..l)
  BY <1>17, ResultsStay
<1>19. PICK both : both = results \cup more
  OBVIOUS
<1>20. {q \in both : q.at = l + 1} = more
  <2>1. \A r \in results : r.at # l + 1
    BY <1>6 DEF ResultsOK, ResultOK
  <2> QED BY <1>17, <1>19, <2>1
<1>21. PICK pairs : pairs = {<<r.left, r.right>> : r \in {q \in both : q.at = l + 1}}
  OBVIOUS
<1>22. pairs = {<<r.left, r.right>> : r \in more}
  BY <1>20, <1>21
<1>23. pairs = PairsAt(side, l + 1, matches, d.how)
  <2>1. ASSUME NEW N, N \subseteq 0..l, more = {ResultAt(side, l + 1, i) : i \in N}
        PROVE  pairs = {Pair(side, l + 1, i) : i \in N}
    <3>1. \A p \in pairs : \E i \in N : p = Pair(side, l + 1, i)
      <4> TAKE p \in pairs
      <4>1. PICK r \in more : p = <<r.left, r.right>>
        BY <1>22
      <4>2. PICK i \in N : r = ResultAt(side, l + 1, i)
        BY <2>1
      <4>3. <<r.left, r.right>> = Pair(side, l + 1, i)
        BY <1>16, <2>1, <4>2
      <4> QED BY <4>1, <4>3
    <3>2. \A i \in N : Pair(side, l + 1, i) \in pairs
      <4> TAKE i \in N
      <4>1. PICK r : r = ResultAt(side, l + 1, i)
        OBVIOUS
      <4>2. r \in more /\ <<r.left, r.right>> = Pair(side, l + 1, i)
        BY <1>16, <2>1, <4>1
      <4> QED BY <1>22, <4>2
    <3> QED BY <3>1, <3>2
  <2>2. CASE matches # {}
    <3>1. matches \subseteq 0..l /\ more = {ResultAt(side, l + 1, i) : i \in matches}
      BY <1>6, <1>14, <2>2 DEF NewResults
    <3>2. pairs = {Pair(side, l + 1, i) : i \in matches}
      BY <2>1, <3>1
    <3> QED BY <2>2, <3>2 DEF PairsAt
  <2>3. CASE matches = {} /\ d.how \in {side, "outer"}
    <3>1. PICK N : N = {NoRecord}
      OBVIOUS
    <3>2. N \subseteq 0..l
      BY <1>6, <3>1 DEF NoRecord
    <3>3. more = {ResultAt(side, l + 1, i) : i \in N}
      BY <2>3, <3>1 DEF NewResults
    <3>4. pairs = {Pair(side, l + 1, i) : i \in N}
      BY <2>1, <3>2, <3>3
    <3> QED BY <2>3, <3>1, <3>4 DEF PairsAt
  <2>4. CASE matches = {} /\ ~(d.how \in {side, "outer"})
    <3>1. pairs = {}
      BY <1>22, <2>4 DEF NewResults
    <3> QED BY <2>4, <3>1 DEF PairsAt
  <2> QED BY <2>2, <2>3, <2>4
<1>24. IntervalExact(new, both, l + 1, d.grace, reach, d.how)
  BY <1>12, <1>13, <1>21, <1>23, IntervalJoins, Zenon
<1>25. IntervalExact(new, results \cup more, l + 1, d.grace, Back(d, new[l + 1].side), d.how)
  BY <1>6, <1>19, <1>24, Zenon
<1>26. \A n \in 1..l + 1 : n \in 1..l \/ n = l + 1
  BY <1>6
<1>27. ResultsOK(new, results \cup more, d, 1..l + 1)
  BY <1>18, <1>25, <1>26 DEF ResultsOK
<1> QED BY <1>10, <1>27

\* A commit of the stores of a join.
LEMMA CommitKeepsStores ==
  ASSUME Extends = {}, NEW log \in Seq(JoinMessage), NEW d, d.grace \in Nat,
         NEW stores, StoresOK(log, stores, d),
         NEW changed, changed = [side \in Side |-> CommitStore(stores[side])]
  PROVE  StoresOK(log, changed, d)
<1>1. /\ \A side \in Side : changed[side] = CommitStore(stores[side])
      /\ changed = [side \in Side |-> changed[side]]
      /\ "left" \in Side /\ "right" \in Side
  BY DEF Side
<1>2. ASSUME d.kind = "asof"
      PROVE  /\ changed["left"] \in JoinStores
             /\ changed["left"].stored = {} /\ changed["left"].updated = {}
             /\ StoreOK(changed["right"], log, "right", d.grace, d.kind)
  <2>1. PICK s : s = stores["left"]
    OBVIOUS
  <2>2. s \in JoinStores /\ s.stored = {} /\ s.updated = {}
    BY <1>2, <2>1 DEF StoresOK
  <2>3. PICK t : t = CommitStore(s)
    OBVIOUS
  <2>4. changed["left"] \in JoinStores
        /\ changed["left"].stored = {} /\ changed["left"].updated = {}
    <3>1. t \in JoinStores /\ t.updated = {} /\ t.stored = All(t)
      BY <2>2, <2>3, CommitFields
    <3>2. All(t) \subseteq All(s)
      BY <2>2, <2>3, CommitFields
    <3>3. All(s) = {}
      BY <2>2 DEF All, Over
    <3> QED BY <1>1, <2>1, <2>3, <3>1, <3>2, <3>3
  <2>5. StoreOK(changed["right"], log, "right", d.grace, d.kind)
    BY <1>1, <1>2, CommitKeeps DEF StoresOK
  <2> QED BY <2>4, <2>5
<1>3. ASSUME d.kind = "interval", NEW side \in Side
      PROVE  StoreOK(changed[side], log, side, d.grace, d.kind)
  BY <1>1, <1>3, CommitKeeps DEF StoresOK
<1> QED BY <1>1, <1>2, <1>3 DEF StoresOK

-----------------------------------------------------------------------------
(* The invariant. *)

\* The invariant of joins.
JoinInv ==
    /\ definition \in Definitions
    /\ Joined =>
          /\ arrived \in Seq(JoinMessage)
          /\ StoresOK(arrived, joinStore, definition)
          /\ ResultsOK(arrived, joined, definition, 1..Len(arrived))

\* A join is nothing else.
LEMMA JoinedDefinition ==
  ASSUME definition \in Definitions, Joined
  PROVE  /\ JoinDefinition(definition) /\ definition.kind \in {"asof", "interval"}
         /\ Keys(definition) \subseteq Key /\ Stamps(definition) \subseteq Nat
         /\ ~Windowed /\ ~Aggregating /\ ~Stating /\ ~TableLookup /\ ~Configured
BY DefinitionAssumption DEF Stating, AggregatesDefinition, StateDefinition, TableDefinition,
   ConfigurationDefinition, Windowed, Aggregating, Joined, TableLookup, Configured

\* Nothing is stored or joined at first.
LEMMA InitJoins == Init => JoinInv
<1> SUFFICES ASSUME Init, Joined
             PROVE  /\ arrived \in Seq(JoinMessage)
                    /\ StoresOK(arrived, joinStore, definition)
                    /\ ResultsOK(arrived, joined, definition, 1..Len(arrived))
  BY DEF Init, JoinInv
<1>1. arrived = <<>> /\ joined = {} /\ joinStore = [side \in Side |-> EmptyStore]
  BY DEF Init, JoinInit
<1>2. PICK log : log = arrived
  OBVIOUS
<1>3. log \in Seq(JoinMessage) /\ Len(log) = 0 /\ 1..Len(log) = {}
  BY <1>1, <1>2
<1>4. PICK s : s = EmptyStore
  OBVIOUS
<1>5. s \in JoinStores /\ s.stored = {} /\ s.updated = {} /\ \A k \in Key : s.eligible[k] = Unknown
  BY <1>4 DEF EmptyStore, JoinStores, Unknown
<1>6. All(s) = {}
  BY <1>5 DEF All, Over
<1>7. ASSUME NEW side, NEW g, NEW kind
      PROVE  StoreOK(s, log, side, g, kind)
  <2>1. \A k \in Key : s.eligible[k] <= 0 /\ ~(s.eligible[k] # Unknown)
    BY <1>5 DEF Unknown
  <2> QED BY <1>3, <1>5, <1>6, <2>1 DEF StoreOK
<1>8. /\ \A side \in Side : joinStore[side] = s
      /\ "left" \in Side /\ "right" \in Side
      /\ joinStore = [side \in Side |-> joinStore[side]]
  BY <1>1, <1>4 DEF Side
<1>9. StoresOK(log, joinStore, definition)
  BY <1>5, <1>7, <1>8 DEF StoresOK
<1>10. ResultsOK(log, joined, definition, 1..Len(log))
  BY <1>1, <1>3 DEF ResultsOK
<1> QED BY <1>2, <1>3, <1>9, <1>10

\* A message of a side is processed.
LEMMA MessageKeepsJoins ==
  ASSUME JoinInv, Joined,
         NEW side \in Side, NEW key \in Key, NEW stamp \in Nat, NEW truthy \in BOOLEAN,
         ProcessJoin(side, key, stamp, truthy)
  PROVE  JoinInv'
<1>1. PICK d : d = definition
  OBVIOUS
<1>2. definition' = d /\ d \in Definitions
  BY <1>1 DEF ProcessJoin, JoinInv
<1>3. JoinDefinition(d) /\ d.kind \in {"asof", "interval"}
  BY <1>1, JoinedDefinition DEF JoinInv
<1>4. d.grace \in Nat
  BY <1>3 DEF JoinDefinition
<1>5. PICK log : log = arrived
  OBVIOUS
<1>6. PICK m : m = [side |-> side, key |-> key, stamp |-> stamp, truthy |-> truthy]
  OBVIOUS
<1>7. m \in JoinMessage /\ m.side = side /\ m.key = key /\ m.stamp = stamp
  BY <1>6 DEF JoinMessage
<1>8. PICK new : new = Append(log, m)
  OBVIOUS
<1>9. arrived' = new
  BY <1>5, <1>6, <1>8 DEF ProcessJoin, Arrives
<1>10. PICK stores : stores = joinStore
  OBVIOUS
<1>11. PICK results : results = joined
  OBVIOUS
<1>12. PICK l \in Nat : l = Len(log)
  BY <1>5 DEF JoinInv
<1>13. Incoming = l + 1
  BY <1>5, <1>12 DEF Incoming
<1>14. /\ log \in Seq(JoinMessage)
       /\ StoresOK(log, stores, d)
       /\ ResultsOK(log, results, d, 1..l)
  BY <1>1, <1>5, <1>10, <1>11, <1>12 DEF JoinInv
<1>15. Grown(log, m, new, l) /\ new \in Seq(JoinMessage)
  BY <1>7, <1>8, <1>12, <1>14, Grows
<1>16. SUFFICES StoresOK(new, joinStore', d) /\ ResultsOK(new, joined', d, 1..l + 1)
  BY <1>2, <1>9, <1>15 DEF JoinInv, Grown
<1>17. CASE d.kind = "asof" /\ side = "right"
  <2>1. /\ joinStore' = [stores EXCEPT !["right"] =
               SetForTimestamp(stores["right"], key, stamp, 0, l + 1, d.grace)]
        /\ joined' = results
    BY <1>1, <1>10, <1>11, <1>13, <1>17 DEF ProcessJoin, AsOf, Interval, AsOfRight
  <2>2. PICK t : t = SetForTimestamp(stores["right"], m.key, m.stamp, 0, l + 1, d.grace)
    OBVIOUS
  <2>3. PICK changed : changed = [stores EXCEPT !["right"] = t]
    OBVIOUS
  <2>4. StoresOK(new, changed, d) /\ ResultsOK(new, results, d, 1..l + 1)
    BY <1>4, <1>7, <1>14, <1>15, <1>17, <2>2, <2>3, AsOfRightKeeps
  <2>5. joinStore' = changed
    BY <1>7, <2>1, <2>2, <2>3
  <2> QED BY <2>1, <2>4, <2>5
<1>18. CASE d.kind = "asof" /\ side = "left"
  <2>1. PICK found : found = {r.value : r \in {q \in GetLatest(stores["right"], m.key, m.stamp) :
                                                 log[q.value].truthy}}
    OBVIOUS
  <2>2. PICK more :
           more = IF found # {} THEN {[left |-> l + 1, right |-> r, at |-> l + 1] : r \in found}
                  ELSE IF d.how = "left" THEN {[left |-> l + 1, right |-> NoRecord, at |-> l + 1]}
                  ELSE {}
    OBVIOUS
  <2>3. AsOfLeft(key, stamp)
    BY <1>1, <1>18 DEF ProcessJoin, AsOf, Interval
  <2>4. found = {r.value : r \in {q \in GetLatest(joinStore["right"], key, stamp) :
                                    arrived[q.value].truthy}}
    BY <1>5, <1>7, <1>10, <2>1
  <2>5. joinStore' = stores
    BY <1>10, <2>3 DEF AsOfLeft
  <2>6. joined' = results \cup more
    <3>1. joined' = joined \cup
              IF found # {} THEN {Merged(Incoming, r) : r \in found}
              ELSE IF definition.how = "left" THEN {Merged(Incoming, NoRecord)}
              ELSE {}
      BY <2>3, <2>4, Zenon DEF AsOfLeft
    <3>2. \A r : Merged(Incoming, r) = [left |-> l + 1, right |-> r, at |-> l + 1]
      BY <1>13 DEF Merged
    <3> QED BY <1>1, <1>11, <2>2, <3>1, <3>2
  <2>7. StoresOK(new, stores, d) /\ ResultsOK(new, results \cup more, d, 1..l + 1)
    <3>1. more = LatestResults(log, m, l + 1, stores["right"], d.how)
      BY <2>1, <2>2, Zenon DEF LatestResults
    <3> QED BY <1>4, <1>7, <1>14, <1>15, <1>18, <3>1, AsOfLeftKeeps
  <2> QED BY <2>5, <2>6, <2>7
<1>19. CASE d.kind = "interval"
  <2>1. PICK reach : reach = Back(d, side)
    OBVIOUS
  <2>2. reach \in Nat
    BY <1>3, <1>4, <1>19, <2>1 DEF JoinDefinition, Back
  <2>3. PICK t : t = SetForTimestamp(stores[side], m.key, m.stamp, l + 1, l + 1, d.grace)
    OBVIOUS
  <2>4. PICK changed : changed = [stores EXCEPT ![side] = t]
    OBVIOUS
  <2>5. PICK matches : matches = {r.value : r \in GetInterval(stores[Other(side)], m.key,
                                                             m.stamp - reach, m.stamp + 1)}
    OBVIOUS
  <2>6. PICK more : more = NewResults(side, l + 1, matches, d.how)
    OBVIOUS
  <2>7. IntervalRecord(side, key, stamp)
    BY <1>1, <1>19 DEF ProcessJoin, AsOf, Interval
  <2>8. reach = Reach(side)
    BY <1>1, <2>1 DEF Reach, Back
  <2>9. matches = {r.value : r \in GetInterval(joinStore[Other(side)], key,
                                              stamp - Reach(side), stamp + 1)}
    BY <1>7, <1>10, <2>5, <2>8
  <2>10. joinStore' = changed
    <3>1. joinStore' = [joinStore EXCEPT ![side] =
              SetForTimestamp(joinStore[side], key, stamp, Incoming, Incoming, definition.grace)]
      BY <2>7 DEF IntervalRecord
    <3> QED BY <1>1, <1>7, <1>10, <1>13, <2>3, <2>4, <3>1
  <2>11. joined' = results \cup more
    <3>1. \A i : (IF side = "left" THEN Merged(Incoming, i) ELSE Merged(i, Incoming)) =
                ResultAt(side, l + 1, i)
      BY <1>13 DEF Merged, ResultAt
    <3>2. PICK R : R = IF matches # {}
                       THEN {IF side = "left" THEN Merged(Incoming, i) ELSE Merged(i, Incoming) :
                                i \in matches}
                       ELSE IF EmitsUnmatched(side)
                       THEN {IF side = "left" THEN Merged(Incoming, NoRecord)
                                              ELSE Merged(NoRecord, Incoming)}
                       ELSE {}
      OBVIOUS
    <3>3. joined' = joined \cup R
      BY <2>7, <2>9, <3>2, Zenon DEF IntervalRecord
    <3>4. R = more
      <4>1. CASE matches # {}
        BY <2>6, <3>1, <3>2, <4>1, Zenon DEF NewResults
      <4>2. CASE matches = {}
        BY <1>1, <2>6, <3>1, <3>2, <4>2, Zenon DEF EmitsUnmatched, NewResults
      <4> QED BY <4>1, <4>2
    <3> QED BY <1>11, <3>3, <3>4
  <2>12. StoresOK(new, changed, d) /\ ResultsOK(new, results \cup more, d, 1..l + 1)
    <3>1. IntervalStep(m, l + 1, side, d, stores, changed, more)
      BY <2>1, <2>3, <2>4, <2>5, <2>6, Zenon DEF IntervalStep
    <3> QED BY <1>4, <1>7, <1>14, <1>15, <1>19, <2>1, <2>2, <3>1, IntervalKeeps
  <2> QED BY <2>10, <2>11, <2>12
<1> QED BY <1>3, <1>17, <1>18, <1>19 DEF Side

\* A step of a join keeps the invariant.
LEMMA JoinNextKeeps ==
  ASSUME Extends = {}, JoinInv, JoinNext
  PROVE  JoinInv'
<1>1. Joined
  BY DEF JoinNext
<1>2. CASE CommitJoin
  <2>1. PICK d : d = definition
    OBVIOUS
  <2>2. definition' = d /\ d \in Definitions /\ arrived' = arrived /\ joined' = joined
    BY <1>2, <2>1 DEF CommitJoin, JoinInv
  <2>3. PICK log : log = arrived
    OBVIOUS
  <2>4. PICK stores : stores = joinStore
    OBVIOUS
  <2>5. PICK changed : changed = [side \in Side |-> CommitStore(stores[side])]
    OBVIOUS
  <2>6. joinStore' = changed
    BY <1>2, <2>4, <2>5 DEF CommitJoin
  <2>7. log \in Seq(JoinMessage) /\ StoresOK(log, stores, d)
    BY <1>1, <2>1, <2>3, <2>4 DEF JoinInv
  <2>8. d.grace \in Nat
    BY <1>1, <2>1, JoinedDefinition DEF JoinDefinition, JoinInv
  <2>9. StoresOK(log, changed, d)
    BY <2>5, <2>7, <2>8, CommitKeepsStores
  <2> QED BY <1>1, <2>1, <2>2, <2>3, <2>6, <2>9 DEF JoinInv, Joined
<1>3. CASE \E side \in Side, key \in Keys(definition), stamp \in Stamps(definition) :
              \E truthy \in IF side = "right" THEN definition.truthy ELSE {TRUE} :
                 ProcessJoin(side, key, stamp, truthy)
  <2>1. PICK side \in Side, key \in Keys(definition), stamp \in Stamps(definition) :
            \E truthy \in IF side = "right" THEN definition.truthy ELSE {TRUE} :
               ProcessJoin(side, key, stamp, truthy)
    BY <1>3
  <2>2. PICK truthy \in IF side = "right" THEN definition.truthy ELSE {TRUE} :
            ProcessJoin(side, key, stamp, truthy)
    BY <2>1
  <2>3. /\ JoinDefinition(definition) /\ Keys(definition) \subseteq Key
        /\ Stamps(definition) \subseteq Nat
    BY <1>1, JoinedDefinition DEF JoinInv
  <2>4. key \in Key /\ stamp \in Nat /\ truthy \in BOOLEAN
    BY <2>3 DEF JoinDefinition
  <2> QED BY <1>1, <2>2, <2>4, MessageKeepsJoins
<1> QED BY <1>2, <1>3 DEF JoinNext

\* The other operations of a dataframe do not join.
LEMMA OthersKeepJoins ==
  ASSUME JoinInv, StateNext \/ WindowNext \/ AggregationNext \/ TableNext \/ ConfigNext
  PROVE  JoinInv'
<1>1. ~Joined
  BY JoinedDefinition DEF JoinInv, StateNext, WindowNext, AggregationNext, TableNext, ConfigNext
<1>2. definition' = definition
  <2>1. StateNext => definition' = definition
    BY DEF StateNext
  <2> QED BY <2>1, DefinitionStays
<1> QED BY <1>1, <1>2 DEF JoinInv, Joined

\* The invariant of joins holds, if no key extends another one.
LEMMA JoinsHold ==
  ASSUME Extends = {}
  PROVE  Spec => []JoinInv
<1>1. Init => JoinInv
  BY InitJoins
<1>2. JoinInv /\ [Next]_dataframeVars => JoinInv'
  <2> SUFFICES ASSUME JoinInv, [Next]_dataframeVars PROVE JoinInv'
    OBVIOUS
  <2>1. CASE JoinNext
    BY <2>1, JoinNextKeeps
  <2>2. CASE StateNext \/ WindowNext \/ AggregationNext \/ TableNext \/ ConfigNext
    BY <2>2, OthersKeepJoins
  <2>3. CASE UNCHANGED dataframeVars
    <3>1. /\ definition' = definition /\ arrived' = arrived
          /\ joinStore' = joinStore /\ joined' = joined
      BY <2>3 DEF dataframeVars, joinVars
    <3> QED BY <3>1 DEF JoinInv, Joined
  <2> QED BY <2>1, <2>2, <2>3 DEF Next
<1> QED BY <1>1, <1>2, PTL DEF Spec

-----------------------------------------------------------------------------
(* What follows from it. *)

\* The messages that came before are those of the log.
LEMMA BeforeIs ==
  ASSUME arrived \in Seq(JoinMessage), NEW log, log = arrived
  PROVE  /\ Message = 1..Len(log)
         /\ \A side, key, last : Before(side, key, last) = From(log, side, key, last)
         /\ \A n, last : Eligible(n, last) <=> Timely(log, n, last, definition.grace)
         /\ \A n : Stamp(n) = log[n].stamp /\ arrived[n] = log[n]
<1>1. Message = 1..Len(log)
  BY DEF Message
<1>2. \A side, key, last : Before(side, key, last) = From(log, side, key, last)
  BY <1>1 DEF Before, MessagesOf, From
<1>3. \A n : Stamp(n) = log[n].stamp
  BY DEF Stamp
<1>4. \A n, last : Eligible(n, last) <=> Timely(log, n, last, definition.grace)
  BY <1>2, <1>3 DEF Eligible, Timely
<1> QED BY <1>1, <1>2, <1>3, <1>4

\* Left messages meet the latest right ones.
LEMMA AsOfFollows ==
  ASSUME JoinInv
  PROVE  AsOfMatchesLatest
<1> SUFFICES ASSUME AsOf PROVE AsOfMatchesLatest
  BY DEF AsOfMatchesLatest
<1>1. PICK log : log = arrived
  OBVIOUS
<1>2. PICK d : d = definition
  OBVIOUS
<1>3. /\ log \in Seq(JoinMessage) /\ d.kind = "asof"
      /\ ResultsOK(log, joined, d, 1..Len(log))
  BY <1>1, <1>2 DEF JoinInv, Joined, AsOf
<1>4. /\ Message = 1..Len(log)
      /\ \A side, key, last : Before(side, key, last) = From(log, side, key, last)
      /\ \A n, last : Eligible(n, last) <=> Timely(log, n, last, d.grace)
      /\ \A n : Stamp(n) = log[n].stamp /\ arrived[n] = log[n]
  BY <1>1, <1>2, <1>3, BeforeIs
<1> DEFINE Results(n) == {r \in joined : r.left = n}
           Rights(n) == {m \in Before("right", arrived[n].key, n) : Stamp(m) <= Stamp(n)}
           Latest(n, m, rights) ==
              \A q \in rights : Eligible(q, n) =>
                 Stamp(q) < Stamp(m) \/ (Stamp(q) = Stamp(m) /\ q <= m)
           Follows(n, results, rights) ==
              /\ Cardinality(results) <= 1
              /\ \A r \in results :
                    r.right # NoRecord => r.right \in rights /\ Latest(n, r.right, rights)
              /\ \A m \in rights :
                    Latest(n, m, rights) /\ Eligible(m, n) /\ arrived[m].truthy =>
                        \E r \in results : r.right = m
              /\ definition.how = "left" => results # {}
<1>5. ASSUME NEW n \in {m \in Message : arrived[m].side = "left"},
             NEW results, results = Results(n), NEW rights, rights = Rights(n)
      PROVE  Follows(n, results, rights)
  <2>1. AsOfExact(log, joined, n, d.grace, d.how)
    BY <1>1, <1>3, <1>4 DEF ResultsOK
  <2>2. rights = {m \in From(log, "right", log[n].key, n) : log[m].stamp <= log[n].stamp}
    BY <1>4, <1>5
  <2>3. /\ results = {} \/ \E r : results = {r}
        /\ \A r \in results : r.right # NoRecord =>
              /\ r.right \in rights
              /\ \A q \in rights : Timely(log, q, n, d.grace) =>
                    \/ log[q].stamp < log[r.right].stamp
                    \/ log[q].stamp = log[r.right].stamp /\ q <= r.right
        /\ \A i \in rights :
              /\ \A q \in rights : Timely(log, q, n, d.grace) =>
                    \/ log[q].stamp < log[i].stamp
                    \/ log[q].stamp = log[i].stamp /\ q <= i
              /\ Timely(log, i, n, d.grace) /\ log[i].truthy
              => \E r \in results : r.right = i
        /\ d.how = "left" => results # {}
    BY <1>5, <2>1, <2>2, Zenon DEF AsOfExact
  <2>4. Cardinality(results) <= 1
    <3>1. Cardinality({}) = 0 /\ \A r : Cardinality({r}) = 1
      BY FS_EmptySet, FS_Singleton
    <3>2. Cardinality(results) \in {0, 1}
      BY <2>3, <3>1, Zenon
    <3> QED BY <3>2
  <2>5. /\ \A r \in results : r.right # NoRecord =>
              /\ r.right \in rights
              /\ \A q \in rights : Eligible(q, n) =>
                    Stamp(q) < Stamp(r.right) \/ (Stamp(q) = Stamp(r.right) /\ q <= r.right)
        /\ \A i \in rights :
              /\ \A q \in rights : Eligible(q, n) =>
                    Stamp(q) < Stamp(i) \/ (Stamp(q) = Stamp(i) /\ q <= i)
              /\ Eligible(i, n) /\ arrived[i].truthy
              => \E r \in results : r.right = i
        /\ definition.how = "left" => results # {}
    BY <1>2, <1>4, <2>3
  <2> QED BY <2>4, <2>5
<1>6. \A n \in {m \in Message : arrived[m].side = "left"} : Follows(n, Results(n), Rights(n))
  <2> HIDE DEF Results, Rights, Follows
  <2> QED BY <1>5
<1> QED BY <1>6, Zenon DEF AsOfMatchesLatest

\* Pairs are joined as the definition says.
LEMMA IntervalFollows ==
  ASSUME JoinInv
  PROVE  IntervalPairsExact
<1> SUFFICES ASSUME Interval PROVE IntervalPairsExact
  BY DEF IntervalPairsExact
<1>1. PICK log : log = arrived
  OBVIOUS
<1>2. PICK d : d = definition
  OBVIOUS
<1>3. /\ log \in Seq(JoinMessage) /\ d.kind = "interval"
      /\ ResultsOK(log, joined, d, 1..Len(log))
  BY <1>1, <1>2 DEF JoinInv, Joined, Interval
<1>4. /\ Message = 1..Len(log)
      /\ \A side, key, last : Before(side, key, last) = From(log, side, key, last)
      /\ \A n, last : Eligible(n, last) <=> Timely(log, n, last, d.grace)
      /\ \A n : Stamp(n) = log[n].stamp /\ arrived[n] = log[n]
  BY <1>1, <1>2, <1>3, BeforeIs
<1> DEFINE Pairs(n) == {<<r.left, r.right>> : r \in {q \in joined : q.at = n}}
           Near(n, side) == {m \in Before(Other(side), arrived[n].key, n) :
                                Stamp(m) \in Stamp(n) - Reach(side)..Stamp(n)}
           Sure(n, near) == {m \in near : Eligible(m, n)}
           Both(n, side, m) == IF side = "left" THEN <<n, m>> ELSE <<m, n>>
           Follows(n, side, pairs, near, sure) ==
              /\ {Both(n, side, m) : m \in sure} \subseteq pairs
              /\ pairs \subseteq
                    {Both(n, side, m) : m \in near} \cup {Both(n, side, NoRecord)}
              /\ Both(n, side, NoRecord) \in pairs <=>
                    pairs = {Both(n, side, NoRecord)} /\ EmitsUnmatched(side)
              /\ sure = {} /\ EmitsUnmatched(side) => pairs # {}
<1>5. ASSUME NEW n \in Message, NEW side, side = arrived[n].side,
             NEW pairs, pairs = Pairs(n), NEW near, near = Near(n, side),
             NEW sure, sure = Sure(n, near)
      PROVE  Follows(n, side, pairs, near, sure)
  <2>1. IntervalExact(log, joined, n, d.grace, Back(d, log[n].side), d.how)
    BY <1>3, <1>4 DEF ResultsOK
  <2>2. Back(d, log[n].side) = Reach(side)
    BY <1>2, <1>4, <1>5 DEF Back, Reach
  <2>3. near = {m \in From(log, Other(side), log[n].key, n) :
                   log[m].stamp \in log[n].stamp - Reach(side)..log[n].stamp}
    BY <1>4, <1>5
  <2>4. sure = {m \in near : Timely(log, m, n, d.grace)}
    BY <1>4, <1>5
  <2>5. /\ {Pair(side, n, m) : m \in sure} \subseteq pairs
        /\ pairs \subseteq {Pair(side, n, m) : m \in near} \cup {Pair(side, n, NoRecord)}
        /\ Pair(side, n, NoRecord) \in pairs <=>
              pairs = {Pair(side, n, NoRecord)} /\ d.how \in {side, "outer"}
        /\ sure = {} /\ d.how \in {side, "outer"} => pairs # {}
    <3>1. side = log[n].side
      BY <1>4, <1>5
    <3> QED BY <1>5, <2>1, <2>2, <2>3, <2>4, <3>1, Zenon DEF IntervalExact
  <2> QED BY <1>2, <2>5, Zenon DEF Pair, EmitsUnmatched
<1>6. \A n \in Message :
         Follows(n, arrived[n].side, Pairs(n), Near(n, arrived[n].side),
                 Sure(n, Near(n, arrived[n].side)))
  <2> HIDE DEF Pairs, Near, Sure, Follows
  <2> QED BY <1>5
<1> QED BY <1>6, Zenon DEF IntervalPairsExact

\* In a log that is in order, a later message has no earlier timestamp.
LEMMA InOrder ==
  ASSUME NEW log \in Seq(JoinMessage),
         \A n \in 1..Len(log) - 1 : log[n].stamp <= log[n + 1].stamp,
         NEW n \in 1..Len(log), NEW m \in 1..n
  PROVE  log[m].stamp <= log[n].stamp
<1>1. \A i \in 1..Len(log) : log[i].stamp \in Nat
  <2> TAKE i \in 1..Len(log)
  <2>1. log[i] \in JoinMessage
    OBVIOUS
  <2> QED BY <2>1 DEF JoinMessage
<1> DEFINE B == {i \in m..n : ~(log[m].stamp <= log[i].stamp)}
<1>2. SUFFICES ASSUME B # {} PROVE FALSE
  OBVIOUS
<1>3. B \subseteq Nat
  OBVIOUS
<1>4. PICK b \in B : \A i \in B : b <= i
  <2> HIDE DEF B
  <2> QED BY <1>2, <1>3, Least, Zenon
<1>5. b \in m..n /\ ~(log[m].stamp <= log[b].stamp)
  OBVIOUS
<1>6. b # m
  BY <1>1, <1>5
<1>7. b - 1 \in m..n /\ b - 1 \in 1..Len(log) - 1 /\ ~(b <= b - 1)
  BY <1>5, <1>6
<1>8. log[m].stamp <= log[b - 1].stamp
  BY <1>4, <1>7
<1>9. log[b - 1].stamp <= log[b].stamp
  <2>1. log[b - 1].stamp <= log[(b - 1) + 1].stamp
    BY <1>7
  <2>2. (b - 1) + 1 = b
    BY <1>5
  <2> QED BY <2>1, <2>2
<1>10. log[m].stamp \in Nat /\ log[b].stamp \in Nat /\ log[b - 1].stamp \in Nat
  BY <1>1, <1>5, <1>7
<1> QED BY <1>5, <1>8, <1>9, <1>10

\* Messages in order lose no match.
LEMMA InOrderFollows ==
  ASSUME JoinInv
  PROVE  InOrderJoinComplete
<1> SUFFICES ASSUME Interval, definition.forward <= definition.grace,
                    \A n \in 1..Len(arrived) - 1 : Stamp(n) <= Stamp(n + 1),
                    NEW n \in Message,
                    NEW m \in Before(Other(arrived[n].side), arrived[n].key, n),
                    Stamp(n) - Stamp(m) <= Reach(arrived[n].side)
             PROVE  \E r \in joined : r.at = n /\ {r.left, r.right} = {n, m}
  BY DEF InOrderJoinComplete
<1>1. PICK log : log = arrived
  OBVIOUS
<1>2. PICK g : g = definition.grace
  OBVIOUS
<1>3. log \in Seq(JoinMessage)
  BY <1>1 DEF JoinInv, Joined, Interval
<1>4. /\ Message = 1..Len(log)
      /\ \A side, key, last : Before(side, key, last) = From(log, side, key, last)
      /\ \A i, last : Eligible(i, last) <=> Timely(log, i, last, g)
      /\ \A i : Stamp(i) = log[i].stamp /\ arrived[i] = log[i]
  BY <1>1, <1>2, <1>3, BeforeIs
<1>5. PICK side : side = arrived[n].side
  OBVIOUS
<1>6. PICK key : key = arrived[n].key
  OBVIOUS
<1>7. PICK reach : reach = Reach(side)
  OBVIOUS
<1>8. g \in Nat /\ reach \in Nat /\ reach <= g
  <2>1. JoinDefinition(definition) /\ definition.kind = "interval"
    BY JoinedDefinition DEF JoinInv, Joined, Interval
  <2> QED BY <1>2, <1>7, <2>1 DEF JoinDefinition, Reach
<1>9. PICK F : F = From(log, Other(side), key, n)
  OBVIOUS
<1>10. m \in F /\ log[n].stamp - log[m].stamp <= reach
  BY <1>4, <1>5, <1>6, <1>7, <1>9
<1>11. \A i \in F : i \in 1..n /\ log[i].stamp <= log[n].stamp /\ log[i].stamp \in Nat
  <2> TAKE i \in F
  <2>1. i \in 1..n /\ i \in 1..Len(log)
    BY <1>4, <1>9 DEF From
  <2>2. log[i] \in JoinMessage
    BY <1>3, <2>1
  <2>3. \A j \in 1..Len(log) - 1 : log[j].stamp <= log[j + 1].stamp
    BY <1>1, <1>4
  <2>4. log[i].stamp <= log[n].stamp
    BY <1>3, <1>4, <2>1, <2>3, InOrder
  <2> QED BY <2>1, <2>2, <2>4 DEF JoinMessage
<1>12. log[n].stamp \in Nat
  <2>1. log[n] \in JoinMessage
    BY <1>3, <1>4
  <2> QED BY <2>1 DEF JoinMessage
<1>13. Timely(log, m, n, g)
  <2>1. log[m].side = Other(side) /\ log[m].key = key
    BY <1>9, <1>10 DEF From
  <2>2. \A i \in F : log[m].stamp >= log[i].stamp - g
    <3> TAKE i \in F
    <3>1. log[i].stamp <= log[n].stamp /\ log[i].stamp \in Nat /\ log[m].stamp \in Nat
      BY <1>10, <1>11
    <3> QED BY <1>8, <1>10, <1>12, <3>1
  <2> QED BY <1>9, <2>1, <2>2 DEF Timely
<1>14. log[m].stamp \in log[n].stamp - reach..log[n].stamp
  BY <1>8, <1>10, <1>11, <1>12
<1>15. PICK pairs : pairs = {<<r.left, r.right>> : r \in {q \in joined : q.at = n}}
  OBVIOUS
<1>16. Pair(side, n, m) \in pairs
  <2>1. ResultsOK(log, joined, definition, 1..Len(log)) /\ definition.kind = "interval"
    BY <1>1 DEF JoinInv, Joined, Interval
  <2>2. IntervalExact(log, joined, n, g, Back(definition, log[n].side), definition.how)
    BY <1>2, <1>4, <2>1 DEF ResultsOK
  <2>3. Back(definition, log[n].side) = reach /\ log[n].side = side /\ log[n].key = key
    BY <1>4, <1>5, <1>6, <1>7 DEF Back, Reach
  <2>4. PICK sure : sure = {i \in {j \in F : log[j].stamp \in log[n].stamp - reach..log[n].stamp} :
                             Timely(log, i, n, g)}
    OBVIOUS
  <2>5. {Pair(side, n, i) : i \in sure} \subseteq pairs
    BY <1>9, <1>15, <2>2, <2>3, <2>4, Zenon DEF IntervalExact
  <2>6. m \in sure
    BY <1>10, <1>13, <1>14, <2>4
  <2> QED BY <2>5, <2>6
<1>17. PICK r \in joined : r.at = n /\ <<r.left, r.right>> = Pair(side, n, m)
  BY <1>15, <1>16
<1>18. {r.left, r.right} = {n, m}
  BY <1>17 DEF Pair
<1> QED BY <1>17, <1>18

\* A store of a side is as the messages have left it.
LEMMA StoresFollow ==
  ASSUME JoinInv, Joined, NEW side \in Side
  PROVE  /\ arrived \in Seq(JoinMessage)
         /\ \/ StoreOK(joinStore[side], arrived, side, definition.grace, definition.kind)
            \/ joinStore[side].stored = {} /\ joinStore[side].updated = {}
BY DEF JoinInv, StoresOK, Joined, Side

\* What is left in a store came too late.
LEMMA ReclaimedFollows ==
  ASSUME JoinInv
  PROVE  JoinStoreReclaimed
<1> SUFFICES ASSUME Joined, NEW side \in Side, joinStore[side].updated = {},
                    NEW r \in joinStore[side].stored, NEW n \in MessagesOf(r.key),
                    arrived[n].side = side, r.stamp < Stamp(n) - definition.grace
             PROVE  r.value > n
  BY DEF JoinStoreReclaimed, Joined, AsOf, Interval
<1>1. PICK log : log = arrived
  OBVIOUS
<1>2. PICK s : s = joinStore[side]
  OBVIOUS
<1>3. PICK g : g = definition.grace
  OBVIOUS
<1>4. log \in Seq(JoinMessage) /\ StoreOK(s, log, side, g, definition.kind)
  BY <1>1, <1>2, <1>3, StoresFollow
<1>5. g \in Nat
  BY <1>3, JoinedDefinition DEF JoinInv, JoinDefinition
<1>6. r \in All(s) /\ s.updated = {}
  BY <1>2 DEF All, Over
<1>7. s.eligible \in [Key -> Int] /\ r.key \in Key /\ r.stamp \in Nat
  BY <1>2, <1>4 DEF StoreOK, JoinStores, JoinRecord
<1>8. n \in 1..Len(log) /\ log[n].key = r.key /\ log[n].side = side /\ r.stamp < log[n].stamp - g
  BY <1>1, <1>3 DEF MessagesOf, Message, Stamp
<1>9. log[n].stamp \in Nat
  <2>1. log[n] \in JoinMessage
    BY <1>4, <1>8
  <2> QED BY <2>1 DEF JoinMessage
<1>10. n \in From(log, side, r.key, Len(log) + 1)
  BY <1>4, <1>8 DEF From
<1>11. r.value > n \/ s.eligible[r.key] >= log[n].stamp - g
  BY <1>4, <1>6, <1>8, <1>10 DEF StoreOK
<1>12. s.eligible[r.key] = Unknown
  BY <1>4, <1>6, <1>7 DEF StoreOK
<1> QED BY <1>5, <1>7, <1>8, <1>9, <1>11, <1>12 DEF Unknown

\* The records of joins are those of messages.
LEMMA JoinTypesFollow ==
  ASSUME JoinInv, Joined
  PROVE  JoinTypeOK
<1>1. PICK log : log = arrived
  OBVIOUS
<1>2. log \in Seq(JoinMessage) /\ Message = 1..Len(log)
  BY <1>1 DEF JoinInv, Message
<1>3. ASSUME NEW side \in Side, NEW r \in joinStore[side].stored \cup joinStore[side].updated
      PROVE  /\ r.value \in MessagesOf(r.key) /\ arrived[r.value].side = side
             /\ r.stamp = Stamp(r.value)
  <2>1. PICK s : s = joinStore[side]
    OBVIOUS
  <2>2. StoreOK(s, log, side, definition.grace, definition.kind)
    BY <1>1, <1>3, <2>1, StoresFollow
  <2>3. RecordOf(r, log, side, definition.kind)
    BY <1>3, <2>1, <2>2 DEF StoreOK
  <2> QED BY <1>1, <1>2, <2>3 DEF RecordOf, From, MessagesOf, Stamp
<1>4. ASSUME NEW r \in joined
      PROVE  {r.left, r.right} \subseteq Message \cup {NoRecord} /\ r.at \in {r.left, r.right}
  <2>1. ResultOK(r, Len(log), definition)
    BY <1>1 DEF JoinInv, ResultsOK
  <2> QED BY <1>2, <2>1 DEF ResultOK, NoRecord
<1> QED BY <1>3, <1>4 DEF JoinTypeOK

\* Right records that are not behind the grace period stay.
LEMMA ExpiryFollows ==
  ASSUME JoinInv
  PROVE  OnlyOldRecordsExpire
<1> SUFFICES ASSUME AsOf, NEW n \in Message, arrived[n].side = "right", Eligible(n, Incoming)
             PROVE  \E r \in joinStore["right"].stored \cup joinStore["right"].updated :
                       r.key = arrived[n].key /\ r.stamp = Stamp(n) /\ r.value >= n
  BY DEF OnlyOldRecordsExpire
<1>1. PICK log : log = arrived
  OBVIOUS
<1>2. PICK s : s = joinStore["right"]
  OBVIOUS
<1>3. PICK g : g = definition.grace
  OBVIOUS
<1>4. log \in Seq(JoinMessage) /\ StoreOK(s, log, "right", g, definition.kind)
  BY <1>1, <1>2, <1>3 DEF JoinInv, StoresOK, Joined, AsOf
<1>5. Timely(log, n, Len(log) + 1, g) /\ n \in 1..Len(log) /\ log[n].side = "right"
  BY <1>1, <1>3, <1>4, BeforeIs DEF Incoming
<1>6. PICK r \in All(s) : StandsFor(r, log, n, definition.kind)
  BY <1>4, <1>5 DEF StoreOK
<1>7. r \in s.stored \cup s.updated
  BY <1>6 DEF All, Over
<1> QED BY <1>1, <1>2, <1>6, <1>7 DEF StandsFor, Stamp

\* A join emits what its definition names, neither more nor less.
THEOREM JoinResultsHold ==
  ASSUME Extends = {}
  PROVE  Spec => []JoinResults
<1>1. JoinInv => JoinResults
  BY AsOfFollows, IntervalFollows, InOrderFollows DEF JoinResults, JoinResultsExact
<1> QED BY <1>1, JoinsHold, PTL

\* Records expire when they are behind the grace period, and only then.
THEOREM JoinStoresHold ==
  ASSUME Extends = {}
  PROVE  Spec => [](JoinStoreReclaimed /\ OnlyOldRecordsExpire)
<1>1. JoinInv => JoinStoreReclaimed /\ OnlyOldRecordsExpire
  BY ReclaimedFollows, ExpiryFollows
<1> QED BY <1>1, JoinsHold, PTL

-----------------------------------------------------------------------------
(* Versions. *)

\* A finite set of numbers that has one has a bound.
LEMMA FiniteBounded ==
  ASSUME NEW B, B \subseteq Nat, IsFiniteSet(B)
  PROVE  \E u \in Nat : B \subseteq 0..u
<1>1. CASE B = {}
  <2>1. B \subseteq 0..0
    BY <1>1
  <2> QED BY <2>1
<1>2. CASE B # {}
  <2> DEFINE above(n) == {m \in B : m > n}
             C == {above(n) : n \in B}
  <2>1. IsWellFoundedOn(StrictSubsetOrdering(Nat), FiniteSubsetsOf(Nat))
    BY FS_StrictSubsetOrderingWellFounded
  <2>2. C \subseteq FiniteSubsetsOf(Nat) /\ C # {}
    <3>1. \A n \in B : above(n) \subseteq Nat /\ above(n) \in SUBSET B
      OBVIOUS
    <3> HIDE DEF above
    <3>2. \A n \in B : above(n) \subseteq Nat /\ IsFiniteSet(above(n))
      BY <3>1, FS_Subset
    <3>3. \A n \in B : above(n) \in FiniteSubsetsOf(Nat)
      BY <3>2 DEF FiniteSubsetsOf
    <3>4. PICK n : n \in B
      BY <1>2
    <3>5. above(n) \in C
      BY <3>4
    <3>6. C \subseteq FiniteSubsetsOf(Nat)
      BY <3>3
    <3>7. C # {}
      <4> HIDE DEF C
      <4> QED BY <3>5
    <3> QED BY <3>6, <3>7
  <2>3. PICK T \in C : \A U \in C : ~ (<<U, T>> \in StrictSubsetOrdering(Nat))
    BY <2>1, <2>2, WFMin, Zenon
  <2>4. PICK n \in B : T = above(n)
    BY <2>3
  <2>5. \A m \in B : m <= n
    <3> SUFFICES ASSUME NEW m \in B, m > n PROVE FALSE
      OBVIOUS
    <3>4. m \in Nat /\ n \in Nat
      BY Zenon
    <3>5. m \in above(n) /\ m \notin above(m) /\ above(m) \subseteq above(n)
      <4> HIDE DEF C
      <4>1. m \in above(n)
        OBVIOUS
      <4>2. m \notin above(m)
        BY <3>4
      <4>3. \A k \in B : k \in Nat
        OBVIOUS
      <4>4. ASSUME NEW k \in above(m) PROVE k \in above(n)
        <5>1. k \in B /\ k > m /\ k \in Nat
          BY <4>3
        <5>2. k > n
          BY <3>4, <5>1
        <5> QED BY <5>1, <5>2
      <4> QED BY <4>1, <4>2, <4>4
    <3>1. above(m) \in C /\ above(m) \subseteq above(n) /\ above(m) # above(n)
      <4> HIDE DEF above
      <4> QED BY <3>5, Zenon
    <3>2. above(m) \in SUBSET Nat /\ above(n) \in SUBSET Nat
      OBVIOUS
    <3> HIDE DEF above
    <3>3. <<above(m), above(n)>> \in StrictSubsetOrdering(Nat)
      BY <3>1, <3>2 DEF StrictSubsetOrdering
    <3> QED BY <2>3, <2>4, <3>1, <3>3, Zenon
  <2> QED BY <2>5
<1> QED BY <1>1, <1>2

\* Versions of a configuration: version -> valid_from
Versions == UNION {[D -> Nat] : D \in {E \in SUBSET (Nat \ {0}) : IsFiniteSet(E)}}

\* What is known of versions.
LEMMA VersionsAre ==
  ASSUME NEW vs \in Versions
  PROVE  /\ DOMAIN vs \subseteq Nat \ {0} /\ IsFiniteSet(DOMAIN vs)
         /\ vs = [v \in DOMAIN vs |-> vs[v]]
         /\ \A v \in DOMAIN vs : vs[v] \in Nat
<1>1. PICK D \in SUBSET (Nat \ {0}) : IsFiniteSet(D) /\ vs \in [D -> Nat]
  BY DEF Versions
<1> QED BY <1>1

\* The version with the highest number that is valid.
IsBest(b, vs, s) ==
    /\ b # NoVersion => b \in DOMAIN vs /\ vs[b] <= s
    /\ \A v \in DOMAIN vs : v > b => vs[v] > s

\* What a search of all versions finds: the versions before and after the current one.
IsFound(found, vs, s) ==
    /\ found \in Nat \X Nat \X Nat
    /\ IsBest(found[2], vs, s)
    /\ found[1] # NoVersion =>
          /\ found[1] \in DOMAIN vs /\ vs[found[1]] <= s /\ found[1] < found[2]
          /\ \A v \in DOMAIN vs : found[1] < v /\ v < found[2] => vs[v] > s
    /\ found[3] = NoVersion => \A v \in DOMAIN vs : v <= found[2]
    /\ found[3] # NoVersion =>
          found[3] \in DOMAIN vs /\ \A v \in DOMAIN vs : v > found[2] => vs[found[3]] <= vs[v]

\* The highest number, or zero if there is none.
LEMMA HighestIs ==
  ASSUME NEW B, B \subseteq Nat \ {0}, IsFiniteSet(B)
  PROVE  /\ Max({NoVersion} \cup B) \in {NoVersion} \cup B
         /\ \A v \in B : v <= Max({NoVersion} \cup B)
         /\ Max({NoVersion} \cup B) = NoVersion <=> B = {}
<1>1. PICK u \in Nat : B \subseteq 0..u
  BY FiniteBounded
<1>2. PICK C : C = {NoVersion} \cup B
  OBVIOUS
<1>3. C \subseteq 0..u /\ C # {}
  BY <1>1, <1>2 DEF NoVersion
<1>4. Max(C) \in C /\ \A m \in C : m <= Max(C)
  BY <1>3, Greatest
<1>5. PICK h : h = Max(C)
  OBVIOUS
<1>6. h \in {NoVersion} \cup B /\ \A v \in B : v <= h
  BY <1>2, <1>4, <1>5
<1>7. h = NoVersion <=> B = {}
  BY <1>6 DEF NoVersion
<1>8. Max({NoVersion} \cup B) = h
  BY <1>2, <1>5
<1> QED BY <1>6, <1>7, <1>8

\* Best() is that version.
LEMMA BestIs ==
  ASSUME NEW vs \in Versions, NEW s \in Nat
  PROVE  /\ Best(vs, s) \in Nat /\ IsBest(Best(vs, s), vs, s)
         /\ \A b \in Nat : IsBest(b, vs, s) => b = Best(vs, s)
<1>1. /\ DOMAIN vs \subseteq Nat \ {0} /\ IsFiniteSet(DOMAIN vs)
      /\ \A v \in DOMAIN vs : vs[v] \in Nat
  BY VersionsAre
<1>2. PICK valid : valid = {v \in DOMAIN vs : vs[v] <= s}
  OBVIOUS
<1>3. valid \subseteq Nat \ {0} /\ IsFiniteSet(valid)
  BY <1>1, <1>2, FS_Subset
<1>4. PICK b : b = Max({NoVersion} \cup valid)
  OBVIOUS
<1>5. b \in {NoVersion} \cup valid /\ \A v \in valid : v <= b
  BY <1>3, <1>4, HighestIs
<1>6. Best(vs, s) = b
  BY <1>2, <1>4 DEF Best
<1>7. b \in Nat /\ IsBest(b, vs, s)
  BY <1>1, <1>2, <1>5 DEF IsBest, NoVersion
<1>8. ASSUME NEW c \in Nat, IsBest(c, vs, s) PROVE c = b
  BY <1>1, <1>7, <1>8 DEF IsBest, NoVersion
<1> QED BY <1>6, <1>7, <1>8

\* A search of all versions finds the best one, and those that come before and after it.
LEMMA FindVersionsFinds ==
  ASSUME NEW vs \in Versions, NEW s \in Nat
  PROVE  IsFound(FindVersions(vs, s), vs, s)
<1>1. /\ DOMAIN vs \subseteq Nat \ {0} /\ IsFiniteSet(DOMAIN vs)
      /\ \A v \in DOMAIN vs : vs[v] \in Nat
  BY VersionsAre
<1>2. PICK valid : valid = {v \in DOMAIN vs : vs[v] <= s}
  OBVIOUS
<1>3. PICK b : b = Max({NoVersion} \cup valid)
  OBVIOUS
<1>4. b \in Nat /\ IsBest(b, vs, s)
  <2>1. b = Best(vs, s)
    BY <1>2, <1>3 DEF Best
  <2> QED BY <2>1, BestIs
<1>5. PICK earlier : earlier = valid \ {b}
  OBVIOUS
<1>6. PICK p : p = IF b # NoVersion /\ vs[b] = 0 THEN NoVersion ELSE Max({NoVersion} \cup earlier)
  OBVIOUS
<1>7. PICK later : later = {v \in DOMAIN vs : v > b /\ v \notin valid}
  OBVIOUS
<1>8. PICK first : first = {v \in later : \A w \in later : vs[v] <= vs[w]}
  OBVIOUS
<1>9. PICK n : n = Max({NoVersion} \cup first)
  OBVIOUS
<1>10. FindVersions(vs, s) = <<p, b, n>>
  BY <1>2, <1>3, <1>5, <1>6, <1>7, <1>8, <1>9 DEF FindVersions
<1>11. /\ p \in Nat
       /\ p # NoVersion =>
             /\ p \in DOMAIN vs /\ vs[p] <= s /\ p < b
             /\ \A v \in DOMAIN vs : p < v /\ v < b => vs[v] > s
  <2>1. earlier \subseteq Nat \ {0} /\ IsFiniteSet(earlier)
    BY <1>1, <1>2, <1>5, FS_Subset
  <2>2. PICK q : q = Max({NoVersion} \cup earlier)
    OBVIOUS
  <2>3. q \in {NoVersion} \cup earlier /\ \A v \in earlier : v <= q
    BY <2>1, <2>2, HighestIs
  <2>4. p = NoVersion \/ p = q
    BY <1>6, <2>2
  <2>5. \A v \in earlier : v \in DOMAIN vs /\ vs[v] <= s /\ v < b
    BY <1>1, <1>2, <1>4, <1>5 DEF IsBest
  <2>6. \A v \in DOMAIN vs : q < v /\ v < b => vs[v] > s
    BY <1>1, <1>2, <1>4, <1>5, <2>1, <2>3 DEF NoVersion
  <2> QED BY <2>1, <2>3, <2>4, <2>5, <2>6 DEF NoVersion
<1>12. /\ n \in Nat
       /\ n = NoVersion => \A v \in DOMAIN vs : v <= b
       /\ n # NoVersion =>
             n \in DOMAIN vs /\ \A v \in DOMAIN vs : v > b => vs[n] <= vs[v]
  <2>1. later = {v \in DOMAIN vs : v > b}
    BY <1>1, <1>2, <1>4, <1>7 DEF IsBest
  <2>2. first \subseteq Nat \ {0} /\ IsFiniteSet(first) /\ first \subseteq later
    BY <1>1, <1>7, <1>8, FS_Subset
  <2>3. n \in {NoVersion} \cup first /\ (n = NoVersion => first = {})
    BY <1>9, <2>2, HighestIs
  <2>4. ASSUME later # {} PROVE first # {}
    <3>1. PICK times : times = {vs[v] : v \in later}
      OBVIOUS
    <3>2. times \subseteq Nat /\ times # {}
      BY <1>1, <1>7, <2>4, <3>1
    <3>3. PICK t \in times : \A m \in times : t <= m
      BY <3>2, Least
    <3>4. PICK v \in later : t = vs[v]
      BY <3>1
    <3>5. v \in first
      BY <1>8, <3>1, <3>3, <3>4
    <3> QED BY <3>5
  <2>5. n = NoVersion => \A v \in DOMAIN vs : v <= b
    BY <1>1, <1>4, <2>1, <2>3, <2>4
  <2>6. n # NoVersion => n \in first
    BY <2>3
  <2>7. n # NoVersion => n \in DOMAIN vs /\ \A v \in DOMAIN vs : v > b => vs[n] <= vs[v]
    BY <1>8, <2>1, <2>6
  <2> QED BY <2>2, <2>3, <2>5, <2>7 DEF NoVersion
<1> QED BY <1>4, <1>10, <1>11, <1>12 DEF IsFound

\* The cached versions answer for another time: unless the next version is valid by then,
\* the current one is the best if it is valid still, and else the previous one is if that
\* is valid.
LEMMA CachedAnswers ==
  ASSUME NEW vs \in Versions, NEW s \in Nat, NEW t \in Nat, NEW found, IsFound(found, vs, s),
         found[2] # NoVersion, found[3] = NoVersion \/ vs[found[3]] > t
  PROVE  /\ vs[found[2]] <= t => IsBest(found[2], vs, t)
         /\ vs[found[2]] > t /\ found[1] # NoVersion /\ vs[found[1]] <= t => IsBest(found[1], vs, t)
<1>1. /\ DOMAIN vs \subseteq Nat \ {0} /\ \A v \in DOMAIN vs : vs[v] \in Nat
  BY VersionsAre
<1>2. PICK p, b, n \in Nat : found[1] = p /\ found[2] = b /\ found[3] = n
  BY DEF IsFound
<1>3. \A v \in DOMAIN vs : v > b => vs[v] > t /\ vs[v] > s
  BY <1>1, <1>2 DEF IsFound, IsBest
<1>4. b \in DOMAIN vs /\ vs[b] <= s
  BY <1>2 DEF IsFound, IsBest
<1>5. ASSUME vs[b] <= t PROVE IsBest(b, vs, t)
  BY <1>3, <1>4, <1>5 DEF IsBest
<1>6. ASSUME vs[b] > t, p # NoVersion, vs[p] <= t PROVE IsBest(p, vs, t)
  <2>1. /\ p \in DOMAIN vs /\ p < b
        /\ \A v \in DOMAIN vs : p < v /\ v < b => vs[v] > s
    BY <1>2, <1>6 DEF IsFound
  <2>2. ASSUME NEW v \in DOMAIN vs, v > p PROVE vs[v] > t
    <3>1. v < b \/ v = b \/ v > b
      BY <1>1, <1>2
    <3>2. CASE v < b
      BY <1>1, <1>4, <1>6, <2>1, <2>2, <3>2
    <3> QED BY <1>3, <1>6, <3>1, <3>2
  <2> QED BY <1>6, <2>1, <2>2 DEF IsBest
<1> QED BY <1>2, <1>5, <1>6

-----------------------------------------------------------------------------
(* What lookups have. *)

\* The keys of configurations, one of which is for all keys.
ConfigKey == Key \cup {"*"}

ConfigObject == [versions : Versions, previous : Nat, version : Nat, next : Nat]

\* The places of a lookup at which it has found its configuration, and all places.
Searching == {"cached", "next", "current", "compute", "assign", "return", "raised"}
Places == Searching \cup {"idle", "fetch"}

LookupStates ==
    [pc : Places, key : ConfigKey \cup {""}, stamp : Nat, object : Nat, version : Nat,
     found : Nat \X Nat \X Nat, since : Int]

\* An event has put a version.
PutBy(d, i, config, v) ==
    /\ i \in DOMAIN d.events
    /\ d.events[i].config = config /\ d.events[i].version = v /\ d.events[i].event # "deleted"

\* One of the first events has.
Announced(d, n, config, v) == \E i \in 1..n : PutBy(d, i, config, v)

\* What the event said of the time.
FromOf(d, config, v) ==
    d.events[Max({i \in DOMAIN d.events : /\ d.events[i].config = config
                                          /\ d.events[i].version = v
                                          /\ d.events[i].event # "deleted"})].from

\* What is left of them after the first events.
After(d, config, n) ==
    LET put(i)  == d.events[i].config = config /\ d.events[i].event # "deleted"
        gone(i) == \E j \in i..n : /\ d.events[j].config = config
                                   /\ d.events[j].event = "deleted"
                                   /\ d.events[j].version = d.events[i].version
    IN  [v \in {d.events[i].version : i \in {j \in 1..n : put(j) /\ ~gone(j)}} |->
            FromOf(d, config, v)]

\* An object has versions of a configuration only, those that it has cached included.
BelongsTo(o, config, d, n) ==
    /\ \A v \in DOMAIN o.versions : Announced(d, n, config, v) /\ o.versions[v] = FromOf(d, config, v)
    /\ \A v \in {o.previous, o.version, o.next} : v # NoVersion => Announced(d, n, config, v)

\* Each object belongs to a configuration, and so does what a lookup finds in it.
OwnedBy(owner, d, n, cs, os, lk) ==
    /\ owner \in [1..Len(os) -> ConfigKey]
    /\ \A k \in 1..Len(os) : BelongsTo(os[k], owner[k], d, n)
    /\ \A c \in DOMAIN cs : owner[cs[c]] = c
    /\ lk.object # NoObject => owner[lk.object] = lk.key

\* A version that answers a lookup.
Answers(v, lk, d, n) ==
    v # NoVersion => Announced(d, n, lk.key, v) /\ FromOf(d, lk.key, v) <= lk.stamp

\* Where a lookup has got in an object.
LookupGot(lk, o, d, n) ==
    /\ lk.pc = "assign" =>
          /\ Answers(lk.found[2], lk, d, n)
          /\ \A v \in {lk.found[1], lk.found[3]} : v # NoVersion => Announced(d, n, lk.key, v)
    /\ lk.pc = "return" => Answers(o.version, lk, d, n)
    /\ lk.pc = "fetch" => Answers(lk.version, lk, d, n)

\* No event comes in the middle of a lookup, or deletes a version.
Steady(d) == ~d.concurrent /\ \A i \in DOMAIN d.events : d.events[i].event # "deleted"

\* The versions that an object has cached.
CachedIn(o) == <<o.previous, o.version, o.next>>

\* An object has all versions of its configuration, and what it has cached, if it has
\* cached something, is what a search of all versions finds for some time.
SteadyObject(o, config, d, n, clean) ==
    /\ \A i \in 1..n : d.events[i].config = config => d.events[i].version \in DOMAIN o.versions
    /\ clean /\ o.version # NoVersion =>
          \E s \in Nat : IsFound(CachedIn(o), o.versions, s)

\* Where a lookup has got in an object that does not change meanwhile.
SteadyLookup(lk, o, d, n, cs) ==
    /\ lk.since = n
    /\ IF lk.object = NoObject
       THEN lk.key \notin DOMAIN cs /\ lk.version = NoVersion
       ELSE lk.key \in DOMAIN cs /\ lk.object = cs[lk.key]
    /\ lk.pc \in {"next", "current"} => o.version # NoVersion
    /\ lk.pc = "current" => o.next = NoVersion \/ FromOf(d, lk.key, o.next) > lk.stamp
    /\ lk.pc = "assign" => IsFound(lk.found, o.versions, lk.stamp)
    /\ lk.pc = "return" => IsFound(CachedIn(o), o.versions, lk.stamp)
    /\ lk.pc = "fetch" => lk.version = Best(After(d, lk.key, n), lk.stamp)

\* Configurations and a lookup in them, with no event in its middle.
AllSteady(d, n, cs, os, re, lk) ==
    /\ \A i \in 1..n : d.events[i].config \in DOMAIN cs
    /\ \A c \in DOMAIN cs : SteadyObject(os[cs[c]], c, d, n, re # cs[c])
    /\ lk.pc # "idle" => re = NoObject /\ SteadyLookup(lk, os[lk.object], d, n, cs)

\* The types of configurations and of a lookup.
LookupTypes(d, n, cs, os, re, lk) ==
    /\ n \in 0..Len(d.events)
    /\ os \in Seq(ConfigObject)
    /\ \A c \in DOMAIN cs : c \in ConfigKey /\ cs[c] \in 1..Len(os)
    /\ re \in 0..Len(os)
    /\ lk \in LookupStates /\ lk.object \in 0..Len(os)
    /\ lk.pc \in Searching => lk.object # NoObject

\* Configurations after the first events, and a lookup in them.
LookupsOK(d, n, cs, os, re, lk) ==
    /\ LookupTypes(d, n, cs, os, re, lk)
    /\ \E owner : OwnedBy(owner, d, n, cs, os, lk)
    /\ LookupGot(lk, os[lk.object], d, n)
    /\ Steady(d) => AllSteady(d, n, cs, os, re, lk)

-----------------------------------------------------------------------------
(* Events. *)

\* Events are those of versions of configurations.
LEMMA EventsAre ==
  ASSUME NEW d, ConfigurationDefinition(d), NEW i \in DOMAIN d.events
  PROVE  /\ i \in 1..Len(d.events) /\ d.events[i].config \in ConfigKey
         /\ d.events[i].version \in Nat \ {0} /\ d.events[i].from \in Nat
<1>1. PICK E : E = [config : Key \cup {"*"}, event : {"created", "updated", "deleted"},
                   version : Nat \ {0}, from : Nat]
  OBVIOUS
<1>2. d.events \in Seq(E)
  BY <1>1 DEF ConfigurationDefinition
<1>3. i \in 1..Len(d.events) /\ d.events[i] \in E
  BY <1>2
<1> QED BY <1>1, <1>3 DEF ConfigKey

\* The event of a version says when it becomes valid.
LEMMA FromIs ==
  ASSUME NEW d, ConfigurationDefinition(d), NEW i, NEW config, NEW v, PutBy(d, i, config, v)
  PROVE  FromOf(d, config, v) = d.events[i].from /\ FromOf(d, config, v) \in Nat /\ v \in Nat \ {0}
<1>1. i \in DOMAIN d.events /\ d.events[i].event # "deleted"
  BY DEF PutBy
<1>2. {j \in DOMAIN d.events : /\ d.events[j].config = config
                              /\ d.events[j].version = v
                              /\ d.events[j].event # "deleted"} = {i}
  <2>1. \A j, k \in DOMAIN d.events :
           /\ d.events[j].config = d.events[k].config /\ d.events[j].version = d.events[k].version
           /\ d.events[j].event # "deleted" /\ d.events[k].event # "deleted"
           => j = k
    BY DEF ConfigurationDefinition
  <2> QED BY <1>1, <2>1 DEF PutBy
<1>3. Max({i}) = i
  <2>1. i \in Int
    BY <1>1, EventsAre
  <2> QED BY <2>1 DEF Max
<1>4. d.events[i].from \in Nat /\ d.events[i].version \in Nat \ {0}
  BY <1>1, EventsAre
<1> QED BY <1>2, <1>3, <1>4 DEF FromOf, PutBy

\* Later events put no less.
LEMMA PutStays ==
  ASSUME NEW d, NEW n \in Nat, NEW m \in Nat, n <= m
  PROVE  /\ \A config, v : Announced(d, n, config, v) => Announced(d, m, config, v)
         /\ \A o, config : BelongsTo(o, config, d, n) => BelongsTo(o, config, d, m)
         /\ \A v, lk : Answers(v, lk, d, n) => Answers(v, lk, d, m)
         /\ \A lk, o : LookupGot(lk, o, d, n) => LookupGot(lk, o, d, m)
<1>1. \A config, v : Announced(d, n, config, v) => Announced(d, m, config, v)
  BY DEF Announced
<1>2. \A o, config : BelongsTo(o, config, d, n) => BelongsTo(o, config, d, m)
  BY <1>1 DEF BelongsTo
<1>3. \A v, lk : Answers(v, lk, d, n) => Answers(v, lk, d, m)
  BY <1>1 DEF Answers
<1>4. \A lk, o : LookupGot(lk, o, d, n) => LookupGot(lk, o, d, m)
  BY <1>1, <1>3 DEF LookupGot
<1> QED BY <1>1, <1>2, <1>3, <1>4

\* Versions with one more, and with one less.
LEMMA VersionsChange ==
  ASSUME NEW vs \in Versions
  PROVE  /\ \A v \in Nat \ {0}, t \in Nat : Entered(vs, v, t) \in Versions
         /\ \A S : S \subseteq DOMAIN vs => Restrict(vs, S) \in Versions
<1>1. /\ DOMAIN vs \subseteq Nat \ {0} /\ IsFiniteSet(DOMAIN vs)
      /\ \A v \in DOMAIN vs : vs[v] \in Nat
  BY VersionsAre
<1>2. ASSUME NEW v \in Nat \ {0}, NEW t \in Nat
      PROVE  Entered(vs, v, t) \in Versions
  <2>1. PICK D : D = DOMAIN vs \cup {v}
    OBVIOUS
  <2>2. D \in SUBSET (Nat \ {0}) /\ IsFiniteSet(D)
    BY <1>1, <2>1, FS_AddElement
  <2>3. Entered(vs, v, t) \in [D -> Nat]
    BY <1>1, <2>1 DEF Entered
  <2> QED BY <2>2, <2>3 DEF Versions
<1>3. ASSUME NEW S, S \subseteq DOMAIN vs
      PROVE  Restrict(vs, S) \in Versions
  <2>1. S \in SUBSET (Nat \ {0}) /\ IsFiniteSet(S)
    BY <1>1, <1>3, FS_Subset
  <2>2. Restrict(vs, S) \in [S -> Nat]
    BY <1>1, <1>3 DEF Restrict
  <2> QED BY <2>1, <2>2 DEF Versions
<1> QED BY <1>2, <1>3

\* A configuration starts with no version.
LEMMA NoVersionsAre == NoVersions \in Versions /\ DOMAIN NoVersions = {}
<1>1. IsFiniteSet({}) /\ {} \in SUBSET (Nat \ {0})
  BY FS_EmptySet
<1>2. DOMAIN NoVersions = {}
  BY DEF NoVersions
<1>3. <<>> \in [{} -> Nat]
  OBVIOUS
<1>4. NoVersions \in [{} -> Nat]
  BY <1>3 DEF NoVersions
<1> QED BY <1>1, <1>2, <1>4 DEF Versions

\* Objects in which one has changed.
LEMMA ObjectChanges ==
  ASSUME NEW os \in Seq(ConfigObject), NEW k \in 1..Len(os), NEW o \in ConfigObject, NEW new,
         new = [os EXCEPT ![k] = o]
  PROVE  /\ new \in Seq(ConfigObject) /\ Len(new) = Len(os) /\ new[k] = o
         /\ \A j \in 1..Len(os) : j # k => new[j] = os[j]
<1>1. new \in Seq(ConfigObject) /\ Len(new) = Len(os) /\ new[k] = o
  OBVIOUS
<1>2. DOMAIN os = 1..Len(os)
  OBVIOUS
<1>3. ASSUME NEW j \in 1..Len(os), j # k PROVE new[j] = os[j]
  BY <1>2, <1>3
<1> QED BY <1>1, <1>3

\* An object has what the events have left of its configuration, if none deletes.
LEMMA ObjectAfter ==
  ASSUME NEW d, ConfigurationDefinition(d), Steady(d), NEW n \in 0..Len(d.events),
         NEW config, NEW o \in ConfigObject, NEW clean, BelongsTo(o, config, d, n),
         SteadyObject(o, config, d, n, clean)
  PROVE  o.versions = After(d, config, n)
<1>1. \A i \in 1..n : i \in DOMAIN d.events /\ d.events[i].event # "deleted"
  BY DEF Steady, ConfigurationDefinition
<1>2. o.versions \in Versions /\ o.versions = [v \in DOMAIN o.versions |-> o.versions[v]]
  BY VersionsAre DEF ConfigObject
<1>3. PICK D : D = {d.events[i].version : i \in {j \in 1..n : d.events[j].config = config}}
  OBVIOUS
<1>4. After(d, config, n) = [v \in D |-> FromOf(d, config, v)]
  <2>1. \A i \in 1..n : \A j \in i..n : j \in 1..n
    BY DEF ConfigurationDefinition
  <2>2. {j \in 1..n : /\ d.events[j].config = config /\ d.events[j].event # "deleted"
                     /\ ~\E k \in j..n : /\ d.events[k].config = config
                                         /\ d.events[k].event = "deleted"
                                         /\ d.events[k].version = d.events[j].version}
            = {j \in 1..n : d.events[j].config = config}
    BY <1>1, <2>1
  <2> QED BY <1>3, <2>2 DEF After
<1>5. DOMAIN o.versions = D
  <2>1. \A v \in D : v \in DOMAIN o.versions
    BY <1>3 DEF SteadyObject
  <2>2. \A v \in DOMAIN o.versions : v \in D
    BY <1>3 DEF BelongsTo, Announced, PutBy
  <2> QED BY <2>1, <2>2
<1>6. \A v \in D : o.versions[v] = FromOf(d, config, v)
  BY <1>5 DEF BelongsTo
<1> QED BY <1>2, <1>4, <1>5, <1>6

-----------------------------------------------------------------------------
(* A lookup that goes on where it reads only. *)

\* What is known of the object that a lookup has found.
LEMMA ObjectOf ==
  ASSUME NEW d, NEW n, NEW cs, NEW os, NEW re, NEW lk, LookupsOK(d, n, cs, os, re, lk),
         lk.object # NoObject, ConfigurationDefinition(d)
  PROVE  /\ os[lk.object] \in ConfigObject /\ lk.object \in 1..Len(os)
         /\ os[lk.object].versions \in Versions
         /\ os[lk.object].previous \in Nat /\ os[lk.object].version \in Nat
         /\ os[lk.object].next \in Nat
         /\ BelongsTo(os[lk.object], lk.key, d, n)
         /\ \A v : Announced(d, n, lk.key, v) => FromOf(d, lk.key, v) \in Nat
<1>1. os \in Seq(ConfigObject) /\ lk.object \in 0..Len(os)
  BY DEF LookupsOK, LookupTypes
<1>2. lk.object \in 1..Len(os)
  BY <1>1 DEF NoObject
<1>3. PICK o \in ConfigObject : o = os[lk.object]
  BY <1>1, <1>2
<1>4. BelongsTo(o, lk.key, d, n)
  BY <1>2, <1>3 DEF LookupsOK, OwnedBy
<1>5. o.versions \in Versions /\ o.previous \in Nat /\ o.version \in Nat /\ o.next \in Nat
  BY DEF ConfigObject
<1>6. \A v : Announced(d, n, lk.key, v) => FromOf(d, lk.key, v) \in Nat
  BY FromIs DEF Announced
<1> QED BY <1>2, <1>3, <1>4, <1>5, <1>6

\* A lookup that goes on in the same object is as before but for its own steps.
LEMMA GoesOn ==
  ASSUME NEW d, NEW n, NEW cs, NEW os, NEW re, NEW lk, LookupsOK(d, n, cs, os, re, lk),
         lk.pc \in Searching, NEW new \in LookupStates,
         new.object = lk.object /\ new.key = lk.key /\ new.stamp = lk.stamp /\ new.since = lk.since,
         new.pc \in Searching \cup {"fetch"},
         LookupGot(new, os[lk.object], d, n),
         Steady(d) =>
             LET o == os[lk.object]
             IN  /\ new.pc \in {"next", "current"} => o.version # NoVersion
                 /\ new.pc = "current" =>
                       o.next = NoVersion \/ FromOf(d, lk.key, o.next) > lk.stamp
                 /\ new.pc = "assign" => IsFound(new.found, o.versions, lk.stamp)
                 /\ new.pc = "return" => IsFound(CachedIn(o), o.versions, lk.stamp)
                 /\ new.pc = "fetch" => IsBest(new.version, o.versions, lk.stamp),
         ConfigurationDefinition(d)
  PROVE  LookupsOK(d, n, cs, os, re, new)
<1>1. lk.object # NoObject /\ lk.pc # "idle"
  BY DEF LookupsOK, LookupTypes, Searching
<1>2. LookupTypes(d, n, cs, os, re, new)
  BY <1>1 DEF LookupsOK, LookupTypes
<1>3. \E owner : OwnedBy(owner, d, n, cs, os, new)
  BY DEF LookupsOK, OwnedBy
<1>4. ASSUME Steady(d)
      PROVE  AllSteady(d, n, cs, os, re, new)
  <2>1. AllSteady(d, n, cs, os, re, lk)
    BY <1>4 DEF LookupsOK
  <2>2. PICK o : o = os[lk.object]
    OBVIOUS
  <2>3. SteadyLookup(lk, o, d, n, cs) /\ re = NoObject
    BY <1>1, <2>1, <2>2 DEF AllSteady
  <2>4. lk.key \in DOMAIN cs /\ lk.object = cs[lk.key] /\ lk.since = n
    BY <1>1, <2>3 DEF SteadyLookup
  <2>5. SteadyObject(o, lk.key, d, n, re # cs[lk.key])
    BY <2>1, <2>2, <2>4 DEF AllSteady
  <2>6. o.versions = After(d, lk.key, n)
    <3>1. o \in ConfigObject /\ BelongsTo(o, lk.key, d, n)
      BY <1>1, <2>2, ObjectOf
    <3>2. n \in 0..Len(d.events)
      BY DEF LookupsOK, LookupTypes
    <3> QED BY <1>4, <2>5, <3>1, <3>2, ObjectAfter
  <2>7. new.pc = "fetch" => new.version = Best(After(d, lk.key, n), lk.stamp)
    <3>1. ASSUME new.pc = "fetch" PROVE IsBest(new.version, o.versions, lk.stamp)
      BY <1>4, <2>2, <3>1
    <3>2. o.versions \in Versions /\ lk.stamp \in Nat /\ new.version \in Nat
      BY <1>1, <2>2, ObjectOf DEF LookupsOK, LookupTypes, LookupStates
    <3> QED BY <2>6, <3>1, <3>2, BestIs
  <2>8. SteadyLookup(new, o, d, n, cs)
    BY <1>1, <1>4, <2>2, <2>4, <2>7 DEF SteadyLookup
  <2> QED BY <2>1, <2>2, <2>3, <2>8 DEF AllSteady
<1> QED BY <1>2, <1>3, <1>4 DEF LookupsOK

\* The times of versions are those of their events.
LEMMA ValidFromIs == \A config, v : ValidFrom(config, v) = FromOf(definition, config, v)
BY DEF ValidFrom, FromOf

\* Lookups in the configurations as they are.
Found(d, lk) == LookupsOK(d, applied, configurations, objects, resetting, lk)

\* What a lookup has after a step that sets its place.
LEMMA AfterStep ==
  ASSUME NEW lk \in LookupStates, NEW pc \in Places
  PROVE  /\ [lk EXCEPT !.pc = pc] \in LookupStates
         /\ \A v \in Nat : [lk EXCEPT !.pc = pc, !.version = v] \in LookupStates
         /\ \A found \in Nat \X Nat \X Nat : [lk EXCEPT !.pc = pc, !.found = found] \in LookupStates
<1>1. [lk EXCEPT !.pc = pc] \in LookupStates
  BY DEF LookupStates
<1>2. \A v \in Nat : [lk EXCEPT !.pc = pc, !.version = v] \in LookupStates
  BY DEF LookupStates
<1>3. \A found \in Nat \X Nat \X Nat : [lk EXCEPT !.pc = pc, !.found = found] \in LookupStates
  BY DEF LookupStates
<1> QED BY <1>1, <1>2, <1>3

\* Is a version cached?
LEMMA CheckCachedKeeps ==
  ASSUME Configured, ConfigurationDefinition(definition), Found(definition, lookup), CheckCached
  PROVE  Found(definition, lookup')
<1>1. PICK d : d = definition
  OBVIOUS
<1>2. PICK lk : lk = lookup
  OBVIOUS
<1>3. PICK new : new = lookup'
  OBVIOUS
<1>4. PICK o : o = objects[lk.object]
  OBVIOUS
<1>5. ConfigurationDefinition(d) /\ Found(d, lk) /\ Cfg = o
  BY <1>1, <1>2, <1>4 DEF Cfg
<1>6. lk \in LookupStates /\ lk.pc \in Searching /\ lk.object # NoObject
  BY <1>2, <1>5 DEF CheckCached, Found, LookupsOK, LookupTypes, Searching
<1>7. CASE DOMAIN o.versions = {}
  <2>1. new = [lk EXCEPT !.pc = "fetch", !.version = NoVersion]
    BY <1>2, <1>3, <1>5, <1>7 DEF CheckCached, Finds
  <2>2. new \in LookupStates
    BY <1>6, <2>1, AfterStep DEF NoVersion, Places
  <2>3. /\ new.object = lk.object /\ new.key = lk.key /\ new.stamp = lk.stamp
        /\ new.since = lk.since /\ new.pc = "fetch" /\ new.version = NoVersion
    BY <1>6, <2>1 DEF LookupStates
  <2>4. IsBest(new.version, o.versions, lk.stamp)
    BY <1>7, <2>3 DEF IsBest
  <2>5. LookupGot(new, o, d, applied)
    BY <2>3 DEF LookupGot, Answers
  <2> QED BY <1>1, <1>3, <1>4, <1>5, <1>6, <2>2, <2>3, <2>4, <2>5, GoesOn DEF Found
<1>8. CASE DOMAIN o.versions # {}
  <2>1. PICK pc : pc = IF o.version = NoVersion THEN "compute" ELSE "next"
    OBVIOUS
  <2>2. new = [lk EXCEPT !.pc = pc]
    BY <1>2, <1>3, <1>5, <1>8, <2>1 DEF CheckCached, GoTo
  <2>3. pc \in Places /\ pc \in Searching
    BY <2>1 DEF Searching, Places
  <2>4. new \in LookupStates
    BY <1>6, <2>2, <2>3, AfterStep
  <2>5. /\ new.object = lk.object /\ new.key = lk.key /\ new.stamp = lk.stamp
        /\ new.since = lk.since /\ new.pc = pc
    BY <1>6, <2>2 DEF LookupStates
  <2>6. LookupGot(new, o, d, applied)
    BY <2>1, <2>5 DEF LookupGot
  <2> QED BY <1>1, <1>3, <1>4, <1>5, <1>6, <2>1, <2>3, <2>4, <2>5, <2>6, GoesOn DEF Found
<1> QED BY <1>7, <1>8

\* What is known of a lookup with no event in its middle.
LEMMA InSteady ==
  ASSUME NEW d, ConfigurationDefinition(d), NEW lk, Found(d, lk), lk.pc \in Searching, Steady(d)
  PROVE  LET o == objects[lk.object]
         IN  /\ SteadyLookup(lk, o, d, applied, configurations)
             /\ o.version # NoVersion => \E s \in Nat : IsFound(CachedIn(o), o.versions, s)
             /\ \A v : v # NoVersion /\ v \in DOMAIN o.versions => o.versions[v] = FromOf(d, lk.key, v)
<1>1. PICK o : o = objects[lk.object]
  OBVIOUS
<1>2. AllSteady(d, applied, configurations, objects, resetting, lk)
  BY DEF Found, LookupsOK
<1>3. lk.pc # "idle" /\ lk.object # NoObject
  BY DEF Searching, Found, LookupsOK, LookupTypes
<1>4. SteadyLookup(lk, o, d, applied, configurations) /\ resetting = NoObject
  BY <1>1, <1>2, <1>3 DEF AllSteady
<1>5. lk.key \in DOMAIN configurations /\ lk.object = configurations[lk.key]
  BY <1>3, <1>4 DEF SteadyLookup
<1>6. SteadyObject(o, lk.key, d, applied, resetting # configurations[lk.key])
  BY <1>1, <1>2, <1>5 DEF AllSteady
<1>7. o.version # NoVersion => \E s \in Nat : IsFound(CachedIn(o), o.versions, s)
  BY <1>3, <1>4, <1>5, <1>6 DEF SteadyObject
<1>8. BelongsTo(o, lk.key, d, applied)
  BY <1>1, <1>3, ObjectOf DEF Found
<1> QED BY <1>1, <1>4, <1>7, <1>8 DEF BelongsTo

\* Has the next version become valid?
LEMMA CheckNextKeeps ==
  ASSUME Configured, ConfigurationDefinition(definition), Found(definition, lookup), CheckNext
  PROVE  Found(definition, lookup')
<1>1. PICK d : d = definition
  OBVIOUS
<1>2. PICK lk : lk = lookup
  OBVIOUS
<1>3. PICK new : new = lookup'
  OBVIOUS
<1>4. PICK o : o = objects[lk.object]
  OBVIOUS
<1>5. ConfigurationDefinition(d) /\ Found(d, lk) /\ Cfg = o
  BY <1>1, <1>2, <1>4 DEF Cfg
<1>6. lk \in LookupStates /\ lk.pc = "next" /\ lk.pc \in Searching /\ lk.object # NoObject
  BY <1>2, <1>5 DEF CheckNext, Found, LookupsOK, LookupTypes, Searching
<1>7. PICK pc : pc = IF o.next # NoVersion /\ FromOf(d, lk.key, o.next) <= lk.stamp
                     THEN "compute" ELSE "current"
  OBVIOUS
<1>8. new = [lk EXCEPT !.pc = pc]
  BY <1>1, <1>2, <1>3, <1>5, <1>7, ValidFromIs DEF CheckNext, GoTo
<1>9. pc \in Places /\ pc \in Searching /\ pc \in {"compute", "current"}
  BY <1>7 DEF Searching, Places
<1>10. new \in LookupStates
  BY <1>6, <1>8, <1>9, AfterStep
<1>11. /\ new.object = lk.object /\ new.key = lk.key /\ new.stamp = lk.stamp
       /\ new.since = lk.since /\ new.pc = pc
  BY <1>6, <1>8 DEF LookupStates
<1>12. LookupGot(new, o, d, applied)
  BY <1>9, <1>11 DEF LookupGot
<1>13. ASSUME Steady(d)
       PROVE  new.pc = "current" =>
                  /\ o.version # NoVersion
                  /\ o.next = NoVersion \/ FromOf(d, lk.key, o.next) > lk.stamp
  <2>1. SteadyLookup(lk, o, d, applied, configurations)
    BY <1>4, <1>5, <1>6, <1>13, InSteady
  <2>2. o.version # NoVersion
    BY <1>6, <2>1 DEF SteadyLookup
  <2>3. o.next # NoVersion => FromOf(d, lk.key, o.next) \in Nat
    <3>1. BelongsTo(o, lk.key, d, applied) /\ \A v : Announced(d, applied, lk.key, v) => FromOf(d, lk.key, v) \in Nat
      BY <1>4, <1>5, <1>6, ObjectOf DEF Found
    <3> QED BY <3>1 DEF BelongsTo
  <2>4. lk.stamp \in Nat
    BY <1>6 DEF LookupStates
  <2> QED BY <1>7, <1>11, <2>2, <2>3, <2>4
<1>14. Found(d, new)
  BY <1>4, <1>5, <1>6, <1>9, <1>10, <1>11, <1>12, <1>13, GoesOn DEF Found
<1> QED BY <1>1, <1>3, <1>14

\* Is the cached version valid, or the previous one?
LEMMA CheckCurrentKeeps ==
  ASSUME Configured, ConfigurationDefinition(definition), Found(definition, lookup), CheckCurrent
  PROVE  Found(definition, lookup')
<1>1. PICK d : d = definition
  OBVIOUS
<1>2. PICK lk : lk = lookup
  OBVIOUS
<1>3. PICK new : new = lookup'
  OBVIOUS
<1>4. PICK o : o = objects[lk.object]
  OBVIOUS
<1>5. ConfigurationDefinition(d) /\ Found(d, lk) /\ Cfg = o
  BY <1>1, <1>2, <1>4 DEF Cfg
<1>6. lk \in LookupStates /\ lk.pc = "current" /\ lk.pc \in Searching /\ lk.object # NoObject
  BY <1>2, <1>5 DEF CheckCurrent, Found, LookupsOK, LookupTypes, Searching
<1>7. lk.stamp \in Nat
  BY <1>6 DEF LookupStates
<1>8. /\ BelongsTo(o, lk.key, d, applied) /\ o.version \in Nat /\ o.previous \in Nat /\ o.next \in Nat
      /\ o.versions \in Versions
      /\ \A v : Announced(d, applied, lk.key, v) => FromOf(d, lk.key, v) \in Nat
  BY <1>4, <1>5, <1>6, ObjectOf DEF Found
<1>9. ASSUME NEW pc \in Searching \ {"next", "current", "assign", "return"},
             new = [lk EXCEPT !.pc = pc]
      PROVE  Found(d, new)
  <2>1. new \in LookupStates
    BY <1>6, <1>9, AfterStep DEF Places
  <2>2. /\ new.object = lk.object /\ new.key = lk.key /\ new.stamp = lk.stamp
        /\ new.since = lk.since /\ new.pc = pc /\ pc # "fetch"
    BY <1>6, <1>9 DEF LookupStates, Searching
  <2>3. LookupGot(new, o, d, applied)
    BY <1>9, <2>2 DEF LookupGot
  <2> QED BY <1>4, <1>5, <1>6, <1>9, <2>1, <2>2, <2>3, GoesOn DEF Found
<1>10. ASSUME NEW v \in {o.version, o.previous}, v # NoVersion,
              new = [lk EXCEPT !.pc = "fetch", !.version = v],
              FromOf(d, lk.key, v) <= lk.stamp,
              Steady(d) => IsBest(v, o.versions, lk.stamp)
       PROVE  Found(d, new)
  <2>1. new \in LookupStates
    BY <1>6, <1>8, <1>10, AfterStep DEF Places
  <2>2. /\ new.object = lk.object /\ new.key = lk.key /\ new.stamp = lk.stamp
        /\ new.since = lk.since /\ new.pc = "fetch" /\ new.version = v
    BY <1>6, <1>10 DEF LookupStates
  <2>3. Announced(d, applied, lk.key, v)
    BY <1>8, <1>10 DEF BelongsTo
  <2>4. LookupGot(new, o, d, applied)
    BY <1>10, <2>2, <2>3 DEF LookupGot, Answers
  <2> QED BY <1>4, <1>5, <1>6, <1>10, <2>1, <2>2, <2>4, GoesOn DEF Found
<1>11. CASE o.version = NoVersion
  <2>1. new = [lk EXCEPT !.pc = "raised"]
    BY <1>2, <1>3, <1>5, <1>11 DEF CheckCurrent, GoTo
  <2> QED BY <1>1, <1>3, <1>9, <2>1 DEF Searching
<1>12. CASE o.version # NoVersion
  <2>1. Announced(d, applied, lk.key, o.version) /\ FromOf(d, lk.key, o.version) \in Nat
    BY <1>8, <1>12 DEF BelongsTo
  <2>2. ASSUME Steady(d)
        PROVE  /\ FromOf(d, lk.key, o.version) <= lk.stamp => IsBest(o.version, o.versions, lk.stamp)
               /\ FromOf(d, lk.key, o.version) > lk.stamp /\ o.previous # NoVersion
                  /\ FromOf(d, lk.key, o.previous) <= lk.stamp =>
                      IsBest(o.previous, o.versions, lk.stamp)
    <3>1. /\ SteadyLookup(lk, o, d, applied, configurations)
          /\ \E s \in Nat : IsFound(CachedIn(o), o.versions, s)
          /\ \A v : v # NoVersion /\ v \in DOMAIN o.versions => o.versions[v] = FromOf(d, lk.key, v)
      BY <1>4, <1>5, <1>6, <1>12, <2>2, InSteady
    <3>2. PICK s \in Nat : IsFound(CachedIn(o), o.versions, s)
      BY <3>1
    <3>3. PICK found : found = CachedIn(o)
      OBVIOUS
    <3>4. found[1] = o.previous /\ found[2] = o.version /\ found[3] = o.next
      BY <3>3 DEF CachedIn
    <3>5. o.next = NoVersion \/ FromOf(d, lk.key, o.next) > lk.stamp
      BY <1>6, <3>1 DEF SteadyLookup
    <3>6. /\ o.next # NoVersion => o.next \in DOMAIN o.versions
          /\ o.version \in DOMAIN o.versions
          /\ o.previous # NoVersion => o.previous \in DOMAIN o.versions
      BY <1>12, <3>2, <3>3, <3>4 DEF IsFound, IsBest
    <3>7. found[3] = NoVersion \/ o.versions[found[3]] > lk.stamp
      BY <3>1, <3>4, <3>5, <3>6
    <3>8. /\ o.versions[o.version] <= lk.stamp => IsBest(o.version, o.versions, lk.stamp)
          /\ o.versions[o.version] > lk.stamp /\ o.previous # NoVersion
             /\ o.versions[o.previous] <= lk.stamp => IsBest(o.previous, o.versions, lk.stamp)
      BY <1>7, <1>8, <1>12, <3>2, <3>3, <3>4, <3>7, CachedAnswers
    <3> QED BY <1>12, <3>1, <3>6, <3>8
  <2>3. CASE FromOf(d, lk.key, o.version) <= lk.stamp
    <3>1. new = [lk EXCEPT !.pc = "fetch", !.version = o.version]
      BY <1>1, <1>2, <1>3, <1>5, <1>12, <2>3, ValidFromIs DEF CheckCurrent, Finds
    <3> QED BY <1>1, <1>3, <1>10, <1>12, <2>2, <2>3, <3>1
  <2>4. CASE /\ ~(FromOf(d, lk.key, o.version) <= lk.stamp)
             /\ o.previous # NoVersion /\ FromOf(d, lk.key, o.previous) <= lk.stamp
    <3>1. new = [lk EXCEPT !.pc = "fetch", !.version = o.previous]
      BY <1>1, <1>2, <1>3, <1>5, <1>12, <2>4, ValidFromIs DEF CheckCurrent, Finds
    <3>2. FromOf(d, lk.key, o.version) > lk.stamp
      BY <1>7, <2>1, <2>4
    <3> QED BY <1>1, <1>3, <1>10, <1>12, <2>2, <2>4, <3>1, <3>2
  <2>5. CASE /\ ~(FromOf(d, lk.key, o.version) <= lk.stamp)
             /\ ~(o.previous # NoVersion /\ FromOf(d, lk.key, o.previous) <= lk.stamp)
    <3>1. new = [lk EXCEPT !.pc = "compute"]
      BY <1>1, <1>2, <1>3, <1>5, <1>12, <2>5, ValidFromIs DEF CheckCurrent, GoTo
    <3> QED BY <1>1, <1>3, <1>9, <3>1 DEF Searching
  <2> QED BY <2>3, <2>4, <2>5
<1> QED BY <1>11, <1>12

\* All versions are searched.
LEMMA ComputeKeeps ==
  ASSUME Configured, ConfigurationDefinition(definition), Found(definition, lookup), ComputeVersions
  PROVE  Found(definition, lookup')
<1>1. PICK d : d = definition
  OBVIOUS
<1>2. PICK lk : lk = lookup
  OBVIOUS
<1>3. PICK new : new = lookup'
  OBVIOUS
<1>4. PICK o : o = objects[lk.object]
  OBVIOUS
<1>5. ConfigurationDefinition(d) /\ Found(d, lk) /\ Cfg = o
  BY <1>1, <1>2, <1>4 DEF Cfg
<1>6. lk \in LookupStates /\ lk.pc \in Searching /\ lk.object # NoObject
  BY <1>2, <1>5 DEF ComputeVersions, Found, LookupsOK, LookupTypes, Searching
<1>7. PICK found : found = FindVersions(o.versions, lk.stamp)
  OBVIOUS
<1>8. new = [lk EXCEPT !.pc = "assign", !.found = found]
  BY <1>2, <1>3, <1>5, <1>7 DEF ComputeVersions
<1>9. lk.stamp \in Nat
  BY <1>6 DEF LookupStates
<1>10. BelongsTo(o, lk.key, d, applied) /\ o.versions \in Versions
  BY <1>4, <1>5, <1>6, ObjectOf DEF Found
<1>11. IsFound(found, o.versions, lk.stamp) /\ found \in Nat \X Nat \X Nat
  BY <1>7, <1>9, <1>10, FindVersionsFinds DEF IsFound
<1>12. new \in LookupStates
  BY <1>6, <1>8, <1>11, AfterStep DEF Places, Searching
<1>13. /\ new.object = lk.object /\ new.key = lk.key /\ new.stamp = lk.stamp
       /\ new.since = lk.since /\ new.pc = "assign" /\ new.found = found
  BY <1>6, <1>8 DEF LookupStates
<1>14. /\ Answers(found[2], lk, d, applied)
       /\ \A v \in {found[1], found[3]} : v # NoVersion => Announced(d, applied, lk.key, v)
  BY <1>10, <1>11 DEF IsFound, IsBest, BelongsTo, Answers
<1>15. LookupGot(new, o, d, applied)
  BY <1>13, <1>14 DEF LookupGot, Answers
<1>16. new.pc \in Searching
  BY <1>13 DEF Searching
<1>17. Found(d, new)
  BY <1>4, <1>5, <1>6, <1>11, <1>12, <1>13, <1>15, <1>16, GoesOn DEF Found
<1> QED BY <1>1, <1>3, <1>17

\* The version is read again.
LEMMA ReturnKeeps ==
  ASSUME Configured, ConfigurationDefinition(definition), Found(definition, lookup), ReturnVersion
  PROVE  Found(definition, lookup')
<1>1. PICK d : d = definition
  OBVIOUS
<1>2. PICK lk : lk = lookup
  OBVIOUS
<1>3. PICK new : new = lookup'
  OBVIOUS
<1>4. PICK o : o = objects[lk.object]
  OBVIOUS
<1>5. ConfigurationDefinition(d) /\ Found(d, lk) /\ Cfg = o
  BY <1>1, <1>2, <1>4 DEF Cfg
<1>6. lk \in LookupStates /\ lk.pc = "return" /\ lk.pc \in Searching /\ lk.object # NoObject
  BY <1>2, <1>5 DEF ReturnVersion, Found, LookupsOK, LookupTypes, Searching
<1>7. new = [lk EXCEPT !.pc = "fetch", !.version = o.version]
  BY <1>2, <1>3, <1>5 DEF ReturnVersion, Finds
<1>8. o.version \in Nat
  BY <1>4, <1>5, <1>6, ObjectOf DEF Found
<1>9. new \in LookupStates
  BY <1>6, <1>7, <1>8, AfterStep DEF Places
<1>10. /\ new.object = lk.object /\ new.key = lk.key /\ new.stamp = lk.stamp
       /\ new.since = lk.since /\ new.pc = "fetch" /\ new.version = o.version
  BY <1>6, <1>7 DEF LookupStates
<1>11. Answers(o.version, lk, d, applied)
  BY <1>4, <1>5, <1>6 DEF Found, LookupsOK, LookupGot
<1>12. LookupGot(new, o, d, applied)
  BY <1>10, <1>11 DEF LookupGot, Answers
<1>13. ASSUME Steady(d) PROVE IsBest(o.version, o.versions, lk.stamp)
  <2>1. SteadyLookup(lk, o, d, applied, configurations)
    BY <1>4, <1>5, <1>6, <1>13, InSteady
  <2>2. IsFound(CachedIn(o), o.versions, lk.stamp)
    BY <1>6, <2>1 DEF SteadyLookup
  <2> QED BY <2>2 DEF IsFound, CachedIn
<1>14. Found(d, new)
  BY <1>4, <1>5, <1>6, <1>9, <1>10, <1>12, <1>13, GoesOn DEF Found
<1> QED BY <1>1, <1>3, <1>14

\* The configuration of a key is found, or that for all keys, or none.
LEMMA FindKeeps ==
  ASSUME Configured, ConfigurationDefinition(definition), Found(definition, lookup),
         NEW key \in Key, NEW stamp \in Nat, FindConfiguration(key, stamp)
  PROVE  Found(definition, lookup')
<1>1. PICK d : d = definition
  OBVIOUS
<1>2. PICK n, cs, os, re : n = applied /\ cs = configurations /\ os = objects /\ re = resetting
  OBVIOUS
<1>3. PICK lk : lk = lookup
  OBVIOUS
<1>4. PICK new : new = lookup'
  OBVIOUS
<1>5. LookupsOK(d, n, cs, os, re, lk) /\ lk.pc = "idle"
  BY <1>1, <1>2, <1>3 DEF Found, FindConfiguration
<1>6. PICK config : config = IF key \in DOMAIN cs THEN key ELSE "*"
  OBVIOUS
<1>7. PICK since : since = IF re = NoObject THEN n ELSE n - 1
  OBVIOUS
<1>8. PICK begun : begun = [IdleLookup EXCEPT !.key = config, !.stamp = stamp, !.since = since]
  OBVIOUS
<1>9. new = IF config \in DOMAIN cs THEN [begun EXCEPT !.pc = "cached", !.object = cs[config]]
                                    ELSE [begun EXCEPT !.pc = "fetch"]
  BY <1>2, <1>4, <1>6, <1>7, <1>8 DEF FindConfiguration
<1>10. /\ n \in 0..Len(d.events) /\ os \in Seq(ConfigObject) /\ re \in 0..Len(os)
       /\ \A c \in DOMAIN cs : c \in ConfigKey /\ cs[c] \in 1..Len(os)
  BY <1>5 DEF LookupsOK, LookupTypes
<1>11. config \in ConfigKey /\ since \in Int
  <2>1. Len(d.events) \in Nat
    BY <1>1 DEF ConfigurationDefinition
  <2> QED BY <1>6, <1>7, <1>10, <2>1 DEF ConfigKey
<1>12. begun = [pc |-> "idle", key |-> config, stamp |-> stamp, object |-> NoObject,
                version |-> NoVersion, found |-> <<NoVersion, NoVersion, NoVersion>>,
                since |-> since]
  BY <1>8 DEF IdleLookup
<1>13. PICK owner : OwnedBy(owner, d, n, cs, os, lk)
  BY <1>5 DEF LookupsOK
<1>14. Steady(d) => re = NoObject /\ since = n
  BY <1>1, <1>2, <1>7 DEF Steady, FindConfiguration
<1>15. CASE config \in DOMAIN cs
  <2>1. PICK k : k = cs[config]
    OBVIOUS
  <2>2. k \in 1..Len(os) /\ k \in Nat
    BY <1>10, <1>15, <2>1
  <2>3. new = [pc |-> "cached", key |-> config, stamp |-> stamp, object |-> k,
               version |-> NoVersion, found |-> <<NoVersion, NoVersion, NoVersion>>,
               since |-> since]
    BY <1>9, <1>12, <1>15, <2>1
  <2>4. new \in LookupStates
    BY <1>11, <2>2, <2>3 DEF LookupStates, Places, Searching, NoVersion
  <2>5. LookupTypes(d, n, cs, os, re, new)
    BY <1>10, <2>2, <2>3, <2>4 DEF LookupTypes, NoObject
  <2>6. OwnedBy(owner, d, n, cs, os, new)
    BY <1>13, <1>15, <2>1, <2>3 DEF OwnedBy
  <2>7. LookupGot(new, os[k], d, n)
    BY <2>3 DEF LookupGot
  <2>8. ASSUME Steady(d) PROVE AllSteady(d, n, cs, os, re, new)
    <3>1. AllSteady(d, n, cs, os, re, lk)
      BY <1>5, <2>8 DEF LookupsOK
    <3>2. SteadyLookup(new, os[k], d, n, cs)
      BY <1>14, <1>15, <2>1, <2>2, <2>3, <2>8 DEF SteadyLookup, NoObject
    <3> QED BY <1>14, <2>3, <2>8, <3>1, <3>2 DEF AllSteady
  <2>9. LookupsOK(d, n, cs, os, re, new)
    BY <2>3, <2>5, <2>6, <2>7, <2>8 DEF LookupsOK
  <2> QED BY <1>1, <1>2, <1>4, <2>9 DEF Found
<1>16. CASE config \notin DOMAIN cs
  <2>1. new = [pc |-> "fetch", key |-> config, stamp |-> stamp, object |-> NoObject,
               version |-> NoVersion, found |-> <<NoVersion, NoVersion, NoVersion>>,
               since |-> since]
    BY <1>9, <1>12, <1>16
  <2>2. new \in LookupStates
    BY <1>11, <2>1 DEF LookupStates, Places, Searching, NoVersion, NoObject
  <2>3. LookupTypes(d, n, cs, os, re, new)
    BY <1>10, <2>1, <2>2 DEF LookupTypes, NoObject, Searching
  <2>4. OwnedBy(owner, d, n, cs, os, new)
    BY <1>13, <2>1 DEF OwnedBy
  <2>5. LookupGot(new, os[new.object], d, n)
    BY <2>1 DEF LookupGot, Answers
  <2>6. ASSUME Steady(d) PROVE AllSteady(d, n, cs, os, re, new)
    <3>1. AllSteady(d, n, cs, os, re, lk)
      BY <1>5, <2>6 DEF LookupsOK
    <3>2. \A i \in 1..n : d.events[i].config # config
      BY <1>16, <3>1 DEF AllSteady
    <3>3. After(d, config, n) = <<>>
      <4>1. {i \in 1..n : /\ d.events[i].config = config /\ d.events[i].event # "deleted"
                          /\ ~\E j \in i..n : /\ d.events[j].config = config
                                              /\ d.events[j].event = "deleted"
                                              /\ d.events[j].version = d.events[i].version} = {}
        BY <3>2
      <4>2. After(d, config, n) = [v \in {} |-> FromOf(d, config, v)]
        BY <4>1 DEF After
      <4> QED BY <4>2
    <3>4. Best(<<>>, stamp) = NoVersion
      <4>1. IsBest(NoVersion, <<>>, stamp) /\ NoVersion \in Nat
        BY DEF IsBest, NoVersion
      <4> QED BY <4>1, NoVersionsAre, BestIs DEF NoVersions
    <3>5. SteadyLookup(new, os[new.object], d, n, cs)
      BY <1>14, <1>16, <2>1, <2>6, <3>3, <3>4 DEF SteadyLookup
    <3> QED BY <1>14, <2>6, <3>1, <3>5 DEF AllSteady
  <2>7. LookupsOK(d, n, cs, os, re, new)
    BY <2>3, <2>4, <2>5, <2>6 DEF LookupsOK
  <2> QED BY <1>1, <1>2, <1>4, <2>7 DEF Found
<1> QED BY <1>15, <1>16

\* The state of a lookup between messages.
LEMMA IdleIs ==
  /\ IdleLookup.pc = "idle" /\ IdleLookup.object = NoObject
  /\ IdleLookup \in LookupStates
<1>1. "idle" \in Places /\ "" \in ConfigKey \cup {""} /\ NoObject \in Nat /\ NoVersion \in Nat
  BY DEF Places, NoObject, NoVersion
<1>2. <<NoVersion, NoVersion, NoVersion>> \in Nat \X Nat \X Nat
  BY <1>1
<1>3. PICK since : since = 0
  OBVIOUS
<1>4. since \in Nat /\ since \in Int
  BY <1>3
<1>5. IdleLookup = [pc |-> "idle", key |-> "", stamp |-> since, object |-> NoObject,
                    version |-> NoVersion, found |-> <<NoVersion, NoVersion, NoVersion>>,
                    since |-> since]
  BY <1>3 DEF IdleLookup
<1> QED BY <1>1, <1>2, <1>4, <1>5 DEF LookupStates

\* A lookup ends.
LEMMA EndKeeps ==
  ASSUME NEW d, ConfigurationDefinition(d), NEW lk, Found(d, lk)
  PROVE  Found(d, IdleLookup)
<1>1. PICK n, cs, os, re : n = applied /\ cs = configurations /\ os = objects /\ re = resetting
  OBVIOUS
<1>2. LookupsOK(d, n, cs, os, re, lk)
  BY <1>1 DEF Found
<1>3. PICK new : new = IdleLookup
  OBVIOUS
<1>4. new.pc = "idle" /\ new.object = NoObject /\ new \in LookupStates
  BY <1>3, IdleIs
<1>5. LookupTypes(d, n, cs, os, re, new)
  BY <1>2, <1>4 DEF LookupsOK, LookupTypes, Searching, NoObject
<1>6. \E owner : OwnedBy(owner, d, n, cs, os, new)
  BY <1>2, <1>4 DEF LookupsOK, OwnedBy
<1>7. LookupGot(new, os[new.object], d, n)
  BY <1>4 DEF LookupGot
<1>8. Steady(d) => AllSteady(d, n, cs, os, re, new)
  BY <1>2, <1>4 DEF LookupsOK, AllSteady
<1> QED BY <1>1, <1>3, <1>5, <1>6, <1>7, <1>8 DEF Found, LookupsOK

\* What was found is cached.
LEMMA AssignKeeps ==
  ASSUME Configured, ConfigurationDefinition(definition), Found(definition, lookup), AssignVersions
  PROVE  Found(definition, lookup)'
<1>1. PICK d : d = definition /\ d = definition'
  BY DEF AssignVersions
<1>2. PICK n, cs, os, re : n = applied /\ cs = configurations /\ os = objects /\ re = resetting
  OBVIOUS
<1>3. PICK lk : lk = lookup
  OBVIOUS
<1>4. PICK o : o = os[lk.object]
  OBVIOUS
<1>5. LookupsOK(d, n, cs, os, re, lk) /\ ConfigurationDefinition(d) /\ lk.pc = "assign"
  BY <1>1, <1>2, <1>3 DEF Found, AssignVersions
<1>6. lk \in LookupStates /\ lk.object # NoObject /\ os \in Seq(ConfigObject)
  BY <1>5 DEF LookupsOK, LookupTypes, Searching
<1>7. PICK k : k = lk.object
  OBVIOUS
<1>8. o \in ConfigObject /\ k \in 1..Len(os) /\ BelongsTo(o, lk.key, d, n)
  BY <1>4, <1>5, <1>6, <1>7, ObjectOf
<1>9. PICK f : f = lk.found
  OBVIOUS
<1>10. f[1] \in Nat /\ f[2] \in Nat /\ f[3] \in Nat /\ f = <<f[1], f[2], f[3]>>
  <2>1. f \in Nat \X Nat \X Nat
    BY <1>6, <1>9 DEF LookupStates
  <2> QED BY <2>1
<1>11. PICK p : p = [o EXCEPT !.previous = f[1], !.version = f[2], !.next = f[3]]
  OBVIOUS
<1>12. /\ p \in ConfigObject /\ p.versions = o.versions
       /\ p.previous = f[1] /\ p.version = f[2] /\ p.next = f[3]
  BY <1>8, <1>10, <1>11 DEF ConfigObject
<1>13. PICK after : after = [os EXCEPT ![k] = p]
  OBVIOUS
<1>14. PICK new : new = [lk EXCEPT !.pc = "return"]
  OBVIOUS
<1>15. /\ applied' = n /\ configurations' = cs /\ objects' = after /\ resetting' = re
       /\ lookup' = new
  BY <1>2, <1>3, <1>4, <1>7, <1>9, <1>11, <1>13, <1>14 DEF AssignVersions, GoTo
<1>16. /\ new.object = k /\ new.key = lk.key /\ new.stamp = lk.stamp
       /\ new.since = lk.since /\ new.pc = "return"
  BY <1>6, <1>7, <1>14 DEF LookupStates
<1>17. new \in LookupStates
  BY <1>6, <1>14, AfterStep DEF Places, Searching
<1>18. /\ after \in Seq(ConfigObject) /\ Len(after) = Len(os) /\ after[k] = p
       /\ \A j \in 1..Len(os) : j # k => after[j] = os[j]
  BY <1>6, <1>8, <1>12, <1>13, ObjectChanges
<1>19. /\ Answers(f[2], lk, d, n)
       /\ f[1] # NoVersion => Announced(d, n, lk.key, f[1])
       /\ f[3] # NoVersion => Announced(d, n, lk.key, f[3])
  BY <1>4, <1>5, <1>9 DEF LookupsOK, LookupGot
<1>20. LookupTypes(d, n, cs, after, re, new)
  BY <1>5, <1>6, <1>7, <1>8, <1>16, <1>17, <1>18 DEF LookupsOK, LookupTypes
<1>21. PICK owner : OwnedBy(owner, d, n, cs, os, lk)
  BY <1>5 DEF LookupsOK
<1>22. OwnedBy(owner, d, n, cs, after, new)
  <2>1. BelongsTo(p, lk.key, d, n)
    BY <1>8, <1>12, <1>19 DEF BelongsTo, Answers
  <2>2. owner[k] = lk.key
    BY <1>6, <1>7, <1>21 DEF OwnedBy
  <2>3. \A j \in 1..Len(after) : BelongsTo(after[j], owner[j], d, n)
    BY <1>18, <1>21, <2>1, <2>2 DEF OwnedBy
  <2> QED BY <1>16, <1>18, <1>21, <2>2, <2>3 DEF OwnedBy
<1>23. LookupGot(new, after[new.object], d, n)
  BY <1>12, <1>16, <1>18, <1>19 DEF LookupGot, Answers
<1>24. ASSUME Steady(d) PROVE AllSteady(d, n, cs, after, re, new)
  <2>1. AllSteady(d, n, cs, os, re, lk)
    BY <1>5, <1>24 DEF LookupsOK
  <2>2. SteadyLookup(lk, o, d, n, cs) /\ re = NoObject
    BY <1>4, <1>5, <2>1 DEF AllSteady
  <2>3. IsFound(CachedIn(p), p.versions, lk.stamp)
    <3>1. IsFound(f, o.versions, lk.stamp)
      BY <1>5, <1>9, <2>2 DEF SteadyLookup
    <3> QED BY <1>10, <1>12, <3>1 DEF CachedIn
  <2>4. SteadyLookup(new, p, d, n, cs)
    BY <1>5, <1>6, <1>7, <1>16, <2>2, <2>3 DEF SteadyLookup
  <2>5. ASSUME NEW c \in DOMAIN cs
        PROVE  SteadyObject(after[cs[c]], c, d, n, re # cs[c])
    <3>1. SteadyObject(os[cs[c]], c, d, n, re # cs[c]) /\ cs[c] \in 1..Len(os)
      BY <1>5, <2>1 DEF AllSteady, LookupsOK, LookupTypes
    <3>2. CASE cs[c] = k
      <4>1. lk.stamp \in Nat
        BY <1>6 DEF LookupStates
      <4> QED BY <1>4, <1>7, <1>12, <1>18, <2>3, <3>1, <3>2, <4>1 DEF SteadyObject
    <3>3. CASE cs[c] # k
      BY <1>18, <3>1, <3>3
    <3> QED BY <3>2, <3>3
  <2> QED BY <1>16, <1>18, <2>1, <2>2, <2>4, <2>5 DEF AllSteady
<1>25. LookupsOK(d, n, cs, after, re, new)
  BY <1>20, <1>22, <1>23, <1>24 DEF LookupsOK
<1>26. Found(definition, lookup)' = LookupsOK(d, n, cs, after, re, new)
  BY <1>1, <1>15 DEF Found
<1> QED BY <1>25, <1>26

-----------------------------------------------------------------------------
(* Events. *)

\* A configuration is created.
LEMMA CreateKeeps ==
  ASSUME NEW d, ConfigurationDefinition(d), NEW n, NEW cs, NEW os, NEW re, NEW lk,
         LookupsOK(d, n, cs, os, re, lk), n < Len(d.events), re = NoObject,
         d.concurrent \/ lk.pc = "idle",
         NEW e, e = d.events[n + 1], e.event # "deleted", e.config \notin DOMAIN cs
  PROVE  LookupsOK(d, n + 1, Entered(cs, e.config, Len(os) + 1),
                   Append(os, NewConfiguration(e)), re, lk)
<1>1. PICK l \in Nat : l = Len(os)
  BY DEF LookupsOK, LookupTypes
<1>2. /\ n \in 0..Len(d.events) /\ os \in Seq(ConfigObject) /\ re \in 0..l
      /\ \A c \in DOMAIN cs : c \in ConfigKey /\ cs[c] \in 1..l
      /\ lk \in LookupStates /\ lk.object \in 0..l
      /\ lk.pc \in Searching => lk.object # NoObject
  BY <1>1 DEF LookupsOK, LookupTypes
<1>3. n \in Nat /\ n + 1 \in DOMAIN d.events /\ n + 1 \in 0..Len(d.events)
  <2>1. Len(d.events) \in Nat /\ DOMAIN d.events = 1..Len(d.events)
    BY DEF ConfigurationDefinition
  <2> QED BY <1>2, <2>1
<1>4. PICK c : c = e.config
  OBVIOUS
<1>5. PICK v : v = e.version
  OBVIOUS
<1>6. c \in ConfigKey /\ v \in Nat \ {0} /\ e.from \in Nat
  BY <1>3, <1>4, <1>5, EventsAre
<1>7. PutBy(d, n + 1, c, v)
  BY <1>3, <1>4, <1>5 DEF PutBy
<1>8. Announced(d, n + 1, c, v) /\ FromOf(d, c, v) = e.from
  <2>1. n + 1 \in 1..n + 1
    BY <1>3
  <2> QED BY <1>7, <2>1, FromIs DEF Announced
<1>9. PICK o : o = NewConfiguration(e)
  OBVIOUS
<1>10. /\ o \in ConfigObject /\ DOMAIN o.versions = {v} /\ o.versions[v] = e.from
       /\ o.previous = NoVersion /\ o.version = NoVersion /\ o.next = NoVersion
  <2>1. PICK vs : vs = Entered(NoVersions, v, e.from)
    OBVIOUS
  <2>2. vs \in Versions /\ DOMAIN vs = {v} /\ vs[v] = e.from
    <3>1. vs \in Versions
      BY <1>6, <2>1, NoVersionsAre, VersionsChange
    <3> QED BY <2>1, <3>1, NoVersionsAre DEF Entered
  <2>3. o = [versions |-> vs, previous |-> NoVersion, version |-> NoVersion, next |-> NoVersion]
    BY <1>5, <1>9, <2>1 DEF NewConfiguration
  <2> QED BY <2>2, <2>3 DEF ConfigObject, NoVersion
<1>11. BelongsTo(o, c, d, n + 1)
  BY <1>8, <1>10 DEF BelongsTo
<1>12. PICK after : after = Append(os, o)
  OBVIOUS
<1>13. /\ after \in Seq(ConfigObject) /\ Len(after) = l + 1 /\ after[l + 1] = o
       /\ \A k \in 1..l : after[k] = os[k]
  BY <1>1, <1>2, <1>10, <1>12, AppendProperties
<1>14. PICK new : new = Entered(cs, c, l + 1)
  OBVIOUS
<1>15. /\ DOMAIN new = DOMAIN cs \cup {c} /\ new[c] = l + 1
       /\ \A k \in DOMAIN cs : k # c /\ new[k] = cs[k]
  BY <1>4, <1>14 DEF Entered
<1>16. LookupTypes(d, n + 1, new, after, re, lk)
  <2>1. \A k \in DOMAIN new : k \in ConfigKey /\ new[k] \in 1..l + 1
    BY <1>1, <1>2, <1>6, <1>15
  <2>2. re \in 0..l + 1 /\ lk.object \in 0..l + 1
    BY <1>1, <1>2
  <2> QED BY <1>2, <1>3, <1>13, <2>1, <2>2 DEF LookupTypes
<1>17. PICK owner : OwnedBy(owner, d, n, cs, os, lk)
  BY DEF LookupsOK
<1>18. PICK owners : owners = [k \in 1..l + 1 |-> IF k = l + 1 THEN c ELSE owner[k]]
  OBVIOUS
<1>19. OwnedBy(owners, d, n + 1, new, after, lk)
  <2>1. owner \in [1..l -> ConfigKey]
    BY <1>1, <1>17 DEF OwnedBy
  <2>2. /\ owners \in [1..l + 1 -> ConfigKey] /\ owners[l + 1] = c
        /\ \A k \in 1..l : owners[k] = owner[k] /\ k # l + 1
    BY <1>1, <1>6, <1>18, <2>1
  <2>3. \A k \in 1..l : BelongsTo(os[k], owner[k], d, n)
    BY <1>1, <1>17 DEF OwnedBy
  <2>4. \A k \in 1..l : BelongsTo(os[k], owner[k], d, n + 1)
    <3>1. \A p, config : BelongsTo(p, config, d, n) => BelongsTo(p, config, d, n + 1)
      BY <1>3, PutStays
    <3> QED BY <2>3, <3>1
  <2>5. \A k \in 1..l + 1 : BelongsTo(after[k], owners[k], d, n + 1)
    <3> TAKE k \in 1..l + 1
    <3>1. k \in 1..l \/ k = l + 1
      BY <1>1
    <3> QED BY <1>11, <1>13, <2>2, <2>4, <3>1
  <2>6. \A k \in DOMAIN new : owners[new[k]] = k
    <3>1. \A k \in DOMAIN cs : owner[cs[k]] = k /\ cs[k] \in 1..l
      BY <1>2, <1>17 DEF OwnedBy
    <3> QED BY <1>15, <2>2, <3>1
  <2>7. lk.object # NoObject => owners[lk.object] = lk.key
    <3>1. lk.object # NoObject => lk.object \in 1..l /\ owner[lk.object] = lk.key
      BY <1>1, <1>2, <1>17 DEF OwnedBy, NoObject
    <3> QED BY <2>2, <3>1
  <2> QED BY <1>13, <2>2, <2>5, <2>6, <2>7 DEF OwnedBy
<1>20. LookupGot(lk, after[lk.object], d, n + 1)
  <2>1. LookupGot(lk, os[lk.object], d, n + 1)
    BY <1>3, PutStays DEF LookupsOK
  <2>2. CASE lk.object \in 1..l
    BY <1>13, <2>1, <2>2
  <2>3. CASE lk.object \notin 1..l
    <3>1. lk.pc \notin Searching
      BY <1>1, <1>2, <2>3 DEF NoObject
    <3> QED BY <2>1, <3>1 DEF LookupGot, Searching
  <2> QED BY <2>2, <2>3
<1>21. ASSUME Steady(d) PROVE AllSteady(d, n + 1, new, after, re, lk)
  <2>1. AllSteady(d, n, cs, os, re, lk) /\ lk.pc = "idle"
    BY <1>21 DEF LookupsOK, Steady
  <2>2. \A i \in 1..n + 1 : i \in 1..n \/ i = n + 1
    BY <1>3
  <2>3. \A i \in 1..n : d.events[i].config \in DOMAIN cs
    BY <2>1 DEF AllSteady
  <2>4. \A i \in 1..n + 1 : d.events[i].config \in DOMAIN new
    BY <1>4, <1>15, <2>2, <2>3
  <2>5. ASSUME NEW k \in DOMAIN new
        PROVE  SteadyObject(after[new[k]], k, d, n + 1, re # new[k])
    <3>1. CASE k = c
      <4>1. \A i \in 1..n + 1 : d.events[i].config = c => i = n + 1
        BY <1>4, <2>2, <2>3
      <4> QED BY <1>5, <1>10, <1>13, <1>15, <3>1, <4>1 DEF SteadyObject
    <3>2. CASE k # c
      <4>1. k \in DOMAIN cs /\ new[k] = cs[k] /\ cs[k] \in 1..l
        BY <1>2, <1>15, <3>2
      <4>2. SteadyObject(os[cs[k]], k, d, n, re # cs[k])
        BY <2>1, <4>1 DEF AllSteady
      <4>3. d.events[n + 1].config # k
        BY <1>4, <3>2
      <4>4. after[new[k]] = os[cs[k]]
        BY <1>13, <4>1
      <4> QED BY <2>2, <4>1, <4>2, <4>3, <4>4 DEF SteadyObject
    <3> QED BY <3>1, <3>2
  <2> QED BY <2>1, <2>4, <2>5 DEF AllSteady
<1>22. LookupsOK(d, n + 1, new, after, re, lk)
  BY <1>16, <1>19, <1>20, <1>21 DEF LookupsOK
<1> QED BY <1>1, <1>4, <1>9, <1>12, <1>14, <1>22

\* A version is added to a configuration, or put again, before its cache is cleared.
LEMMA AddKeeps ==
  ASSUME NEW d, ConfigurationDefinition(d), NEW n, NEW cs, NEW os, NEW re, NEW lk,
         LookupsOK(d, n, cs, os, re, lk), n < Len(d.events), re = NoObject,
         d.concurrent \/ lk.pc = "idle",
         NEW e, e = d.events[n + 1], e.event # "deleted", e.config \in DOMAIN cs,
         NEW k, k = cs[e.config]
  PROVE  LookupsOK(d, n + 1, cs,
                   [os EXCEPT ![k].versions = Entered(@, e.version, e.from)], k, lk)
<1>1. PICK l \in Nat : l = Len(os)
  BY DEF LookupsOK, LookupTypes
<1>2. /\ n \in 0..Len(d.events) /\ os \in Seq(ConfigObject)
      /\ \A c \in DOMAIN cs : c \in ConfigKey /\ cs[c] \in 1..l
      /\ lk \in LookupStates /\ lk.object \in 0..l
      /\ lk.pc \in Searching => lk.object # NoObject
  BY <1>1 DEF LookupsOK, LookupTypes
<1>3. n \in Nat /\ n + 1 \in DOMAIN d.events /\ n + 1 \in 0..Len(d.events)
  <2>1. Len(d.events) \in Nat /\ DOMAIN d.events = 1..Len(d.events)
    BY DEF ConfigurationDefinition
  <2> QED BY <1>2, <2>1
<1>4. PICK c : c = e.config
  OBVIOUS
<1>5. PICK v : v = e.version
  OBVIOUS
<1>6. c \in ConfigKey /\ v \in Nat \ {0} /\ e.from \in Nat /\ k \in 1..l
  BY <1>2, <1>3, <1>4, <1>5, EventsAre
<1>7. PutBy(d, n + 1, c, v)
  BY <1>3, <1>4, <1>5 DEF PutBy
<1>8. Announced(d, n + 1, c, v) /\ FromOf(d, c, v) = e.from
  <2>1. n + 1 \in 1..n + 1
    BY <1>3
  <2> QED BY <1>7, <2>1, FromIs DEF Announced
<1>9. PICK o \in ConfigObject : o = os[k]
  BY <1>1, <1>2, <1>6
<1>10. PICK p : p = [o EXCEPT !.versions = Entered(o.versions, v, e.from)]
  OBVIOUS
<1>11. /\ p \in ConfigObject /\ DOMAIN p.versions = DOMAIN o.versions \cup {v}
       /\ p.versions[v] = e.from
       /\ \A w \in DOMAIN o.versions : w # v => p.versions[w] = o.versions[w]
       /\ p.previous = o.previous /\ p.version = o.version /\ p.next = o.next
  <2>1. PICK vs : vs = Entered(o.versions, v, e.from)
    OBVIOUS
  <2>2. vs \in Versions
    <3>1. o.versions \in Versions
      BY DEF ConfigObject
    <3> QED BY <1>6, <2>1, <3>1, VersionsChange
  <2>3. /\ DOMAIN vs = DOMAIN o.versions \cup {v} /\ vs[v] = e.from
        /\ \A w \in DOMAIN o.versions : w # v => vs[w] = o.versions[w]
    BY <2>1 DEF Entered
  <2>4. p.versions = vs /\ p.previous = o.previous /\ p.version = o.version /\ p.next = o.next
    BY <1>10, <2>1 DEF ConfigObject
  <2>5. p \in ConfigObject
    BY <1>10, <2>1, <2>2 DEF ConfigObject
  <2> QED BY <2>3, <2>4, <2>5
<1>12. PICK owner : OwnedBy(owner, d, n, cs, os, lk)
  BY DEF LookupsOK
<1>13. BelongsTo(p, c, d, n + 1)
  <2>1. owner[k] = c /\ BelongsTo(o, owner[k], d, n)
    BY <1>1, <1>4, <1>6, <1>9, <1>12 DEF OwnedBy
  <2>2. BelongsTo(o, c, d, n + 1)
    BY <1>3, <2>1, PutStays
  <2> QED BY <1>8, <1>11, <2>2 DEF BelongsTo
<1>14. PICK after : after = [os EXCEPT ![k] = p]
  OBVIOUS
<1>15. /\ after \in Seq(ConfigObject) /\ Len(after) = l /\ after[k] = p
       /\ \A j \in 1..l : j # k => after[j] = os[j]
  BY <1>1, <1>2, <1>6, <1>11, <1>14, ObjectChanges
<1>16. LookupTypes(d, n + 1, cs, after, k, lk)
  <2>1. k \in 0..l
    BY <1>1, <1>6
  <2> QED BY <1>2, <1>3, <1>15, <2>1 DEF LookupTypes
<1>17. OwnedBy(owner, d, n + 1, cs, after, lk)
  <2>1. \A j \in 1..l : BelongsTo(os[j], owner[j], d, n + 1)
    <3>1. \A q, config : BelongsTo(q, config, d, n) => BelongsTo(q, config, d, n + 1)
      BY <1>3, PutStays
    <3>2. \A j \in 1..l : BelongsTo(os[j], owner[j], d, n)
      BY <1>1, <1>12 DEF OwnedBy
    <3> QED BY <3>1, <3>2
  <2>2. owner[k] = c
    BY <1>4, <1>12 DEF OwnedBy
  <2>3. \A j \in 1..l : BelongsTo(after[j], owner[j], d, n + 1)
    BY <1>13, <1>15, <2>1, <2>2
  <2> QED BY <1>1, <1>12, <1>15, <2>3 DEF OwnedBy
<1>18. LookupGot(lk, after[lk.object], d, n + 1)
  <2>1. LookupGot(lk, os[lk.object], d, n + 1)
    BY <1>3, PutStays DEF LookupsOK
  <2>2. lk.pc = "return" => after[lk.object].version = os[lk.object].version
    <3>1. lk.pc = "return" => lk.object \in 1..l
      BY <1>1, <1>2 DEF Searching, NoObject
    <3> QED BY <1>9, <1>11, <1>15, <3>1
  <2> QED BY <2>1, <2>2 DEF LookupGot
<1>19. ASSUME Steady(d) PROVE AllSteady(d, n + 1, cs, after, k, lk)
  <2>1. AllSteady(d, n, cs, os, re, lk) /\ lk.pc = "idle"
    BY <1>19 DEF LookupsOK, Steady
  <2>2. \A i \in 1..n + 1 : i \in 1..n \/ i = n + 1
    BY <1>3
  <2>3. \A i \in 1..n + 1 : d.events[i].config \in DOMAIN cs
    BY <2>1, <2>2 DEF AllSteady
  <2>4. ASSUME NEW j \in DOMAIN cs
        PROVE  SteadyObject(after[cs[j]], j, d, n + 1, k # cs[j])
    <3>1. SteadyObject(os[cs[j]], j, d, n, re # cs[j]) /\ cs[j] \in 1..l
      BY <1>2, <2>1 DEF AllSteady
    <3>2. CASE j = c
      <4>1. cs[j] = k
        BY <1>4, <3>2
      <4> QED BY <1>5, <1>9, <1>11, <1>15, <2>2, <3>1, <3>2, <4>1 DEF SteadyObject
    <3>3. CASE j # c
      <4>1. cs[j] # k
        BY <1>4, <1>12, <3>3 DEF OwnedBy
      <4>2. d.events[n + 1].config # j
        BY <1>4, <3>3
      <4>3. re # cs[j]
        BY <1>1, <3>1 DEF NoObject
      <4>4. after[cs[j]] = os[cs[j]]
        BY <1>15, <3>1, <4>1
      <4> QED BY <2>2, <3>1, <4>2, <4>3, <4>4 DEF SteadyObject
    <3> QED BY <3>2, <3>3
  <2> QED BY <2>1, <2>3, <2>4 DEF AllSteady
<1>20. LookupsOK(d, n + 1, cs, after, k, lk)
  BY <1>16, <1>17, <1>18, <1>19 DEF LookupsOK
<1>21. [os EXCEPT ![k].versions = Entered(@, e.version, e.from)] = after
  BY <1>5, <1>9, <1>10, <1>14
<1> QED BY <1>20, <1>21

\* An event that deletes what is not there changes nothing.
LEMMA NoDeleteKeeps ==
  ASSUME NEW d, ConfigurationDefinition(d), NEW n, NEW cs, NEW os, NEW re, NEW lk,
         LookupsOK(d, n, cs, os, re, lk), n < Len(d.events), d.events[n + 1].event = "deleted"
  PROVE  LookupsOK(d, n + 1, cs, os, re, lk)
<1>1. /\ n \in Nat /\ n + 1 \in DOMAIN d.events /\ n + 1 \in 0..Len(d.events)
      /\ n + 1 \in Nat /\ n <= n + 1
  <2>1. Len(d.events) \in Nat /\ DOMAIN d.events = 1..Len(d.events)
    BY DEF ConfigurationDefinition
  <2> QED BY <2>1 DEF LookupsOK, LookupTypes
<1>2. LookupTypes(d, n + 1, cs, os, re, lk)
  BY <1>1 DEF LookupsOK, LookupTypes
<1>3. \E owner : OwnedBy(owner, d, n + 1, cs, os, lk)
  <2>1. PICK owner : OwnedBy(owner, d, n, cs, os, lk)
    BY DEF LookupsOK
  <2>2. \A o, config : BelongsTo(o, config, d, n) => BelongsTo(o, config, d, n + 1)
    BY <1>1, PutStays, Zenon
  <2> QED BY <2>1, <2>2 DEF OwnedBy
<1>4. LookupGot(lk, os[lk.object], d, n + 1)
  <2>1. LookupGot(lk, os[lk.object], d, n)
    BY DEF LookupsOK
  <2> QED BY <1>1, <2>1, PutStays, Zenon
<1>5. ~Steady(d)
  BY <1>1 DEF Steady
<1> QED BY <1>2, <1>3, <1>4, <1>5 DEF LookupsOK

\* A version is deleted, and with the last one its configuration.
LEMMA DeleteKeeps ==
  ASSUME NEW d, ConfigurationDefinition(d), NEW n, NEW cs, NEW os, NEW re, NEW lk,
         LookupsOK(d, n, cs, os, re, lk), n < Len(d.events), d.events[n + 1].event = "deleted",
         NEW k, k \in {cs[c] : c \in DOMAIN cs}, NEW left, left \subseteq DOMAIN os[k].versions,
         NEW rest, DOMAIN rest \subseteq DOMAIN cs, \A c \in DOMAIN rest : rest[c] = cs[c]
  PROVE  LookupsOK(d, n + 1, rest, [os EXCEPT ![k].versions = Restrict(@, left)], re, lk)
<1>1. LookupsOK(d, n + 1, cs, os, re, lk)
  BY NoDeleteKeeps
<1>2. /\ n + 1 \in 0..Len(d.events) /\ os \in Seq(ConfigObject) /\ re \in 0..Len(os)
      /\ \A c \in DOMAIN cs : c \in ConfigKey /\ cs[c] \in 1..Len(os)
      /\ lk \in LookupStates /\ lk.object \in 0..Len(os)
      /\ lk.pc \in Searching => lk.object # NoObject
  BY <1>1 DEF LookupsOK, LookupTypes
<1>3. k \in 1..Len(os)
  BY <1>2
<1>4. PICK o \in ConfigObject : o = os[k]
  BY <1>2, <1>3
<1>5. PICK p : p = [o EXCEPT !.versions = Restrict(o.versions, left)]
  OBVIOUS
<1>6. /\ p \in ConfigObject
      /\ \A v \in DOMAIN p.versions : v \in DOMAIN o.versions /\ p.versions[v] = o.versions[v]
      /\ p.previous = o.previous /\ p.version = o.version /\ p.next = o.next
  <2>1. PICK vs : vs = Restrict(o.versions, left)
    OBVIOUS
  <2>2. vs \in Versions
    <3>1. o.versions \in Versions
      BY DEF ConfigObject
    <3> QED BY <1>4, <2>1, <3>1, VersionsChange
  <2>3. \A v \in DOMAIN vs : v \in DOMAIN o.versions /\ vs[v] = o.versions[v]
    BY <1>4, <2>1 DEF Restrict
  <2>4. p.versions = vs /\ p.previous = o.previous /\ p.version = o.version /\ p.next = o.next
    BY <1>5, <2>1 DEF ConfigObject
  <2>5. p \in ConfigObject
    BY <1>5, <2>1, <2>2 DEF ConfigObject
  <2> QED BY <2>3, <2>4, <2>5
<1>7. PICK after : after = [os EXCEPT ![k] = p]
  OBVIOUS
<1>8. /\ after \in Seq(ConfigObject) /\ Len(after) = Len(os) /\ after[k] = p
      /\ \A j \in 1..Len(os) : j # k => after[j] = os[j]
  BY <1>2, <1>3, <1>6, <1>7, ObjectChanges
<1>9. LookupTypes(d, n + 1, rest, after, re, lk)
  BY <1>2, <1>8 DEF LookupTypes
<1>10. \E owner : OwnedBy(owner, d, n + 1, rest, after, lk)
  <2>1. PICK owner : OwnedBy(owner, d, n + 1, cs, os, lk)
    BY <1>1 DEF LookupsOK
  <2>2. BelongsTo(p, owner[k], d, n + 1)
    <3>1. BelongsTo(o, owner[k], d, n + 1)
      BY <1>3, <1>4, <2>1 DEF OwnedBy
    <3> QED BY <1>6, <3>1 DEF BelongsTo
  <2>3. \A j \in 1..Len(after) : BelongsTo(after[j], owner[j], d, n + 1)
    BY <1>8, <2>1, <2>2 DEF OwnedBy
  <2> QED BY <1>8, <2>1, <2>3 DEF OwnedBy
<1>11. LookupGot(lk, after[lk.object], d, n + 1)
  <2>1. LookupGot(lk, os[lk.object], d, n + 1)
    BY <1>1 DEF LookupsOK
  <2>2. lk.pc = "return" => after[lk.object].version = os[lk.object].version
    <3>1. lk.pc = "return" => lk.object \in 1..Len(os)
      BY <1>2 DEF Searching, NoObject
    <3> QED BY <1>4, <1>6, <1>8, <3>1
  <2> QED BY <2>1, <2>2 DEF LookupGot
<1>12. ~Steady(d)
  <2>1. n + 1 \in DOMAIN d.events
    <3>1. Len(d.events) \in Nat /\ DOMAIN d.events = 1..Len(d.events)
      BY DEF ConfigurationDefinition
    <3> QED BY <3>1 DEF LookupsOK, LookupTypes
  <2> QED BY <2>1 DEF Steady
<1>13. [os EXCEPT ![k].versions = Restrict(@, left)] = after
  BY <1>4, <1>5, <1>7
<1>14. LookupsOK(d, n + 1, rest, after, re, lk)
  BY <1>9, <1>10, <1>11, <1>12 DEF LookupsOK
<1> QED BY <1>13, <1>14

\* What a configuration has cached is cleared.
LEMMA ResetKeeps ==
  ASSUME NEW d, ConfigurationDefinition(d), NEW n, NEW cs, NEW os, NEW re, NEW lk,
         LookupsOK(d, n, cs, os, re, lk), re # NoObject
  PROVE  LookupsOK(d, n, cs, [os EXCEPT ![re] = Reset(@)], NoObject, lk)
<1>1. /\ n \in 0..Len(d.events) /\ os \in Seq(ConfigObject) /\ re \in 0..Len(os)
      /\ \A c \in DOMAIN cs : c \in ConfigKey /\ cs[c] \in 1..Len(os)
      /\ lk \in LookupStates /\ lk.object \in 0..Len(os)
      /\ lk.pc \in Searching => lk.object # NoObject
  BY DEF LookupsOK, LookupTypes
<1>2. re \in 1..Len(os)
  BY <1>1 DEF NoObject
<1>3. PICK o \in ConfigObject : o = os[re]
  BY <1>1, <1>2
<1>4. PICK p : p = Reset(o)
  OBVIOUS
<1>5. /\ p \in ConfigObject /\ p.versions = o.versions
      /\ p.previous = NoVersion /\ p.version = NoVersion /\ p.next = NoVersion
  BY <1>4 DEF Reset, ConfigObject, NoVersion
<1>6. PICK after : after = [os EXCEPT ![re] = p]
  OBVIOUS
<1>7. /\ after \in Seq(ConfigObject) /\ Len(after) = Len(os) /\ after[re] = p
      /\ \A j \in 1..Len(os) : j # re => after[j] = os[j]
  BY <1>1, <1>2, <1>5, <1>6, ObjectChanges
<1>8. LookupTypes(d, n, cs, after, NoObject, lk)
  <2>1. NoObject \in 0..Len(os)
    BY <1>2 DEF NoObject
  <2> QED BY <1>1, <1>7, <2>1 DEF LookupTypes
<1>9. PICK owner : OwnedBy(owner, d, n, cs, os, lk)
  BY DEF LookupsOK
<1>10. OwnedBy(owner, d, n, cs, after, lk)
  <2>1. BelongsTo(p, owner[re], d, n)
    <3>1. BelongsTo(o, owner[re], d, n)
      BY <1>2, <1>3, <1>9 DEF OwnedBy
    <3> QED BY <1>5, <3>1 DEF BelongsTo
  <2>2. \A j \in 1..Len(after) : BelongsTo(after[j], owner[j], d, n)
    BY <1>7, <1>9, <2>1 DEF OwnedBy
  <2> QED BY <1>7, <1>9, <2>2 DEF OwnedBy
<1>11. LookupGot(lk, after[lk.object], d, n)
  <2>1. LookupGot(lk, os[lk.object], d, n)
    BY DEF LookupsOK
  <2>2. lk.pc = "return" => after[lk.object].version \in {NoVersion, os[lk.object].version}
    <3>1. lk.pc = "return" => lk.object \in 1..Len(os)
      BY <1>1 DEF Searching, NoObject
    <3> QED BY <1>5, <1>7, <3>1
  <2> QED BY <2>1, <2>2 DEF LookupGot, Answers
<1>12. ASSUME Steady(d) PROVE AllSteady(d, n, cs, after, NoObject, lk)
  <2>1. AllSteady(d, n, cs, os, re, lk)
    BY <1>12 DEF LookupsOK
  <2>2. lk.pc = "idle"
    BY <2>1 DEF AllSteady
  <2>3. ASSUME NEW c \in DOMAIN cs
        PROVE  SteadyObject(after[cs[c]], c, d, n, NoObject # cs[c])
    <3>1. SteadyObject(os[cs[c]], c, d, n, re # cs[c]) /\ cs[c] \in 1..Len(os)
      BY <1>1, <2>1 DEF AllSteady
    <3>2. CASE cs[c] = re
      BY <1>3, <1>5, <1>7, <3>1, <3>2 DEF SteadyObject
    <3>3. CASE cs[c] # re
      <4>1. after[cs[c]] = os[cs[c]]
        BY <1>7, <3>1, <3>3
      <4> QED BY <3>1, <3>3, <4>1 DEF SteadyObject
    <3> QED BY <3>2, <3>3
  <2> QED BY <2>1, <2>2, <2>3 DEF AllSteady
<1>13. LookupsOK(d, n, cs, after, NoObject, lk)
  BY <1>8, <1>10, <1>11, <1>12 DEF LookupsOK
<1>14. [os EXCEPT ![re] = Reset(@)] = after
  BY <1>3, <1>4, <1>6
<1> QED BY <1>13, <1>14

\* The thread processes an event.
LEMMA ConsumeKeeps ==
  ASSUME Configured, ConfigurationDefinition(definition), Found(definition, lookup), ConsumeEvent
  PROVE  Found(definition, lookup)'
<1>1. PICK d : d = definition /\ d = definition'
  BY DEF ConsumeEvent
<1>2. PICK n, cs, os, re : n = applied /\ cs = configurations /\ os = objects /\ re = resetting
  OBVIOUS
<1>3. PICK lk : lk = lookup /\ lk = lookup'
  BY DEF ConsumeEvent
<1>4. LookupsOK(d, n, cs, os, re, lk) /\ ConfigurationDefinition(d)
  BY <1>1, <1>2, <1>3 DEF Found
<1>5. n < Len(d.events) /\ re = NoObject /\ (d.concurrent \/ lk.pc = "idle")
  BY <1>1, <1>2, <1>3 DEF ConsumeEvent, MayInterleave
<1>6. PICK e : e = d.events[n + 1]
  OBVIOUS
<1>7. applied' = n + 1 /\ (CreateConfiguration(e) \/ AddVersion(e) \/ DeleteVersion(e))
  BY <1>1, <1>2, <1>6 DEF ConsumeEvent
<1>8. \A ds, ns, ss, ts, rs : definition' = ds /\ applied' = ns /\ configurations' = ss
          /\ objects' = ts /\ resetting' = rs /\ LookupsOK(ds, ns, ss, ts, rs, lk)
          => Found(definition, lookup)'
  BY <1>3 DEF Found
<1>9. CASE CreateConfiguration(e)
  <2>1. /\ e.event # "deleted" /\ e.config \notin DOMAIN cs /\ resetting' = re
        /\ objects' = Append(os, NewConfiguration(e))
        /\ configurations' = Entered(cs, e.config, Len(os) + 1)
    BY <1>2, <1>9 DEF CreateConfiguration
  <2>2. LookupsOK(d, n + 1, Entered(cs, e.config, Len(os) + 1),
                  Append(os, NewConfiguration(e)), re, lk)
    BY <1>4, <1>5, <1>6, <2>1, CreateKeeps
  <2> QED BY <1>1, <1>7, <1>8, <2>1, <2>2
<1>10. CASE AddVersion(e)
  <2>1. PICK k : k = cs[e.config]
    OBVIOUS
  <2>2. /\ e.event # "deleted" /\ e.config \in DOMAIN cs /\ resetting' = k
        /\ objects' = [os EXCEPT ![k].versions = Entered(@, e.version, e.from)]
        /\ configurations' = cs
    BY <1>2, <1>10, <2>1 DEF AddVersion
  <2>3. LookupsOK(d, n + 1, cs, [os EXCEPT ![k].versions = Entered(@, e.version, e.from)], k, lk)
    BY <1>4, <1>5, <1>6, <2>1, <2>2, AddKeeps
  <2> QED BY <1>1, <1>7, <1>8, <2>2, <2>3
<1>11. CASE DeleteVersion(e)
  <2>1. e.event = "deleted" /\ resetting' = re
    BY <1>2, <1>11 DEF DeleteVersion
  <2>2. CASE e.config \in DOMAIN cs /\ e.version \in DOMAIN os[cs[e.config]].versions
    <3>1. PICK k : k = cs[e.config]
      OBVIOUS
    <3>2. PICK left : left = DOMAIN os[k].versions \ {e.version}
      OBVIOUS
    <3>3. PICK rest : rest = IF left # {} THEN cs ELSE Restrict(cs, DOMAIN cs \ {e.config})
      OBVIOUS
    <3>4. /\ objects' = [os EXCEPT ![k].versions = Restrict(@, left)]
          /\ configurations' = rest
      BY <1>2, <1>11, <2>2, <3>1, <3>2, <3>3 DEF DeleteVersion
    <3>5. DOMAIN rest \subseteq DOMAIN cs /\ \A c \in DOMAIN rest : rest[c] = cs[c]
      BY <3>3 DEF Restrict
    <3>6. LookupsOK(d, n + 1, rest, [os EXCEPT ![k].versions = Restrict(@, left)], re, lk)
      <4>1. k \in {cs[c] : c \in DOMAIN cs} /\ left \subseteq DOMAIN os[k].versions
        BY <2>2, <3>1, <3>2
      <4>2. d.events[n + 1].event = "deleted"
        BY <1>6, <2>1
      <4> QED BY <1>4, <1>5, <3>5, <4>1, <4>2, DeleteKeeps
    <3> QED BY <1>1, <1>7, <1>8, <2>1, <3>4, <3>6
  <2>3. CASE ~(e.config \in DOMAIN cs /\ e.version \in DOMAIN os[cs[e.config]].versions)
    <3>1. objects' = os /\ configurations' = cs
      BY <1>2, <1>11, <2>3 DEF DeleteVersion
    <3>2. LookupsOK(d, n + 1, cs, os, re, lk)
      BY <1>4, <1>5, <1>6, <2>1, NoDeleteKeeps
    <3> QED BY <1>1, <1>7, <1>8, <2>1, <3>1, <3>2
  <2> QED BY <2>2, <2>3
<1> QED BY <1>7, <1>9, <1>10, <1>11

\* The thread clears the cache of the configuration that it has changed.
LEMMA ResetVersionsKeeps ==
  ASSUME Configured, ConfigurationDefinition(definition), Found(definition, lookup), ResetVersions
  PROVE  Found(definition, lookup)'
<1>1. PICK d : d = definition /\ d = definition'
  BY DEF ResetVersions
<1>2. PICK n, cs, os, re : n = applied /\ cs = configurations /\ os = objects /\ re = resetting
  OBVIOUS
<1>3. PICK lk : lk = lookup /\ lk = lookup'
  BY DEF ResetVersions
<1>4. LookupsOK(d, n, cs, os, re, lk) /\ ConfigurationDefinition(d) /\ re # NoObject
  BY <1>1, <1>2, <1>3 DEF Found, ResetVersions
<1>5. LookupsOK(d, n, cs, [os EXCEPT ![re] = Reset(@)], NoObject, lk)
  BY <1>4, ResetKeeps
<1>6. /\ applied' = n /\ configurations' = cs /\ resetting' = NoObject
      /\ objects' = [os EXCEPT ![re] = Reset(@)]
  BY <1>2 DEF ResetVersions
<1> QED BY <1>1, <1>3, <1>5, <1>6 DEF Found

-----------------------------------------------------------------------------
(* Contents. *)

\* Entries of a cache have a version each.
ContentEntry == [version : (ConfigKey \cup {""}) \X Nat, content : {"content", "default"}]

Distinct(es) == \A i, j \in 1..Len(es) : es[i].version = es[j].version => i = j

\* Each entry of a cache is one of another one, or the new one.
FromCache(new, es, S) ==
    /\ new \in Seq(S) /\ Distinct(new)
    /\ \A i \in 1..Len(new) : \E j \in 1..Len(es) : new[i] = es[j]

\* A cache without the entry of a version.
LEMMA RemovedIs ==
  ASSUME NEW S, NEW es \in Seq(S), Distinct(es), NEW id
  PROVE  /\ FromCache(Removed(es, id), es, S)
         /\ \A i \in 1..Len(Removed(es, id)) : Removed(es, id)[i].version # id
<1>1. PICK there : there = {i \in DOMAIN es : es[i].version = id}
  OBVIOUS
<1>2. PICK l \in Nat : l = Len(es) /\ DOMAIN es = 1..l
  OBVIOUS
<1>3. CASE there = {}
  <2>1. Removed(es, id) = es
    BY <1>1, <1>3 DEF Removed
  <2>2. \A i \in 1..Len(es) : es[i].version # id
    BY <1>1, <1>2, <1>3
  <2> QED BY <2>1, <2>2 DEF FromCache
<1>4. CASE there # {}
  <2>1. PICK k : k = CHOOSE i \in there : TRUE
    OBVIOUS
  <2>2. k \in there
    BY <1>4, <2>1
  <2>3. k \in 1..l /\ es[k].version = id
    BY <1>1, <1>2, <2>2
  <2>4. PICK r : r = RemoveAt(es, k)
    OBVIOUS
  <2>5. Removed(es, id) = r
    BY <1>1, <1>4, <2>1, <2>4 DEF Removed
  <2>6. /\ r \in Seq(S) /\ Len(r) = l - 1
        /\ \A i \in 1..l - 1 : r[i] = IF i < k THEN es[i] ELSE es[i + 1]
    BY <1>2, <2>3, <2>4, RemoveAtIs
  <2>7. ASSUME NEW i \in 1..l - 1
        PROVE  \E j \in 1..l : j # k /\ r[i] = es[j] /\ j = IF i < k THEN i ELSE i + 1
    BY <1>2, <2>3, <2>6
  <2>8. \A i \in 1..l - 1 : r[i].version # id
    BY <1>2, <2>3, <2>7 DEF Distinct
  <2>9. Distinct(r)
    <3> SUFFICES ASSUME NEW i \in 1..l - 1, NEW j \in 1..l - 1, r[i].version = r[j].version
                 PROVE  i = j
      BY <2>6 DEF Distinct
    <3>1. PICK a \in 1..l : r[i] = es[a] /\ a = IF i < k THEN i ELSE i + 1
      BY <2>7
    <3>2. PICK b \in 1..l : r[j] = es[b] /\ b = IF j < k THEN j ELSE j + 1
      BY <2>7
    <3>3. a = b
      BY <1>2, <3>1, <3>2 DEF Distinct
    <3> QED BY <1>2, <2>3, <3>1, <3>2, <3>3
  <2> QED BY <1>2, <2>5, <2>6, <2>7, <2>8, <2>9 DEF FromCache
<1> QED BY <1>3, <1>4

\* A cache with an entry at its end.
LEMMA RecentIs ==
  ASSUME NEW S, NEW es \in Seq(S), Distinct(es), NEW e \in S, definition.cacheSize \in Nat \ {0}
  PROVE  LET new == Recent(es, e)
         IN  /\ new \in Seq(S) /\ Distinct(new)
             /\ \A i \in 1..Len(new) :
                   \/ new[i] = e
                   \/ new[i].version # e.version /\ \E j \in 1..Len(es) : new[i] = es[j]
<1>1. PICK r : r = Removed(es, e.version)
  OBVIOUS
<1>2. FromCache(r, es, S) /\ \A i \in 1..Len(r) : r[i].version # e.version
  BY <1>1, RemovedIs
<1>3. PICK t : t = IF Len(r) >= definition.cacheSize THEN Tail(r) ELSE r
  OBVIOUS
<1>4. r \in Seq(S) /\ Distinct(r) /\ \A i \in 1..Len(r) : \E j \in 1..Len(es) : r[i] = es[j]
  BY <1>2 DEF FromCache
<1>5. /\ t \in Seq(S) /\ Distinct(t)
      /\ \A i \in 1..Len(t) : \E j \in 1..Len(r) : t[i] = r[j]
  <2>1. CASE Len(r) >= definition.cacheSize
    <3>1. r # <<>> /\ t = Tail(r)
      BY <1>3, <2>1
    <3>2. t \in Seq(S) /\ Len(t) = Len(r) - 1 /\ \A i \in 1..Len(t) : t[i] = r[i + 1]
      BY <1>4, <3>1, HeadTailProperties
    <3>3. \A i \in 1..Len(t) : i + 1 \in 1..Len(r)
      BY <1>4, <3>2
    <3>4. Distinct(t)
      <4> SUFFICES ASSUME NEW i \in 1..Len(t), NEW j \in 1..Len(t), t[i].version = t[j].version
                   PROVE  i = j
        BY DEF Distinct
      <4>1. r[i + 1].version = r[j + 1].version /\ i + 1 \in 1..Len(r) /\ j + 1 \in 1..Len(r)
        BY <3>2, <3>3
      <4>2. i + 1 = j + 1
        BY <1>4, <4>1 DEF Distinct
      <4> QED BY <3>2, <4>2
    <3> QED BY <3>2, <3>3, <3>4
  <2>2. CASE ~(Len(r) >= definition.cacheSize)
    BY <1>3, <1>4, <2>2
  <2> QED BY <2>1, <2>2
<1>6. PICK new : new = Append(t, e)
  OBVIOUS
<1>7. Recent(es, e) = new
  BY <1>1, <1>3, <1>6 DEF Recent
<1>8. PICK l \in Nat : l = Len(t)
  BY <1>5
<1>9. /\ new \in Seq(S) /\ Len(new) = l + 1 /\ new[l + 1] = e
      /\ \A i \in 1..l : new[i] = t[i]
  BY <1>5, <1>6, <1>8, AppendProperties
<1>10. \A i \in 1..l : t[i].version # e.version /\ \E j \in 1..Len(es) : t[i] = es[j]
  <2> TAKE i \in 1..l
  <2>1. PICK j \in 1..Len(r) : t[i] = r[j]
    BY <1>5, <1>8
  <2>2. r[j].version # e.version
    BY <1>2, <2>1
  <2>3. PICK k \in 1..Len(es) : r[j] = es[k]
    BY <1>4, <2>1
  <2> QED BY <2>1, <2>2, <2>3
<1>11. \A i \in 1..l + 1 : i \in 1..l \/ i = l + 1
  BY <1>8
<1>12. Distinct(new)
  <2> SUFFICES ASSUME NEW i \in 1..l + 1, NEW j \in 1..l + 1, new[i].version = new[j].version
               PROVE  i = j
    BY <1>9 DEF Distinct
  <2>1. CASE i \in 1..l /\ j \in 1..l
    <3>1. t[i].version = t[j].version
      BY <1>9, <2>1
    <3> QED BY <1>5, <1>8, <2>1, <3>1 DEF Distinct
  <2>2. CASE i \in 1..l /\ j = l + 1
    BY <1>9, <1>10, <2>2
  <2>3. CASE i = l + 1 /\ j \in 1..l
    BY <1>9, <1>10, <2>3
  <2> QED BY <1>11, <2>1, <2>2, <2>3
<1> QED BY <1>7, <1>9, <1>10, <1>11, <1>12

\* The messages that have been enriched.
LookupMessage ==
    [key : ConfigKey \cup {""}, stamp : Nat, version : Nat, content : {"content", "default"},
     fetched : BOOLEAN, since : Int, applied : Nat, at : Int]

\* One of the messages has tried to fetch a version so late.
Attempted(log, n, config, v, time) ==
    \E m \in 1..n : /\ log[m].key = config /\ log[m].version = v /\ log[m].fetched
                    /\ time <= log[m].at + VERSION_RETRY_MAX_DELAY

\* A message has its version and its content.
MessageOK(log, n, d) ==
    /\ log[n].version # NoVersion =>
          /\ FromOf(d, log[n].key, log[n].version) <= log[n].stamp
          /\ Announced(d, log[n].applied, log[n].key, log[n].version)
    /\ Steady(d) => log[n].version = Best(After(d, log[n].key, log[n].since), log[n].stamp)
    /\ log[n].version # NoVersion /\ log[n].content = "default" =>
          Attempted(log, n, log[n].key, log[n].version, log[n].at)

\* Defaults are cached for a version that has been tried, until it is due again.
ContentsOK(es, rs, log) ==
    /\ es \in Seq(ContentEntry) /\ Distinct(es)
    /\ \A id \in DOMAIN rs : rs[id] \in [count : Nat, at : Int]
    /\ \A i \in 1..Len(es) :
          LET id == es[i].version
          IN  es[i].content = "default" /\ id[2] # NoVersion =>
                  /\ id \in DOMAIN rs
                  /\ Attempted(log, Len(log), id[1], id[2], rs[id].at)

-----------------------------------------------------------------------------
(* The invariant. *)

\* The invariant of lookups.
ConfigInv ==
    /\ definition \in Definitions
    /\ Configured =>
          /\ clock \in Int /\ arrived \in Seq(LookupMessage)
          /\ Found(definition, lookup)
          /\ ContentsOK(contents, retries, arrived)
          /\ \A n \in 1..Len(arrived) : MessageOK(arrived, n, definition)

\* A lookup in configurations is nothing else.
LEMMA ConfiguredDefinition ==
  ASSUME definition \in Definitions, Configured
  PROVE  /\ ConfigurationDefinition(definition)
         /\ Keys(definition) \subseteq Key /\ Stamps(definition) \subseteq Nat
         /\ ~Windowed /\ ~Aggregating /\ ~Stating /\ ~TableLookup /\ ~Joined
BY DefinitionAssumption DEF Stating, AggregatesDefinition, StateDefinition, TableDefinition,
   JoinDefinition, Windowed, Aggregating, Joined, TableLookup, Configured

\* Later messages change nothing for earlier ones.
LEMMA MessagesStay ==
  ASSUME NEW log \in Seq(LookupMessage), NEW m \in LookupMessage, NEW new, new = Append(log, m)
  PROVE  /\ new \in Seq(LookupMessage) /\ Len(new) = Len(log) + 1 /\ new[Len(log) + 1] = m
         /\ \A n \in 1..Len(log) : \A d : MessageOK(log, n, d) => MessageOK(new, n, d)
         /\ \A config, v, time : Attempted(log, Len(log), config, v, time) =>
                                     Attempted(new, Len(log) + 1, config, v, time)
<1>1. PICK l \in Nat : l = Len(log)
  OBVIOUS
<1>2. /\ new \in Seq(LookupMessage) /\ Len(new) = l + 1 /\ new[l + 1] = m
      /\ \A n \in 1..l : new[n] = log[n]
  BY <1>1, AppendProperties
<1>3. \A n \in 1..l : \A k \in 1..n : k \in 1..l
  BY <1>1
<1>4. \A n \in 1..l : \A config, v, time :
          Attempted(log, n, config, v, time) => Attempted(new, n, config, v, time)
  BY <1>2, <1>3 DEF Attempted
<1>5. \A n \in 1..l : \A d : MessageOK(log, n, d) => MessageOK(new, n, d)
  BY <1>2, <1>4 DEF MessageOK
<1>6. \A k \in 1..l : k \in 1..l + 1
  BY <1>1
<1>7. \A config, v, time : Attempted(log, l, config, v, time) =>
                               Attempted(new, l + 1, config, v, time)
  BY <1>2, <1>6 DEF Attempted
<1> QED BY <1>1, <1>2, <1>5, <1>7

\* A message gets its version.
LEMMA VersionFound ==
  ASSUME NEW d, ConfigurationDefinition(d), NEW n, NEW cs, NEW os, NEW re, NEW lk,
         LookupsOK(d, n, cs, os, re, lk), lk.pc = "fetch"
  PROVE  /\ lk.key \in ConfigKey \cup {""} /\ lk.stamp \in Nat /\ lk.version \in Nat
         /\ lk.since \in Int /\ n \in Nat
         /\ lk.version # NoVersion =>
               FromOf(d, lk.key, lk.version) <= lk.stamp /\ Announced(d, n, lk.key, lk.version)
         /\ Steady(d) => lk.version = Best(After(d, lk.key, lk.since), lk.stamp)
<1>1. lk \in LookupStates /\ n \in 0..Len(d.events)
  BY DEF LookupsOK, LookupTypes
<1>2. n \in Nat
  <2>1. Len(d.events) \in Nat
    BY DEF ConfigurationDefinition
  <2> QED BY <1>1, <2>1
<1>3. Answers(lk.version, lk, d, n)
  BY DEF LookupsOK, LookupGot
<1>4. ASSUME Steady(d)
      PROVE  lk.version = Best(After(d, lk.key, lk.since), lk.stamp)
  <2>1. SteadyLookup(lk, os[lk.object], d, n, cs)
    BY <1>4 DEF LookupsOK, AllSteady
  <2> QED BY <2>1 DEF SteadyLookup
<1> QED BY <1>1, <1>2, <1>3, <1>4 DEF LookupStates, Answers

\* What is due is no longer in the cache.
LEMMA DueIs ==
  ASSUME NEW id, ContentsOK(contents, retries, arrived)
  PROVE  /\ FromCache(Due(id), contents, ContentEntry)
         /\ RetryOf(id).at < clock => \A i \in 1..Len(Due(id)) : Due(id)[i].version # id
<1>1. PICK es : es = contents
  OBVIOUS
<1>2. es \in Seq(ContentEntry) /\ Distinct(es)
  BY <1>1 DEF ContentsOK
<1>3. CASE RetryOf(id).at < clock
  <2>1. Due(id) = Removed(es, id)
    BY <1>1, <1>3 DEF Due
  <2> QED BY <1>1, <1>2, <2>1, RemovedIs
<1>4. CASE ~(RetryOf(id).at < clock)
  <2>1. Due(id) = es
    BY <1>1, <1>4 DEF Due
  <2> QED BY <1>1, <1>2, <1>4, <2>1 DEF FromCache
<1> QED BY <1>3, <1>4

\* A message is enriched with what the cache has.
LEMMA CachedContentKeeps ==
  ASSUME ConfigInv, Configured, CachedContent
  PROVE  ConfigInv'
<1>1. PICK d : d = definition /\ d = definition' /\ d \in Definitions
  BY DEF CachedContent, ConfigInv
<1>2. ConfigurationDefinition(d) /\ d.cacheSize \in Nat \ {0}
  BY <1>1, ConfiguredDefinition DEF ConfigurationDefinition
<1>3. PICK lk : lk = lookup
  OBVIOUS
<1>4. PICK log : log = arrived
  OBVIOUS
<1>5. PICK es, rs : es = contents /\ rs = retries
  OBVIOUS
<1>6. PICK n : n = applied
  OBVIOUS
<1>7. PICK now : now = clock
  OBVIOUS
<1>8. /\ now \in Int /\ log \in Seq(LookupMessage) /\ Found(d, lk)
      /\ ContentsOK(es, rs, log) /\ \A k \in 1..Len(log) : MessageOK(log, k, d)
      /\ lk.pc = "fetch"
  BY <1>1, <1>3, <1>4, <1>5, <1>7 DEF ConfigInv, CachedContent
<1>9. /\ lk.key \in ConfigKey \cup {""} /\ lk.stamp \in Nat /\ lk.version \in Nat
      /\ lk.since \in Int /\ n \in Nat
      /\ lk.version # NoVersion =>
            FromOf(d, lk.key, lk.version) <= lk.stamp /\ Announced(d, n, lk.key, lk.version)
      /\ Steady(d) => lk.version = Best(After(d, lk.key, lk.since), lk.stamp)
  BY <1>2, <1>6, <1>8, VersionFound DEF Found
<1>10. PICK id : id = VersionId
  OBVIOUS
<1>11. id = IF lk.version = NoVersion THEN <<"*", NoVersion>> ELSE <<lk.key, lk.version>>
  BY <1>3, <1>10 DEF VersionId
<1>12. PICK due : due = Due(id)
  OBVIOUS
<1>13. /\ FromCache(due, es, ContentEntry)
       /\ RetryOf(id).at < now => \A i \in 1..Len(due) : due[i].version # id
  BY <1>4, <1>5, <1>7, <1>8, <1>12, DueIs
<1>14. due \in Seq(ContentEntry) /\ Distinct(due) /\ DOMAIN due = 1..Len(due)
  BY <1>13 DEF FromCache
<1>15. PICK x \in 1..Len(due) :
           /\ due[x].version = id /\ contents' = Recent(due, due[x]) /\ Enriched(due[x].content, FALSE)
  BY <1>10, <1>12, <1>14 DEF CachedContent
<1>16. PICK e \in ContentEntry : e = due[x]
  BY <1>14
<1>17. PICK y \in 1..Len(es) : e = es[y]
  BY <1>13, <1>16 DEF FromCache
<1>18. PICK m : m = [key |-> lk.key, stamp |-> lk.stamp, version |-> lk.version,
                     content |-> e.content, fetched |-> FALSE, since |-> lk.since,
                     applied |-> n, at |-> now]
  OBVIOUS
<1>19. arrived' = Append(log, m) /\ lookup' = IdleLookup
  BY <1>3, <1>4, <1>6, <1>7, <1>15, <1>16, <1>18 DEF Enriched, Arrives
<1>20. e.content \in {"content", "default"} /\ e.version = id
  BY <1>15, <1>16 DEF ContentEntry
<1>21. /\ m \in LookupMessage /\ m.key = lk.key /\ m.stamp = lk.stamp /\ m.version = lk.version
       /\ m.content = e.content /\ m.since = lk.since /\ m.applied = n /\ m.at = now
  BY <1>8, <1>9, <1>18, <1>20 DEF LookupMessage
<1>22. PICK new : new = Append(log, m)
  OBVIOUS
<1>23. PICK l \in Nat : l = Len(log)
  BY <1>8
<1>24. /\ new \in Seq(LookupMessage) /\ Len(new) = l + 1 /\ new[l + 1] = m
       /\ \A k \in 1..l : MessageOK(new, k, d)
       /\ \A config, v, time : Attempted(log, l, config, v, time) =>
                                   Attempted(new, l + 1, config, v, time)
  BY <1>8, <1>21, <1>22, <1>23, MessagesStay
<1>25. ASSUME m.version # NoVersion, m.content = "default"
       PROVE  Attempted(new, l + 1, m.key, m.version, now)
  <2>1. id = <<lk.key, lk.version>> /\ id[1] = lk.key /\ id[2] = lk.version
    BY <1>11, <1>21, <1>25
  <2>2. id \in DOMAIN rs /\ Attempted(log, l, id[1], id[2], rs[id].at)
    BY <1>8, <1>17, <1>20, <1>21, <1>23, <1>25, <2>1 DEF ContentsOK
  <2>3. RetryOf(id) = rs[id] /\ rs[id].at \in Int
    BY <1>5, <1>8, <2>2 DEF RetryOf, ContentsOK
  <2>4. now <= rs[id].at
    BY <1>8, <1>13, <1>15, <2>3
  <2>5. Attempted(new, l + 1, m.key, m.version, rs[id].at)
    BY <1>21, <1>24, <2>1, <2>2
  <2>6. PICK k \in 1..l + 1 : /\ new[k].key = m.key /\ new[k].version = m.version /\ new[k].fetched
                              /\ rs[id].at <= new[k].at + VERSION_RETRY_MAX_DELAY
    BY <2>5 DEF Attempted
  <2>7. new[k].at \in Int
    <3>1. new[k] \in LookupMessage
      BY <1>24
    <3> QED BY <3>1 DEF LookupMessage
  <2>8. now <= new[k].at + VERSION_RETRY_MAX_DELAY
    BY <1>8, <2>3, <2>4, <2>6, <2>7 DEF VERSION_RETRY_MAX_DELAY
  <2> QED BY <2>6, <2>8 DEF Attempted
<1>26. MessageOK(new, l + 1, d)
  BY <1>9, <1>21, <1>24, <1>25 DEF MessageOK
<1>27. \A k \in 1..Len(new) : MessageOK(new, k, d)
  BY <1>24, <1>26
<1>28. PICK after : after = Recent(due, e)
  OBVIOUS
<1>29. /\ after \in Seq(ContentEntry) /\ Distinct(after)
       /\ \A i \in 1..Len(after) : after[i] = e \/ \E j \in 1..Len(due) : after[i] = due[j]
  <2>1. definition.cacheSize \in Nat \ {0}
    BY <1>1, <1>2
  <2>2. /\ after \in Seq(ContentEntry) /\ Distinct(after)
        /\ \A i \in 1..Len(after) :
              \/ after[i] = e
              \/ after[i].version # e.version /\ \E j \in 1..Len(due) : after[i] = due[j]
    <3>1. PICK S : S = ContentEntry
      OBVIOUS
    <3>2. due \in Seq(S) /\ e \in S
      BY <1>14, <3>1
    <3>3. /\ Recent(due, e) \in Seq(S) /\ Distinct(Recent(due, e))
          /\ \A i \in 1..Len(Recent(due, e)) :
                \/ Recent(due, e)[i] = e
                \/ /\ Recent(due, e)[i].version # e.version
                   /\ \E j \in 1..Len(due) : Recent(due, e)[i] = due[j]
      BY <1>14, <2>1, <3>2, RecentIs
    <3> QED BY <1>28, <3>1, <3>3
  <2> QED BY <2>2
<1>30. \A i \in 1..Len(after) : \E j \in 1..Len(es) : after[i] = es[j]
  <2>1. \A i \in 1..Len(due) : \E j \in 1..Len(es) : due[i] = es[j]
    BY <1>13 DEF FromCache
  <2> QED BY <1>17, <1>29, <2>1
<1>31. ContentsOK(after, rs, new)
  <2>1. ASSUME NEW i \in 1..Len(after), after[i].content = "default",
               after[i].version[2] # NoVersion
        PROVE  /\ after[i].version \in DOMAIN rs
               /\ Attempted(new, l + 1, after[i].version[1], after[i].version[2],
                            rs[after[i].version].at)
    <3>1. PICK j \in 1..Len(es) : after[i] = es[j]
      BY <1>30
    <3>2. /\ after[i].version \in DOMAIN rs
          /\ Attempted(log, l, after[i].version[1], after[i].version[2],
                       rs[after[i].version].at)
      BY <1>8, <1>23, <2>1, <3>1 DEF ContentsOK
    <3> QED BY <1>24, <3>2
  <2>2. \A i \in DOMAIN rs : rs[i] \in [count : Nat, at : Int]
    BY <1>8 DEF ContentsOK
  <2> QED BY <1>24, <1>29, <2>1, <2>2 DEF ContentsOK
<1>32. contents' = after /\ retries' = rs /\ clock' = now /\ arrived' = new
  BY <1>5, <1>7, <1>15, <1>16, <1>19, <1>22, <1>28 DEF CachedContent
<1>33. Found(definition, lookup)'
  <2>1. Found(d, IdleLookup)
    BY <1>2, <1>8, EndKeeps
  <2>2. /\ applied' = applied /\ configurations' = configurations /\ objects' = objects
        /\ resetting' = resetting
    BY DEF CachedContent
  <2> QED BY <1>1, <1>19, <2>1, <2>2 DEF Found
<1> QED BY <1>1, <1>8, <1>24, <1>27, <1>31, <1>32, <1>33 DEF ConfigInv

\* The next attempt is due after the longest delay at the latest.
LEMMA FailedIs ==
  ASSUME clock \in Int, NEW retry \in [count : Nat, at : Int]
  PROVE  /\ Failed(retry) \in [count : Nat, at : Int]
         /\ Failed(retry).at <= clock + VERSION_RETRY_MAX_DELAY
<1>1. PICK n \in Nat : n = retry.count
  OBVIOUS
<1>2. 2 ^ n \in Int
  OBVIOUS
<1>3. PICK x : x = VERSION_RETRY_BASE_DELAY * 2 ^ n
  OBVIOUS
<1>4. x \in Int
  <2>1. PICK y \in Int : y = 2 ^ n
    BY <1>2
  <2> QED BY <1>3, <2>1 DEF VERSION_RETRY_BASE_DELAY
<1>5. PICK least : least = Min({x, 2})
  OBVIOUS
<1>6. least \in Int /\ least <= 2
  <2>1. \E y \in {x, 2} : \A z \in {x, 2} : y <= z
    BY <1>4
  <2>2. least \in {x, 2} /\ \A z \in {x, 2} : least <= z
    BY <1>5, <2>1 DEF Min
  <2> QED BY <1>4, <2>2
<1>7. Failed(retry) = [count |-> n + 1, at |-> clock + least]
  BY <1>1, <1>3, <1>5 DEF Failed, VERSION_RETRY_MAX_DELAY
<1>8. n + 1 \in Nat /\ clock + least \in Int /\ clock + least <= clock + VERSION_RETRY_MAX_DELAY
  BY <1>6 DEF VERSION_RETRY_MAX_DELAY
<1> QED BY <1>7, <1>8

\* A message is enriched with what is fetched, or defaults.
LEMMA FetchContentKeeps ==
  ASSUME ConfigInv, Configured, FetchContent
  PROVE  ConfigInv'
<1>1. PICK d : d = definition /\ d = definition' /\ d \in Definitions
  BY DEF FetchContent, ConfigInv
<1>2. ConfigurationDefinition(d) /\ d.cacheSize \in Nat \ {0}
  BY <1>1, ConfiguredDefinition DEF ConfigurationDefinition
<1>3. PICK lk : lk = lookup
  OBVIOUS
<1>4. PICK log : log = arrived
  OBVIOUS
<1>5. PICK es, rs : es = contents /\ rs = retries
  OBVIOUS
<1>6. PICK n : n = applied
  OBVIOUS
<1>7. PICK now : now = clock
  OBVIOUS
<1>8. /\ now \in Int /\ log \in Seq(LookupMessage) /\ Found(d, lk)
      /\ ContentsOK(es, rs, log) /\ \A k \in 1..Len(log) : MessageOK(log, k, d)
      /\ lk.pc = "fetch"
  BY <1>1, <1>3, <1>4, <1>5, <1>7 DEF ConfigInv, FetchContent
<1>9. /\ lk.key \in ConfigKey \cup {""} /\ lk.stamp \in Nat /\ lk.version \in Nat
      /\ lk.since \in Int /\ n \in Nat
      /\ lk.version # NoVersion =>
            FromOf(d, lk.key, lk.version) <= lk.stamp /\ Announced(d, n, lk.key, lk.version)
      /\ Steady(d) => lk.version = Best(After(d, lk.key, lk.since), lk.stamp)
  BY <1>2, <1>6, <1>8, VersionFound DEF Found
<1>10. PICK id : id = VersionId
  OBVIOUS
<1>11. id = IF lk.version = NoVersion THEN <<"*", NoVersion>> ELSE <<lk.key, lk.version>>
  BY <1>3, <1>10 DEF VersionId
<1>12. PICK due : due = Due(id)
  OBVIOUS
<1>13. FromCache(due, es, ContentEntry)
  BY <1>4, <1>5, <1>8, <1>12, DueIs
<1>14. due \in Seq(ContentEntry) /\ Distinct(due)
  BY <1>13 DEF FromCache
<1>15. PICK ok \in BOOLEAN :
           LET content == IF ok /\ lk.version # NoVersion THEN "content" ELSE "default"
           IN  /\ contents' = Recent(due, [version |-> id, content |-> content])
               /\ Enriched(content, TRUE)
               /\ retries' = IF lk.version = NoVersion THEN rs
                             ELSE Entered(rs, id, IF ok THEN [count |-> 0, at |-> Never]
                                                  ELSE Failed(RetryOf(id)))
  BY <1>3, <1>5, <1>10, <1>12, Zenon DEF FetchContent
<1>16. PICK c : c = IF ok /\ lk.version # NoVersion THEN "content" ELSE "default"
  OBVIOUS
<1>17. PICK e : e = [version |-> id, content |-> c]
  OBVIOUS
<1>18. e.version = id /\ e.content = c /\ e \in ContentEntry /\ c \in {"content", "default"}
  <2>1. id \in (ConfigKey \cup {""}) \X Nat
    BY <1>9, <1>11 DEF ConfigKey, NoVersion
  <2> QED BY <1>16, <1>17, <2>1 DEF ContentEntry
<1>19. PICK m : m = [key |-> lk.key, stamp |-> lk.stamp, version |-> lk.version,
                     content |-> c, fetched |-> TRUE, since |-> lk.since,
                     applied |-> n, at |-> now]
  OBVIOUS
<1>20. arrived' = Append(log, m) /\ lookup' = IdleLookup
  BY <1>3, <1>4, <1>6, <1>7, <1>15, <1>16, <1>19 DEF Enriched, Arrives
<1>21. /\ m \in LookupMessage /\ m.key = lk.key /\ m.stamp = lk.stamp /\ m.version = lk.version
       /\ m.content = c /\ m.fetched /\ m.since = lk.since /\ m.applied = n /\ m.at = now
  BY <1>8, <1>9, <1>18, <1>19 DEF LookupMessage
<1>22. PICK new : new = Append(log, m)
  OBVIOUS
<1>23. PICK l \in Nat : l = Len(log)
  BY <1>8
<1>24. /\ new \in Seq(LookupMessage) /\ Len(new) = l + 1 /\ new[l + 1] = m
       /\ \A k \in 1..l : MessageOK(new, k, d)
       /\ \A config, v, time : Attempted(log, l, config, v, time) =>
                                   Attempted(new, l + 1, config, v, time)
  BY <1>8, <1>21, <1>22, <1>23, MessagesStay
<1>25. \A time \in Int : time <= now + VERSION_RETRY_MAX_DELAY =>
           Attempted(new, l + 1, lk.key, lk.version, time)
  <2>1. l + 1 \in 1..l + 1
    BY <1>23
  <2> QED BY <1>21, <1>24, <2>1 DEF Attempted
<1>26. MessageOK(new, l + 1, d)
  <2>1. now <= now + VERSION_RETRY_MAX_DELAY
    BY <1>8 DEF VERSION_RETRY_MAX_DELAY
  <2>2. Attempted(new, l + 1, lk.key, lk.version, now)
    BY <1>8, <1>25, <2>1
  <2> QED BY <1>9, <1>21, <1>24, <2>2 DEF MessageOK
<1>27. \A k \in 1..Len(new) : MessageOK(new, k, d)
  BY <1>24, <1>26
<1>28. PICK after : after = Recent(due, e)
  OBVIOUS
<1>29. /\ after \in Seq(ContentEntry) /\ Distinct(after)
       /\ \A i \in 1..Len(after) :
             \/ after[i] = e
             \/ after[i].version # id /\ \E j \in 1..Len(due) : after[i] = due[j]
  <2>1. definition.cacheSize \in Nat \ {0}
    BY <1>1, <1>2
  <2>2. PICK S : S = ContentEntry
    OBVIOUS
  <2>3. due \in Seq(S) /\ e \in S
    BY <1>14, <1>18, <2>2
  <2>4. /\ Recent(due, e) \in Seq(S) /\ Distinct(Recent(due, e))
        /\ \A i \in 1..Len(Recent(due, e)) :
              \/ Recent(due, e)[i] = e
              \/ /\ Recent(due, e)[i].version # e.version
                 /\ \E j \in 1..Len(due) : Recent(due, e)[i] = due[j]
    BY <1>14, <2>1, <2>3, RecentIs
  <2> QED BY <1>18, <1>28, <2>2, <2>4
<1>30. PICK r : r = IF ok THEN [count |-> 0, at |-> Never] ELSE Failed(RetryOf(id))
  OBVIOUS
<1>31. r \in [count : Nat, at : Int] /\ (~ok => r.at <= now + VERSION_RETRY_MAX_DELAY)
  <2>1. RetryOf(id) \in [count : Nat, at : Int]
    <3>1. \A i \in DOMAIN rs : rs[i] \in [count : Nat, at : Int]
      BY <1>8 DEF ContentsOK
    <3> QED BY <1>5, <3>1 DEF RetryOf, Never
  <2>2. /\ Failed(RetryOf(id)) \in [count : Nat, at : Int]
        /\ Failed(RetryOf(id)).at <= now + VERSION_RETRY_MAX_DELAY
    BY <1>7, <1>8, <2>1, FailedIs
  <2>3. [count |-> 0, at |-> Never] \in [count : Nat, at : Int]
    BY DEF Never
  <2> QED BY <1>30, <2>2, <2>3
<1>32. PICK ts : ts = IF lk.version = NoVersion THEN rs ELSE Entered(rs, id, r)
  OBVIOUS
<1>33. /\ \A i \in DOMAIN ts : ts[i] \in [count : Nat, at : Int]
       /\ \A i \in DOMAIN rs : i # id => i \in DOMAIN ts /\ ts[i] = rs[i]
       /\ lk.version # NoVersion => id \in DOMAIN ts /\ ts[id] = r
  <2>1. \A i \in DOMAIN rs : rs[i] \in [count : Nat, at : Int]
    BY <1>8 DEF ContentsOK
  <2>2. CASE lk.version = NoVersion
    BY <1>32, <2>1, <2>2
  <2>3. CASE lk.version # NoVersion
    <3>1. ts = Entered(rs, id, r)
      BY <1>32, <2>3
    <3>2. DOMAIN ts = DOMAIN rs \cup {id} /\ ts[id] = r /\ \A i \in DOMAIN rs : i # id => ts[i] = rs[i]
      BY <3>1 DEF Entered
    <3> QED BY <1>31, <2>1, <3>2
  <2> QED BY <2>2, <2>3
<1>34. ContentsOK(after, ts, new)
  <2>1. ASSUME NEW i \in 1..Len(after), after[i].content = "default",
               after[i].version[2] # NoVersion
        PROVE  /\ after[i].version \in DOMAIN ts
               /\ Attempted(new, l + 1, after[i].version[1], after[i].version[2],
                            ts[after[i].version].at)
    <3>1. CASE after[i] = e
      <4>1. id[2] # NoVersion /\ c = "default"
        BY <1>18, <2>1, <3>1
      <4>2. lk.version # NoVersion /\ id = <<lk.key, lk.version>>
        BY <1>11, <4>1
      <4>3. ~ok
        BY <1>16, <4>1, <4>2
      <4>4. id \in DOMAIN ts /\ ts[id] = r /\ r.at \in Int /\ r.at <= now + VERSION_RETRY_MAX_DELAY
        BY <1>31, <1>33, <4>2, <4>3
      <4>5. Attempted(new, l + 1, lk.key, lk.version, r.at)
        BY <1>25, <4>4
      <4>6. after[i].version = id /\ id[1] = lk.key /\ id[2] = lk.version
        BY <1>18, <3>1, <4>2
      <4> QED BY <4>4, <4>5, <4>6
    <3>2. CASE after[i].version # id /\ \E j \in 1..Len(due) : after[i] = due[j]
      <4>1. PICK j \in 1..Len(es) : after[i] = es[j]
        BY <1>13, <3>2 DEF FromCache
      <4>2. /\ after[i].version \in DOMAIN rs
            /\ Attempted(log, l, after[i].version[1], after[i].version[2],
                         rs[after[i].version].at)
        BY <1>8, <1>23, <2>1, <4>1 DEF ContentsOK
      <4>3. after[i].version \in DOMAIN ts /\ ts[after[i].version] = rs[after[i].version]
        BY <1>33, <3>2, <4>2
      <4> QED BY <1>24, <4>2, <4>3
    <3> QED BY <1>29, <3>1, <3>2
  <2> QED BY <1>24, <1>29, <1>33, <2>1 DEF ContentsOK
<1>35. contents' = after /\ retries' = ts /\ clock' = now /\ arrived' = new
  <2>1. clock' = now
    BY <1>7 DEF FetchContent
  <2> QED BY <1>15, <1>16, <1>17, <1>20, <1>22, <1>28, <1>30, <1>32, <2>1
<1>36. Found(definition, lookup)'
  <2>1. Found(d, IdleLookup)
    BY <1>2, <1>8, EndKeeps
  <2>2. /\ applied' = applied /\ configurations' = configurations /\ objects' = objects
        /\ resetting' = resetting
    BY DEF FetchContent
  <2> QED BY <1>1, <1>20, <2>1, <2>2 DEF Found
<1> QED BY <1>1, <1>8, <1>24, <1>27, <1>34, <1>35, <1>36 DEF ConfigInv

\* The other steps leave the contents and the messages alone.
LEMMA SearchKeeps ==
  ASSUME ConfigInv, Configured,
         \/ ConsumeEvent \/ ResetVersions \/ ReadsOnly \/ AssignVersions \/ ReturnVersion \/ ClockTicks
         \/ \E key \in Keys(definition), stamp \in Stamps(definition) : FindConfiguration(key, stamp)
  PROVE  ConfigInv'
<1>1. ConfigurationDefinition(definition) /\ Found(definition, lookup) /\ definition \in Definitions
  BY ConfiguredDefinition DEF ConfigInv
<1>2. ASSUME Found(definition, lookup'), definition' = definition, applied' = applied,
             configurations' = configurations, objects' = objects, resetting' = resetting
      PROVE  Found(definition, lookup)'
  BY <1>2 DEF Found
<1>3. Found(definition, lookup)'
  <2>1. CASE ConsumeEvent \/ ResetVersions \/ AssignVersions
    BY <1>1, <2>1, ConsumeKeeps, ResetVersionsKeeps, AssignKeeps
  <2>2. CASE ReadsOnly
    <3>1. Found(definition, lookup')
      BY <1>1, <2>2, CheckCachedKeeps, CheckNextKeeps, CheckCurrentKeeps, ComputeKeeps DEF ReadsOnly
    <3> QED BY <1>2, <2>2, <3>1 DEF ReadsOnly
  <2>3. CASE ReturnVersion
    BY <1>1, <1>2, <2>3, ReturnKeeps DEF ReturnVersion
  <2>4. CASE ClockTicks
    BY <1>1, <1>2, <2>4 DEF ClockTicks
  <2>5. ASSUME NEW key \in Keys(definition), NEW stamp \in Stamps(definition),
               FindConfiguration(key, stamp)
        PROVE  Found(definition, lookup)'
    <3>1. key \in Key /\ stamp \in Nat
      BY <1>1, ConfiguredDefinition
    <3>2. Found(definition, lookup')
      BY <1>1, <2>5, <3>1, FindKeeps
    <3> QED BY <1>2, <2>5, <3>2 DEF FindConfiguration
  <2> QED BY <2>1, <2>2, <2>3, <2>4, <2>5
<1>4. definition' = definition /\ arrived' = arrived /\ contents' = contents /\ retries' = retries
  BY Zenon DEF ConsumeEvent, ResetVersions, ReadsOnly, AssignVersions, ReturnVersion, ClockTicks,
     FindConfiguration
<1>5. clock' = clock \/ clock' = clock + 1
  BY Zenon DEF ConsumeEvent, ResetVersions, ReadsOnly, AssignVersions, ReturnVersion, ClockTicks,
     FindConfiguration
<1>6. clock' \in Int
  BY <1>5 DEF ConfigInv
<1> QED BY <1>3, <1>4, <1>6 DEF ConfigInv, Configured

\* No event has been processed at first.
LEMMA InitConfigurations == Init => ConfigInv
<1> SUFFICES ASSUME Init, Configured
             PROVE  ConfigInv
  BY DEF Init, ConfigInv
<1>1. /\ definition \in Definitions /\ arrived = <<>> /\ applied = 0 /\ configurations = <<>>
      /\ objects = <<>> /\ resetting = NoObject /\ lookup = IdleLookup /\ contents = <<>>
      /\ retries = <<>> /\ clock = 0
  BY DEF Init, ConfigurationInit
<1>2. PICK d : d = definition
  OBVIOUS
<1>3. ConfigurationDefinition(d)
  BY <1>1, <1>2, ConfiguredDefinition
<1>4. PICK lk : lk = IdleLookup
  OBVIOUS
<1>5. lk.pc = "idle" /\ lk.object = NoObject /\ lk \in LookupStates
  BY <1>4, IdleIs
<1>6. PICK n : n = 0
  OBVIOUS
<1>7. PICK none : none = <<>>
  OBVIOUS
<1>8. none \in Seq(ConfigObject) /\ Len(none) = 0 /\ DOMAIN none = {}
  BY <1>7
<1>9. LookupTypes(d, n, none, none, NoObject, lk)
  <2>1. Len(d.events) \in Nat
    BY <1>3 DEF ConfigurationDefinition
  <2>2. 0 \in 0..Len(d.events) /\ NoObject \in 0..0
    BY <2>1 DEF NoObject
  <2> QED BY <1>5, <1>6, <1>8, <2>2 DEF LookupTypes, Searching
<1>10. OwnedBy(none, d, n, none, none, lk)
  <2>1. none \in [1..Len(none) -> ConfigKey]
    BY <1>7, <1>8
  <2> QED BY <1>5, <1>8, <2>1 DEF OwnedBy
<1>11. LookupGot(lk, none[lk.object], d, n)
  BY <1>5 DEF LookupGot
<1>12. AllSteady(d, n, none, none, NoObject, lk)
  BY <1>5, <1>6, <1>8 DEF AllSteady
<1>13. LookupsOK(d, n, none, none, NoObject, lk)
  BY <1>9, <1>10, <1>11, <1>12 DEF LookupsOK
<1>14. Found(definition, lookup)
  BY <1>1, <1>2, <1>4, <1>6, <1>7, <1>13 DEF Found
<1>15. ContentsOK(none, none, none)
  <2>1. none \in Seq(ContentEntry)
    BY <1>7
  <2> QED BY <1>8, <2>1 DEF ContentsOK, Distinct
<1>16. none \in Seq(LookupMessage) /\ \A k \in 1..Len(none) : MessageOK(none, k, d)
  BY <1>7, <1>8
<1> QED BY <1>1, <1>2, <1>7, <1>14, <1>15, <1>16 DEF ConfigInv

\* Other operations have no configurations.
LEMMA OthersKeepConfigurations ==
  ASSUME ConfigInv, WindowNext \/ AggregationNext \/ JoinNext \/ TableNext \/ StateNext
  PROVE  ConfigInv'
<1>1. definition' = definition
  BY DefinitionStays DEF StateNext
<1>2. ~Configured
  BY ConfiguredDefinition DEF ConfigInv, WindowNext, AggregationNext, JoinNext, TableNext, StateNext
<1> QED BY <1>1, <1>2 DEF ConfigInv, Configured

\* The invariant holds.
LEMMA ConfigurationsHold == Spec => []ConfigInv
<1>1. ASSUME ConfigInv, [Next]_dataframeVars
      PROVE  ConfigInv'
  <2>1. CASE WindowNext \/ AggregationNext \/ JoinNext \/ TableNext \/ StateNext
    BY <1>1, <2>1, OthersKeepConfigurations
  <2>2. CASE ConfigNext
    <3>1. Configured
      BY <2>2 DEF ConfigNext
    <3>2. CASE CachedContent \/ FetchContent
      BY <1>1, <3>1, <3>2, CachedContentKeeps, FetchContentKeeps
    <3>3. CASE ~(CachedContent \/ FetchContent)
      BY <1>1, <2>2, <3>1, <3>3, SearchKeeps DEF ConfigNext, ConfigurationNext
    <3> QED BY <3>2, <3>3
  <2>3. CASE UNCHANGED dataframeVars
    BY <1>1, <2>3 DEF ConfigInv, Configured, dataframeVars, configVars, Found
  <2> QED BY <1>1, <2>1, <2>2, <2>3 DEF Next
<1> QED BY <1>1, InitConfigurations, PTL DEF Spec

\* The messages say what the property does.
LEMMA ConfigurationsFollow == ConfigInv => ConfigurationsExact
<1> SUFFICES ASSUME ConfigInv, Configured
             PROVE  ConfigurationsExact
  BY DEF ConfigurationsExact, VersionsExact, CachedVersionsExact, VersionValid, FailuresRetried
<1>1. PICK d : d = definition
  OBVIOUS
<1>2. PICK log : log = arrived
  OBVIOUS
<1>3. /\ log \in Seq(LookupMessage) /\ Message = 1..Len(log)
      /\ \A n \in 1..Len(log) : MessageOK(log, n, d)
  BY <1>1, <1>2 DEF ConfigInv, Message
<1>4. ASSUME ~d.concurrent, ~HasDeletes, NEW n \in Message
      PROVE  FoundBest(n)
  <2>1. Steady(d)
    BY <1>1, <1>4 DEF Steady, HasDeletes
  <2>2. log[n].version = Best(After(d, log[n].key, log[n].since), log[n].stamp)
    BY <1>3, <1>4, <2>1 DEF MessageOK
  <2>3. VersionsAfter(log[n].key, log[n].since) = After(d, log[n].key, log[n].since)
    BY <1>1, ValidFromIs DEF VersionsAfter, After
  <2> QED BY <1>2, <2>2, <2>3 DEF FoundBest
<1>5. ASSUME NEW n \in Message, log[n].version # NoVersion
      PROVE  /\ ValidFrom(log[n].key, log[n].version) <= log[n].stamp
             /\ \E i \in 1..log[n].applied :
                   /\ definition.events[i].config = log[n].key
                   /\ definition.events[i].version = log[n].version
  BY <1>1, <1>3, <1>5, ValidFromIs DEF MessageOK, Announced, PutBy
<1>6. ASSUME NEW n \in Message, log[n].version # NoVersion, log[n].content = "default"
      PROVE  \E m \in 1..n : /\ log[m].key = log[n].key /\ log[m].version = log[n].version
                             /\ log[m].fetched
                             /\ log[n].at - log[m].at <= VERSION_RETRY_MAX_DELAY
  <2>1. PICK m \in 1..n : /\ log[m].key = log[n].key /\ log[m].version = log[n].version
                          /\ log[m].fetched
                          /\ log[n].at <= log[m].at + VERSION_RETRY_MAX_DELAY
    BY <1>3, <1>6 DEF MessageOK, Attempted
  <2>2. log[n].at \in Int /\ log[m].at \in Int
    <3>1. log[n] \in LookupMessage /\ log[m] \in LookupMessage
      BY <1>3, <1>6
    <3> QED BY <3>1 DEF LookupMessage
  <2> QED BY <2>1, <2>2 DEF VERSION_RETRY_MAX_DELAY
<1>7. CachedVersionsExact
  BY <1>1, <1>4 DEF CachedVersionsExact
<1>8. VersionValid
  BY <1>2, <1>5 DEF VersionValid
<1>9. FailuresRetried
  BY <1>2, <1>6 DEF FailuresRetried
<1> QED BY <1>7, <1>8, <1>9 DEF ConfigurationsExact, VersionsExact

\* A message is enriched with the version that is valid for it, although versions are cached
\* and events come meanwhile, and with its content as soon as that is due to be fetched again.
THEOREM ConfigurationsExactHold == Spec => []ConfigurationsExact
BY ConfigurationsHold, ConfigurationsFollow, PTL
=============================================================================
