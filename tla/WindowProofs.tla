---------------------------- MODULE WindowProofs -----------------------------
(***************************************************************************)
(* Proof that time windows are complete and in time: a window is emitted   *)
(* once, with all its messages that are not reported late                  *)
(* (TimeResultsComplete, TimeUpdatesExact), by the message that takes the  *)
(* time past its end and its grace period (TimeClosesOnTime); no message   *)
(* is lost (TimeNothingLost), and no collected value is left behind        *)
(* (ValuesReclaimed), for any keys, timestamps, durations, steps and       *)
(* graces, and any number of messages in any order.                        *)
(*                                                                         *)
(* All of it is read off the messages that have come (arrived).  The time  *)
(* of a key or of the partition after message n is Clock(n).  A window of  *)
(* a store has the messages of its key in it, and is there as long as it   *)
(* ends, with the grace period, after the time (WindowsOK); a message is   *)
(* late if the window ended before that when it came (IsLate); a result    *)
(* has the messages up to the one that takes the time past the end         *)
(* (FinalOK), and there is a result of each window that the time has       *)
(* passed (ResultsThere).  What process_window() deletes by the latest     *)
(* timestamps that it caches is shown to be what the time has passed,      *)
(* which fails for a partition if a window does not end where another      *)
(* begins, or has a grace period: the theorems exclude those definitions   *)
(* (AllAligned).                                                           *)
(*                                                                         *)
(* That a message is in one final result of a window at most (CountedOnce) *)
(* has an invariant of its own, as it holds with triggers and without any  *)
(* of that: what is in the results is not in the store.                    *)
(***************************************************************************)
EXTENDS JoinProofs

-----------------------------------------------------------------------------
(* Messages, windows and the time. *)

\* The messages of windows.
WindowMessage == [key : Key, stamp : Nat]

\* A timestamp falls into the window.
InRange(d, start, stamp) ==
    start % d.step = 0 /\ start <= stamp /\ stamp < start + d.duration

\* What is left of a number when it is divided.
LEMMA Remainder ==
  ASSUME NEW s \in Nat \ {0}, NEW x \in Nat
  PROVE  /\ x % s \in 0..s - 1 /\ x % s <= x
         /\ x - (x % s) \in Nat /\ (x - (x % s)) % s = 0
<1>1. x % s \in 0..s - 1
  OBVIOUS
<1>2. x % s <= x
  OBVIOUS
<1>3. (x - (x % s)) % s = 0
  <2>1. x = (s * (x \div s)) + (x % s) /\ x \div s \in Nat
    OBVIOUS
  <2>2. x - (x % s) = s * (x \div s)
    BY <1>1, <2>1
  <2>3. \A q \in Nat : (s * q) % s = 0
    OBVIOUS
  <2> QED BY <2>1, <2>2, <2>3
<1>4. x - (x % s) \in Nat
  <2>1. PICK r : r = x % s
    OBVIOUS
  <2>2. r \in 0..s - 1 /\ r <= x
    BY <1>1, <1>2, <2>1, Zenon
  <2>3. x - r \in Nat
    BY <2>2
  <2> QED BY <2>1, <2>3, Zenon
<1> QED BY <1>1, <1>2, <1>3, <1>4

\* The windows of a timestamp.
LEMMA RangesAre ==
  ASSUME NEW d, d = definition, TimeDefinition(d), NEW stamp \in Nat
  PROVE  /\ \A start : start \in Ranges(stamp) <=> start \in Nat /\ InRange(d, start, stamp)
         /\ \E start \in Nat : InRange(d, start, stamp) /\ stamp - start < d.step
<1>1. d.duration \in Nat \ {0} /\ d.step \in 1..d.duration
  BY DEF TimeDefinition
<1>2. PICK first : first = Max({0, stamp - d.duration + 1})
  OBVIOUS
<1>3. first = IF 0 >= stamp - d.duration + 1 THEN 0 ELSE stamp - d.duration + 1
  BY <1>1, <1>2, MaxWithZero
<1>4. Ranges(stamp) = {start \in first..stamp : start % d.step = 0}
  BY <1>2 DEF Ranges
<1>5. \A start : start \in Ranges(stamp) <=> start \in Nat /\ InRange(d, start, stamp)
  BY <1>1, <1>3, <1>4 DEF InRange
<1>6. PICK r : r = stamp % d.step
  OBVIOUS
<1>7. r \in 0..d.step - 1 /\ stamp - r \in Nat /\ (stamp - r) % d.step = 0
  <2>1. d.step \in Nat \ {0}
    BY <1>1
  <2> QED BY <1>6, <2>1, Remainder, Zenon
<1>8. InRange(d, stamp - r, stamp) /\ stamp - (stamp - r) < d.step
  BY <1>1, <1>7 DEF InRange
<1> QED BY <1>5, <1>7, <1>8

\* Multiples of a step that differ are a step apart.
LEMMA Multiples ==
  ASSUME NEW s \in Nat \ {0}, NEW x \in Nat, NEW y \in Nat, x % s = 0, y % s = 0
  PROVE  /\ x < y => x + s <= y
         /\ (x + y) % s = 0
         /\ x <= y => (y - x) % s = 0
<1>1. x = s * (x \div s) /\ y = s * (y \div s) /\ x \div s \in Nat /\ y \div s \in Nat
  OBVIOUS
<1>2. PICK a \in Nat, b \in Nat : x = s * a /\ y = s * b
  BY <1>1
<1>3. x < y => a + 1 <= b
  <2>1. a >= b => s * a >= s * b
    OBVIOUS
  <2> QED BY <1>2, <2>1
<1>4. a + 1 <= b => s * a + s <= s * b
  OBVIOUS
<1>5. s * a + s * b = s * (a + b) /\ (s * (a + b)) % s = 0
  OBVIOUS
<1>6. a <= b => s * b - s * a = s * (b - a) /\ (s * (b - a)) % s = 0
  OBVIOUS
<1>7. x <= y => a <= b
  BY <1>2
<1> QED BY <1>2, <1>3, <1>4, <1>5, <1>6, <1>7

\* The number of the message counts for the time of the key, up to the last one.
Counts(log, d, key, last, n) ==
    n \in 1..Len(log) /\ n <= last /\ (d.closing = "key" => log[n].key = key)

\* The time of a key or of the partition after message number last, which is TimeAfter().
Clock(log, d, key, last) ==
    Max({0} \cup {log[n].stamp : n \in {m \in 1..Len(log) :
        m <= last /\ (d.closing = "key" => log[m].key = key)}})

\* The messages of a log have types.
LEMMA MessageTypes ==
  ASSUME NEW log \in Seq(WindowMessage)
  PROVE  Len(log) \in Nat /\ \A n \in 1..Len(log) : log[n].key \in Key /\ log[n].stamp \in Nat
<1>1. \A n \in 1..Len(log) : log[n] \in WindowMessage
  OBVIOUS
<1> QED BY <1>1 DEF WindowMessage

\* A bound of the first timestamps of a log.
Below(log, i, u) == u \in Nat /\ \A n \in 1..i : log[n].stamp <= u

\* One more timestamp has a bound.
LEMMA BoundGrows ==
  ASSUME NEW log \in Seq(WindowMessage), NEW i \in 1..Len(log), NEW u, Below(log, i - 1, u)
  PROVE  \E v : Below(log, i, v)
<1>1. PICK x \in Nat : x = log[i].stamp
  BY MessageTypes
<1>2. PICK v \in Nat : u <= v /\ x <= v
  <2>1. u \in Nat
    BY DEF Below
  <2>2. u <= u + x /\ x <= u + x /\ u + x \in Nat
    BY <2>1
  <2> QED BY <2>2
<1>3. ASSUME NEW n \in 1..i
      PROVE  log[n].stamp <= v
  <2>1. PICK y \in Nat : y = log[n].stamp
    BY MessageTypes
  <2>2. CASE n = i
    BY <1>1, <1>2, <2>2
  <2>3. CASE n \in 1..i - 1
    <3>1. u \in Nat /\ y <= u
      BY <2>1, <2>3 DEF Below
    <3>2. y <= v
      BY <1>2, <3>1
    <3> QED BY <2>1, <3>2
  <2> QED BY <2>2, <2>3
<1> QED BY <1>3 DEF Below

\* The timestamps of a log have a bound.
LEMMA StampsBounded ==
  ASSUME NEW log \in Seq(WindowMessage)
  PROVE  \E u : Below(log, Len(log), u)
<1>1. PICK l \in Nat : l = Len(log)
  OBVIOUS
<1> DEFINE B == {i \in 0..l : ~ \E u : Below(log, i, u)}
<1>2. SUFFICES ASSUME B # {} PROVE FALSE
  BY <1>1
<1>3. PICK i \in B : \A j \in B : i <= j
  <2>1. B \subseteq Nat
    OBVIOUS
  <2> HIDE DEF B
  <2> QED BY <1>2, <2>1, Least, Zenon
<1>4. i \in 0..l /\ ~ \E u : Below(log, i, u)
  OBVIOUS
<1>5. i # 0
  BY <1>4 DEF Below
<1>6. i - 1 \in 0..l /\ ~(i <= i - 1) /\ i \in 1..Len(log)
  BY <1>1, <1>4, <1>5
<1>7. PICK u : Below(log, i - 1, u)
  BY <1>3, <1>6
<1> QED BY <1>4, <1>6, <1>7, BoundGrows

\* The time is that of a message, and none that counts is later.
LEMMA ClockIs ==
  ASSUME NEW log \in Seq(WindowMessage), NEW d, NEW key, NEW last
  PROVE  /\ Clock(log, d, key, last) \in Nat
         /\ \A n : Counts(log, d, key, last, n) => log[n].stamp <= Clock(log, d, key, last)
         /\ \/ Clock(log, d, key, last) = 0
            \/ \E n : Counts(log, d, key, last, n) /\ log[n].stamp = Clock(log, d, key, last)
<1>1. PICK u \in Nat : \A n \in 1..Len(log) : log[n].stamp <= u
  BY StampsBounded DEF Below
<1>2. PICK B : B = {0} \cup {log[n].stamp : n \in {m \in 1..Len(log) :
                       m <= last /\ (d.closing = "key" => log[m].key = key)}}
  OBVIOUS
<1>3. Clock(log, d, key, last) = Max(B)
  BY <1>2, Zenon DEF Clock
<1>4. \A x : x \in B <=> x = 0 \/ \E n : Counts(log, d, key, last, n) /\ x = log[n].stamp
  BY <1>2 DEF Counts
<1>5. \A n : Counts(log, d, key, last, n) => log[n].stamp \in 0..u
  BY <1>1, MessageTypes DEF Counts
<1>6. B \subseteq 0..u /\ 0 \in B
  BY <1>4, <1>5
<1>7. PICK t : t = Clock(log, d, key, last)
  OBVIOUS
<1>8. t \in B /\ \A x \in B : x <= t
  <2>1. B # {}
    BY <1>6
  <2> QED BY <1>3, <1>6, <1>7, <2>1, Greatest, Zenon
<1>9. t \in Nat
  BY <1>6, <1>8
<1>10. \A n : Counts(log, d, key, last, n) => log[n].stamp <= t
  BY <1>4, <1>8, Zenon
<1>11. t = 0 \/ \E n : Counts(log, d, key, last, n) /\ log[n].stamp = t
  BY <1>4, <1>8
<1> QED BY <1>7, <1>9, <1>10, <1>11

-----------------------------------------------------------------------------
(* One more message. *)

\* A log that has one more message.
OneMore(log, m, new, l) ==
    /\ log \in Seq(WindowMessage) /\ new \in Seq(WindowMessage) /\ m \in WindowMessage
    /\ l \in Nat /\ l = Len(log) /\ Len(new) = l + 1 /\ new[l + 1] = m
    /\ \A n \in 1..l : new[n] = log[n]

\* A log that gets a message has one more.
LEMMA OneMoreIs ==
  ASSUME NEW log \in Seq(WindowMessage), NEW m \in WindowMessage
  PROVE  OneMore(log, m, Append(log, m), Len(log))
BY AppendProperties DEF OneMore

\* Two times are the same if the same messages count for them.
LEMMA ClockSame ==
  ASSUME NEW log \in Seq(WindowMessage), NEW new \in Seq(WindowMessage), NEW d, NEW key, NEW i,
         NEW j,
         \A n : Counts(log, d, key, i, n) <=> Counts(new, d, key, j, n),
         \A n : Counts(log, d, key, i, n) => new[n] = log[n]
  PROVE  Clock(log, d, key, i) = Clock(new, d, key, j)
<1>1. PICK t \in Nat : t = Clock(log, d, key, i)
  BY ClockIs
<1>2. PICK u \in Nat : u = Clock(new, d, key, j)
  BY ClockIs
<1>3. t <= u
  <2>1. t = 0 \/ \E n : Counts(log, d, key, i, n) /\ log[n].stamp = t
    BY <1>1, ClockIs
  <2>2. \A n : Counts(new, d, key, j, n) => new[n].stamp <= u
    BY <1>2, ClockIs
  <2> QED BY <2>1, <2>2
<1>4. u <= t
  <2>1. u = 0 \/ \E n : Counts(new, d, key, j, n) /\ new[n].stamp = u
    BY <1>2, ClockIs
  <2>2. \A n : Counts(log, d, key, i, n) => log[n].stamp <= t
    BY <1>1, ClockIs
  <2> QED BY <2>1, <2>2
<1> QED BY <1>1, <1>2, <1>3, <1>4

\* The time does not go back.
LEMMA ClockAdvances ==
  ASSUME NEW log \in Seq(WindowMessage), NEW d, NEW key, NEW i \in Nat, NEW j \in Nat, i <= j
  PROVE  Clock(log, d, key, i) <= Clock(log, d, key, j)
<1>1. PICK t \in Nat : t = Clock(log, d, key, i)
  BY ClockIs
<1>2. PICK u \in Nat : u = Clock(log, d, key, j)
  BY ClockIs
<1>3. t = 0 \/ \E n : Counts(log, d, key, i, n) /\ log[n].stamp = t
  BY <1>1, ClockIs
<1>4. \A n : Counts(log, d, key, j, n) => log[n].stamp <= u
  BY <1>2, ClockIs
<1>5. \A n : Counts(log, d, key, i, n) => Counts(log, d, key, j, n)
  BY DEF Counts
<1> QED BY <1>1, <1>2, <1>3, <1>4, <1>5

\* The time after one more message.
LEMMA ClockGrows ==
  ASSUME NEW log, NEW m, NEW new, NEW l, OneMore(log, m, new, l), NEW d, NEW key
  PROVE  /\ \A i \in 0..l : Clock(new, d, key, i) = Clock(log, d, key, i)
         /\ Clock(new, d, key, l + 1) =
               IF (d.closing = "key" => m.key = key) /\ m.stamp > Clock(log, d, key, l)
               THEN m.stamp ELSE Clock(log, d, key, l)
<1>1. /\ log \in Seq(WindowMessage) /\ new \in Seq(WindowMessage) /\ m.stamp \in Nat
      /\ l \in Nat /\ l = Len(log) /\ Len(new) = l + 1 /\ new[l + 1] = m
      /\ \A n \in 1..l : new[n] = log[n]
  BY DEF OneMore, WindowMessage
<1>2. \A i \in 0..l : \A n : Counts(log, d, key, i, n) <=> Counts(new, d, key, i, n)
  BY <1>1 DEF Counts
<1>3. \A i \in 0..l : \A n : Counts(log, d, key, i, n) => new[n] = log[n]
  BY <1>1 DEF Counts
<1>4. ASSUME NEW i \in 0..l
      PROVE  Clock(new, d, key, i) = Clock(log, d, key, i)
  BY <1>1, <1>2, <1>3, ClockSame
<1>5. PICK t \in Nat : t = Clock(log, d, key, l)
  BY <1>1, ClockIs
<1>6. PICK u \in Nat : u = Clock(new, d, key, l + 1)
  BY <1>1, ClockIs
<1>7. PICK stamp \in Nat : stamp = m.stamp
  BY <1>1
<1>8. \A n : Counts(new, d, key, l + 1, n) <=>
                \/ Counts(log, d, key, l, n)
                \/ n = l + 1 /\ (d.closing = "key" => m.key = key)
  BY <1>1 DEF Counts
<1>9. t = 0 \/ \E n : Counts(log, d, key, l, n) /\ log[n].stamp = t
  BY <1>1, <1>5, ClockIs
<1>10. \A n : Counts(log, d, key, l, n) => log[n].stamp <= t
  BY <1>1, <1>5, ClockIs
<1>11. u = 0 \/ \E n : Counts(new, d, key, l + 1, n) /\ new[n].stamp = u
  BY <1>1, <1>6, ClockIs
<1>12. \A n : Counts(new, d, key, l + 1, n) => new[n].stamp <= u
  BY <1>1, <1>6, ClockIs
<1>13. \A n : Counts(log, d, key, l, n) => new[n] = log[n]
  BY <1>1, <1>3
<1>14. t <= u
  BY <1>8, <1>9, <1>12, <1>13
<1>15. u <= t \/ (u = stamp /\ (d.closing = "key" => m.key = key))
  BY <1>1, <1>7, <1>8, <1>10, <1>11, <1>13
<1>16. (d.closing = "key" => m.key = key) => stamp <= u
  BY <1>1, <1>7, <1>8, <1>12
<1>17. Clock(new, d, key, l + 1) =
          IF (d.closing = "key" => m.key = key) /\ m.stamp > Clock(log, d, key, l)
          THEN m.stamp ELSE Clock(log, d, key, l)
  BY <1>5, <1>6, <1>7, <1>14, <1>15, <1>16
<1> QED BY <1>4, <1>17

\* The time does not go back with one more message.
LEMMA ClockRises ==
  ASSUME NEW log, NEW m, NEW new, NEW l, OneMore(log, m, new, l), NEW d, NEW key
  PROVE  Clock(log, d, key, l) <= Clock(new, d, key, l + 1)
<1>1. m.stamp \in Nat
  BY DEF OneMore, WindowMessage
<1>2. PICK t \in Nat : t = Clock(log, d, key, l)
  BY ClockIs DEF OneMore
<1>3. Clock(new, d, key, l + 1) = IF (d.closing = "key" => m.key = key) /\ m.stamp > t
                                  THEN m.stamp ELSE t
  BY <1>2, ClockGrows
<1> QED BY <1>1, <1>2, <1>3

-----------------------------------------------------------------------------
(* The windows of a store. *)

\* The messages of a key in a window, which is InWindow().
In(log, d, key, start, last) ==
    {n \in 1..Len(log) : n <= last /\ log[n].key = key /\ InRange(d, start, log[n].stamp)}

\* The time at which a window closes.
Closing(d, start) == start + d.duration + d.grace

\* The windows of a key: those with messages that are not closed, with all their messages.
WindowsOK(w, log, d, key) ==
    /\ \A start : start \in DOMAIN w <=>
          /\ start \in Nat /\ Closing(d, start) > Clock(log, d, key, Len(log))
          /\ In(log, d, key, start, Len(log)) # {}
    /\ \A start \in DOMAIN w :
          w[start] = IF d.aggregate THEN In(log, d, key, start, Len(log)) ELSE {}

\* The messages in a window when one more has come.
LEMMA InGrows ==
  ASSUME NEW log, NEW m, NEW new, NEW l, OneMore(log, m, new, l), NEW d, NEW key, NEW start
  PROVE  /\ In(new, d, key, start, l + 1) =
               In(log, d, key, start, l) \cup
               (IF m.key = key /\ InRange(d, start, m.stamp) THEN {l + 1} ELSE {})
         /\ \A i \in 0..l : In(new, d, key, start, i) = In(log, d, key, start, i)
BY DEF OneMore, In

\* The windows that a message updates, before some of them expire.
ChangedBy(w, before, open, d, l) ==
    /\ DOMAIN before = open \cup DOMAIN w
    /\ \A start \in DOMAIN before :
          before[start] =
             IF start \in open
             THEN IF d.aggregate THEN (IF start \in DOMAIN w THEN w[start] ELSE {}) \cup {l + 1}
                                 ELSE {}
             ELSE w[start]

\* The windows of a message that are open after it.
OpenAt(open, new, d, m, k, l) ==
    \A start : start \in open <=>
       /\ m.key = k /\ start \in Nat /\ InRange(d, start, m.stamp)
       /\ Closing(d, start) > Clock(new, d, k, l + 1)

\* The windows with one more message.
LEMMA WindowsChange ==
  ASSUME NEW log, NEW m, NEW new, NEW l, OneMore(log, m, new, l), NEW d, TimeDefinition(d),
         NEW k, NEW w, WindowsOK(w, log, d, k), NEW open, OpenAt(open, new, d, m, k, l),
         NEW before, ChangedBy(w, before, open, d, l)
  PROVE  /\ \A start \in DOMAIN before :
               /\ start \in Nat /\ Closing(d, start) > Clock(log, d, k, l)
               /\ before[start] = IF d.aggregate THEN In(new, d, k, start, l + 1) ELSE {}
               /\ start \notin open => In(new, d, k, start, l + 1) = In(log, d, k, start, l)
         /\ \A start \in Nat :
               Closing(d, start) > Clock(new, d, k, l + 1) =>
                  (start \in DOMAIN before <=> In(new, d, k, start, l + 1) # {})
<1>1. l \in Nat /\ l = Len(log) /\ m.stamp \in Nat
  BY DEF OneMore, WindowMessage
<1>2. PICK t \in Nat : t = Clock(log, d, k, l)
  BY ClockIs DEF OneMore
<1>3. PICK u \in Nat : u = Clock(new, d, k, l + 1)
  BY ClockIs DEF OneMore
<1>4. t <= u
  BY <1>2, <1>3, ClockRises
<1>5. \A start \in Nat : Closing(d, start) \in Nat
  BY DEF Closing, TimeDefinition
<1>6. \A start : start \in DOMAIN w <=>
          start \in Nat /\ Closing(d, start) > t /\ In(log, d, k, start, l) # {}
  BY <1>1, <1>2 DEF WindowsOK
<1>7. \A start \in DOMAIN w : w[start] = IF d.aggregate THEN In(log, d, k, start, l) ELSE {}
  BY <1>1 DEF WindowsOK
<1>8. \A start : start \in open <=>
          /\ m.key = k /\ start \in Nat /\ InRange(d, start, m.stamp)
          /\ Closing(d, start) > u
  BY <1>3 DEF OpenAt
<1>9. \A start : In(new, d, k, start, l + 1) =
          In(log, d, k, start, l) \cup
          (IF m.key = k /\ InRange(d, start, m.stamp) THEN {l + 1} ELSE {})
  BY InGrows
<1>10. \A start \in open : Closing(d, start) > t
  BY <1>4, <1>5, <1>8
<1>11. u = t \/ u = m.stamp
  BY <1>1, <1>2, <1>3, ClockGrows
<1>12. ASSUME NEW start \in DOMAIN w, start \notin open
       PROVE  ~(m.key = k /\ InRange(d, start, m.stamp))
  <2>1. start \in Nat /\ Closing(d, start) > t
    BY <1>6
  <2>2. InRange(d, start, m.stamp) => m.stamp < Closing(d, start)
    BY <2>1 DEF InRange, Closing, TimeDefinition, OneMore, WindowMessage
  <2>3. m.stamp \in Nat
    BY DEF OneMore, WindowMessage
  <2>4. Closing(d, start) \in Nat
    BY <1>5, <2>1
  <2> QED BY <1>8, <1>11, <1>12, <2>1, <2>2, <2>3, <2>4
<1>13. ASSUME NEW start \in DOMAIN before
       PROVE  /\ start \in Nat /\ Closing(d, start) > t
              /\ before[start] = IF d.aggregate THEN In(new, d, k, start, l + 1) ELSE {}
              /\ start \notin open => In(new, d, k, start, l + 1) = In(log, d, k, start, l)
  <2>1. CASE start \in open
    <3>1. start \in Nat /\ Closing(d, start) > t
      BY <1>8, <1>10, <2>1
    <3>2. In(new, d, k, start, l + 1) = In(log, d, k, start, l) \cup {l + 1}
      BY <1>8, <1>9, <2>1
    <3>3. start \notin DOMAIN w => In(log, d, k, start, l) = {}
      BY <1>6, <3>1
    <3> QED BY <1>7, <2>1, <3>1, <3>2, <3>3 DEF ChangedBy
  <2>2. CASE start \notin open
    <3>1. start \in DOMAIN w
      BY <2>2 DEF ChangedBy
    <3>2. In(new, d, k, start, l + 1) = In(log, d, k, start, l)
      BY <1>9, <1>12, <2>2, <3>1
    <3> QED BY <1>6, <1>7, <2>2, <3>1, <3>2 DEF ChangedBy
  <2> QED BY <2>1, <2>2
<1>14. ASSUME NEW start \in Nat, Closing(d, start) > u
       PROVE  start \in DOMAIN before <=> In(new, d, k, start, l + 1) # {}
  <2>1. Closing(d, start) > t
    BY <1>4, <1>5, <1>14
  <2>2. start \in DOMAIN before <=> start \in open \/ start \in DOMAIN w
    BY DEF ChangedBy
  <2> QED BY <1>6, <1>8, <1>9, <1>14, <2>1, <2>2
<1> QED BY <1>2, <1>3, <1>13, <1>14

-----------------------------------------------------------------------------
(* What the operations of a store change. *)

\* What a store keeps for a key.
IsState(s) ==
    s = [windows |-> s.windows, values |-> s.values, latest |-> s.latest, expired |-> s.expired,
         deletedWindow |-> s.deletedWindow, deletedValue |-> s.deletedValue]

\* delete_window() leaves the rest.
LEMMA DropFields ==
  ASSUME NEW s, IsState(s), NEW starts, NEW t, t = DropWindows(s, starts)
  PROVE  /\ IsState(t) /\ t.values = s.values /\ t.latest = s.latest /\ t.expired = s.expired
         /\ t.deletedValue = s.deletedValue
         /\ DOMAIN t.windows = DOMAIN s.windows \ starts
         /\ \A start \in DOMAIN t.windows : t.windows[start] = s.windows[start]
<1>1. t.windows = Restrict(s.windows, DOMAIN s.windows \ starts)
  BY DEF DropWindows, IsState
<1>2. /\ IsState(t) /\ t.values = s.values /\ t.latest = s.latest /\ t.expired = s.expired
      /\ t.deletedValue = s.deletedValue
  BY DEF DropWindows, IsState
<1> QED BY <1>1, <1>2 DEF Restrict

\* update_window() for the windows of new.
LEMMA UpdateFields ==
  ASSUME NEW s, IsState(s), s.latest \in Nat, NEW new, NEW stamp \in Nat,
         NEW t, t = UpdateWindows(s, new, stamp)
  PROVE  /\ IsState(t) /\ t.values = s.values /\ t.expired = s.expired
         /\ t.deletedValue = s.deletedValue
         /\ t.latest = IF DOMAIN new # {} /\ stamp > s.latest THEN stamp ELSE s.latest
         /\ DOMAIN t.windows = DOMAIN new \cup DOMAIN s.windows
         /\ \A start \in DOMAIN t.windows :
               t.windows[start] = IF start \in DOMAIN new THEN new[start] ELSE s.windows[start]
<1>1. CASE DOMAIN new = {}
  BY <1>1 DEF UpdateWindows
<1>2. CASE DOMAIN new # {}
  <2>1. PICK w : w = Overlaid(new, s.windows)
    OBVIOUS
  <2>2. PICK latest : latest = Max({s.latest, stamp})
    OBVIOUS
  <2>3. t = [s EXCEPT !.windows = w, !.latest = latest]
    BY <1>2, <2>1, <2>2 DEF UpdateWindows
  <2>4. /\ IsState(t) /\ t.values = s.values /\ t.expired = s.expired
        /\ t.deletedValue = s.deletedValue /\ t.latest = latest /\ t.windows = w
    BY <2>3 DEF IsState
  <2>5. latest = IF stamp > s.latest THEN stamp ELSE s.latest
    BY <2>2, MaxOfTwo
  <2>6. /\ DOMAIN w = DOMAIN new \cup DOMAIN s.windows
        /\ \A start \in DOMAIN w :
              w[start] = IF start \in DOMAIN new THEN new[start] ELSE s.windows[start]
    BY <2>1 DEF Overlaid
  <2> QED BY <1>2, <2>4, <2>5, <2>6
<1> QED BY <1>1, <1>2

\* add_to_collection() leaves the rest.
LEMMA AddFields ==
  ASSUME NEW s, IsState(s), NEW id, NEW counter, NEW t, t = AddToCollection(s, id, counter)
  PROVE  /\ IsState(t) /\ t.windows = s.windows /\ t.latest = s.latest /\ t.expired = s.expired
         /\ t.deletedValue = s.deletedValue
         /\ t.values = s.values \cup {[id |-> id, counter |-> counter]}
BY DEF AddToCollection, IsState

\* What a store has after message number n with its windows and triggers.
AppliedTo(s, b, open, fired, stamp, n, d) ==
    /\ IsState(b) /\ b.expired = s.expired /\ b.deletedValue = s.deletedValue
    /\ b.values = IF d.collect THEN s.values \cup {[id |-> stamp, counter |-> n]} ELSE s.values
    /\ b.latest = IF open \ fired # {} /\ stamp > s.latest THEN stamp ELSE s.latest
    /\ DOMAIN b.windows = (open \cup DOMAIN s.windows) \ fired
    /\ \A start \in DOMAIN b.windows :
          b.windows[start] =
             IF start \in open
             THEN IF d.aggregate
                  THEN (IF start \in DOMAIN s.windows THEN s.windows[start] ELSE {}) \cup {n}
                  ELSE {}
             ELSE s.windows[start]

\* A message with its windows and triggers.
LEMMA AppliedIs ==
  ASSUME NEW d, d = definition, NEW key, NEW stamp \in Nat, NEW maxStart, NEW fired,
         NEW s, s = store[key], IsState(s), s.latest \in Nat,
         NEW n, n = Incoming, NEW open, open = OpenRanges(stamp, maxStart),
         NEW b, b = Applied(key, stamp, maxStart, fired)
  PROVE  AppliedTo(s, b, open, fired, stamp, n, d)
<1>1. PICK new : new = [start \in open \ fired |-> Updated(s, start, n)]
  OBVIOUS
<1>2. PICK dropped : dropped = DropWindows(s, fired)
  OBVIOUS
<1>3. PICK updated : updated = UpdateWindows(dropped, new, stamp)
  OBVIOUS
<1>4. b = IF d.collect THEN AddToCollection(updated, stamp, n) ELSE updated
  BY <1>1, <1>2, <1>3, Zenon DEF Applied, TriggerWindows
<1>5. /\ IsState(dropped) /\ dropped.values = s.values /\ dropped.latest = s.latest
      /\ dropped.expired = s.expired /\ dropped.deletedValue = s.deletedValue
      /\ DOMAIN dropped.windows = DOMAIN s.windows \ fired
      /\ \A start \in DOMAIN dropped.windows : dropped.windows[start] = s.windows[start]
  BY <1>2, DropFields
<1>6. DOMAIN new = open \ fired
  BY <1>1
<1>7. \A start \in open \ fired : new[start] =
         IF d.aggregate
         THEN (IF start \in DOMAIN s.windows THEN s.windows[start] ELSE {}) \cup {n} ELSE {}
  BY <1>1 DEF Updated, Aggregated
<1>8. /\ IsState(updated) /\ updated.values = s.values /\ updated.expired = s.expired
      /\ updated.deletedValue = s.deletedValue
      /\ updated.latest = IF DOMAIN new # {} /\ stamp > s.latest THEN stamp ELSE s.latest
      /\ DOMAIN updated.windows = DOMAIN new \cup DOMAIN dropped.windows
      /\ \A start \in DOMAIN updated.windows :
            updated.windows[start] =
               IF start \in DOMAIN new THEN new[start] ELSE dropped.windows[start]
  BY <1>3, <1>5, UpdateFields
<1>9. /\ IsState(b) /\ b.windows = updated.windows /\ b.latest = updated.latest
      /\ b.expired = updated.expired /\ b.deletedValue = updated.deletedValue
      /\ b.values = IF d.collect THEN updated.values \cup {[id |-> stamp, counter |-> n]}
                                 ELSE updated.values
  <2>1. IsState(updated)
    BY <1>8
  <2>2. CASE d.collect
    <3>1. b = AddToCollection(updated, stamp, n)
      BY <1>4, <2>2, Zenon
    <3> QED BY <2>1, <2>2, <3>1, AddFields
  <2>3. CASE ~d.collect
    BY <1>4, <2>1, <2>3
  <2> QED BY <2>2, <2>3
<1>10. DOMAIN b.windows = (open \cup DOMAIN s.windows) \ fired
  BY <1>5, <1>6, <1>8, <1>9
<1>11. ASSUME NEW start \in DOMAIN b.windows
       PROVE  b.windows[start] =
                  IF start \in open
                  THEN IF d.aggregate
                       THEN (IF start \in DOMAIN s.windows THEN s.windows[start] ELSE {}) \cup {n}
                       ELSE {}
                  ELSE s.windows[start]
  <2>1. start \notin fired
    BY <1>10
  <2>2. b.windows[start] = IF start \in open THEN new[start] ELSE dropped.windows[start]
    BY <1>6, <1>8, <1>9, <2>1
  <2>3. start \notin open => dropped.windows[start] = s.windows[start]
    BY <1>5, <1>10, <2>1
  <2>4. CASE start \in open
    BY <1>7, <2>1, <2>2, <2>4
  <2>5. CASE start \notin open
    BY <2>2, <2>3, <2>5
  <2> QED BY <2>4, <2>5
<1>12. b.latest = IF open \ fired # {} /\ stamp > s.latest THEN stamp ELSE s.latest
  BY <1>5, <1>6, <1>8, <1>9
<1>13. b.values = IF d.collect THEN s.values \cup {[id |-> stamp, counter |-> n]} ELSE s.values
  BY <1>5, <1>8, <1>9
<1> QED BY <1>5, <1>8, <1>9, <1>10, <1>11, <1>12, <1>13 DEF AppliedTo

\* Values with the ids of timestamps.
HaveIds(s) == s.deletedValue \in Int /\ \A x \in s.values : x.id \in Nat

\* delete_from_collection()
LEMMA DeleteFields ==
  ASSUME NEW s, IsState(s), HaveIds(s), NEW from \in Int, NEW to \in Nat,
         NEW t, t = DeleteCollection(s, from, to)
  PROVE  /\ IsState(t) /\ t.windows = s.windows /\ t.latest = s.latest /\ t.expired = s.expired
         /\ \A x : x \in t.values <=> x \in s.values /\ ~(from <= x.id /\ x.id < to)
         /\ (t.deletedValue = s.deletedValue \/ (t.deletedValue \in Nat /\ t.deletedValue < to))
<1>1. PICK gone : gone = {x \in s.values : from <= x.id /\ x.id < to}
  OBVIOUS
<1>2. PICK ids : ids = {x.id : x \in gone}
  OBVIOUS
<1>3. t = IF gone = {} THEN s
          ELSE [s EXCEPT !.values = @ \ gone, !.deletedValue = Max(ids)]
  BY <1>1, <1>2, Zenon DEF DeleteCollection, ValuesBetween
<1>4. s.values \ gone = {x \in s.values : ~(from <= x.id /\ x.id < to)}
  BY <1>1
<1>5. CASE gone = {}
  BY <1>3, <1>4, <1>5
<1>6. CASE gone # {}
  <2>1. PICK id : id = Max(ids)
    OBVIOUS
  <2>2. t = [s EXCEPT !.values = @ \ gone, !.deletedValue = id]
    BY <1>3, <1>6, <2>1
  <2>3. /\ IsState(t) /\ t.windows = s.windows /\ t.latest = s.latest /\ t.expired = s.expired
        /\ t.values = s.values \ gone /\ t.deletedValue = id
    BY <2>2 DEF IsState
  <2>4. ids \subseteq 0..to /\ ids # {} /\ \A i \in ids : i < to
    BY <1>1, <1>2, <1>6 DEF HaveIds
  <2>5. id \in ids
    BY <2>1, <2>4, Greatest, Zenon
  <2>6. id \in Nat /\ id < to
    BY <2>4, <2>5
  <2> QED BY <1>4, <2>3, <2>6
<1> QED BY <1>5, <1>6

\* What an expiration of some windows leaves of a store.
Expires(b, t, starts, d) ==
    /\ IsState(t) /\ t.latest = b.latest
    /\ DOMAIN t.windows = DOMAIN b.windows \ starts
    /\ \A start \in DOMAIN t.windows : t.windows[start] = b.windows[start]
    /\ t.values \subseteq b.values
    /\ \A x \in b.values : x \notin t.values => \E start \in starts : x.id < start
    /\ \/ t.deletedValue = b.deletedValue
       \/ t.deletedValue \in Nat /\ \E start \in starts : t.deletedValue < start

\* What an expiration by the time of a key does besides.
ExpiresKey(b, t, starts, d) ==
    IF starts = {} THEN t = b
    ELSE /\ t.expired \in starts /\ \A start \in starts : start <= t.expired
         /\ d.collect =>
               /\ \A x : x \in t.values <=>
                      x \in b.values /\ ~(b.deletedValue <= x.id /\ x.id < t.expired)
               /\ \/ t.deletedValue = b.deletedValue
                  \/ t.deletedValue \in Nat /\ t.deletedValue < t.expired
         /\ ~d.collect => t.values = b.values /\ t.deletedValue = b.deletedValue

\* expire_windows()
LEMMA ExpireIs ==
  ASSUME NEW d, NEW b, IsState(b), HaveIds(b), DOMAIN b.windows \subseteq Nat, NEW maxStart \in Int,
         b.expired \in Int, NEW t, t = ExpireWindows(b, maxStart, TRUE, d.collect)
  PROVE  \E starts :
            /\ \A start : start \in starts <=>
                  start \in DOMAIN b.windows /\ b.expired < start /\ start <= maxStart
            /\ starts = Expired(b, maxStart)
            /\ Expires(b, t, starts, d) /\ ExpiresKey(b, t, starts, d)
<1>1. PICK starts : starts = Expired(b, maxStart)
  OBVIOUS
<1>2. \A start : start \in starts <=>
         start \in DOMAIN b.windows /\ b.expired < start /\ start <= maxStart
  BY <1>1 DEF Expired, WindowsBetween
<1>3. CASE starts = {}
  <2>1. t = b
    BY <1>1, <1>3, Zenon DEF ExpireWindows
  <2> QED BY <1>1, <1>2, <1>3, <2>1 DEF Expires, ExpiresKey
<1>4. CASE starts # {}
  <2>1. PICK last : last = Max(starts)
    OBVIOUS
  <2>2. starts \subseteq Nat /\ maxStart \in Nat /\ starts \subseteq 0..maxStart
    BY <1>2, <1>4
  <2>3. last \in starts /\ \A start \in starts : start <= last
    BY <1>4, <2>1, <2>2, Greatest, Zenon
  <2>4. PICK marked : marked = [b EXCEPT !.expired = last]
    OBVIOUS
  <2>5. PICK kept : kept = DropWindows(marked, starts)
    OBVIOUS
  <2>6. t = IF d.collect THEN DeleteCollection(kept, kept.deletedValue, last) ELSE kept
    BY <1>1, <1>4, <2>1, <2>4, <2>5, Zenon DEF ExpireWindows
  <2>7. /\ IsState(marked) /\ marked.windows = b.windows /\ marked.latest = b.latest
        /\ marked.expired = last /\ marked.values = b.values
        /\ marked.deletedValue = b.deletedValue
    BY <2>4 DEF IsState
  <2>8. /\ IsState(kept) /\ kept.values = b.values /\ kept.latest = b.latest
        /\ kept.expired = last /\ kept.deletedValue = b.deletedValue
        /\ DOMAIN kept.windows = DOMAIN b.windows \ starts
        /\ \A start \in DOMAIN kept.windows : kept.windows[start] = b.windows[start]
    BY <2>5, <2>7, DropFields
  <2>9. last \in Nat /\ b.deletedValue \in Int /\ \A x \in b.values : x.id \in Nat
    BY <2>2, <2>3 DEF HaveIds
  <2>10. CASE d.collect
    <3>1. t = DeleteCollection(kept, b.deletedValue, last)
      BY <2>6, <2>8, <2>10
    <3>2. PICK from \in Int : from = b.deletedValue
      BY <2>9
    <3>3. HaveIds(kept)
      BY <2>8 DEF HaveIds
    <3>4. /\ IsState(t) /\ t.windows = kept.windows /\ t.latest = kept.latest
          /\ t.expired = kept.expired
          /\ \A x : x \in t.values <=> x \in kept.values /\ ~(from <= x.id /\ x.id < last)
          /\ \/ t.deletedValue = kept.deletedValue
             \/ t.deletedValue \in Nat /\ t.deletedValue < last
      <4>1. IsState(kept) /\ last \in Nat
        BY <2>8, <2>9
      <4>2. PICK u : u = DeleteCollection(kept, from, last)
        OBVIOUS
      <4>3. t = u
        BY <3>2, <3>1, <4>2
      <4>4. /\ IsState(u) /\ u.windows = kept.windows /\ u.latest = kept.latest
            /\ u.expired = kept.expired
            /\ \A x : x \in u.values <=> x \in kept.values /\ ~(from <= x.id /\ x.id < last)
            /\ \/ u.deletedValue = kept.deletedValue
               \/ u.deletedValue \in Nat /\ u.deletedValue < last
        BY <3>3, <4>1, <4>2, DeleteFields
      <4> QED BY <4>3, <4>4
    <3>5. Expires(b, t, starts, d)
      BY <2>3, <2>8, <3>4 DEF Expires
    <3>6. ExpiresKey(b, t, starts, d)
      BY <1>4, <2>3, <2>8, <2>10, <3>2, <3>4 DEF ExpiresKey
    <3> QED BY <1>1, <1>2, <3>5, <3>6
  <2>11. CASE ~d.collect
    <3>1. t = kept
      BY <2>6, <2>11
    <3>2. Expires(b, t, starts, d)
      BY <2>8, <3>1 DEF Expires
    <3>3. ExpiresKey(b, t, starts, d)
      BY <1>4, <2>3, <2>8, <2>11, <3>1 DEF ExpiresKey
    <3> QED BY <1>1, <1>2, <3>2, <3>3
  <2> QED BY <2>10, <2>11
<1> QED BY <1>3, <1>4

\* There is a last window.
Bounded(starts) == \E u \in Nat : starts \subseteq 0..u

\* expire_all_windows() for one key.
LEMMA ExpireAllIs ==
  ASSUME NEW d, NEW b, IsState(b), HaveIds(b), NEW starts, Bounded(starts),
         NEW t, t = ExpireInPartition(b, starts, d.collect)
  PROVE  Expires(b, t, starts, d) /\ t.expired = b.expired
<1>1. PICK kept : kept = DropWindows(b, starts)
  OBVIOUS
<1>2. PICK last : last = Max(starts)
  OBVIOUS
<1>3. t = IF starts # {} /\ d.collect THEN DeleteCollection(kept, kept.deletedValue, last) ELSE kept
  BY <1>1, <1>2, Zenon DEF ExpireInPartition
<1>4. /\ IsState(kept) /\ kept.values = b.values /\ kept.latest = b.latest
      /\ kept.expired = b.expired /\ kept.deletedValue = b.deletedValue
      /\ DOMAIN kept.windows = DOMAIN b.windows \ starts
      /\ \A start \in DOMAIN kept.windows : kept.windows[start] = b.windows[start]
  BY <1>1, DropFields
<1>5. CASE starts # {} /\ d.collect
  <2>1. last \in starts /\ last \in Nat
    <3>1. PICK u \in Nat : starts \subseteq 0..u
      BY DEF Bounded
    <3>2. last \in starts
      BY <1>2, <1>5, <3>1, Greatest, Zenon
    <3> QED BY <3>1, <3>2
  <2>2. HaveIds(kept)
    BY <1>4 DEF HaveIds
  <2>3. t = DeleteCollection(kept, b.deletedValue, last)
    BY <1>3, <1>4, <1>5
  <2>4. b.deletedValue \in Int /\ last \in Nat
    BY <2>1 DEF HaveIds
  <2>5. PICK from \in Int : from = b.deletedValue
    BY <2>4
  <2>6. /\ IsState(t) /\ t.windows = kept.windows /\ t.latest = kept.latest
        /\ t.expired = kept.expired
        /\ \A x : x \in t.values <=> x \in kept.values /\ ~(from <= x.id /\ x.id < last)
        /\ \/ t.deletedValue = kept.deletedValue
           \/ t.deletedValue \in Nat /\ t.deletedValue < last
    BY <1>4, <2>5, <2>1, <2>2, <2>3, <2>4, DeleteFields
  <2> QED BY <1>4, <2>1, <2>6 DEF Expires
<1>6. CASE ~(starts # {} /\ d.collect)
  <2>1. t = kept
    BY <1>3, <1>6
  <2> QED BY <1>4, <2>1 DEF Expires
<1> QED BY <1>5, <1>6

-----------------------------------------------------------------------------
(* What a store has kept. *)

\* A message was late for the window.
IsLate(log, d, n, start) ==
    /\ n \in 1..Len(log) /\ start \in Nat /\ InRange(d, start, log[n].stamp)
    /\ Closing(d, start) <= Clock(log, d, log[n].key, n)

\* The value of a message in a collection.
ValueOf(log, n) == [id |-> log[n].stamp, counter |-> n]

\* The collection of a key: nothing is missing that an open window may have.
ValuesOK(s, log, d, k) ==
    /\ \A x \in s.values : \E n \in 1..Len(log) : log[n].key = k /\ x = ValueOf(log, n)
    /\ s.deletedValue = None \/ s.deletedValue \in Nat
    /\ d.collect \/ s.values = {}
    /\ d.collect =>
          \A n \in 1..Len(log) :
             log[n].key = k /\ Closing(d, log[n].stamp) >= Clock(log, d, k, Len(log)) =>
                ValueOf(log, n) \in s.values

\* What the time of a key has to do with it.
TimesOK(s, log, d, k) ==
    /\ s.latest = Clock(log, d, k, Len(log))
    /\ \/ s.expired = None
       \/ s.expired \in Nat /\ Closing(d, s.expired) <= Clock(log, d, k, Len(log))
    /\ s.deletedValue <= s.expired
    /\ \A x \in s.values : x.id < s.expired => \E start : IsLate(log, d, x.counter, start)

\* A store has what the messages have left in it.
StateOK(s, log, d, k) ==
    /\ IsState(s) /\ s.latest \in Nat
    /\ WindowsOK(s.windows, log, d, k)
    /\ ValuesOK(s, log, d, k)
    /\ IF d.closing = "key" THEN TimesOK(s, log, d, k) ELSE s.expired = None

\* A message was added to a store.
Added(s, b, open, new, m, l, d, k) ==
    /\ IsState(b) /\ b.latest \in Nat /\ b.expired = s.expired /\ b.deletedValue = s.deletedValue
    /\ OpenAt(open, new, d, m, k, l) /\ ChangedBy(s.windows, b.windows, open, d, l)
    /\ \A x : x \in b.values <=>
          x \in s.values \/ (d.collect /\ m.key = k /\ x = [id |-> m.stamp, counter |-> l + 1])
    /\ d.closing = "key" => b.latest = Clock(new, d, k, l + 1)

\* The windows that a message closes.
Closed(starts, b, new, d, k, l) ==
    \A start : start \in starts <=>
       start \in DOMAIN b.windows /\ Closing(d, start) <= Clock(new, d, k, l + 1)

\* The windows before some of them expire.
LEMMA BeforeOpen ==
  ASSUME NEW log, NEW m, NEW new, NEW l, OneMore(log, m, new, l), NEW d, TimeDefinition(d), NEW k,
         NEW s, StateOK(s, log, d, k), NEW open, NEW b, Added(s, b, open, new, m, l, d, k)
  PROVE  /\ \A start \in DOMAIN b.windows :
               /\ start \in Nat /\ Closing(d, start) > Clock(log, d, k, l)
               /\ b.windows[start] = IF d.aggregate THEN In(new, d, k, start, l + 1) ELSE {}
               /\ start \notin open => In(new, d, k, start, l + 1) = In(log, d, k, start, l)
         /\ \A start \in Nat :
               Closing(d, start) > Clock(new, d, k, l + 1) =>
                  (start \in DOMAIN b.windows <=> In(new, d, k, start, l + 1) # {})
<1>1. PICK w : w = s.windows
  OBVIOUS
<1>2. PICK before : before = b.windows
  OBVIOUS
<1>3. WindowsOK(w, log, d, k) /\ OpenAt(open, new, d, m, k, l) /\ ChangedBy(w, before, open, d, l)
  BY <1>1, <1>2 DEF StateOK, Added
<1>4. /\ \A start \in DOMAIN before :
            /\ start \in Nat /\ Closing(d, start) > Clock(log, d, k, l)
            /\ before[start] = IF d.aggregate THEN In(new, d, k, start, l + 1) ELSE {}
            /\ start \notin open => In(new, d, k, start, l + 1) = In(log, d, k, start, l)
      /\ \A start \in Nat :
            Closing(d, start) > Clock(new, d, k, l + 1) =>
               (start \in DOMAIN before <=> In(new, d, k, start, l + 1) # {})
  BY <1>3, WindowsChange
<1> QED BY <1>2, <1>4, Zenon

\* The windows that are left.
LEMMA WindowsKept ==
  ASSUME NEW log, NEW m, NEW new, NEW l, OneMore(log, m, new, l), NEW d, TimeDefinition(d), NEW k,
         NEW s, StateOK(s, log, d, k), NEW open, NEW b, Added(s, b, open, new, m, l, d, k),
         NEW starts, Closed(starts, b, new, d, k, l), NEW t, Expires(b, t, starts, d)
  PROVE  WindowsOK(t.windows, new, d, k)
<1>1. /\ \A start \in DOMAIN b.windows :
            /\ start \in Nat /\ Closing(d, start) > Clock(log, d, k, l)
            /\ b.windows[start] = IF d.aggregate THEN In(new, d, k, start, l + 1) ELSE {}
      /\ \A start \in Nat :
            Closing(d, start) > Clock(new, d, k, l + 1) =>
               (start \in DOMAIN b.windows <=> In(new, d, k, start, l + 1) # {})
  BY BeforeOpen
<1>2. PICK u \in Nat : u = Clock(new, d, k, l + 1)
  BY ClockIs DEF OneMore
<1>3. \A start \in Nat : Closing(d, start) \in Nat
  BY DEF Closing, TimeDefinition
<1>4. Len(new) = l + 1
  BY DEF OneMore
<1>5. \A start \in DOMAIN b.windows : start \in starts <=> ~(Closing(d, start) > u)
  BY <1>1, <1>2, <1>3 DEF Closed
<1>6. \A start : start \in DOMAIN t.windows <=>
         start \in Nat /\ Closing(d, start) > u /\ In(new, d, k, start, l + 1) # {}
  BY <1>1, <1>2, <1>5 DEF Expires
<1>7. \A start \in DOMAIN t.windows :
         t.windows[start] = IF d.aggregate THEN In(new, d, k, start, l + 1) ELSE {}
  BY <1>1 DEF Expires
<1> QED BY <1>2, <1>4, <1>6, <1>7 DEF WindowsOK

\* The values that are left.
LEMMA ValuesKept ==
  ASSUME NEW log, NEW m, NEW new, NEW l, OneMore(log, m, new, l), NEW d, TimeDefinition(d), NEW k,
         NEW s, StateOK(s, log, d, k), NEW open, NEW b, Added(s, b, open, new, m, l, d, k),
         NEW starts, Closed(starts, b, new, d, k, l), NEW t, Expires(b, t, starts, d),
         starts \subseteq Nat
  PROVE  ValuesOK(t, new, d, k)
<1>1. /\ l \in Nat /\ l = Len(log) /\ Len(new) = l + 1 /\ new[l + 1] = m
      /\ \A n \in 1..l : new[n] = log[n]
      /\ \A n \in 1..l + 1 : new[n].stamp \in Nat
  BY MessageTypes DEF OneMore
<1>2. PICK u \in Nat : u = Clock(new, d, k, l + 1)
  BY ClockIs DEF OneMore
<1>3. PICK v \in Nat : v = Clock(log, d, k, l)
  BY ClockIs DEF OneMore
<1>4. v <= u
  BY <1>2, <1>3, ClockRises
<1>5. \A start \in Nat : Closing(d, start) \in Nat
  BY DEF Closing, TimeDefinition
<1>6. \A n \in 1..l : ValueOf(new, n) = ValueOf(log, n)
  BY <1>1 DEF ValueOf
<1>7. ValueOf(new, l + 1) = [id |-> m.stamp, counter |-> l + 1]
  BY <1>1 DEF ValueOf
<1>8. \A x \in t.values : \E n \in 1..Len(new) : new[n].key = k /\ x = ValueOf(new, n)
  <2> TAKE x \in t.values
  <2>1. x \in s.values \/ (m.key = k /\ x = [id |-> m.stamp, counter |-> l + 1])
    BY DEF Expires, Added
  <2>2. CASE x \in s.values
    <3>1. PICK n \in 1..l : log[n].key = k /\ x = ValueOf(log, n)
      BY <1>1, <2>2 DEF StateOK, ValuesOK
    <3> QED BY <1>1, <1>6, <3>1
  <2>3. CASE m.key = k /\ x = [id |-> m.stamp, counter |-> l + 1]
    BY <1>1, <1>7, <2>3
  <2> QED BY <2>1, <2>2, <2>3
<1>9. t.deletedValue = None \/ t.deletedValue \in Nat
  BY DEF Expires, Added, StateOK, ValuesOK
<1>10. d.collect \/ t.values = {}
  BY DEF Expires, Added, StateOK, ValuesOK
<1>11. ASSUME d.collect, NEW n \in 1..l + 1, new[n].key = k, Closing(d, new[n].stamp) >= u
       PROVE  ValueOf(new, n) \in t.values
  <2>1. PICK x : x = ValueOf(new, n)
    OBVIOUS
  <2>2. PICK id \in Nat : id = new[n].stamp
    BY <1>1
  <2>3. x.id = id
    BY <2>1, <2>2 DEF ValueOf
  <2>4. x \in b.values
    <3>1. CASE n = l + 1
      BY <1>1, <1>7, <1>11, <2>1, <3>1 DEF Added
    <3>2. CASE n \in 1..l
      <4>1. Closing(d, log[n].stamp) >= v
        <5>1. Closing(d, id) \in Nat
          BY <1>5
        <5> QED BY <1>1, <1>4, <1>11, <2>2, <3>2, <5>1
      <4>2. ValueOf(log, n) \in s.values
        BY <1>1, <1>3, <1>11, <3>2, <4>1 DEF StateOK, ValuesOK
      <4>3. x \in s.values
        BY <1>6, <2>1, <3>2, <4>2
      <4>4. \A y : y \in s.values => y \in b.values
        BY DEF Added
      <4> QED BY <4>3, <4>4
    <3>3. n = l + 1 \/ n \in 1..l
      BY <1>1
    <3> QED BY <3>1, <3>2, <3>3
  <2>5. ASSUME NEW start \in starts, x.id < start PROVE FALSE
    <3>1. start \in Nat /\ Closing(d, start) <= u
      BY <1>2 DEF Closed
    <3>2. Closing(d, id) < Closing(d, start)
      BY <2>3, <2>5, <3>1 DEF Closing, TimeDefinition
    <3>3. Closing(d, id) \in Nat /\ Closing(d, start) \in Nat
      BY <1>5, <3>1
    <3> QED BY <1>11, <2>2, <3>1, <3>2, <3>3
  <2> QED BY <2>1, <2>4, <2>5 DEF Expires
<1> QED BY <1>1, <1>2, <1>8, <1>9, <1>10, <1>11 DEF ValuesOK

\* The time of the key.
LEMMA TimesKept ==
  ASSUME NEW log, NEW m, NEW new, NEW l, OneMore(log, m, new, l), NEW d, d = definition,
         TimeDefinition(d), NEW k,
         NEW s, StateOK(s, log, d, k), NEW open, NEW b, Added(s, b, open, new, m, l, d, k),
         NEW starts, Closed(starts, b, new, d, k, l), NEW t, Expires(b, t, starts, d),
         starts \subseteq Nat, d.closing = "key", ExpiresKey(b, t, starts, d)
  PROVE  TimesOK(t, new, d, k)
<1>1. /\ l \in Nat /\ l = Len(log) /\ Len(new) = l + 1 /\ new[l + 1] = m
      /\ \A n \in 1..l : new[n] = log[n]
      /\ \A n \in 1..l + 1 : new[n].stamp \in Nat
  BY MessageTypes DEF OneMore
<1>2. PICK u \in Nat : u = Clock(new, d, k, l + 1)
  BY ClockIs DEF OneMore
<1>3. PICK v \in Nat : v = Clock(log, d, k, l)
  BY ClockIs DEF OneMore
<1>4. v <= u
  BY <1>2, <1>3, ClockRises
<1>5. \A start \in Nat : Closing(d, start) \in Nat
  BY DEF Closing, TimeDefinition
<1>6. t.latest = u
  BY <1>2 DEF Expires, Added
<1>7. s.expired = None \/ (s.expired \in Nat /\ Closing(d, s.expired) <= v)
  BY <1>1, <1>3 DEF StateOK, TimesOK
<1>8. s.deletedValue <= s.expired /\ s.deletedValue \in Int /\ s.expired \in Int
  BY <1>7 DEF StateOK, TimesOK, ValuesOK, None
<1>9. \A n, start : IsLate(log, d, n, start) => IsLate(new, d, n, start)
  <2> SUFFICES ASSUME NEW n \in 1..l, NEW start, IsLate(log, d, n, start)
               PROVE  IsLate(new, d, n, start)
    BY <1>1 DEF IsLate
  <2>1. Clock(new, d, log[n].key, n) = Clock(log, d, log[n].key, n)
    BY <1>1, ClockGrows
  <2> QED BY <1>1, <2>1 DEF IsLate
<1>10. ASSUME NEW x \in b.values, x.id < s.expired
       PROVE  \E start : IsLate(new, d, x.counter, start)
  <2>1. CASE x \in s.values
    BY <1>9, <1>10, <2>1 DEF StateOK, TimesOK
  <2>2. CASE m.key = k /\ x = [id |-> m.stamp, counter |-> l + 1]
    <3>1. s.expired \in Nat /\ m.stamp \in Nat /\ m.stamp < s.expired
      BY <1>1, <1>7, <1>10, <2>2 DEF None
    <3>2. PICK start \in Nat : InRange(d, start, m.stamp)
      BY <3>1, RangesAre
    <3>3. Closing(d, start) < Closing(d, s.expired)
      BY <3>1, <3>2 DEF InRange, Closing, TimeDefinition
    <3>4. Closing(d, start) <= u
      <4>1. Closing(d, start) \in Nat /\ Closing(d, s.expired) \in Nat
        BY <1>5, <3>1
      <4>2. Closing(d, s.expired) <= v
        BY <1>7, <3>1 DEF None
      <4> QED BY <1>4, <3>3, <4>1, <4>2
    <3>5. IsLate(new, d, l + 1, start)
      BY <1>1, <1>2, <2>2, <3>2, <3>4 DEF IsLate
    <3> QED BY <2>2, <3>5
  <2> QED BY <2>1, <2>2 DEF Added
<1>11. CASE starts = {}
  <2>1. t = b
    BY <1>11 DEF ExpiresKey
  <2>2. s.expired = None \/ (s.expired \in Nat /\ Closing(d, s.expired) <= u)
    BY <1>4, <1>5, <1>7
  <2> QED BY <1>1, <1>2, <1>6, <1>8, <1>10, <2>1, <2>2 DEF TimesOK, Added
<1>12. CASE starts # {}
  <2>1. t.expired \in starts /\ t.expired \in Nat /\ Closing(d, t.expired) <= u
    BY <1>2, <1>12 DEF ExpiresKey, Closed
  <2>2. \A x \in b.values : x.id \in Nat
    <3> TAKE x \in b.values
    <3>1. x \in s.values \/ x = [id |-> m.stamp, counter |-> l + 1]
      BY DEF Added
    <3>2. CASE x \in s.values
      <4>1. PICK n \in 1..l : x = ValueOf(log, n)
        BY <1>1, <3>2 DEF StateOK, ValuesOK
      <4> QED BY <1>1, <4>1 DEF ValueOf
    <3> QED BY <1>1, <3>1, <3>2
  <2>3. s.expired < t.expired
    <3>1. PICK start \in Nat : start = t.expired
      BY <2>1
    <3>2. start \in DOMAIN b.windows
      BY <1>12, <3>1 DEF ExpiresKey, Closed
    <3>3. Closing(d, start) > v
      BY <1>3, <3>2, BeforeOpen
    <3>4. ASSUME NEW e \in Nat, e = s.expired, start <= e PROVE FALSE
      <4>1. Closing(d, start) <= Closing(d, e) /\ Closing(d, e) <= v
        BY <1>7, <3>4 DEF Closing, TimeDefinition, None
      <4> QED BY <1>5, <3>3, <4>1
    <3> QED BY <1>7, <3>1, <3>4 DEF None
  <2>4. t.deletedValue <= t.expired
    <3>1. \/ t.deletedValue = s.deletedValue
          \/ t.deletedValue \in Nat /\ t.deletedValue < t.expired
      BY <1>12 DEF ExpiresKey, Added
    <3>2. PICK e \in Nat : e = t.expired
      BY <2>1
    <3> QED BY <1>8, <2>3, <3>1, <3>2
  <2>5. \A x \in t.values : x.id < t.expired => \E start : IsLate(new, d, x.counter, start)
    <3> SUFFICES ASSUME NEW x \in t.values, x.id < t.expired
                 PROVE  \E start : IsLate(new, d, x.counter, start)
      OBVIOUS
    <3>1. d.collect
      BY DEF Expires, Added, StateOK, ValuesOK
    <3>2. x \in b.values /\ ~(b.deletedValue <= x.id /\ x.id < t.expired)
      BY <1>12, <3>1 DEF ExpiresKey
    <3>3. ~(s.deletedValue <= x.id) /\ x.id \in Nat
      BY <2>2, <3>2 DEF Added
    <3>4. x.id < s.expired
      BY <1>8, <3>3
    <3> QED BY <1>10, <3>2, <3>4
  <2> QED BY <1>1, <1>2, <1>6, <2>1, <2>4, <2>5 DEF TimesOK
<1> QED BY <1>11, <1>12

\* What a message does to the store of a key.
StepOf(s, b, t, starts, open, new, m, l, d, k) ==
    /\ Added(s, b, open, new, m, l, d, k)
    /\ Closed(starts, b, new, d, k, l) /\ starts \subseteq Nat
    /\ Expires(b, t, starts, d)
    /\ IF d.closing = "key" THEN ExpiresKey(b, t, starts, d) ELSE t.expired = None

\* The store of a key is as the messages have left it.
LEMMA StepKeeps ==
  ASSUME NEW log, NEW m, NEW new, NEW l, OneMore(log, m, new, l), NEW d, d = definition,
         TimeDefinition(d), NEW k, NEW s, StateOK(s, log, d, k), NEW open, NEW b, NEW starts, NEW t,
         StepOf(s, b, t, starts, open, new, m, l, d, k)
  PROVE  StateOK(t, new, d, k)
<1>1. /\ Added(s, b, open, new, m, l, d, k) /\ Closed(starts, b, new, d, k, l)
      /\ starts \subseteq Nat /\ Expires(b, t, starts, d)
  BY DEF StepOf
<1>2. IsState(t) /\ t.latest \in Nat
  BY <1>1 DEF Added, Expires
<1>3. WindowsOK(t.windows, new, d, k)
  BY <1>1, WindowsKept
<1>4. ValuesOK(t, new, d, k)
  BY <1>1, ValuesKept
<1>5. CASE d.closing = "key"
  <2>1. ExpiresKey(b, t, starts, d)
    BY <1>5 DEF StepOf
  <2>2. TimesOK(t, new, d, k)
    BY <1>1, <1>5, <2>1, TimesKept
  <2> QED BY <1>2, <1>3, <1>4, <1>5, <2>2 DEF StateOK
<1>6. CASE d.closing # "key"
  <2>1. t.expired = None
    BY <1>6 DEF StepOf
  <2> QED BY <1>2, <1>3, <1>4, <1>6, <2>1 DEF StateOK
<1> QED BY <1>5, <1>6

\* The windows and values of a store, before some of them expire, have types.
LEMMA AddedTypes ==
  ASSUME NEW log, NEW m, NEW new, NEW l, OneMore(log, m, new, l), NEW d,
         TimeDefinition(d), NEW k, NEW s, StateOK(s, log, d, k), NEW open, NEW b,
         Added(s, b, open, new, m, l, d, k)
  PROVE  /\ IsState(b) /\ HaveIds(b) /\ b.latest \in Nat /\ b.expired \in Int
         /\ DOMAIN b.windows \subseteq Nat
<1>1. /\ l \in Nat /\ l = Len(log) /\ \A n \in 1..l : log[n].stamp \in Nat
      /\ m.stamp \in Nat
  BY MessageTypes DEF OneMore, WindowMessage
<1>2. DOMAIN b.windows \subseteq Nat
  BY BeforeOpen
<1>3. s.deletedValue \in Int /\ s.expired \in Int
  BY DEF StateOK, ValuesOK, TimesOK, None
<1>4. IsState(b) /\ b.latest \in Nat /\ b.expired \in Int /\ b.deletedValue \in Int
  BY <1>3 DEF Added
<1>5. \A x \in b.values : x.id \in Nat
  <2> TAKE x \in b.values
  <2>1. x \in s.values \/ x = [id |-> m.stamp, counter |-> l + 1]
    BY DEF Added
  <2>2. CASE x \in s.values
    <3>1. PICK n \in 1..l : x = ValueOf(log, n)
      BY <1>1, <2>2 DEF StateOK, ValuesOK
    <3> QED BY <1>1, <3>1 DEF ValueOf
  <2> QED BY <1>1, <2>1, <2>2
<1> QED BY <1>2, <1>4, <1>5 DEF HaveIds

\* A message is added to the store of its key.
LEMMA AppliedAdds ==
  ASSUME NEW log, NEW m, NEW new, NEW l, OneMore(log, m, new, l), NEW d, d = definition,
         TimeDefinition(d), log = arrived, NEW k, k = m.key,
         NEW s, s = store[k], StateOK(s, log, d, k), NEW maxStart,
         NEW open, open = OpenRanges(m.stamp, maxStart), OpenAt(open, new, d, m, k, l),
         NEW b, b = Applied(k, m.stamp, maxStart, {})
  PROVE  Added(s, b, open, new, m, l, d, k)
<1>1. l \in Nat /\ l = Len(log) /\ m.stamp \in Nat /\ Incoming = l + 1
  BY DEF OneMore, WindowMessage, Incoming
<1>2. PICK stamp \in Nat : stamp = m.stamp
  BY <1>1
<1>3. PICK n : n = l + 1
  OBVIOUS
<1>4. IsState(s) /\ s.latest \in Nat
  BY DEF StateOK
<1>5. AppliedTo(s, b, open, {}, stamp, n, d)
  <2>1. PICK fired : fired = {}
    OBVIOUS
  <2>2. b = Applied(k, stamp, maxStart, fired) /\ open = OpenRanges(stamp, maxStart) /\ n = Incoming
    BY <1>1, <1>2, <1>3, <2>1
  <2>3. AppliedTo(s, b, open, fired, stamp, n, d)
    BY <1>4, <2>2, AppliedIs
  <2> QED BY <2>1, <2>3, Zenon
<1>6. b.latest \in Nat
  BY <1>2, <1>4, <1>5 DEF AppliedTo
<1>7. ChangedBy(s.windows, b.windows, open, d, l)
  BY <1>3, <1>5 DEF ChangedBy, AppliedTo
<1>8. \A x : x \in b.values <=>
          x \in s.values \/ (d.collect /\ m.key = k /\ x = [id |-> m.stamp, counter |-> l + 1])
  BY <1>2, <1>3, <1>5 DEF AppliedTo
<1>9. d.closing = "key" => b.latest = Clock(new, d, k, l + 1)
  <2> SUFFICES ASSUME d.closing = "key" PROVE b.latest = Clock(new, d, k, l + 1)
    OBVIOUS
  <2>1. PICK v \in Nat : v = Clock(log, d, k, l)
    BY ClockIs DEF OneMore
  <2>2. PICK u \in Nat : u = Clock(new, d, k, l + 1)
    BY ClockIs DEF OneMore
  <2>3. s.latest = v
    BY <1>1, <2>1 DEF StateOK, TimesOK
  <2>4. u = IF stamp > v THEN stamp ELSE v
    BY <1>2, <2>1, <2>2, ClockGrows
  <2>5. stamp > v => open # {}
    <3> SUFFICES ASSUME stamp > v PROVE open # {}
      OBVIOUS
    <3>1. PICK start \in Nat : InRange(d, start, stamp) /\ stamp - start < d.step
      BY RangesAre
    <3>2. Closing(d, start) > u
      BY <2>4, <3>1 DEF Closing, TimeDefinition
    <3> QED BY <1>2, <2>2, <3>1, <3>2 DEF OpenAt
  <2>6. b.latest = IF stamp > v THEN stamp ELSE v
    BY <1>5, <2>3, <2>5 DEF AppliedTo
  <2> QED BY <2>2, <2>4, <2>6
<1> QED BY <1>5, <1>6, <1>7, <1>8, <1>9 DEF Added, AppliedTo

-----------------------------------------------------------------------------
(* A message, when keys close windows. *)

\* The windows of a message that the time of the key leaves open.
LEMMA KeyOpen ==
  ASSUME NEW log, NEW m, NEW new, NEW l, OneMore(log, m, new, l), NEW d, d = definition,
         TimeDefinition(d), d.closing = "key", NEW k, k = m.key,
         NEW s, s = store[k], StateOK(s, log, d, k),
         NEW maxStart, maxStart = LatestTime(k, m.stamp) - d.grace - d.duration
  PROVE  /\ maxStart \in Int
         /\ \A start \in Nat : start > maxStart <=> Closing(d, start) > Clock(new, d, k, l + 1)
         /\ OpenAt(OpenRanges(m.stamp, maxStart), new, d, m, k, l)
<1>1. l \in Nat /\ l = Len(log) /\ m.stamp \in Nat
  BY DEF OneMore, WindowMessage
<1>2. PICK stamp \in Nat : stamp = m.stamp
  BY <1>1
<1>3. PICK v \in Nat : v = Clock(log, d, k, l)
  BY ClockIs DEF OneMore
<1>4. PICK u \in Nat : u = Clock(new, d, k, l + 1)
  BY ClockIs DEF OneMore
<1>5. s.latest = v
  BY <1>1, <1>3 DEF StateOK, TimesOK
<1>6. u = IF stamp > v THEN stamp ELSE v
  BY <1>2, <1>3, <1>4, ClockGrows
<1>7. LatestTime(k, m.stamp) = u
  <2>1. LatestTime(k, m.stamp) = Max({stamp, v})
    BY <1>2, <1>5 DEF LatestTime
  <2> QED BY <1>6, <2>1, MaxOfTwo
<1>8. d.duration \in Nat /\ d.grace \in Nat
  BY DEF TimeDefinition
<1>9. maxStart = u - d.grace - d.duration /\ maxStart \in Int
  BY <1>7, <1>8
<1>10. \A start \in Nat : start > maxStart <=> Closing(d, start) > u
  BY <1>8, <1>9 DEF Closing
<1>11. PICK open : open = OpenRanges(m.stamp, maxStart)
  OBVIOUS
<1>12. \A start : start \in Ranges(stamp) <=> start \in Nat /\ InRange(d, start, stamp)
  BY RangesAre
<1>13. \A start : start \in open <=> start \in Ranges(stamp) /\ start > maxStart
  BY <1>2, <1>11 DEF OpenRanges
<1>14. OpenAt(open, new, d, m, k, l)
  BY <1>2, <1>4, <1>10, <1>12, <1>13 DEF OpenAt
<1> QED BY <1>4, <1>9, <1>10, <1>11, <1>14

\* A message and the windows that the time of its key closes.
LEMMA KeyStep ==
  ASSUME NEW log, NEW m, NEW new, NEW l, OneMore(log, m, new, l), NEW d, d = definition,
         TimeDefinition(d), d.closing = "key", log = arrived, NEW k, k = m.key,
         NEW s, s = store[k], StateOK(s, log, d, k),
         NEW maxStart, maxStart = LatestTime(k, m.stamp) - d.grace - d.duration,
         NEW open, open = OpenRanges(m.stamp, maxStart),
         NEW b, b = Applied(k, m.stamp, maxStart, {}),
         NEW starts, starts = Expired(b, maxStart),
         NEW t, t = ExpireWindows(b, maxStart, TRUE, d.collect)
  PROVE  StepOf(s, b, t, starts, open, new, m, l, d, k)
<1>1. /\ maxStart \in Int
      /\ \A start \in Nat : start > maxStart <=> Closing(d, start) > Clock(new, d, k, l + 1)
      /\ OpenAt(open, new, d, m, k, l)
  BY KeyOpen
<1>2. Added(s, b, open, new, m, l, d, k)
  BY <1>1, AppliedAdds
<1>3. /\ IsState(b) /\ HaveIds(b) /\ b.latest \in Nat /\ b.expired \in Int
      /\ DOMAIN b.windows \subseteq Nat
  BY <1>2, AddedTypes
<1>4. /\ \A start : start \in starts <=>
             start \in DOMAIN b.windows /\ b.expired < start /\ start <= maxStart
      /\ Expires(b, t, starts, d) /\ ExpiresKey(b, t, starts, d)
  <2>1. PICK w : /\ \A start : start \in w <=>
                       start \in DOMAIN b.windows /\ b.expired < start /\ start <= maxStart
                 /\ w = Expired(b, maxStart)
                 /\ Expires(b, t, w, d) /\ ExpiresKey(b, t, w, d)
    BY <1>1, <1>3, ExpireIs
  <2>2. w = starts
    BY <2>1
  <2> QED BY <2>1, <2>2, Zenon
<1>5. PICK u \in Nat : u = Clock(new, d, k, l + 1)
  BY ClockIs DEF OneMore
<1>6. ASSUME NEW start \in DOMAIN b.windows
      PROVE  b.expired < start
  <2>1. PICK v \in Nat : v = Clock(log, d, k, l)
    BY ClockIs DEF OneMore
  <2>2. start \in Nat /\ Closing(d, start) > v
    BY <1>2, <2>1, BeforeOpen
  <2>3. b.expired = None \/ (b.expired \in Nat /\ Closing(d, b.expired) <= v)
    BY <1>2, <2>1 DEF Added, StateOK, TimesOK, OneMore
  <2>4. ASSUME NEW e \in Nat, Closing(d, e) <= v, start <= e PROVE FALSE
    <3>1. Closing(d, start) <= Closing(d, e) /\ Closing(d, e) \in Nat /\ Closing(d, start) \in Nat
      BY <2>2, <2>4 DEF Closing, TimeDefinition
    <3> QED BY <2>2, <2>4, <3>1
  <2> QED BY <1>3, <2>2, <2>3, <2>4 DEF None
<1>7. \A start \in Nat : start <= maxStart <=> Closing(d, start) <= u
  <2>1. \A start \in Nat : Closing(d, start) \in Nat
    BY DEF Closing, TimeDefinition
  <2> QED BY <1>1, <1>5, <2>1
<1>8. Closed(starts, b, new, d, k, l) /\ starts \subseteq Nat
  BY <1>3, <1>4, <1>5, <1>6, <1>7 DEF Closed
<1> QED BY <1>2, <1>4, <1>8 DEF StepOf

\* The store of another key is as it was.
LEMMA OtherStep ==
  ASSUME NEW log, NEW m, NEW new, NEW l, OneMore(log, m, new, l), NEW d,
         TimeDefinition(d), d.closing = "key", NEW k, k # m.key, NEW s, StateOK(s, log, d, k)
  PROVE  StepOf(s, s, s, {}, {}, new, m, l, d, k)
<1>1. l \in Nat /\ l = Len(log)
  BY DEF OneMore
<1>2. Clock(new, d, k, l + 1) = Clock(log, d, k, l)
  BY ClockGrows
<1>3. IsState(s) /\ s.latest \in Nat /\ s.latest = Clock(log, d, k, l)
  BY <1>1 DEF StateOK, TimesOK
<1>4. ChangedBy(s.windows, s.windows, {}, d, l) /\ OpenAt({}, new, d, m, k, l)
  BY DEF ChangedBy, OpenAt
<1>5. Added(s, s, {}, new, m, l, d, k)
  BY <1>2, <1>3, <1>4 DEF Added
<1>6. PICK v \in Nat : v = Clock(log, d, k, l)
  BY ClockIs DEF OneMore
<1>7. \A start \in DOMAIN s.windows : start \in Nat /\ Closing(d, start) > v
  BY <1>1, <1>6 DEF StateOK, WindowsOK
<1>8. \A start \in Nat : Closing(d, start) \in Nat
  BY DEF Closing, TimeDefinition
<1>9. Closed({}, s, new, d, k, l)
  BY <1>2, <1>6, <1>7, <1>8 DEF Closed
<1>10. Expires(s, s, {}, d) /\ ExpiresKey(s, s, {}, d)
  BY <1>3 DEF Expires, ExpiresKey
<1> QED BY <1>5, <1>9, <1>10 DEF StepOf

-----------------------------------------------------------------------------
(* A message, when the partition closes windows. *)

\* The largest multiple of a step up to a number.
Floor(x, s) == x - (x % s)

\* It is the largest one.
LEMMA FloorIs ==
  ASSUME NEW s \in Nat \ {0}, NEW x \in Nat, NEW f, f = Floor(x, s)
  PROVE  /\ f \in Nat /\ f % s = 0 /\ f <= x /\ x < f + s
         /\ \A e \in Nat : e % s = 0 => (e <= x <=> e <= f)
<1>1. PICK r : r = x % s
  OBVIOUS
<1>2. r \in 0..s - 1 /\ r <= x /\ x - r \in Nat /\ (x - r) % s = 0
  BY <1>1, Remainder, Zenon
<1>3. f = x - r
  BY <1>1 DEF Floor
<1>4. f \in Nat /\ f % s = 0 /\ f <= x /\ x < f + s
  BY <1>2, <1>3
<1>5. ASSUME NEW e \in Nat, e % s = 0, e <= x, f < e PROVE FALSE
  <2>1. f + s <= e
    BY <1>4, <1>5, Multiples
  <2> QED BY <1>4, <1>5, <2>1
<1>6. \A e \in Nat : e % s = 0 => (e <= x <=> e <= f)
  BY <1>4, <1>5
<1> QED BY <1>4, <1>6

\* The ends are those of the windows that a message closes in a partition.
EndsClose(ends, p, step, v, u) ==
    \A end \in Nat : end % step = 0 /\ end > v =>
        ((IF p = 0 THEN end <= Max(ends) ELSE end \in ends) <=> end <= u)

\* The ends of the windows that a message expires in a partition.
LEMMA EndsAre ==
  ASSUME NEW s \in Nat \ {0}, NEW v \in Nat, NEW p, p = Floor(v, s), NEW stamp \in Nat,
         NEW u, u = IF stamp > v THEN stamp ELSE v,
         NEW maxEnd, maxEnd = IF stamp >= p THEN stamp ELSE p,
         NEW ends, ends = EndsToExpire(p, maxEnd, s),
         NEW q, q = IF ends = {} THEN p ELSE Max(ends)
  PROVE  /\ q = Floor(u, s)
         /\ EndsClose(ends, p, s, v, u)
<1>1. /\ p \in Nat /\ p % s = 0 /\ p <= v /\ v < p + s
      /\ \A e \in Nat : e % s = 0 => (e <= v <=> e <= p)
  BY FloorIs
<1>2. u \in Nat /\ maxEnd \in Nat
  BY <1>1
<1>3. PICK f : f = Floor(stamp, s)
  OBVIOUS
<1>4. /\ f \in Nat /\ f % s = 0 /\ f <= stamp /\ stamp < f + s
      /\ \A e \in Nat : e % s = 0 => (e <= stamp <=> e <= f)
  BY <1>3, FloorIs
<1>5. CASE p = 0
  <2>1. maxEnd = stamp
    BY <1>5
  <2>2. ends = {f}
    BY <1>3, <1>5, <2>1 DEF EndsToExpire, Floor
  <2>3. Max(ends) = f
    <3>1. Max(ends) \in ends
      BY <1>4, <2>2, Greatest
    <3> QED BY <2>2, <3>1
  <2>4. q = f
    BY <2>2, <2>3
  <2>5. stamp <= v => f = 0
    <3>1. 0 % s = 0 /\ (0 < f => 0 + s <= f)
      BY <1>4, Multiples
    <3> QED BY <1>1, <1>4, <1>5, <3>1
  <2>6. q = Floor(u, s)
    <3>1. CASE stamp > v
      BY <1>3, <2>4, <3>1
    <3>2. CASE ~(stamp > v)
      <4>1. u = v /\ f = 0
        BY <2>5, <3>2
      <4> QED BY <1>5, <2>4, <4>1
    <3> QED BY <3>1, <3>2
  <2>7. \A end \in Nat : end % s = 0 /\ end > v => (end <= f <=> end <= u)
    BY <1>4
  <2> QED BY <1>5, <2>3, <2>6, <2>7 DEF EndsClose
<1>6. CASE p # 0
  <2>1. \A end \in Nat : end > p => ((end - p) % s = 0 <=> end % s = 0)
    <3> TAKE end \in Nat
    <3> SUFFICES ASSUME end > p PROVE (end - p) % s = 0 <=> end % s = 0
      OBVIOUS
    <3>1. PICK e \in Nat : e = end - p
      BY <1>1
    <3>2. end % s = 0 => e % s = 0
      BY <1>1, <3>1, Multiples
    <3>3. e % s = 0 => (e + p) % s = 0
      BY <1>1, Multiples
    <3> QED BY <1>1, <3>1, <3>2, <3>3
  <2>2. \A end : end \in ends <=> end \in Nat /\ end > p /\ end <= maxEnd /\ end % s = 0
    <3>1. ends = {end \in p + 1..maxEnd : (end - p) % s = 0}
      BY <1>6 DEF EndsToExpire
    <3> QED BY <1>1, <1>2, <2>1, <3>1
  <2>3. \A end \in Nat : end % s = 0 /\ end > v => (end \in ends <=> end <= u)
    BY <1>1, <2>2
  <2>4. CASE ends = {}
    <3>1. f <= p \/ stamp < p
      <4>1. ~(f > p /\ f <= maxEnd)
        BY <1>4, <2>2, <2>4
      <4>2. stamp >= p => maxEnd = stamp
        OBVIOUS
      <4> QED BY <1>1, <1>4, <4>1, <4>2
    <3>2. stamp >= p => f = p
      BY <1>1, <1>4, <3>1
    <3>3. q = Floor(u, s)
      BY <1>1, <1>3, <2>4, <3>2
    <3> QED BY <1>6, <2>3, <3>3 DEF EndsClose
  <2>5. CASE ends # {}
    <3>1. q \in ends /\ \A end \in ends : end <= q
      <4>1. ends \subseteq 0..maxEnd
        BY <1>2, <2>2
      <4> QED BY <2>5, <1>2, <4>1, Greatest, Zenon
    <3>2. q \in Nat /\ q > p /\ q <= maxEnd /\ q % s = 0
      BY <2>2, <3>1
    <3>3. p + s <= q
      BY <1>1, <3>2, Multiples
    <3>4. maxEnd = stamp /\ u = stamp
      BY <1>1, <3>2, <3>3
    <3>5. q <= f
      BY <1>4, <3>2, <3>4
    <3>6. f \in ends
      BY <1>4, <2>2, <3>2, <3>4, <3>5
    <3>7. q = f
      BY <1>4, <3>1, <3>2, <3>5, <3>6
    <3> QED BY <1>3, <1>6, <2>3, <3>4, <3>7 DEF EndsClose
  <2> QED BY <2>4, <2>5
<1> QED BY <1>5, <1>6

\* The windows that the time of the partition closes are those that the model and the code
\* agree on: no grace period, and ends that are multiples of the step.
Aligned(d) == d.closing = "partition" => d.grace = 0 /\ d.duration % d.step = 0

\* The end of a window that is open or not is a multiple of the step.
LEMMA ClosingAligned ==
  ASSUME NEW d, TimeDefinition(d), d.closing = "partition", Aligned(d), NEW start \in Nat,
         start % d.step = 0
  PROVE  /\ Closing(d, start) = start + d.duration /\ Closing(d, start) \in Nat
         /\ Closing(d, start) % d.step = 0
<1>1. PICK s \in Nat \ {0} : s = d.step
  BY DEF TimeDefinition
<1>2. PICK x \in Nat : x = d.duration
  BY DEF TimeDefinition
<1>3. (start + x) % s = 0
  BY <1>1, <1>2, Multiples DEF Aligned
<1>4. Closing(d, start) = start + x
  BY <1>2 DEF Closing, Aligned
<1> QED BY <1>1, <1>2, <1>3, <1>4

\* The time of a partition is the same for all keys.
LEMMA PartitionClock ==
  ASSUME NEW log, NEW d, d.closing = "partition", NEW i
  PROVE  \A k, j : Clock(log, d, k, i) = Clock(log, d, j, i)
BY DEF Clock

\* The windows of a message that the time of the partition leaves open.
LEMMA PartitionOpen ==
  ASSUME NEW log, NEW m, NEW new, NEW l, OneMore(log, m, new, l), NEW d, d = definition,
         TimeDefinition(d), d.closing = "partition", Aligned(d),
         NEW k, NEW p, p = Floor(Clock(log, d, k, l), d.step), p = partitionExpired,
         NEW maxEnd, maxEnd = LatestTime(m.key, m.stamp) - d.grace
  PROVE  /\ maxEnd = IF m.stamp >= p THEN m.stamp ELSE p
         /\ OpenAt(OpenRanges(m.stamp, maxEnd - d.duration), new, d, m, m.key, l)
<1>1. l \in Nat /\ l = Len(log) /\ m.stamp \in Nat
  BY DEF OneMore, WindowMessage
<1>2. PICK stamp \in Nat : stamp = m.stamp
  BY <1>1
<1>3. PICK s \in Nat \ {0} : s = d.step
  BY DEF TimeDefinition
<1>4. PICK v \in Nat : v = Clock(log, d, k, l)
  BY ClockIs DEF OneMore
<1>5. PICK u \in Nat : u = Clock(new, d, m.key, l + 1)
  BY ClockIs DEF OneMore
<1>6. u = IF stamp > v THEN stamp ELSE v
  <2>1. Clock(log, d, m.key, l) = v
    BY <1>4, PartitionClock
  <2> QED BY <1>2, <1>5, <2>1, ClockGrows
<1>7. /\ p \in Nat /\ p <= v
      /\ \A e \in Nat : e % s = 0 => (e <= v <=> e <= p)
  BY <1>3, <1>4, FloorIs
<1>8. d.grace = 0
  BY DEF Aligned
<1>9. maxEnd = IF stamp >= p THEN stamp ELSE p
  <2>1. LatestTime(m.key, m.stamp) = Max({stamp, p})
    BY <1>2 DEF LatestTime
  <2>2. Max({stamp, p}) = IF stamp > p THEN stamp ELSE p
    BY <1>7, MaxOfTwo
  <2> QED BY <1>2, <1>7, <1>8, <2>1, <2>2
<1>10. PICK x \in Nat : x = d.duration
  BY DEF TimeDefinition
<1>11. PICK open : open = OpenRanges(m.stamp, maxEnd - d.duration)
  OBVIOUS
<1>12. \A start : start \in Ranges(stamp) <=> start \in Nat /\ InRange(d, start, stamp)
  BY RangesAre
<1>13. \A start : start \in open <=>
           start \in Nat /\ InRange(d, start, stamp) /\ start > maxEnd - x
  BY <1>2, <1>10, <1>11, <1>12 DEF OpenRanges
<1>14. ASSUME NEW start \in Nat, InRange(d, start, stamp)
       PROVE  start > maxEnd - x <=> Closing(d, start) > u
  <2>1. Closing(d, start) = start + x /\ Closing(d, start) % s = 0
    BY <1>3, <1>10, <1>14, ClosingAligned DEF InRange
  <2>2. stamp < start + x
    BY <1>10, <1>14 DEF InRange
  <2>3. start + x <= v <=> start + x <= p
    BY <1>7, <2>1
  <2> QED BY <1>6, <1>7, <1>9, <2>1, <2>2, <2>3
<1> QED BY <1>2, <1>5, <1>9, <1>11, <1>13, <1>14 DEF OpenAt

\* The store of another key has no new message.
LEMMA OtherAdds ==
  ASSUME NEW log, NEW m, NEW new, NEW l, OneMore(log, m, new, l), NEW d,
         d.closing # "key", NEW k, k # m.key, NEW s, StateOK(s, log, d, k)
  PROVE  Added(s, s, {}, new, m, l, d, k)
<1>1. IsState(s) /\ s.latest \in Nat
  BY DEF StateOK
<1>2. ChangedBy(s.windows, s.windows, {}, d, l) /\ OpenAt({}, new, d, m, k, l)
  BY DEF ChangedBy, OpenAt
<1> QED BY <1>1, <1>2 DEF Added

\* A message and the windows that the time of the partition closes, for one key.
LEMMA PartitionStep ==
  ASSUME NEW log, NEW m, NEW new, NEW l, OneMore(log, m, new, l), NEW d, d = definition,
         TimeDefinition(d), d.closing = "partition", Aligned(d),
         NEW k, NEW p, p = Floor(Clock(log, d, k, l), d.step),
         NEW s, StateOK(s, log, d, k), NEW open, NEW b, Added(s, b, open, new, m, l, d, k),
         NEW maxEnd, maxEnd = IF m.stamp >= p THEN m.stamp ELSE p,
         NEW starts, starts = ExpiredInPartition(b, p, maxEnd, d.step, d.duration),
         NEW t, t = ExpireInPartition(b, starts, d.collect)
  PROVE  StepOf(s, b, t, starts, open, new, m, l, d, k)
<1>1. l \in Nat /\ l = Len(log) /\ m.stamp \in Nat
  BY DEF OneMore, WindowMessage
<1>2. PICK stamp \in Nat : stamp = m.stamp
  BY <1>1
<1>3. PICK step \in Nat \ {0} : step = d.step
  BY DEF TimeDefinition
<1>4. PICK v \in Nat : v = Clock(log, d, k, l)
  BY ClockIs DEF OneMore
<1>5. PICK u \in Nat : u = Clock(new, d, k, l + 1)
  BY ClockIs DEF OneMore
<1>6. u = IF stamp > v THEN stamp ELSE v
  BY <1>2, <1>4, <1>5, ClockGrows
<1>7. PICK ends : ends = EndsToExpire(p, maxEnd, step)
  OBVIOUS
<1>8. EndsClose(ends, p, step, v, u)
  <2>1. p = Floor(v, step) /\ maxEnd = IF stamp >= p THEN stamp ELSE p
    BY <1>2, <1>3, <1>4
  <2>2. PICK q : q = IF ends = {} THEN p ELSE Max(ends)
    OBVIOUS
  <2> QED BY <1>6, <1>7, <2>1, <2>2, EndsAre
<1>9. \A start : start \in starts <=>
         /\ start \in DOMAIN b.windows
         /\ IF p = 0 THEN start + d.duration <= Max(ends) ELSE start + d.duration \in ends
  BY <1>3, <1>7 DEF ExpiredInPartition
<1>10. ASSUME NEW start \in DOMAIN b.windows
       PROVE  start \in Nat /\ Closing(d, start) > v /\ start % step = 0
  <2>1. /\ start \in Nat /\ Closing(d, start) > v
        /\ start \notin open => In(new, d, k, start, l + 1) = In(log, d, k, start, l)
    BY <1>4, BeforeOpen
  <2>2. start \in open \/ start \in DOMAIN s.windows
    BY DEF Added, ChangedBy
  <2>3. start \in open => start % step = 0
    BY <1>3 DEF Added, OpenAt, InRange
  <2>4. start \in DOMAIN s.windows => start % step = 0
    <3>1. start \in DOMAIN s.windows => In(log, d, k, start, l) # {}
      BY <1>1 DEF StateOK, WindowsOK
    <3> QED BY <1>3, <3>1 DEF In, InRange
  <2> QED BY <2>1, <2>2, <2>3, <2>4
<1>11. \A start \in DOMAIN b.windows : start \in starts <=> Closing(d, start) <= u
  <2> TAKE start \in DOMAIN b.windows
  <2>1. PICK end : end = Closing(d, start)
    OBVIOUS
  <2>2. end = start + d.duration /\ end \in Nat /\ end % step = 0 /\ end > v
    BY <1>3, <1>10, <2>1, ClosingAligned
  <2>3. start \in starts <=> (IF p = 0 THEN end <= Max(ends) ELSE end \in ends)
    BY <1>9, <2>2
  <2> QED BY <1>8, <2>1, <2>2, <2>3 DEF EndsClose
<1>12. Closed(starts, b, new, d, k, l) /\ starts \subseteq Nat
  BY <1>5, <1>9, <1>10, <1>11 DEF Closed
<1>13. Bounded(starts)
  <2> SUFFICES ASSUME NEW start \in starts PROVE start \in 0..u
    BY DEF Bounded
  <2>1. start \in Nat /\ Closing(d, start) <= u
    BY <1>5, <1>12 DEF Closed
  <2> QED BY <2>1 DEF Closing, TimeDefinition
<1>14. /\ IsState(b) /\ HaveIds(b) /\ b.latest \in Nat /\ b.expired \in Int
       /\ DOMAIN b.windows \subseteq Nat
  BY AddedTypes
<1>15. Expires(b, t, starts, d) /\ t.expired = b.expired
  BY <1>13, <1>14, ExpireAllIs
<1>16. t.expired = None
  BY <1>15 DEF Added, StateOK
<1> QED BY <1>12, <1>15, <1>16 DEF StepOf

-----------------------------------------------------------------------------
(* Results. *)

\* What is collected of a window that a message closes.
LEMMA CollectionIs ==
  ASSUME NEW log, NEW m, NEW new, NEW l, OneMore(log, m, new, l), NEW d, TimeDefinition(d),
         NEW k, NEW s, StateOK(s, log, d, k), NEW open, NEW b, Added(s, b, open, new, m, l, d, k),
         NEW start \in Nat, start % d.step = 0, Closing(d, start) > Clock(log, d, k, l), d.collect
  PROVE  Collection(b, start, start + d.duration) = In(new, d, k, start, l + 1)
<1>1. /\ l \in Nat /\ l = Len(log) /\ Len(new) = l + 1 /\ new[l + 1] = m
      /\ \A n \in 1..l : new[n] = log[n]
      /\ \A n \in 1..l + 1 : new[n].stamp \in Nat
  BY MessageTypes DEF OneMore
<1>2. PICK v \in Nat : v = Clock(log, d, k, l)
  BY ClockIs DEF OneMore
<1>3. PICK e \in Nat : e = start + d.duration
  BY DEF TimeDefinition
<1>4. \A n : n \in Collection(b, start, e) <=>
          \E x \in b.values : x.counter = n /\ start <= x.id /\ x.id < e
  BY DEF Collection, ValuesBetween
<1>5. \A n : n \in In(new, d, k, start, l + 1) <=>
          n \in 1..l + 1 /\ new[n].key = k /\ start <= new[n].stamp /\ new[n].stamp < e
  BY <1>1, <1>3 DEF In, InRange
<1>6. ASSUME NEW x \in b.values, start <= x.id, x.id < e
      PROVE  x.counter \in In(new, d, k, start, l + 1)
  <2>1. CASE x \in s.values
    <3>1. PICK n \in 1..l : log[n].key = k /\ x = ValueOf(log, n)
      BY <1>1, <2>1 DEF StateOK, ValuesOK
    <3>2. x.id = new[n].stamp /\ x.counter = n /\ new[n].key = k /\ n \in 1..l + 1
      BY <1>1, <3>1 DEF ValueOf
    <3> QED BY <1>5, <1>6, <3>2
  <2>2. CASE m.key = k /\ x = [id |-> m.stamp, counter |-> l + 1]
    <3>1. x.id = new[l + 1].stamp /\ x.counter = l + 1 /\ new[l + 1].key = k /\ l + 1 \in 1..l + 1
      BY <1>1, <2>2
    <3> QED BY <1>5, <1>6, <3>1
  <2> QED BY <2>1, <2>2 DEF Added
<1>7. ASSUME NEW n \in 1..l + 1, new[n].key = k, start <= new[n].stamp, new[n].stamp < e
      PROVE  n \in Collection(b, start, e)
  <2>1. CASE n = l + 1
    <3>1. PICK x : x = [id |-> m.stamp, counter |-> l + 1]
      OBVIOUS
    <3>2. x \in b.values
      BY <1>1, <1>7, <2>1, <3>1 DEF Added
    <3>3. x.counter = n /\ x.id = new[n].stamp
      BY <1>1, <2>1, <3>1
    <3> QED BY <1>4, <1>7, <3>2, <3>3
  <2>2. CASE n \in 1..l
    <3>1. PICK stamp \in Nat : stamp = log[n].stamp
      BY <1>1, <2>2
    <3>2. start <= stamp /\ d.duration \in Nat /\ d.grace \in Nat
      BY <1>1, <1>7, <2>2, <3>1 DEF TimeDefinition
    <3>3. /\ Closing(d, start) <= Closing(d, stamp) /\ Closing(d, start) \in Nat
          /\ Closing(d, stamp) \in Nat
      BY <3>2 DEF Closing
    <3>4. Closing(d, stamp) >= v
      BY <1>2, <3>3
    <3>5. ValueOf(log, n) \in s.values
      BY <1>1, <1>2, <1>7, <2>2, <3>1, <3>4 DEF StateOK, ValuesOK
    <3>6. ValueOf(log, n) \in b.values
      BY <3>5 DEF Added
    <3>7. ValueOf(log, n).counter = n /\ ValueOf(log, n).id = new[n].stamp
      BY <1>1, <2>2 DEF ValueOf
    <3> QED BY <1>4, <1>7, <3>6, <3>7
  <2>3. n = l + 1 \/ n \in 1..l
    BY <1>1
  <2> QED BY <2>1, <2>2, <2>3
<1>8. Collection(b, start, e) = In(new, d, k, start, l + 1)
  <2>1. ASSUME NEW n \in Collection(b, start, e)
        PROVE  n \in In(new, d, k, start, l + 1)
    <3>1. PICK x \in b.values : start <= x.id /\ x.id < e /\ n = x.counter
      BY <1>4, <2>1
    <3> QED BY <1>6, <3>1
  <2>2. ASSUME NEW n \in In(new, d, k, start, l + 1)
        PROVE  n \in Collection(b, start, e)
    <3>1. n \in 1..l + 1 /\ new[n].key = k /\ start <= new[n].stamp /\ new[n].stamp < e
      BY <1>5, <2>2
    <3> QED BY <1>7, <3>1
  <2> QED BY <2>1, <2>2
<1> QED BY <1>3, <1>8

\* A result of final(): the time closes the window at this message.
FinalOK(r, log, d) ==
    /\ r.start \in Nat /\ r.at \in 1..Len(log) /\ r.key \in Key
    /\ Closing(d, r.start) > Clock(log, d, r.key, r.at - 1)
    /\ Closing(d, r.start) <= Clock(log, d, r.key, r.at)
    /\ r = [key |-> r.key, start |-> r.start, end |-> r.start + d.duration,
            aggregated |-> IF d.aggregate THEN In(log, d, r.key, r.start, r.at) ELSE {},
            collected |-> IF d.collect THEN In(log, d, r.key, r.start, r.at) ELSE {},
            by |-> "time", at |-> r.at]

\* A result of current(): the message is in the window, which is open.
UpdateOK(r, log, d) ==
    /\ r.start \in Nat /\ r.at \in 1..Len(log) /\ r.key = log[r.at].key
    /\ InRange(d, r.start, log[r.at].stamp)
    /\ Closing(d, r.start) > Clock(log, d, r.key, r.at)
    /\ r = [key |-> r.key, start |-> r.start, end |-> r.start + d.duration,
            aggregated |-> IF d.aggregate THEN In(log, d, r.key, r.start, r.at) ELSE {},
            collected |-> {}, by |-> "update", at |-> r.at]

\* Every result is right.
ResultsRight(e, log, d) ==
    \A r \in e : IF d.emit = "current" THEN UpdateOK(r, log, d) ELSE FinalOK(r, log, d)

\* There is a result for a message and a window.
HasResult(e, log, d, n, start) ==
    IF d.emit = "current"
    THEN \E r \in e : r.start = start /\ r.at = n
    ELSE \/ Closing(d, start) > Clock(log, d, log[n].key, Len(log))
         \/ \E r \in e : r.key = log[n].key /\ r.start = start /\ r.at >= n

\* There is a result for each message that is not late, or the window is open.
ResultsThere(e, log, d) ==
    \A n \in 1..Len(log), start \in Nat :
       InRange(d, start, log[n].stamp) => IsLate(log, d, n, start) \/ HasResult(e, log, d, n, start)

\* The messages that were late.
LateOK(calls, log, d) ==
    \A x : x \in calls <=> \E n, start : x = <<n, start>> /\ IsLate(log, d, n, start)

\* What was said of messages stays true when one more comes.
LEMMA SaidStays ==
  ASSUME NEW log, NEW m, NEW new, NEW l, OneMore(log, m, new, l), NEW d
  PROVE  /\ \A n \in 1..l : new[n] = log[n]
         /\ \A n \in 1..l : \A start : IsLate(new, d, n, start) <=> IsLate(log, d, n, start)
         /\ \A n, start : IsLate(log, d, n, start) => n \in 1..l
         /\ \A start : IsLate(new, d, l + 1, start) <=>
               /\ start \in Nat /\ InRange(d, start, m.stamp)
               /\ Closing(d, start) <= Clock(new, d, m.key, l + 1)
         /\ \A r : FinalOK(r, log, d) => FinalOK(r, new, d)
         /\ \A r : UpdateOK(r, log, d) => UpdateOK(r, new, d)
<1>1. /\ l \in Nat /\ l = Len(log) /\ Len(new) = l + 1 /\ new[l + 1] = m
      /\ \A n \in 1..l : new[n] = log[n]
  BY DEF OneMore
<1>2. \A i \in 0..l : \A k : Clock(new, d, k, i) = Clock(log, d, k, i)
  BY ClockGrows
<1>3. \A n \in 1..l : \A start : IsLate(new, d, n, start) <=> IsLate(log, d, n, start)
  <2> TAKE n \in 1..l
  <2> TAKE start
  <2>1. Clock(new, d, log[n].key, n) = Clock(log, d, log[n].key, n) /\ n \in 1..l + 1
    BY <1>1, <1>2
  <2> QED BY <1>1, <2>1 DEF IsLate
<1>4. \A n, start : IsLate(log, d, n, start) => n \in 1..l
  BY <1>1 DEF IsLate
<1>5. \A start : IsLate(new, d, l + 1, start) <=>
               /\ start \in Nat /\ InRange(d, start, m.stamp)
               /\ Closing(d, start) <= Clock(new, d, m.key, l + 1)
  BY <1>1 DEF IsLate
<1>6. \A i \in 0..l : \A k, start : In(new, d, k, start, i) = In(log, d, k, start, i)
  BY InGrows
<1>7. ASSUME NEW r, FinalOK(r, log, d)
      PROVE  FinalOK(r, new, d)
  <2>1. r.at \in 1..l
    BY <1>1, <1>7 DEF FinalOK
  <2>2. /\ Clock(new, d, r.key, r.at) = Clock(log, d, r.key, r.at)
        /\ Clock(new, d, r.key, r.at - 1) = Clock(log, d, r.key, r.at - 1)
        /\ In(new, d, r.key, r.start, r.at) = In(log, d, r.key, r.start, r.at)
    <3>1. r.at \in 0..l /\ r.at - 1 \in 0..l
      BY <1>1, <2>1
    <3> QED BY <1>2, <1>6, <3>1
  <2>3. r.at \in 1..Len(new)
    BY <1>1, <2>1
  <2> QED BY <1>7, <2>2, <2>3 DEF FinalOK
<1>8. ASSUME NEW r, UpdateOK(r, log, d)
      PROVE  UpdateOK(r, new, d)
  <2>1. r.at \in 1..l
    BY <1>1, <1>8 DEF UpdateOK
  <2>2. /\ Clock(new, d, r.key, r.at) = Clock(log, d, r.key, r.at)
        /\ In(new, d, r.key, r.start, r.at) = In(log, d, r.key, r.start, r.at)
    <3>1. r.at \in 0..l
      BY <1>1, <2>1
    <3> QED BY <1>2, <1>6, <3>1
  <2>3. r.at \in 1..Len(new) /\ new[r.at] = log[r.at]
    BY <1>1, <2>1
  <2> QED BY <1>8, <2>2, <2>3 DEF UpdateOK
<1> QED BY <1>1, <1>3, <1>4, <1>5, <1>7, <1>8

\* The result of a window that a message closes.
LEMMA FinishedIs ==
  ASSUME NEW log, NEW m, NEW new, NEW l, OneMore(log, m, new, l), NEW d, d = definition,
         TimeDefinition(d), log = arrived, NEW k \in Key, NEW s, StateOK(s, log, d, k),
         NEW b, NEW t, NEW starts, NEW open, StepOf(s, b, t, starts, open, new, m, l, d, k),
         NEW start \in starts, NEW r, r = Finished(k, b, start)
  PROVE  FinalOK(r, new, d) /\ r.key = k /\ r.start = start /\ r.at = l + 1
<1>1. l \in Nat /\ l = Len(log) /\ Len(new) = l + 1 /\ Incoming = l + 1
  BY DEF OneMore, Incoming
<1>2. /\ Added(s, b, open, new, m, l, d, k) /\ Closed(starts, b, new, d, k, l)
      /\ starts \subseteq Nat /\ Expires(b, t, starts, d)
  BY DEF StepOf
<1>3. start \in DOMAIN b.windows /\ start \in Nat /\ Closing(d, start) <= Clock(new, d, k, l + 1)
  BY <1>2 DEF Closed
<1>4. /\ Closing(d, start) > Clock(log, d, k, l)
      /\ b.windows[start] = IF d.aggregate THEN In(new, d, k, start, l + 1) ELSE {}
      /\ start \notin open => In(new, d, k, start, l + 1) = In(log, d, k, start, l)
  BY <1>2, <1>3, BeforeOpen
<1>5. Clock(new, d, k, l) = Clock(log, d, k, l)
  <2>1. l \in 0..l
    BY <1>1
  <2> QED BY <2>1, ClockGrows
<1>6. PICK aggregated : aggregated = Aggregated(b, start)
  OBVIOUS
<1>7. aggregated = IF d.aggregate THEN In(new, d, k, start, l + 1) ELSE {}
  BY <1>3, <1>4, <1>6 DEF Aggregated
<1>8. PICK collected :
              collected = IF d.collect THEN Collection(b, start, start + d.duration) ELSE {}
  OBVIOUS
<1>9. start % d.step = 0
  <2>1. start \in open \/ start \in DOMAIN s.windows
    BY <1>2, <1>3 DEF Added, ChangedBy
  <2>2. start \in open => start % d.step = 0
    BY <1>2 DEF Added, OpenAt, InRange
  <2>3. start \in DOMAIN s.windows => In(log, d, k, start, l) # {}
    BY <1>1 DEF StateOK, WindowsOK
  <2> QED BY <2>1, <2>2, <2>3 DEF In, InRange
<1>10. collected = IF d.collect THEN In(new, d, k, start, l + 1) ELSE {}
  <2>1. CASE d.collect
    BY <1>2, <1>3, <1>4, <1>8, <1>9, <2>1, CollectionIs
  <2> QED BY <1>8, <2>1
<1>11. r = [key |-> k, start |-> start, end |-> start + d.duration, aggregated |-> aggregated,
            collected |-> collected, by |-> "time", at |-> l + 1]
  BY <1>1, <1>6, <1>8 DEF Finished, Result
<1>12. r.key = k /\ r.start = start /\ r.at = l + 1 /\ r.at - 1 = l /\ r.at \in 1..Len(new)
  BY <1>1, <1>11
<1> QED BY <1>3, <1>4, <1>5, <1>7, <1>10, <1>11, <1>12 DEF FinalOK

\* The result of a window that a message updates.
LEMMA UpdateIs ==
  ASSUME NEW log, NEW m, NEW new, NEW l, OneMore(log, m, new, l), NEW d, d = definition,
         TimeDefinition(d), log = arrived, NEW k, k = m.key, NEW s, StateOK(s, log, d, k),
         NEW b, NEW open, Added(s, b, open, new, m, l, d, k),
         NEW start \in open,
         NEW r, r = Result(k, start, start + d.duration, b.windows[start], {}, "update")
  PROVE  UpdateOK(r, new, d) /\ r.start = start /\ r.at = l + 1
<1>1. l \in Nat /\ l = Len(log) /\ Len(new) = l + 1 /\ Incoming = l + 1 /\ new[l + 1] = m
  BY DEF OneMore, Incoming
<1>2. start \in DOMAIN b.windows
  BY DEF Added, ChangedBy
<1>3. b.windows[start] = IF d.aggregate THEN In(new, d, k, start, l + 1) ELSE {}
  BY <1>2, BeforeOpen
<1>4. /\ start \in Nat /\ InRange(d, start, m.stamp)
      /\ Closing(d, start) > Clock(new, d, k, l + 1)
  BY DEF Added, OpenAt
<1>5. PICK w : w = b.windows[start]
  OBVIOUS
<1>6. r = [key |-> k, start |-> start, end |-> start + d.duration, aggregated |-> w,
           collected |-> {}, by |-> "update", at |-> l + 1]
  BY <1>1, <1>5 DEF Result
<1>7. r.key = k /\ r.start = start /\ r.at = l + 1 /\ r.at \in 1..Len(new)
  BY <1>1, <1>6
<1> QED BY <1>1, <1>3, <1>4, <1>5, <1>6, <1>7 DEF UpdateOK

-----------------------------------------------------------------------------
(* A message keeps everything right. *)

\* The stores of the keys have what the messages have left in them.
StatesOK(st, log, d) == \A k \in Key : StateOK(st[k], log, d, k)

\* The last end of the partition, which is that of its time.
PartitionAt(p, log, d, last) ==
    d.closing = "partition" => \A k \in Key : p = Floor(Clock(log, d, k, last), d.step)

\* What a message does to the stores of the keys.
StepsOf(st, tt, before, starts, open, new, m, l, d) ==
    \A k \in Key :
       StepOf(st[k], before[k], tt[k], starts[k], IF k = m.key THEN open ELSE {}, new, m, l, d, k)

\* What a message does to all that the windows keep.
MessageDoes(st, tt, before, starts, open, e, f, calls, more, new, m, l, d) ==
    /\ StepsOf(st, tt, before, starts, open, new, m, l, d)
    /\ \A r : r \in f <=>
          \/ r \in e
          \/ IF d.emit = "current"
             THEN \E start \in open : r = Result(m.key, start, start + d.duration,
                                                 before[m.key].windows[start], {}, "update")
             ELSE \E k \in Key : \E start \in starts[k] : r = Finished(k, before[k], start)
    /\ \A x : x \in more <=>
          \/ x \in calls
          \/ \E start \in Nat :
                x = <<l + 1, start>> /\ InRange(d, start, m.stamp) /\ start \notin open

\* The windows of a definition are those of the time, without a trigger.
Plain(d) == d.kind = "time" /\ d.trigger = "none" /\ TimeDefinition(d) /\ Aligned(d)

\* What the windows keep is right.
WindowsRight(st, p, e, calls, log, d) ==
    /\ log \in Seq(WindowMessage)
    /\ st = [k \in Key |-> st[k]]
    /\ StatesOK(st, log, d) /\ PartitionAt(p, log, d, Len(log))
    /\ ResultsRight(e, log, d) /\ ResultsThere(e, log, d) /\ LateOK(calls, log, d)

\* The store of each key and the results, given the stores with the message.
ProcessDoes(before, starts, st, key, stamp, maxEnd, open, d) ==
    /\ \A k \in Key :
          before[k] = IF k = key THEN Applied(key, stamp, maxEnd - d.duration, {}) ELSE st[k]
    /\ \A k \in Key :
          starts[k] = IF d.closing = "partition"
                      THEN ExpiredInPartition(before[k], partitionExpired, maxEnd, d.step,
                                              d.duration)
                      ELSE IF k = key THEN Expired(before[k], maxEnd - d.duration) ELSE {}
    /\ store' = [k \in Key |-> store'[k]]
    /\ \A k \in Key :
          store'[k] = IF d.closing = "partition"
                      THEN ExpireInPartition(before[k], starts[k], d.collect)
                      ELSE IF k = key
                           THEN ExpireWindows(before[k], maxEnd - d.duration, TRUE, d.collect)
                           ELSE before[k]
    /\ \A r : r \in emitted' <=>
          \/ r \in emitted
          \/ IF d.emit = "current"
             THEN \E start \in open : r = Result(key, start, start + d.duration,
                                                 before[key].windows[start], {}, "update")
             ELSE \E k \in Key : \E start \in starts[k] : r = Finished(k, before[k], start)

\* process_window() without triggers.
LEMMA ProcessIs ==
  ASSUME NEW d, d = definition, d.trigger = "none", NEW key \in Key, NEW stamp \in Nat,
         NEW fired, ProcessTimeWindow(key, stamp, fired),
         NEW st, st = store, st = [k \in Key |-> st[k]],
         NEW maxEnd, maxEnd = LatestTime(key, stamp) - d.grace,
         NEW open, open = OpenRanges(stamp, maxEnd - d.duration)
  PROVE  \E before, starts : ProcessDoes(before, starts, st, key, stamp, maxEnd, open, d)
<1> DEFINE MaxEnd == LatestTime(key, stamp) - definition.grace
           MaxStart == MaxEnd - definition.duration
           Filled == [store EXCEPT ![key] = Applied(key, stamp, MaxStart, fired)]
           Expiring == [k \in Key |->
                        IF definition.closing = "partition"
                        THEN ExpiredInPartition(Filled[k], partitionExpired, MaxEnd,
                                                definition.step, definition.duration)
                        ELSE IF k = key THEN Expired(Filled[k], MaxStart) ELSE {}]
           Renewed == {Result(key, start, start + definition.duration,
                              Filled[key].windows[start], {}, "update") :
                          start \in OpenRanges(stamp, MaxStart) \ fired}
           Ending == {Triggered(key, start, Incoming) : start \in fired}
                     \cup UNION {{Finished(k, Filled[k], start) : start \in Expiring[k]} :
                                    k \in Key}
<1>1. fired = {}
  BY DEF ProcessTimeWindow
<1>2. Emitted(Renewed, Ending)
  BY DEF ProcessTimeWindow
<1>3. IF definition.closing = "partition"
      THEN store' = [k \in Key |-> ExpireInPartition(Filled[k], Expiring[k], definition.collect)]
      ELSE store' = [Filled EXCEPT ![key] = ExpireWindows(@, MaxStart, TRUE, definition.collect)]
  BY DEF ProcessTimeWindow
<1>4. PICK before : before = Filled
  OBVIOUS
<1>5. PICK starts : starts = Expiring
  OBVIOUS
<1>6. PICK maxStart : maxStart = maxEnd - d.duration
  OBVIOUS
<1>7. MaxEnd = maxEnd /\ MaxStart = maxStart
  BY <1>6
<1>8. /\ before = [k \in Key |-> before[k]]
      /\ \A k \in Key : before[k] = IF k = key THEN Applied(key, stamp, maxStart, {}) ELSE st[k]
  BY <1>1, <1>4, <1>7
<1>9. \A k \in Key :
         starts[k] = IF d.closing = "partition"
                     THEN ExpiredInPartition(before[k], partitionExpired, maxEnd, d.step,
                                             d.duration)
                     ELSE IF k = key THEN Expired(before[k], maxStart) ELSE {}
  BY <1>4, <1>5, <1>7
<1>10. IF d.closing = "partition"
       THEN store' = [k \in Key |-> ExpireInPartition(before[k], starts[k], d.collect)]
       ELSE store' = [before EXCEPT ![key] = ExpireWindows(@, maxStart, TRUE, d.collect)]
  BY <1>3, <1>4, <1>5, <1>7, Zenon
<1> HIDE DEF MaxEnd, MaxStart, Filled, Expiring
<1>11. \A r : r \in Renewed <=> \E start \in open : r = Result(key, start, start + d.duration,
                                                           before[key].windows[start], {}, "update")
  BY <1>1, <1>4, <1>6, <1>7
<1>12. \A r : r \in Ending <=> \E k \in Key : \E start \in starts[k] :
          r = Finished(k, before[k], start)
  BY <1>1, <1>4, <1>5
<1>13. \A r : r \in emitted' <=>
          r \in emitted \/ IF d.emit = "current" THEN r \in Renewed ELSE r \in Ending
  BY <1>2 DEF Emitted
<1> HIDE DEF Renewed, Ending
<1>14. /\ store' = [k \in Key |-> store'[k]]
       /\ \A k \in Key :
             store'[k] = IF d.closing = "partition"
                         THEN ExpireInPartition(before[k], starts[k], d.collect)
                         ELSE IF k = key THEN ExpireWindows(before[k], maxStart, TRUE, d.collect)
                                         ELSE before[k]
  <2>1. CASE d.closing = "partition"
    BY <1>10, <2>1
  <2>2. CASE d.closing # "partition"
    BY <1>8, <1>10, <2>2
  <2> QED BY <2>1, <2>2
<1>15. \A r : r \in emitted' <=>
          \/ r \in emitted
          \/ IF d.emit = "current"
             THEN \E start \in open : r = Result(key, start, start + d.duration,
                                                 before[key].windows[start], {}, "update")
             ELSE \E k \in Key : \E start \in starts[k] : r = Finished(k, before[k], start)
  <2>1. CASE d.emit = "current"
    BY <1>11, <1>13, <2>1, Zenon
  <2>2. CASE d.emit # "current"
    BY <1>12, <1>13, <2>2, Zenon
  <2> QED BY <2>1, <2>2
<1>16. \A k \in Key :
          before[k] = IF k = key THEN Applied(key, stamp, maxEnd - d.duration, {}) ELSE st[k]
  BY <1>6, <1>8, Zenon
<1>17. \A k \in Key :
          starts[k] = IF d.closing = "partition"
                      THEN ExpiredInPartition(before[k], partitionExpired, maxEnd, d.step,
                                              d.duration)
                      ELSE IF k = key THEN Expired(before[k], maxEnd - d.duration) ELSE {}
  BY <1>6, <1>9, Zenon
<1>18. \A k \in Key :
          store'[k] = IF d.closing = "partition"
                      THEN ExpireInPartition(before[k], starts[k], d.collect)
                      ELSE IF k = key
                           THEN ExpireWindows(before[k], maxEnd - d.duration, TRUE, d.collect)
                           ELSE before[k]
  BY <1>6, <1>14, Zenon
<1>19. ProcessDoes(before, starts, st, key, stamp, maxEnd, open, d)
  BY <1>14, <1>15, <1>16, <1>17, <1>18, Zenon DEF ProcessDoes
<1> QED BY <1>19

\* The end that a partition has expired up to when the windows with some ends expire.
NextEnd(p, ends) == IF ends = {} THEN p ELSE Max(ends)

\* The rest that a message does: the time that closes next, and what is late.
RestDone(key, stamp, maxEnd, open, d) ==
    /\ definition' = definition
    /\ arrived' = Append(arrived, [key |-> key, stamp |-> stamp])
    /\ late' = late \cup {<<Incoming, start>> : start \in Ranges(stamp) \ open}
    /\ d.closing = "partition" =>
          partitionExpired' =
             NextEnd(partitionExpired, EndsToExpire(partitionExpired, maxEnd, d.step))

\* process_window() does the rest.
LEMMA ProcessRest ==
  ASSUME NEW d, d = definition, NEW key \in Key, NEW stamp \in Nat,
         NEW fired, ProcessTimeWindow(key, stamp, fired),
         NEW maxEnd, maxEnd = LatestTime(key, stamp) - d.grace,
         NEW open, open = OpenRanges(stamp, maxEnd - d.duration)
  PROVE  RestDone(key, stamp, maxEnd, open, d)
BY DEF ProcessTimeWindow, Arrives, NextEnd, RestDone

\* The stores of the keys after a message.
LEMMA StoresStep ==
  ASSUME NEW log, NEW m, NEW new, NEW l, OneMore(log, m, new, l), NEW d, d = definition, Plain(d),
         log = arrived, NEW key \in Key, key = m.key, NEW st, st = store,
         StatesOK(st, log, d), PartitionAt(partitionExpired, log, d, l),
         NEW maxEnd, maxEnd = LatestTime(key, m.stamp) - d.grace,
         NEW open, open = OpenRanges(m.stamp, maxEnd - d.duration),
         NEW before, NEW starts, ProcessDoes(before, starts, st, key, m.stamp, maxEnd, open, d)
  PROVE  /\ OpenAt(open, new, d, m, key, l)
         /\ StepsOf(st, store', before, starts, open, new, m, l, d)
<1>1. TimeDefinition(d) /\ Aligned(d) /\ d.closing \in {"key", "partition"}
  BY DEF Plain, TimeDefinition
<1>2. PICK maxStart : maxStart = maxEnd - d.duration
  OBVIOUS
<1>3. \A k \in Key : before[k] = IF k = key THEN Applied(key, m.stamp, maxStart, {}) ELSE st[k]
  BY <1>2 DEF ProcessDoes
<1>4. PICK p : p = partitionExpired
  OBVIOUS
<1>5. CASE d.closing = "key"
  <2>1. maxStart = LatestTime(key, m.stamp) - d.grace - d.duration
    BY <1>2
  <2>2. PICK s : s = st[key]
    OBVIOUS
  <2>3. s = store[key] /\ StateOK(s, log, d, key)
    BY <2>2 DEF StatesOK
  <2>4. OpenAt(OpenRanges(m.stamp, maxStart), new, d, m, key, l)
    BY <1>1, <1>5, <2>1, <2>3, KeyOpen
  <2>5. open = OpenRanges(m.stamp, maxStart)
    BY <1>2
  <2>6. PICK b : b = before[key]
    OBVIOUS
  <2>7. PICK w : w = starts[key]
    OBVIOUS
  <2>8. PICK t : t = store'[key]
    OBVIOUS
  <2>9. b = Applied(key, m.stamp, maxStart, {}) /\ w = Expired(b, maxStart)
    BY <1>2, <1>3, <1>5, <2>6, <2>7 DEF ProcessDoes
  <2>10. t = ExpireWindows(b, maxStart, TRUE, d.collect)
    BY <1>2, <1>5, <2>6, <2>8 DEF ProcessDoes
  <2>11. StepOf(s, b, t, w, open, new, m, l, d, key)
    BY <1>1, <1>5, <2>1, <2>3, <2>5, <2>9, <2>10, KeyStep
  <2>12. ASSUME NEW k \in Key, k # key
         PROVE  StepOf(st[k], before[k], store'[k], starts[k], {}, new, m, l, d, k)
    <3>1. PICK x : x = st[k]
      OBVIOUS
    <3>2. before[k] = x /\ starts[k] = {} /\ store'[k] = x
      BY <1>3, <1>5, <2>12, <3>1 DEF ProcessDoes
    <3>3. StateOK(x, log, d, k)
      BY <3>1 DEF StatesOK
    <3>4. StepOf(x, x, x, {}, {}, new, m, l, d, k)
      BY <1>1, <1>5, <2>12, <3>3, OtherStep
    <3> QED BY <3>1, <3>2, <3>4, Zenon
  <2>13. ASSUME NEW k \in Key
         PROVE  StepOf(st[k], before[k], store'[k], starts[k],
                       IF k = key THEN open ELSE {}, new, m, l, d, k)
    <3>1. CASE k = key
      BY <2>2, <2>6, <2>7, <2>8, <2>11, <3>1, Zenon
    <3>2. CASE k # key
      BY <2>12, <3>2, Zenon
    <3> QED BY <3>1, <3>2
  <2> QED BY <2>4, <2>5, <2>13 DEF StepsOf
<1>6. CASE d.closing = "partition"
  <2>1. p = Floor(Clock(log, d, key, l), d.step)
    BY <1>4, <1>6 DEF PartitionAt
  <2>2. /\ maxEnd = IF m.stamp >= p THEN m.stamp ELSE p
        /\ OpenAt(OpenRanges(m.stamp, maxEnd - d.duration), new, d, m, key, l)
    <3>1. maxEnd = LatestTime(m.key, m.stamp) - d.grace
      OBVIOUS
    <3> QED BY <1>1, <1>4, <1>6, <2>1, <3>1, PartitionOpen
  <2>3. OpenAt(open, new, d, m, key, l)
    BY <2>2
  <2>4. ASSUME NEW k \in Key
        PROVE  StepOf(st[k], before[k], store'[k], starts[k],
                      IF k = key THEN open ELSE {}, new, m, l, d, k)
    <3>1. PICK s : s = st[k]
      OBVIOUS
    <3>2. PICK b : b = before[k]
      OBVIOUS
    <3>3. PICK w : w = starts[k]
      OBVIOUS
    <3>4. PICK t : t = store'[k]
      OBVIOUS
    <3>5. PICK o : o = IF k = key THEN open ELSE {}
      OBVIOUS
    <3>6. StateOK(s, log, d, k)
      BY <3>1 DEF StatesOK
    <3>7. Added(s, b, o, new, m, l, d, k)
      <4>1. CASE k = key
        <5>1. s = store[key] /\ StateOK(s, log, d, key) /\ b = Applied(key, m.stamp, maxStart, {})
          BY <1>3, <3>1, <3>2, <3>6, <4>1
        <5>2. open = OpenRanges(m.stamp, maxStart)
          BY <1>2
        <5>3. Added(s, b, open, new, m, l, d, key)
          BY <1>1, <2>3, <5>1, <5>2, AppliedAdds
        <5> QED BY <3>5, <4>1, <5>3
      <4>2. CASE k # key
        <5>1. b = s /\ o = {}
          BY <1>3, <3>1, <3>2, <3>5, <4>2
        <5>2. Added(s, s, {}, new, m, l, d, k)
          BY <1>6, <3>6, <4>2, OtherAdds
        <5> QED BY <5>1, <5>2
      <4> QED BY <4>1, <4>2
    <3>8. p = Floor(Clock(log, d, k, l), d.step)
      BY <1>4, <1>6 DEF PartitionAt
    <3>9. w = ExpiredInPartition(b, p, maxEnd, d.step, d.duration)
      BY <1>4, <1>6, <3>2, <3>3 DEF ProcessDoes
    <3>10. t = ExpireInPartition(b, w, d.collect)
      BY <1>6, <3>2, <3>3, <3>4 DEF ProcessDoes
    <3>11. PICK end : end = IF m.stamp >= p THEN m.stamp ELSE p
      OBVIOUS
    <3>12. w = ExpiredInPartition(b, p, end, d.step, d.duration)
      BY <2>2, <3>9, <3>11
    <3>13. StepOf(s, b, t, w, o, new, m, l, d, k)
      BY <1>1, <1>6, <3>6, <3>7, <3>8, <3>10, <3>11, <3>12, PartitionStep
    <3> QED BY <3>1, <3>2, <3>3, <3>4, <3>5, <3>13, Zenon
  <2> QED BY <2>3, <2>4 DEF StepsOf
<1> QED BY <1>1, <1>5, <1>6

\* The later one of two times.
Later(a, b) == IF a >= b THEN a ELSE b

\* What the time of the partition closes next.
LEMMA PartitionTime ==
  ASSUME NEW log, NEW m, NEW new, NEW l, OneMore(log, m, new, l), NEW d, TimeDefinition(d),
         d.closing = "partition", NEW k, NEW p, p = Floor(Clock(log, d, k, l), d.step),
         NEW maxEnd, maxEnd = Later(m.stamp, p),
         NEW q, q = NextEnd(p, EndsToExpire(p, maxEnd, d.step))
  PROVE  q = Floor(Clock(new, d, k, l + 1), d.step)
<1>1. PICK stamp \in Nat : stamp = m.stamp
  BY DEF OneMore, WindowMessage
<1>2. PICK step \in Nat \ {0} : step = d.step
  BY DEF TimeDefinition
<1>3. PICK v \in Nat : v = Clock(log, d, k, l)
  BY ClockIs DEF OneMore
<1>4. PICK u : u = IF stamp > v THEN stamp ELSE v
  OBVIOUS
<1>5. u = Clock(new, d, k, l + 1)
  BY <1>1, <1>3, <1>4, ClockGrows
<1>6. PICK end : end = IF stamp >= p THEN stamp ELSE p
  OBVIOUS
<1>7. PICK ends : ends = EndsToExpire(p, end, step)
  OBVIOUS
<1>8. PICK r : r = IF ends = {} THEN p ELSE Max(ends)
  OBVIOUS
<1>9. p = Floor(v, step)
  BY <1>2, <1>3
<1>10. r = Floor(u, step)
  BY <1>4, <1>6, <1>7, <1>8, <1>9, EndsAre
<1>11. end = maxEnd
  BY <1>1, <1>6 DEF Later
<1>12. r = q
  BY <1>2, <1>7, <1>8, <1>11 DEF NextEnd
<1> QED BY <1>2, <1>5, <1>10, <1>12

\* process_window() without triggers does to stores and results what it should.
LEMMA ProcessDone ==
  ASSUME NEW log, NEW m, NEW new, NEW l, OneMore(log, m, new, l), NEW d, d = definition, Plain(d),
         log = arrived, NEW key \in Key, key = m.key, NEW st, st = store,
         st = [k \in Key |-> st[k]], StatesOK(st, log, d), PartitionAt(partitionExpired, log, d, l),
         NEW fired, ProcessTimeWindow(key, m.stamp, fired)
  PROVE  /\ store' = [k \in Key |-> store'[k]]
         /\ \E before, starts, open :
               /\ OpenAt(open, new, d, m, key, l)
               /\ MessageDoes(st, store', before, starts, open, emitted, emitted', late, late',
                              new, m, l, d)
         /\ PartitionAt(partitionExpired', new, d, l + 1)
<1>1. TimeDefinition(d) /\ Aligned(d) /\ d.trigger = "none"
  BY DEF Plain
<1>2. PICK stamp \in Nat : stamp = m.stamp
  BY DEF OneMore, WindowMessage
<1>3. PICK maxEnd : maxEnd = LatestTime(key, stamp) - d.grace
  OBVIOUS
<1>4. PICK open : open = OpenRanges(stamp, maxEnd - d.duration)
  OBVIOUS
<1>5. ProcessTimeWindow(key, stamp, fired)
  BY <1>2
<1>6. PICK before, starts : ProcessDoes(before, starts, st, key, stamp, maxEnd, open, d)
  BY <1>1, <1>3, <1>4, <1>5, ProcessIs
<1>7. /\ OpenAt(open, new, d, m, key, l)
      /\ StepsOf(st, store', before, starts, open, new, m, l, d)
  BY <1>2, <1>3, <1>4, <1>6, StoresStep
<1>8. RestDone(key, stamp, maxEnd, open, d)
  BY <1>3, <1>4, <1>5, ProcessRest
<1>9. Incoming = l + 1
  BY DEF OneMore, Incoming
<1>10. \A start : start \in Ranges(stamp) <=> start \in Nat /\ InRange(d, start, stamp)
  BY <1>1, RangesAre
<1>11. \A x : x \in late' <=>
          \/ x \in late
          \/ \E start \in Nat :
                x = <<l + 1, start>> /\ InRange(d, start, m.stamp) /\ start \notin open
  BY <1>2, <1>8, <1>9, <1>10 DEF RestDone
<1>12. MessageDoes(st, store', before, starts, open, emitted, emitted', late, late', new, m, l, d)
  <2>1. key = m.key
    OBVIOUS
  <2>2. \A r : r \in emitted' <=>
          \/ r \in emitted
          \/ IF d.emit = "current"
             THEN \E start \in open : r = Result(m.key, start, start + d.duration,
                                                 before[m.key].windows[start], {}, "update")
             ELSE \E k \in Key : \E start \in starts[k] : r = Finished(k, before[k], start)
    <3>1. \A r : r \in emitted' <=>
             \/ r \in emitted
             \/ IF d.emit = "current"
                THEN \E start \in open : r = Result(key, start, start + d.duration,
                                                    before[key].windows[start], {}, "update")
                ELSE \E k \in Key : \E start \in starts[k] : r = Finished(k, before[k], start)
      BY <1>6, Zenon DEF ProcessDoes
    <3> QED BY <2>1, <3>1
  <2> QED BY <1>7, <1>11, <2>2, Zenon DEF MessageDoes
<1>13. store' = [k \in Key |-> store'[k]]
  BY <1>6 DEF ProcessDoes
<1>14. ASSUME d.closing = "partition", NEW k \in Key
       PROVE  partitionExpired' = Floor(Clock(new, d, k, l + 1), d.step)
  <2>1. PICK p : p = partitionExpired
    OBVIOUS
  <2>2. PICK q : q = partitionExpired'
    OBVIOUS
  <2>3. q = NextEnd(p, EndsToExpire(p, maxEnd, d.step))
    BY <1>8, <1>14, <2>1, <2>2 DEF RestDone
  <2>4. p = Floor(Clock(log, d, k, l), d.step)
    BY <1>14, <2>1 DEF PartitionAt
  <2>5. maxEnd = IF m.stamp >= p THEN m.stamp ELSE p
    <3>1. maxEnd = LatestTime(m.key, m.stamp) - d.grace
      BY <1>2, <1>3
    <3> QED BY <1>1, <1>14, <2>1, <2>4, <3>1, PartitionOpen
  <2>6. q = Floor(Clock(new, d, k, l + 1), d.step)
    <3>1. maxEnd = Later(m.stamp, p)
      BY <2>5 DEF Later
    <3>2. PICK end : end = Later(m.stamp, p)
      OBVIOUS
    <3>3. q = NextEnd(p, EndsToExpire(p, end, d.step))
      BY <2>3, <3>1, <3>2
    <3>4. TimeDefinition(d) /\ d.closing = "partition"
      BY <1>1, <1>14
    <3> QED BY <2>4, <3>2, <3>3, <3>4, PartitionTime
  <2> QED BY <2>2, <2>6
<1>15. \E b, s, o :
          /\ OpenAt(o, new, d, m, key, l)
          /\ MessageDoes(st, store', b, s, o, emitted, emitted', late, late', new, m, l, d)
  BY <1>7, <1>12
<1> QED BY <1>13, <1>14, <1>15, Zenon DEF PartitionAt

\* The results of a message and those before it are right.
LEMMA ResultsKept ==
  ASSUME NEW log, NEW m, NEW new, NEW l, OneMore(log, m, new, l), NEW d, d = definition, Plain(d),
         log = arrived, m.key \in Key, NEW st, StatesOK(st, log, d), NEW tt,
         NEW before, NEW starts, NEW open, NEW e, NEW f, NEW calls, NEW more,
         MessageDoes(st, tt, before, starts, open, e, f, calls, more, new, m, l, d),
         ResultsRight(e, log, d)
  PROVE  ResultsRight(f, new, d)
<1> SUFFICES ASSUME NEW r \in f
             PROVE  IF d.emit = "current" THEN UpdateOK(r, new, d) ELSE FinalOK(r, new, d)
  BY DEF ResultsRight
<1>1. TimeDefinition(d)
  BY DEF Plain
<1>2. \A k \in Key :
         StepOf(st[k], before[k], tt[k], starts[k], IF k = m.key THEN open ELSE {}, new, m, l, d, k)
  BY DEF MessageDoes, StepsOf
<1>3. CASE r \in e
  <2>1. IF d.emit = "current" THEN UpdateOK(r, log, d) ELSE FinalOK(r, log, d)
    BY <1>3 DEF ResultsRight
  <2> QED BY <2>1, SaidStays
<1>4. CASE d.emit = "current" /\ r \notin e
  <2>1. PICK k \in Key : k = m.key
    OBVIOUS
  <2>2. PICK b : b = before[k]
    OBVIOUS
  <2>3. PICK start \in open :
                r = Result(k, start, start + d.duration, b.windows[start], {}, "update")
    BY <1>4, <2>1, <2>2 DEF MessageDoes
  <2>4. PICK s : s = st[k]
    OBVIOUS
  <2>5. StateOK(s, log, d, k)
    BY <2>4 DEF StatesOK
  <2>6. Added(s, b, open, new, m, l, d, k)
    BY <1>2, <2>1, <2>2, <2>4 DEF StepOf
  <2>7. UpdateOK(r, new, d)
    BY <1>1, <2>1, <2>3, <2>5, <2>6, UpdateIs
  <2> QED BY <1>4, <2>7
<1>5. CASE d.emit # "current" /\ r \notin e
  <2>1. PICK k \in Key : \E start \in starts[k] : r = Finished(k, before[k], start)
    BY <1>5 DEF MessageDoes
  <2>2. PICK s : s = st[k]
    OBVIOUS
  <2>3. PICK b : b = before[k]
    OBVIOUS
  <2>4. PICK t : t = tt[k]
    OBVIOUS
  <2>5. PICK w : w = starts[k]
    OBVIOUS
  <2>6. PICK o : o = IF k = m.key THEN open ELSE {}
    OBVIOUS
  <2>7. StateOK(s, log, d, k) /\ StepOf(s, b, t, w, o, new, m, l, d, k)
    BY <1>2, <2>2, <2>3, <2>4, <2>5, <2>6, Zenon DEF StatesOK
  <2>8. PICK start \in w : r = Finished(k, b, start)
    BY <2>1, <2>3, <2>5
  <2>9. FinalOK(r, new, d)
    BY <1>1, <2>7, <2>8, FinishedIs
  <2> QED BY <1>5, <2>9
<1> QED BY <1>3, <1>4, <1>5

\* A window of a message that is not late is open.
LEMMA LateOrOpen ==
  ASSUME NEW log, NEW m, NEW new, NEW l, OneMore(log, m, new, l), NEW d, TimeDefinition(d),
         NEW open, OpenAt(open, new, d, m, m.key, l)
  PROVE  \A start : IsLate(new, d, l + 1, start) <=>
            start \in Nat /\ InRange(d, start, m.stamp) /\ start \notin open
<1>1. PICK u \in Nat : u = Clock(new, d, m.key, l + 1)
  BY ClockIs DEF OneMore
<1>2. \A start \in Nat : Closing(d, start) \in Nat
  BY DEF Closing, TimeDefinition
<1>3. \A start : IsLate(new, d, l + 1, start) <=>
         start \in Nat /\ InRange(d, start, m.stamp) /\ Closing(d, start) <= u
  BY <1>1, SaidStays
<1>4. \A start : start \in open <=>
         start \in Nat /\ InRange(d, start, m.stamp) /\ Closing(d, start) > u
  BY <1>1 DEF OpenAt
<1> QED BY <1>2, <1>3, <1>4

\* There is a result of the message, or the window stays open, and no earlier one is missing.
LEMMA ResultsComeThere ==
  ASSUME NEW log, NEW m, NEW new, NEW l, OneMore(log, m, new, l), NEW d, d = definition, Plain(d),
         log = arrived, m.key \in Key, NEW st, StatesOK(st, log, d), NEW tt,
         NEW before, NEW starts, NEW open, NEW e, NEW f, NEW calls, NEW more,
         MessageDoes(st, tt, before, starts, open, e, f, calls, more, new, m, l, d),
         OpenAt(open, new, d, m, m.key, l), ResultsThere(e, log, d)
  PROVE  ResultsThere(f, new, d)
<1>1. TimeDefinition(d)
  BY DEF Plain
<1>2. /\ l \in Nat /\ l = Len(log) /\ Len(new) = l + 1 /\ new[l + 1] = m
      /\ \A n \in 1..l : new[n] = log[n] /\ log[n].key \in Key
  BY MessageTypes DEF OneMore
<1>3. \A r : r \in e => r \in f
  BY DEF MessageDoes
<1> SUFFICES ASSUME NEW n \in 1..l + 1, NEW start \in Nat, InRange(d, start, new[n].stamp),
                    ~IsLate(new, d, n, start)
             PROVE  HasResult(f, new, d, n, start)
  BY <1>2 DEF ResultsThere
<1>4. CASE n = l + 1
  <2>1. start \in open
    BY <1>1, <1>2, <1>4, LateOrOpen
  <2>2. CASE d.emit = "current"
    <3>1. PICK r : r = Result(m.key, start, start + d.duration, before[m.key].windows[start], {},
                              "update")
      OBVIOUS
    <3>2. r \in f
      BY <2>1, <2>2, <3>1 DEF MessageDoes
    <3>3. r.start = start /\ r.at = l + 1
      BY <1>2, <3>1 DEF Result, Incoming
    <3> QED BY <1>4, <2>2, <3>2, <3>3 DEF HasResult
  <2>3. CASE d.emit # "current"
    BY <1>2, <1>4, <2>1, <2>3 DEF HasResult, OpenAt
  <2> QED BY <2>2, <2>3
<1>5. CASE n \in 1..l
  <2>1. PICK k \in Key : k = log[n].key
    BY <1>2, <1>5
  <2>2. InRange(d, start, log[n].stamp) /\ ~IsLate(log, d, n, start) /\ new[n].key = k
    BY <1>2, <1>5, <2>1, SaidStays
  <2>3. HasResult(e, log, d, n, start)
    BY <1>2, <1>5, <2>2 DEF ResultsThere
  <2>4. CASE d.emit = "current"
    BY <1>3, <2>3, <2>4 DEF HasResult
  <2>5. CASE d.emit # "current" /\ ~(Closing(d, start) > Clock(log, d, k, l))
    BY <1>2, <1>3, <2>1, <2>2, <2>3, <2>5 DEF HasResult
  <2>6. CASE d.emit # "current" /\ Closing(d, start) > Clock(new, d, k, l + 1)
    BY <1>2, <2>2, <2>6 DEF HasResult
  <2>7. CASE /\ d.emit # "current" /\ Closing(d, start) > Clock(log, d, k, l)
             /\ ~(Closing(d, start) > Clock(new, d, k, l + 1))
    <3>1. PICK s : s = st[k]
      OBVIOUS
    <3>2. PICK b : b = before[k]
      OBVIOUS
    <3>3. PICK t : t = tt[k]
      OBVIOUS
    <3>4. PICK w : w = starts[k]
      OBVIOUS
    <3>5. PICK o : o = IF k = m.key THEN open ELSE {}
      OBVIOUS
    <3>6. StateOK(s, log, d, k) /\ StepOf(s, b, t, w, o, new, m, l, d, k)
      BY <3>1, <3>2, <3>3, <3>4, <3>5, Zenon DEF StatesOK, MessageDoes, StepsOf
    <3>7. start \in DOMAIN s.windows
      <4>1. n \in In(log, d, k, start, l)
        BY <1>2, <1>5, <2>1, <2>2 DEF In
      <4> QED BY <1>2, <2>7, <3>6, <4>1 DEF StateOK, WindowsOK
    <3>8. start \in DOMAIN b.windows
      BY <3>6, <3>7 DEF StepOf, Added, ChangedBy
    <3>9. Closing(d, start) <= Clock(new, d, k, l + 1)
      <4>1. PICK u \in Nat : u = Clock(new, d, k, l + 1)
        BY ClockIs DEF OneMore
      <4>2. Closing(d, start) \in Nat
        BY <1>1 DEF Closing, TimeDefinition
      <4> QED BY <2>7, <4>1, <4>2
    <3>10. start \in w
      BY <3>6, <3>8, <3>9 DEF StepOf, Closed
    <3>11. PICK r : r = Finished(k, b, start)
      OBVIOUS
    <3>12. r.key = k /\ r.start = start /\ r.at = l + 1
      BY <1>1, <3>6, <3>10, <3>11, FinishedIs
    <3>13. r \in f
      BY <2>7, <3>2, <3>4, <3>10, <3>11 DEF MessageDoes
    <3> QED BY <1>2, <1>5, <2>2, <2>7, <3>12, <3>13 DEF HasResult
  <2> QED BY <2>4, <2>5, <2>6, <2>7
<1> QED BY <1>2, <1>4, <1>5

\* The calls of on_late are those of the late messages.
LEMMA LateKept ==
  ASSUME NEW log, NEW m, NEW new, NEW l, OneMore(log, m, new, l), NEW d, TimeDefinition(d),
         NEW st, NEW tt, NEW before, NEW starts, NEW open, NEW e, NEW f, NEW calls, NEW more,
         MessageDoes(st, tt, before, starts, open, e, f, calls, more, new, m, l, d),
         OpenAt(open, new, d, m, m.key, l), LateOK(calls, log, d)
  PROVE  LateOK(more, new, d)
<1>1. \A start : IsLate(new, d, l + 1, start) <=>
            start \in Nat /\ InRange(d, start, m.stamp) /\ start \notin open
  BY LateOrOpen
<1>2. \A n \in 1..l : \A start : IsLate(new, d, n, start) <=> IsLate(log, d, n, start)
  BY SaidStays
<1>3. \A n, start : IsLate(log, d, n, start) => n \in 1..l
  BY SaidStays
<1>4. \A n, start : IsLate(new, d, n, start) => n \in 1..l \/ n = l + 1
  BY DEF IsLate, OneMore
<1>5. \A x : x \in more <=>
          \/ x \in calls
          \/ \E start \in Nat :
                x = <<l + 1, start>> /\ InRange(d, start, m.stamp) /\ start \notin open
  BY DEF MessageDoes
<1>6. \A x : x \in calls <=> \E n, start : x = <<n, start>> /\ IsLate(log, d, n, start)
  BY DEF LateOK
<1>7. \A n, start : IsLate(new, d, n, start) <=>
          \/ IsLate(log, d, n, start)
          \/ n = l + 1 /\ start \in Nat /\ InRange(d, start, m.stamp) /\ start \notin open
  BY <1>1, <1>2, <1>3, <1>4
<1>8. \A x : x \in more <=> \E n, start : x = <<n, start>> /\ IsLate(new, d, n, start)
  BY <1>5, <1>6, <1>7
<1> QED BY <1>8 DEF LateOK

\* The stores of the keys are as the messages have left them.
LEMMA StatesKept ==
  ASSUME NEW log, NEW m, NEW new, NEW l, OneMore(log, m, new, l), NEW d, d = definition, Plain(d),
         NEW st, StatesOK(st, log, d), NEW tt, NEW before, NEW starts, NEW open,
         StepsOf(st, tt, before, starts, open, new, m, l, d)
  PROVE  StatesOK(tt, new, d)
<1>1. TimeDefinition(d)
  BY DEF Plain
<1> SUFFICES ASSUME NEW k \in Key PROVE StateOK(tt[k], new, d, k)
  BY DEF StatesOK
<1>2. PICK s : s = st[k]
  OBVIOUS
<1>3. PICK b : b = before[k]
  OBVIOUS
<1>4. PICK t : t = tt[k]
  OBVIOUS
<1>5. PICK w : w = starts[k]
  OBVIOUS
<1>6. PICK o : o = IF k = m.key THEN open ELSE {}
  OBVIOUS
<1>7. StateOK(s, log, d, k) /\ StepOf(s, b, t, w, o, new, m, l, d, k)
  BY <1>2, <1>3, <1>4, <1>5, <1>6, Zenon DEF StatesOK, StepsOf
<1>8. StateOK(t, new, d, k)
  BY <1>1, <1>7, StepKeeps
<1> QED BY <1>4, <1>8

\* A message leaves all that the windows keep right.
LEMMA MessageKeeps ==
  ASSUME NEW d, d = definition, Plain(d), NEW key \in Key, NEW stamp \in Nat, NEW fired,
         ProcessTimeWindow(key, stamp, fired),
         WindowsRight(store, partitionExpired, emitted, late, arrived, d)
  PROVE  WindowsRight(store', partitionExpired', emitted', late', arrived', d)
<1>1. PICK log : log = arrived
  OBVIOUS
<1>2. PICK m : m = [key |-> key, stamp |-> stamp]
  OBVIOUS
<1>3. PICK new : new = Append(log, m)
  OBVIOUS
<1>4. PICK l : l = Len(log)
  OBVIOUS
<1>5. PICK st : st = store
  OBVIOUS
<1>6. log \in Seq(WindowMessage) /\ m \in WindowMessage
  BY <1>1, <1>2 DEF WindowsRight, WindowMessage
<1>7. OneMore(log, m, new, l)
  BY <1>3, <1>4, <1>6, OneMoreIs
<1>8. new \in Seq(WindowMessage) /\ Len(new) = l + 1 /\ l = Len(log)
  BY <1>7 DEF OneMore
<1>9. arrived' = new
  BY <1>1, <1>2, <1>3 DEF ProcessTimeWindow, Arrives
<1>10. /\ st = [k \in Key |-> st[k]] /\ StatesOK(st, log, d)
       /\ PartitionAt(partitionExpired, log, d, l)
       /\ ResultsRight(emitted, log, d) /\ ResultsThere(emitted, log, d) /\ LateOK(late, log, d)
  BY <1>1, <1>4, <1>5 DEF WindowsRight
<1>11. key = m.key /\ m.key \in Key /\ ProcessTimeWindow(key, m.stamp, fired)
  BY <1>2
<1>12. PICK e : e = emitted
  OBVIOUS
<1>13. PICK f : f = emitted'
  OBVIOUS
<1>14. PICK calls : calls = late
  OBVIOUS
<1>15. PICK more : more = late'
  OBVIOUS
<1>16. PICK tt : tt = store'
  OBVIOUS
<1>17. /\ tt = [k \in Key |-> tt[k]]
       /\ \E before, starts, open :
             /\ OpenAt(open, new, d, m, key, l)
             /\ MessageDoes(st, tt, before, starts, open, e, f, calls, more, new, m, l, d)
       /\ PartitionAt(partitionExpired', new, d, l + 1)
  BY <1>1, <1>5, <1>7, <1>10, <1>11, <1>12, <1>13, <1>14, <1>15, <1>16, ProcessDone
<1>18. PICK before, starts, open :
             /\ OpenAt(open, new, d, m, key, l)
             /\ MessageDoes(st, tt, before, starts, open, e, f, calls, more, new, m, l, d)
  BY <1>17
<1>19. StatesOK(tt, new, d)
  <2>1. StepsOf(st, tt, before, starts, open, new, m, l, d)
    BY <1>18 DEF MessageDoes
  <2> QED BY <1>7, <1>10, <2>1, StatesKept
<1>20. ResultsRight(f, new, d)
  BY <1>1, <1>7, <1>10, <1>11, <1>12, <1>18, ResultsKept
<1>21. OpenAt(open, new, d, m, m.key, l) /\ TimeDefinition(d)
  BY <1>11, <1>18 DEF Plain
<1>22. ResultsThere(f, new, d)
  BY <1>1, <1>7, <1>10, <1>11, <1>12, <1>18, <1>21, ResultsComeThere
<1>23. LateOK(more, new, d)
  BY <1>7, <1>10, <1>14, <1>18, <1>21, LateKept
<1> QED BY <1>8, <1>9, <1>13, <1>15, <1>16, <1>17, <1>19, <1>20, <1>22, <1>23 DEF WindowsRight

-----------------------------------------------------------------------------
(* The invariant. *)

\* Definitions whose windows the time of the partition closes have no grace period, and
\* their steps divide their durations.
AllAligned == \A d \in Definitions : d.kind = "time" /\ d.trigger = "none" => Aligned(d)

\* The definition has time windows without triggers.
Windowing == definition.kind = "time" /\ definition.trigger = "none"

\* What time windows without triggers keep is right.
WindowInv ==
    /\ definition \in Definitions
    /\ Windowing => WindowsRight(store, partitionExpired, emitted, late, arrived, definition)

\* A definition of time windows is one of them.
LEMMA TimedDefinition ==
  ASSUME definition \in Definitions, definition.kind = "time"
  PROVE  TimeDefinition(definition) /\ WindowComputes(definition)
BY DefinitionAssumption, Zenon
   DEF WindowDefinition, AggregatesDefinition, StateDefinition, JoinDefinition, TableDefinition,
       ConfigurationDefinition, SlidingDefinition, CountDefinition

\* The first state.
LEMMA WindowsBegin ==
  ASSUME Init, AllAligned
  PROVE  WindowInv
<1>1. definition \in Definitions
  BY DEF Init
<1> SUFFICES ASSUME Windowing
             PROVE  WindowsRight(store, partitionExpired, emitted, late, arrived, definition)
  BY <1>1 DEF WindowInv
<1>2. PICK d : d = definition
  OBVIOUS
<1>3. TimeDefinition(d)
  BY <1>1, <1>2, TimedDefinition DEF Windowing
<1>4. arrived = <<>> /\ store = [k \in Key |-> EmptyState] /\ partitionExpired = 0
  BY DEF Init, WindowInit
<1>5. PICK log : log = <<>>
  OBVIOUS
<1>6. log \in Seq(WindowMessage) /\ Len(log) = 0 /\ 1..Len(log) = {}
  BY <1>5
<1>7. ASSUME NEW k
      PROVE  Clock(log, d, k, 0) = 0
  <2>1. \/ Clock(log, d, k, 0) = 0
        \/ \E n : Counts(log, d, k, 0, n) /\ log[n].stamp = Clock(log, d, k, 0)
    BY <1>6, ClockIs
  <2> QED BY <1>6, <2>1 DEF Counts
<1>8. ASSUME NEW k \in Key PROVE StateOK(EmptyState, log, d, k)
  <2>1. WindowsOK(EmptyState.windows, log, d, k)
    BY <1>6 DEF WindowsOK, EmptyState, In
  <2>2. ValuesOK(EmptyState, log, d, k)
    BY <1>6 DEF ValuesOK, EmptyState
  <2>3. TimesOK(EmptyState, log, d, k)
    BY <1>6, <1>7 DEF TimesOK, EmptyState, None
  <2>4. IsState(EmptyState) /\ EmptyState.latest \in Nat /\ EmptyState.expired = None
    BY DEF IsState, EmptyState
  <2> QED BY <2>1, <2>2, <2>3, <2>4 DEF StateOK
<1>9. StatesOK(store, log, d) /\ store = [k \in Key |-> store[k]]
  BY <1>4, <1>8 DEF StatesOK
<1>10. PartitionAt(partitionExpired, log, d, Len(log))
  <2>1. Floor(0, d.step) = 0
    <3>1. PICK f : f = Floor(0, d.step)
      OBVIOUS
    <3>2. d.step \in Nat \ {0} /\ 0 \in Nat
      BY <1>3 DEF TimeDefinition
    <3>3. f \in Nat /\ f <= 0
      BY <3>1, <3>2, FloorIs
    <3> QED BY <3>1, <3>3
  <2> QED BY <1>4, <1>6, <1>7, <2>1 DEF PartitionAt
<1>11. emitted = {} /\ late = {}
  BY DEF Init, WindowInit
<1>12. ResultsRight(emitted, log, d) /\ ResultsThere(emitted, log, d) /\ LateOK(late, log, d)
  BY <1>6, <1>11 DEF ResultsRight, ResultsThere, LateOK, IsLate
<1> QED BY <1>2, <1>4, <1>5, <1>6, <1>9, <1>10, <1>12 DEF WindowsRight

\* A message leaves the windows right.
LEMMA WindowsStep ==
  ASSUME WindowInv, AllAligned, WindowNext
  PROVE  WindowInv'
<1>1. definition' = definition /\ definition \in Definitions
  BY DefinitionStays DEF WindowInv
<1> SUFFICES ASSUME Windowing
             PROVE  WindowsRight(store', partitionExpired', emitted', late', arrived', definition')
  BY <1>1 DEF WindowInv, Windowing
<1>2. PICK d : d = definition
  OBVIOUS
<1>3. TimeDefinition(d) /\ Aligned(d) /\ d.kind = "time" /\ d.trigger = "none"
  BY <1>1, <1>2, TimedDefinition DEF Windowing, AllAligned
<1>4. PICK key \in Keys(definition), stamp \in Stamps(definition) : ProcessWindow(key, stamp)
  BY DEF WindowNext
<1>5. key \in Key /\ stamp \in Nat
  BY <1>1, <1>4, DefinitionAssumption
<1>6. PICK fired : ProcessTimeWindow(key, stamp, fired)
  BY <1>2, <1>3, <1>4 DEF ProcessWindow, ProcessSlidingWindow, ProcessCountWindow
<1>7. Plain(d)
  BY <1>3 DEF Plain
<1>8. WindowsRight(store, partitionExpired, emitted, late, arrived, d)
  BY <1>2 DEF WindowInv
<1>9. WindowsRight(store', partitionExpired', emitted', late', arrived', d)
  BY <1>2, <1>5, <1>6, <1>7, <1>8, MessageKeeps
<1> QED BY <1>1, <1>2, <1>9

\* Other steps leave the windows alone.
LEMMA WindowsStay ==
  ASSUME WindowInv,
         \/ StateNext \/ AggregationNext \/ JoinNext \/ TableNext \/ ConfigNext
         \/ UNCHANGED dataframeVars
  PROVE  WindowInv'
<1>1. definition' = definition
  <2>1. StateNext => definition' = definition
    BY DEF StateNext
  <2>2. UNCHANGED dataframeVars => definition' = definition
    BY DEF dataframeVars
  <2> QED BY <2>1, <2>2, DefinitionStays
<1>2. CASE UNCHANGED dataframeVars
  BY <1>2 DEF dataframeVars, windowVars, WindowInv, Windowing
<1>3. CASE ~(UNCHANGED dataframeVars)
  <2>1. ~Windowing
    BY <1>3, StatingDefinition
       DEF Windowing, WindowInv, StateNext, AggregationNext, JoinNext, TableNext, ConfigNext,
           Stating, Aggregating, Joined, TableLookup, Configured
  <2> QED BY <1>1, <2>1 DEF WindowInv, Windowing
<1> QED BY <1>2, <1>3

\* Windows are always right.
LEMMA WindowsHold ==
  ASSUME AllAligned
  PROVE  Spec => []WindowInv
<1>1. Init => WindowInv
  BY WindowsBegin
<1>2. WindowInv /\ [Next]_dataframeVars => WindowInv'
  BY WindowsStep, WindowsStay DEF Next
<1> QED BY <1>1, <1>2, PTL DEF Spec

-----------------------------------------------------------------------------
(* What follows from it. *)

\* The time with a message: not before it, and at most the message later.
LEMMA ClockAt ==
  ASSUME NEW log \in Seq(WindowMessage), NEW d, NEW key
  PROVE  /\ \A i, j \in Nat : i <= j => Clock(log, d, key, i) <= Clock(log, d, key, j)
         /\ \A i \in 1..Len(log) :
               \/ Clock(log, d, key, i) <= Clock(log, d, key, i - 1)
               \/ Clock(log, d, key, i) = log[i].stamp
<1>1. ASSUME NEW i \in Nat, NEW j \in Nat, i <= j
      PROVE  Clock(log, d, key, i) <= Clock(log, d, key, j)
  <2>1. PICK u \in Nat : u = Clock(log, d, key, i)
    BY ClockIs
  <2>2. PICK v \in Nat : v = Clock(log, d, key, j)
    BY ClockIs
  <2>3. u = 0 \/ \E n : Counts(log, d, key, i, n) /\ log[n].stamp = u
    BY <2>1, ClockIs
  <2>4. \A n : Counts(log, d, key, j, n) => log[n].stamp <= v
    BY <2>2, ClockIs
  <2>5. \A n : Counts(log, d, key, i, n) => Counts(log, d, key, j, n)
    BY <1>1 DEF Counts
  <2>6. u <= v
    BY <2>3, <2>4, <2>5
  <2> QED BY <2>1, <2>2, <2>6
<1>2. ASSUME NEW i \in 1..Len(log)
      PROVE  \/ Clock(log, d, key, i) <= Clock(log, d, key, i - 1)
             \/ Clock(log, d, key, i) = log[i].stamp
  <2>1. PICK u \in Nat : u = Clock(log, d, key, i - 1)
    BY ClockIs
  <2>2. PICK v \in Nat : v = Clock(log, d, key, i)
    BY ClockIs
  <2>3. v = 0 \/ \E n : Counts(log, d, key, i, n) /\ log[n].stamp = v
    BY <2>2, ClockIs
  <2>4. \A n : Counts(log, d, key, i - 1, n) => log[n].stamp <= u
    BY <2>1, ClockIs
  <2>5. \A n : Counts(log, d, key, i, n) => n = i \/ Counts(log, d, key, i - 1, n)
    BY DEF Counts
  <2>6. v <= u \/ v = log[i].stamp
    BY <2>1, <2>2, <2>3, <2>4, <2>5
  <2> QED BY <2>1, <2>2, <2>6
<1> QED BY <1>1, <1>2

\* The messages in a window that is not closed before a message are not late.
LEMMA InTime ==
  ASSUME NEW log \in Seq(WindowMessage), NEW d, TimeDefinition(d), NEW key, NEW start \in Nat,
         NEW i \in 1..Len(log), Closing(d, start) > Clock(log, d, key, i - 1),
         NEW n \in In(log, d, key, start, i)
  PROVE  ~IsLate(log, d, n, start)
<1>1. PICK c \in Nat : c = Closing(d, start)
  BY DEF Closing, TimeDefinition
<1>2. n \in 1..Len(log) /\ n <= i /\ log[n].key = key /\ InRange(d, start, log[n].stamp)
  BY DEF In
<1>3. PICK u \in Nat : u = Clock(log, d, key, n)
  BY ClockIs
<1>4. PICK v \in Nat : v = Clock(log, d, key, i - 1)
  BY ClockIs
<1>5. u < c
  <2>1. CASE n <= i - 1
    <3>1. u <= v
      BY <1>2, <1>3, <1>4, <2>1, ClockAt
    <3> QED BY <1>1, <1>3, <1>4, <3>1
  <2>2. CASE n = i
    <3>1. u <= v \/ u = log[i].stamp
      BY <1>2, <1>3, <1>4, <2>2, ClockAt
    <3>2. log[i].stamp \in Nat
      BY MessageTypes
    <3>3. log[i].stamp < c
      BY <1>1, <1>2, <2>2, <3>2 DEF InRange, Closing, TimeDefinition
    <3> QED BY <1>1, <1>3, <1>4, <3>1, <3>2, <3>3
  <2> QED BY <1>2, <2>1, <2>2
<1> QED BY <1>1, <1>2, <1>3, <1>5 DEF IsLate

\* The terms of the properties.
LEMMA TermsAre ==
  ASSUME NEW log, log = arrived, log \in Seq(WindowMessage), NEW d, d = definition,
         TimeDefinition(d)
  PROVE  /\ Message = 1..Len(log)
         /\ \A n \in Message : \A start :
               start \in Ranges(Stamp(n)) <=> start \in Nat /\ InRange(d, start, log[n].stamp)
         /\ \A key, start, last : start \in Nat =>
               InWindow(key, start, last) = In(log, d, key, start, last)
         /\ \A key, last : TimeAfter(key, last) = Clock(log, d, key, last)
         /\ \A start : End(start) = start + d.duration
<1>1. Message = 1..Len(log)
  BY DEF Message
<1>2. \A n \in 1..Len(log) : log[n].stamp \in Nat
  BY MessageTypes
<1>3. ASSUME NEW n \in 1..Len(log), NEW start
      PROVE  start \in Ranges(Stamp(n)) <=> start \in Nat /\ InRange(d, start, log[n].stamp)
  <2>1. PICK stamp \in Nat : stamp = log[n].stamp
    BY <1>2
  <2>2. start \in Ranges(stamp) <=> start \in Nat /\ InRange(d, start, stamp)
    BY RangesAre
  <2> QED BY <2>1, <2>2 DEF Stamp
<1>4. ASSUME NEW key, NEW start \in Nat, NEW last
      PROVE  InWindow(key, start, last) = In(log, d, key, start, last)
  BY <1>1, <1>3 DEF InWindow, In, MessagesOf
<1>5. ASSUME NEW key, NEW last
      PROVE  TimeAfter(key, last) = Clock(log, d, key, last)
  BY <1>1 DEF TimeAfter, Clock, Stamp
<1> QED BY <1>1, <1>3, <1>4, <1>5 DEF End

\* What is late is what on_late() was called with.
LEMMA LateIs ==
  ASSUME NEW calls, NEW log, NEW d, LateOK(calls, log, d)
  PROVE  \A n, start : <<n, start>> \in calls <=> IsLate(log, d, n, start)
BY DEF LateOK

\* What the properties of time windows are about.
LEMMA WindowsFollow ==
  ASSUME WindowInv, Windowing
  PROVE  /\ TimeDefinition(definition) /\ WindowComputes(definition)
         /\ WindowsRight(store, partitionExpired, emitted, late, arrived, definition)
BY TimedDefinition DEF WindowInv, Windowing

\* The messages of a window up to one that it is open before were on time.
LEMMA OnTimeIs ==
  ASSUME NEW log, log = arrived, log \in Seq(WindowMessage), NEW d, d = definition,
         TimeDefinition(d),
         LateOK(late, log, d), NEW key, NEW start \in Nat, NEW i \in 1..Len(log),
         Closing(d, start) > Clock(log, d, key, i - 1)
  PROVE  OnTime(key, start, i) = In(log, d, key, start, i)
<1>1. InWindow(key, start, i) = In(log, d, key, start, i)
  BY TermsAre
<1>2. \A n \in In(log, d, key, start, i) : ~IsLate(log, d, n, start)
  BY InTime
<1>3. \A n \in In(log, d, key, start, i) : <<n, start>> \notin late
  BY <1>2, LateIs
<1> QED BY <1>1, <1>3 DEF OnTime

\* A window closes once.
LEMMA OneResult ==
  ASSUME NEW log \in Seq(WindowMessage), NEW d, TimeDefinition(d), NEW r, NEW q,
         FinalOK(r, log, d), FinalOK(q, log, d), r.key = q.key, r.start = q.start
  PROVE  r = q
<1>1. PICK key : key = r.key
  OBVIOUS
<1>2. PICK start \in Nat : start = r.start
  BY DEF FinalOK
<1>3. PICK i \in 1..Len(log) : i = r.at
  BY DEF FinalOK
<1>4. PICK j \in 1..Len(log) : j = q.at
  BY DEF FinalOK
<1>5. PICK c \in Nat : c = Closing(d, start)
  BY DEF Closing, TimeDefinition
<1>6. /\ c > Clock(log, d, key, i - 1) /\ c <= Clock(log, d, key, i)
      /\ c > Clock(log, d, key, j - 1) /\ c <= Clock(log, d, key, j)
  BY <1>1, <1>2, <1>3, <1>4, <1>5 DEF FinalOK
<1>7. ASSUME NEW x \in 1..Len(log), NEW y \in 1..Len(log), x < y
      PROVE  ~(c <= Clock(log, d, key, x) /\ c > Clock(log, d, key, y - 1))
  <2>1. PICK u \in Nat : u = Clock(log, d, key, x)
    BY ClockIs
  <2>2. PICK v \in Nat : v = Clock(log, d, key, y - 1)
    BY ClockIs
  <2>3. u <= v
    <3>1. x \in Nat /\ y - 1 \in Nat /\ x <= y - 1
      BY <1>7
    <3> QED BY <2>1, <2>2, <3>1, ClockAt
  <2> QED BY <1>5, <2>1, <2>2, <2>3
<1>8. ~(i < j) /\ ~(j < i)
  BY <1>6, <1>7
<1>9. i = j
  BY <1>8
<1>10. PICK a : a = IF d.aggregate THEN In(log, d, key, start, i) ELSE {}
  OBVIOUS
<1>11. PICK f : f = IF d.collect THEN In(log, d, key, start, i) ELSE {}
  OBVIOUS
<1>12. r = [key |-> key, start |-> start, end |-> start + d.duration, aggregated |-> a,
            collected |-> f, by |-> "time", at |-> i]
  BY <1>1, <1>2, <1>3, <1>10, <1>11, Zenon DEF FinalOK
<1>13. q = [key |-> key, start |-> start, end |-> start + d.duration, aggregated |-> a,
            collected |-> f, by |-> "time", at |-> i]
  <2>1. q.key = key /\ q.start = start /\ q.at = i
    BY <1>1, <1>2, <1>4, <1>9
  <2> QED BY <1>10, <1>11, <2>1, Zenon DEF FinalOK
<1> QED BY <1>12, <1>13

\* The results of final() are unique and complete.
LEMMA CompleteFollows ==
  ASSUME WindowInv
  PROVE  TimeResultsComplete
<1> SUFFICES ASSUME Untriggered
             PROVE  /\ \A r \in emitted :
                          /\ definition.aggregate =>
                                r.aggregated = OnTime(r.key, r.start, r.at)
                          /\ definition.collect => r.collected = OnTime(r.key, r.start, r.at)
                    /\ \A r, q \in emitted : r.key = q.key /\ r.start = q.start => r = q
  BY DEF TimeResultsComplete
<1>1. PICK log : log = arrived
  OBVIOUS
<1>2. PICK d : d = definition
  OBVIOUS
<1>3. Windowing /\ d.emit # "current"
  BY <1>2 DEF Untriggered, Timed, Finally, Windowing
<1>4. /\ TimeDefinition(d) /\ log \in Seq(WindowMessage)
      /\ ResultsRight(emitted, log, d) /\ LateOK(late, log, d)
  BY <1>1, <1>2, <1>3, WindowsFollow DEF WindowsRight
<1>5. \A r \in emitted : FinalOK(r, log, d)
  BY <1>3, <1>4 DEF ResultsRight
<1>6. ASSUME NEW r \in emitted
      PROVE  /\ d.aggregate => r.aggregated = OnTime(r.key, r.start, r.at)
             /\ d.collect => r.collected = OnTime(r.key, r.start, r.at)
  <2>1. FinalOK(r, log, d)
    BY <1>5
  <2>2. PICK start \in Nat : start = r.start
    BY <2>1 DEF FinalOK
  <2>3. PICK i \in 1..Len(log) : i = r.at
    BY <2>1 DEF FinalOK
  <2>4. PICK key : key = r.key
    OBVIOUS
  <2>5. Closing(d, start) > Clock(log, d, key, i - 1)
    BY <2>1, <2>2, <2>3, <2>4 DEF FinalOK
  <2>6. OnTime(key, start, i) = In(log, d, key, start, i)
    BY <1>1, <1>2, <1>4, <2>5, OnTimeIs
  <2>7. /\ r.aggregated = IF d.aggregate THEN In(log, d, key, start, i) ELSE {}
        /\ r.collected = IF d.collect THEN In(log, d, key, start, i) ELSE {}
    BY <2>1, <2>2, <2>3, <2>4 DEF FinalOK
  <2> QED BY <2>2, <2>3, <2>4, <2>6, <2>7
<1>7. ASSUME NEW r \in emitted, NEW q \in emitted, r.key = q.key, r.start = q.start
      PROVE  r = q
  BY <1>4, <1>5, <1>7, OneResult
<1> QED BY <1>2, <1>6, <1>7

\* No message is lost.
LEMMA NothingLostFollows ==
  ASSUME WindowInv, AllAligned
  PROVE  TimeNothingLost
<1> SUFFICES ASSUME Untriggered, NEW n \in Message, NEW start \in Ranges(Stamp(n)),
                    NEW key, key = arrived[n].key, <<n, start>> \notin late,
                    ~ \E r \in emitted : r.key = key /\ r.start = start /\ r.at >= n
             PROVE  /\ start \in DOMAIN store[key].windows
                    /\ definition.closing = "key" => start > store[key].expired
                    /\ definition.closing = "partition" => End(start) > partitionExpired
  BY DEF TimeNothingLost
<1>1. PICK log : log = arrived
  OBVIOUS
<1>2. PICK d : d = definition
  OBVIOUS
<1>3. Windowing /\ d.emit # "current" /\ d.kind = "time" /\ d.trigger = "none"
  BY <1>2 DEF Untriggered, Timed, Finally, Windowing
<1>4. /\ TimeDefinition(d) /\ log \in Seq(WindowMessage) /\ StatesOK(store, log, d)
      /\ PartitionAt(partitionExpired, log, d, Len(log))
      /\ ResultsThere(emitted, log, d) /\ LateOK(late, log, d)
  BY <1>1, <1>2, <1>3, WindowsFollow DEF WindowsRight
<1>5. /\ n \in 1..Len(log) /\ start \in Nat /\ InRange(d, start, log[n].stamp)
      /\ log[n].key = key /\ key \in Key /\ log[n].stamp \in Nat
  BY <1>1, <1>2, <1>4, TermsAre, MessageTypes
<1>6. ~IsLate(log, d, n, start)
  BY <1>4, LateIs
<1>7. PICK u \in Nat : u = Clock(log, d, key, Len(log))
  BY <1>4, ClockIs
<1>8. PICK c \in Nat : c = Closing(d, start)
  BY <1>4, <1>5 DEF Closing, TimeDefinition
<1>9. u < c
  <2>1. HasResult(emitted, log, d, n, start)
    BY <1>4, <1>5, <1>6 DEF ResultsThere
  <2>2. Closing(d, start) > Clock(log, d, key, Len(log))
    BY <1>3, <1>5, <2>1 DEF HasResult
  <2> QED BY <1>7, <1>8, <2>2
<1>10. PICK s : s = store[key]
  OBVIOUS
<1>11. StateOK(s, log, d, key)
  BY <1>4, <1>5, <1>10 DEF StatesOK
<1>12. start \in DOMAIN s.windows
  <2>1. n \in In(log, d, key, start, Len(log))
    BY <1>4, <1>5 DEF In
  <2>2. WindowsOK(s.windows, log, d, key) /\ Closing(d, start) > Clock(log, d, key, Len(log))
    BY <1>7, <1>8, <1>9, <1>11 DEF StateOK
  <2> QED BY <1>5, <2>1, <2>2 DEF WindowsOK
<1>13. ASSUME d.closing = "key"
       PROVE  start > s.expired
  <2>1. \/ s.expired = None
        \/ s.expired \in Nat /\ Closing(d, s.expired) <= u
    BY <1>7, <1>11, <1>13 DEF StateOK, TimesOK
  <2>2. PICK x : x = s.expired
    OBVIOUS
  <2>3. CASE x = None
    BY <1>5, <2>2, <2>3 DEF None
  <2>4. CASE x \in Nat /\ Closing(d, x) <= u
    BY <1>4, <1>5, <1>7, <1>8, <1>9, <2>2, <2>4 DEF Closing, TimeDefinition
  <2> QED BY <2>1, <2>2, <2>3, <2>4
<1>14. ASSUME d.closing = "partition"
       PROVE  End(start) > partitionExpired
  <2>1. partitionExpired = Floor(u, d.step)
    BY <1>4, <1>5, <1>7, <1>14 DEF PartitionAt
  <2>2. PICK p : p = Floor(u, d.step)
    OBVIOUS
  <2>3. p \in Nat /\ p <= u
    <3>1. d.step \in Nat \ {0}
      BY <1>4 DEF TimeDefinition
    <3> QED BY <2>2, <3>1, FloorIs
  <2>4. Aligned(d)
    BY <1>2, <1>3 DEF AllAligned, WindowInv
  <2>5. c = start + d.duration
    BY <1>4, <1>5, <1>8, <1>14, <2>4 DEF Aligned, Closing, TimeDefinition
  <2>6. End(start) = start + d.duration
    BY <1>2 DEF End
  <2> QED BY <1>7, <1>8, <1>9, <2>1, <2>2, <2>3, <2>5, <2>6
<1> QED BY <1>2, <1>10, <1>12, <1>13, <1>14

\* Windows close when the time has passed their end and grace period, and nothing is late
\* before.
LEMMA ClosesFollows ==
  ASSUME WindowInv
  PROVE  TimeClosesOnTime
<1> SUFFICES ASSUME Untriggered
             PROVE  /\ \A r \in emitted :
                          /\ TimeAfter(r.key, r.at) >= r.end + definition.grace
                          /\ TimeAfter(r.key, r.at - 1) < r.end + definition.grace
                    /\ \A l \in late :
                          TimeAfter(arrived[l[1]].key, l[1]) >= End(l[2]) + definition.grace
                    /\ \A k \in Key : \A start \in DOMAIN store[k].windows :
                          TimeAfter(k, Len(arrived)) < End(start) + definition.grace
  BY DEF TimeClosesOnTime
<1>1. PICK log : log = arrived
  OBVIOUS
<1>2. PICK d : d = definition
  OBVIOUS
<1>3. Windowing /\ d.emit # "current"
  BY <1>2 DEF Untriggered, Timed, Finally, Windowing
<1>4. /\ TimeDefinition(d) /\ log \in Seq(WindowMessage) /\ StatesOK(store, log, d)
      /\ ResultsRight(emitted, log, d) /\ LateOK(late, log, d)
  BY <1>1, <1>2, <1>3, WindowsFollow DEF WindowsRight
<1>5. \A key, last : TimeAfter(key, last) = Clock(log, d, key, last)
  BY <1>1, <1>2, <1>4, TermsAre
<1>6. \A start \in Nat : Closing(d, start) = End(start) + d.grace /\ Closing(d, start) \in Nat
  BY <1>2, <1>4 DEF Closing, End, TimeDefinition
<1>7. ASSUME NEW r \in emitted
      PROVE  /\ TimeAfter(r.key, r.at) >= r.end + d.grace
             /\ TimeAfter(r.key, r.at - 1) < r.end + d.grace
  <2>1. FinalOK(r, log, d)
    BY <1>3, <1>4, <1>7 DEF ResultsRight
  <2>2. PICK u \in Nat : u = Clock(log, d, r.key, r.at)
    BY <1>4, ClockIs
  <2>3. PICK v \in Nat : v = Clock(log, d, r.key, r.at - 1)
    BY <1>4, ClockIs
  <2>4. PICK c \in Nat : c = Closing(d, r.start)
    BY <1>6, <2>1 DEF FinalOK
  <2>5. c > v /\ c <= u
    BY <2>1, <2>2, <2>3, <2>4 DEF FinalOK
  <2>6. r.end = r.start + d.duration
    BY <2>1 DEF FinalOK
  <2>7. c = r.end + d.grace
    BY <2>4, <2>6 DEF Closing
  <2> QED BY <1>5, <2>2, <2>3, <2>4, <2>5, <2>7
<1>8. ASSUME NEW x \in late
      PROVE  TimeAfter(arrived[x[1]].key, x[1]) >= End(x[2]) + d.grace
  <2>1. PICK n, start : x = <<n, start>> /\ IsLate(log, d, n, start)
    BY <1>4 DEF LateOK
  <2>2. start \in Nat /\ Closing(d, start) <= Clock(log, d, log[n].key, n)
    BY <2>1 DEF IsLate
  <2>3. PICK u \in Nat : u = Clock(log, d, log[n].key, n)
    BY <1>4, ClockIs
  <2>4. u >= End(start) + d.grace
    BY <1>6, <2>2, <2>3
  <2> QED BY <1>1, <1>5, <2>1, <2>3, <2>4
<1>9. ASSUME NEW k \in Key, NEW start \in DOMAIN store[k].windows
      PROVE  TimeAfter(k, Len(arrived)) < End(start) + d.grace
  <2>1. WindowsOK(store[k].windows, log, d, k)
    BY <1>4 DEF StatesOK, StateOK
  <2>2. start \in Nat /\ Closing(d, start) > Clock(log, d, k, Len(log))
    BY <2>1 DEF WindowsOK
  <2>3. PICK u \in Nat : u = Clock(log, d, k, Len(log))
    BY <1>4, ClockIs
  <2>4. u < End(start) + d.grace
    BY <1>6, <2>2, <2>3
  <2> QED BY <1>1, <1>5, <2>3, <2>4
<1> QED BY <1>2, <1>7, <1>8, <1>9

\* Values that are left behind the deleted windows came late.
LEMMA ValuesFollow ==
  ASSUME WindowInv
  PROVE  ValuesReclaimed
<1> SUFFICES ASSUME Untriggered, NEW k \in Key, NEW value \in store[k].values,
                    value.id < store[k].expired
             PROVE  \E start \in Ranges(value.id) : <<value.counter, start>> \in late
  BY DEF ValuesReclaimed
<1>1. PICK log : log = arrived
  OBVIOUS
<1>2. PICK d : d = definition
  OBVIOUS
<1>3. Windowing
  BY DEF Untriggered, Timed, Windowing
<1>4. /\ TimeDefinition(d) /\ log \in Seq(WindowMessage) /\ StatesOK(store, log, d)
      /\ LateOK(late, log, d)
  BY <1>1, <1>2, <1>3, WindowsFollow DEF WindowsRight
<1>5. PICK s : s = store[k]
  OBVIOUS
<1>6. StateOK(s, log, d, k)
  BY <1>4, <1>5 DEF StatesOK
<1>7. PICK n \in 1..Len(log) : value = ValueOf(log, n)
  BY <1>5, <1>6 DEF StateOK, ValuesOK
<1>8. value.id = log[n].stamp /\ value.counter = n /\ log[n].stamp \in Nat
  BY <1>4, <1>7, MessageTypes DEF ValueOf
<1>9. s.expired # None
  BY <1>5, <1>8 DEF None
<1>10. PICK start : IsLate(log, d, n, start)
  BY <1>5, <1>6, <1>8, <1>9 DEF StateOK, TimesOK
<1>11. start \in Nat /\ InRange(d, start, log[n].stamp)
  BY <1>10 DEF IsLate
<1>12. start \in Ranges(value.id)
  BY <1>2, <1>4, <1>8, <1>11, RangesAre
<1>13. <<n, start>> \in late
  BY <1>4, <1>10, LateIs
<1> QED BY <1>8, <1>12, <1>13

\* The results of current() are the windows of each message with what has come.
LEMMA UpdatesFollow ==
  ASSUME WindowInv
  PROVE  TimeUpdatesExact
<1> SUFFICES ASSUME Timed, Updating, definition.trigger = "none", NEW n \in Message
             PROVE  UpdatedBy(n) =
                    {[start |-> start, end |-> End(start),
                      messages |-> OnTime(arrived[n].key, start, n)] :
                     start \in {s \in Ranges(Stamp(n)) : <<n, s>> \notin late}}
  BY DEF TimeUpdatesExact
<1>1. PICK log : log = arrived
  OBVIOUS
<1>2. PICK d : d = definition
  OBVIOUS
<1>3. Windowing /\ d.emit = "current"
  BY <1>2 DEF Updating, Timed, Windowing
<1>4. /\ TimeDefinition(d) /\ WindowComputes(d) /\ log \in Seq(WindowMessage)
      /\ ResultsRight(emitted, log, d) /\ ResultsThere(emitted, log, d) /\ LateOK(late, log, d)
  BY <1>1, <1>2, <1>3, WindowsFollow DEF WindowsRight
<1>5. d.aggregate
  BY <1>3, <1>4 DEF WindowComputes
<1>6. /\ n \in 1..Len(log)
      /\ \A start : start \in Ranges(Stamp(n)) <=> start \in Nat /\ InRange(d, start, log[n].stamp)
      /\ \A start : End(start) = start + d.duration
  BY <1>1, <1>2, <1>4, TermsAre
<1>7. PICK key : key = log[n].key
  OBVIOUS
<1>8. \A r \in emitted : UpdateOK(r, log, d)
  BY <1>3, <1>4 DEF ResultsRight
<1>9. ASSUME NEW r \in emitted, r.at = n
      PROVE  /\ r.start \in Ranges(Stamp(n)) /\ <<n, r.start>> \notin late
             /\ r.end = End(r.start) /\ r.aggregated = OnTime(key, r.start, n)
  <2>1. UpdateOK(r, log, d)
    BY <1>8
  <2>2. PICK start \in Nat : start = r.start
    BY <2>1 DEF UpdateOK
  <2>3. PICK c \in Nat : c = Closing(d, start)
    BY <1>4, <2>2 DEF Closing, TimeDefinition
  <2>4. PICK u \in Nat : u = Clock(log, d, key, n)
    BY <1>4, ClockIs
  <2>5. PICK v \in Nat : v = Clock(log, d, key, n - 1)
    BY <1>4, ClockIs
  <2>6. r.key = key
    BY <1>7, <1>9, <2>1 DEF UpdateOK
  <2>7. c > u
    BY <1>9, <2>1, <2>2, <2>3, <2>4, <2>6 DEF UpdateOK
  <2>8. v <= u
    <3>1. n - 1 \in Nat /\ n \in Nat /\ n - 1 <= n
      BY <1>6
    <3> QED BY <1>4, <2>4, <2>5, <3>1, ClockAt
  <2>9. OnTime(key, start, n) = In(log, d, key, start, n)
    <3>1. Closing(d, start) > Clock(log, d, key, n - 1)
      BY <2>3, <2>4, <2>5, <2>7, <2>8
    <3> QED BY <1>1, <1>2, <1>4, <1>6, <3>1, OnTimeIs
  <2>10. ~IsLate(log, d, n, start)
    BY <1>7, <2>3, <2>4, <2>7 DEF IsLate
  <2>11. <<n, start>> \notin late
    BY <1>4, <2>10, LateIs
  <2>12. start \in Ranges(Stamp(n))
    BY <1>6, <1>9, <2>1, <2>2 DEF UpdateOK
  <2>13. r.end = r.start + d.duration /\ r.aggregated = In(log, d, key, start, n)
    BY <1>5, <1>9, <2>1, <2>2, <2>6 DEF UpdateOK
  <2> QED BY <1>6, <2>2, <2>9, <2>11, <2>12, <2>13
<1>10. ASSUME NEW start \in Ranges(Stamp(n)), <<n, start>> \notin late
       PROVE  \E r \in emitted : r.at = n /\ r.start = start
  <2>1. start \in Nat /\ InRange(d, start, log[n].stamp) /\ ~IsLate(log, d, n, start)
    BY <1>4, <1>6, <1>10, LateIs
  <2>2. HasResult(emitted, log, d, n, start)
    BY <1>4, <1>6, <2>1 DEF ResultsThere
  <2> QED BY <1>3, <2>2 DEF HasResult
<1>11. UpdatedBy(n) = {[start |-> r.start, end |-> r.end, messages |-> r.aggregated] :
                       r \in {q \in emitted : q.at = n}}
  BY DEF UpdatedBy
<1>12. ASSUME NEW x \in UpdatedBy(n)
       PROVE  \E start \in {s \in Ranges(Stamp(n)) : <<n, s>> \notin late} :
                 x = [start |-> start, end |-> End(start), messages |-> OnTime(key, start, n)]
  <2>1. PICK r \in emitted : r.at = n /\ x = [start |-> r.start, end |-> r.end,
                                              messages |-> r.aggregated]
    BY <1>11, <1>12
  <2> QED BY <1>9, <2>1
<1>13. ASSUME NEW start \in {s \in Ranges(Stamp(n)) : <<n, s>> \notin late}
       PROVE  [start |-> start, end |-> End(start), messages |-> OnTime(key, start, n)]
                 \in UpdatedBy(n)
  <2>1. PICK r \in emitted : r.at = n /\ r.start = start
    BY <1>10
  <2>2. r.end = End(start) /\ r.aggregated = OnTime(key, start, n)
    BY <1>9, <2>1
  <2> QED BY <1>11, <2>1, <2>2
<1>14. arrived[n].key = key
  BY <1>1, <1>7
<1>15. UpdatedBy(n) =
          {[start |-> start, end |-> End(start), messages |-> OnTime(key, start, n)] :
           start \in {s \in Ranges(Stamp(n)) : <<n, s>> \notin late}}
  BY <1>12, <1>13
<1> QED BY <1>14, <1>15

-----------------------------------------------------------------------------
(* Messages are counted once, with triggers too. *)

\* What is in a window of a store.
Held(s, start) == IF start \in DOMAIN s.windows THEN s.windows[start] ELSE {}

\* Windows go from a store, and nothing else happens to windows.
OnlyDropped(b, t, starts) ==
    /\ IsState(t) /\ t.latest = b.latest
    /\ DOMAIN t.windows = DOMAIN b.windows \ starts
    /\ \A start \in DOMAIN t.windows : t.windows[start] = b.windows[start]

\* Values do not count here.
LEMMA DeleteLeaves ==
  ASSUME NEW s, IsState(s), NEW from, NEW to, NEW t, t = DeleteCollection(s, from, to)
  PROVE  IsState(t) /\ t.windows = s.windows /\ t.latest = s.latest
<1>1. PICK gone : gone = ValuesBetween(s, from, to)
  OBVIOUS
<1>2. PICK id : id = Max({value.id : value \in gone})
  OBVIOUS
<1>3. t = IF gone = {} THEN s ELSE [s EXCEPT !.values = @ \ gone, !.deletedValue = id]
  BY <1>1, <1>2, Zenon DEF DeleteCollection
<1> QED BY <1>3 DEF IsState

\* An expiration drops windows.
LEMMA ExpireDrops ==
  ASSUME NEW b, IsState(b), NEW starts, NEW maxStart, NEW collect, NEW t,
         \/ t = ExpireInPartition(b, starts, collect)
         \/ starts = Expired(b, maxStart) /\ t = ExpireWindows(b, maxStart, TRUE, collect)
         \/ starts = {} /\ t = b
  PROVE  OnlyDropped(b, t, starts)
<1>1. CASE t = ExpireInPartition(b, starts, collect)
  <2>1. PICK kept : kept = DropWindows(b, starts)
    OBVIOUS
  <2>2. OnlyDropped(b, kept, starts)
    BY <2>1, DropFields DEF OnlyDropped
  <2>3. PICK last : last = Max(starts)
    OBVIOUS
  <2>4. t = kept \/ t = DeleteCollection(kept, kept.deletedValue, last)
    BY <1>1, <2>1, <2>3, Zenon DEF ExpireInPartition
  <2>5. IsState(t) /\ t.windows = kept.windows /\ t.latest = kept.latest
    BY <2>2, <2>4, DeleteLeaves DEF OnlyDropped
  <2> QED BY <2>2, <2>5 DEF OnlyDropped
<1>2. CASE starts = Expired(b, maxStart) /\ t = ExpireWindows(b, maxStart, TRUE, collect)
  <2>1. PICK last : last = Max(starts)
    OBVIOUS
  <2>2. PICK marked : marked = [b EXCEPT !.expired = last]
    OBVIOUS
  <2>3. PICK kept : kept = DropWindows(marked, starts)
    OBVIOUS
  <2>4. IsState(marked) /\ marked.windows = b.windows /\ marked.latest = b.latest
    BY <2>2 DEF IsState
  <2>5. OnlyDropped(b, kept, starts)
    BY <2>3, <2>4, DropFields DEF OnlyDropped
  <2>6. \/ starts = {} /\ t = b
        \/ t = kept
        \/ t = DeleteCollection(kept, kept.deletedValue, last)
    BY <1>2, <2>1, <2>2, <2>3, Zenon DEF ExpireWindows
  <2>7. CASE starts = {} /\ t = b
    BY <2>7 DEF OnlyDropped
  <2>8. CASE t = kept \/ t = DeleteCollection(kept, kept.deletedValue, last)
    <3>1. IsState(t) /\ t.windows = kept.windows /\ t.latest = kept.latest
      BY <2>5, <2>8, DeleteLeaves DEF OnlyDropped
    <3> QED BY <2>5, <3>1 DEF OnlyDropped
  <2> QED BY <2>6, <2>7, <2>8
<1>3. CASE starts = {} /\ t = b
  BY <1>3 DEF OnlyDropped
<1> QED BY <1>1, <1>2, <1>3

\* What a message does with triggers: to the stores, and what it may emit.
FiredDoes(before, starts, st, key, stamp, maxStart, fired, d) ==
    /\ \A k \in Key :
          before[k] = IF k = key THEN Applied(key, stamp, maxStart, fired) ELSE st[k]
    /\ \A k \in Key :
          \/ store'[k] = ExpireInPartition(before[k], starts[k], d.collect)
          \/ /\ starts[k] = Expired(before[k], maxStart)
             /\ store'[k] = ExpireWindows(before[k], maxStart, TRUE, d.collect)
          \/ starts[k] = {} /\ store'[k] = before[k]
    /\ \A k \in Key : starts[k] \subseteq DOMAIN before[k].windows
    /\ store' = [k \in Key |-> store'[k]]
    /\ \A r \in emitted' :
          \/ r \in emitted
          \/ \E start \in fired : r = Triggered(key, start, Incoming)
          \/ \E k \in Key : \E start \in starts[k] : r = Finished(k, before[k], start)

\* process_window() with triggers, for final().
LEMMA FiredIs ==
  ASSUME NEW d, d = definition, d.emit # "current", NEW key \in Key, NEW stamp \in Nat,
         NEW fired, ProcessTimeWindow(key, stamp, fired),
         NEW st, st = store, st = [k \in Key |-> st[k]],
         NEW maxEnd, maxEnd = LatestTime(key, stamp) - d.grace,
         NEW maxStart, maxStart = maxEnd - d.duration
  PROVE  /\ \E before, starts : FiredDoes(before, starts, st, key, stamp, maxStart, fired, d)
         /\ fired \subseteq OpenRanges(stamp, maxStart)
<1> DEFINE MaxEnd == LatestTime(key, stamp) - definition.grace
           MaxStart == MaxEnd - definition.duration
           Filled == [store EXCEPT ![key] = Applied(key, stamp, MaxStart, fired)]
           Expiring == [k \in Key |->
                        IF definition.closing = "partition"
                        THEN ExpiredInPartition(Filled[k], partitionExpired, MaxEnd,
                                                definition.step, definition.duration)
                        ELSE IF k = key THEN Expired(Filled[k], MaxStart) ELSE {}]
           Renewed == {Result(key, start, start + definition.duration,
                              Filled[key].windows[start], {}, "update") :
                          start \in OpenRanges(stamp, MaxStart) \ fired}
           Ending == {Triggered(key, start, Incoming) : start \in fired}
                     \cup UNION {{Finished(k, Filled[k], start) : start \in Expiring[k]} :
                                    k \in Key}
<1>1. fired \subseteq OpenRanges(stamp, MaxStart)
  BY DEF ProcessTimeWindow
<1>2. Emitted(Renewed, Ending)
  BY DEF ProcessTimeWindow
<1>3. IF definition.closing = "partition"
      THEN store' = [k \in Key |-> ExpireInPartition(Filled[k], Expiring[k], definition.collect)]
      ELSE store' = [Filled EXCEPT ![key] = ExpireWindows(@, MaxStart, TRUE, definition.collect)]
  BY DEF ProcessTimeWindow
<1>4. PICK before : before = Filled
  OBVIOUS
<1>5. PICK starts : starts = Expiring
  OBVIOUS
<1>6. MaxEnd = maxEnd /\ MaxStart = maxStart
  OBVIOUS
<1>7. /\ before = [k \in Key |-> before[k]]
      /\ \A k \in Key : before[k] = IF k = key THEN Applied(key, stamp, maxStart, fired) ELSE st[k]
  BY <1>4, <1>6
<1>8. \A k \in Key :
         starts[k] = IF d.closing = "partition"
                     THEN ExpiredInPartition(before[k], partitionExpired, maxEnd, d.step,
                                             d.duration)
                     ELSE IF k = key THEN Expired(before[k], maxStart) ELSE {}
  BY <1>4, <1>5, <1>6
<1>9. IF d.closing = "partition"
      THEN store' = [k \in Key |-> ExpireInPartition(before[k], starts[k], d.collect)]
      ELSE store' = [before EXCEPT ![key] = ExpireWindows(@, maxStart, TRUE, d.collect)]
  BY <1>3, <1>4, <1>5, <1>6, Zenon
<1>10. \A k \in Key : starts[k] \subseteq DOMAIN before[k].windows
  BY <1>8 DEF ExpiredInPartition, Expired, WindowsBetween
<1> HIDE DEF MaxEnd, MaxStart, Filled, Expiring
<1>11. \A r : r \in Ending <=>
          \/ \E start \in fired : r = Triggered(key, start, Incoming)
          \/ \E k \in Key : \E start \in starts[k] : r = Finished(k, before[k], start)
  BY <1>4, <1>5
<1>12. emitted' = emitted \cup Ending
  BY <1>2, Zenon DEF Emitted
<1> HIDE DEF Renewed, Ending
<1>13. \A r \in emitted' :
          \/ r \in emitted
          \/ \E start \in fired : r = Triggered(key, start, Incoming)
          \/ \E k \in Key : \E start \in starts[k] : r = Finished(k, before[k], start)
  BY <1>11, <1>12
<1>14. /\ store' = [k \in Key |-> store'[k]]
       /\ \A k \in Key :
             \/ store'[k] = ExpireInPartition(before[k], starts[k], d.collect)
             \/ /\ starts[k] = Expired(before[k], maxStart)
                /\ store'[k] = ExpireWindows(before[k], maxStart, TRUE, d.collect)
             \/ starts[k] = {} /\ store'[k] = before[k]
  <2>1. CASE d.closing = "partition"
    BY <1>9, <2>1
  <2>2. CASE d.closing # "partition"
    <3>1. store' = [before EXCEPT ![key] = ExpireWindows(@, maxStart, TRUE, d.collect)]
      BY <1>9, <2>2
    <3>2. \A k \in Key : starts[k] = IF k = key THEN Expired(before[k], maxStart) ELSE {}
      BY <1>8, <2>2
    <3> QED BY <1>7, <3>1, <3>2
  <2> QED BY <2>1, <2>2
<1>15. FiredDoes(before, starts, st, key, stamp, maxStart, fired, d)
  BY <1>7, <1>10, <1>13, <1>14, Zenon DEF FiredDoes
<1> QED BY <1>1, <1>6, <1>15

\* The store and the results of final() have each message in one aggregate of a window.
OnceRight(st, e, l) ==
    /\ st = [k \in Key |-> st[k]]
    /\ \A k \in Key :
          /\ IsState(st[k]) /\ st[k].latest \in Nat
          /\ \A start \in DOMAIN st[k].windows : st[k].windows[start] \subseteq 1..l
    /\ \A r \in e : r.aggregated \subseteq 1..l
    /\ \A r \in e : r.key \in Key /\ r.aggregated \cap Held(st[r.key], r.start) = {}
    /\ \A r \in e : \A q \in e :
          r # q /\ r.key = q.key /\ r.start = q.start => r.aggregated \cap q.aggregated = {}

\* A message moves what is in windows to results.
MovesTo(st, tt, e, f, l) ==
    /\ tt = [k \in Key |-> tt[k]]
    /\ \A k \in Key :
          /\ IsState(tt[k]) /\ tt[k].latest \in Nat
          /\ \A start : Held(tt[k], start) \subseteq Held(st[k], start) \cup {l + 1}
    /\ \A r \in f : r \in e \/
          /\ r.key \in Key /\ r.aggregated \subseteq Held(st[r.key], r.start) \cup {l + 1}
          /\ Held(tt[r.key], r.start) = {}
    /\ \A r \in f : \A q \in f :
          r \notin e /\ q \notin e /\ r.key = q.key /\ r.start = q.start => r = q

\* No message is counted twice.
LEMMA OnceKept ==
  ASSUME NEW st, NEW tt, NEW e, NEW f, NEW l \in Nat, OnceRight(st, e, l), MovesTo(st, tt, e, f, l)
  PROVE  OnceRight(tt, f, l + 1)
<1>1. \A k \in Key : \A start : Held(st[k], start) \subseteq 1..l
  BY DEF OnceRight, Held
<1>2. \A k \in Key : \A start : Held(tt[k], start) \subseteq 1..l + 1
  BY <1>1 DEF MovesTo
<1>3. \A k \in Key : \A start \in DOMAIN tt[k].windows : tt[k].windows[start] \subseteq 1..l + 1
  BY <1>2 DEF Held
<1>4. ASSUME NEW r \in f
      PROVE  /\ r.aggregated \subseteq 1..l + 1 /\ r.key \in Key
             /\ r.aggregated \cap Held(tt[r.key], r.start) = {}
  <2>1. CASE r \in e
    <3>1. /\ r.aggregated \subseteq 1..l /\ r.key \in Key
          /\ r.aggregated \cap Held(st[r.key], r.start) = {}
      BY <2>1 DEF OnceRight
    <3>2. Held(tt[r.key], r.start) \subseteq Held(st[r.key], r.start) \cup {l + 1}
      BY <3>1 DEF MovesTo
    <3> QED BY <3>1, <3>2
  <2>2. CASE r \notin e
    <3>1. /\ r.key \in Key /\ r.aggregated \subseteq Held(st[r.key], r.start) \cup {l + 1}
          /\ Held(tt[r.key], r.start) = {}
      BY <2>2 DEF MovesTo
    <3>2. Held(st[r.key], r.start) \subseteq 1..l
      BY <1>1, <3>1
    <3> QED BY <3>1, <3>2
  <2> QED BY <2>1, <2>2
<1>5. ASSUME NEW r \in e, NEW q \in f, q \notin e, r.key = q.key, r.start = q.start
      PROVE  r.aggregated \cap q.aggregated = {}
  <2>1. r.aggregated \subseteq 1..l /\ r.aggregated \cap Held(st[r.key], r.start) = {}
    BY DEF OnceRight
  <2>2. q.aggregated \subseteq Held(st[r.key], r.start) \cup {l + 1}
    BY <1>5 DEF MovesTo
  <2> QED BY <2>1, <2>2
<1>6. ASSUME NEW r \in f, NEW q \in f, r # q, r.key = q.key, r.start = q.start
      PROVE  r.aggregated \cap q.aggregated = {}
  <2>1. CASE r \in e /\ q \in e
    BY <1>6, <2>1 DEF OnceRight
  <2>2. CASE r \in e /\ q \notin e
    BY <1>5, <1>6, <2>2
  <2>3. CASE r \notin e /\ q \in e
    BY <1>5, <1>6, <2>3
  <2>4. CASE r \notin e /\ q \notin e
    BY <1>6, <2>4 DEF MovesTo
  <2> QED BY <2>1, <2>2, <2>3, <2>4
<1>7. tt = [k \in Key |-> tt[k]] /\ \A k \in Key : IsState(tt[k]) /\ tt[k].latest \in Nat
  BY DEF MovesTo
<1> QED BY <1>3, <1>4, <1>6, <1>7 DEF OnceRight

\* A window with a message has what it had, and the message.
LEMMA AppliedHolds ==
  ASSUME NEW s, NEW b, NEW open, NEW fired, NEW stamp, NEW n, NEW d,
         AppliedTo(s, b, open, fired, stamp, n, d)
  PROVE  /\ \A start : Held(b, start) \subseteq Held(s, start) \cup {n}
         /\ \A start \in fired : start \notin DOMAIN b.windows
<1>1. ASSUME NEW start \in DOMAIN b.windows
      PROVE  b.windows[start] \subseteq Held(s, start) \cup {n}
  <2>1. start \in open \/ start \in DOMAIN s.windows
    BY DEF AppliedTo
  <2>2. b.windows[start] = IF start \in open
                           THEN IF d.aggregate THEN Held(s, start) \cup {n} ELSE {}
                           ELSE s.windows[start]
    BY DEF AppliedTo, Held
  <2> QED BY <2>1, <2>2 DEF Held
<1>2. \A start : Held(b, start) \subseteq Held(s, start) \cup {n}
  BY <1>1 DEF Held
<1>3. \A start \in fired : start \notin DOMAIN b.windows
  BY DEF AppliedTo
<1> QED BY <1>2, <1>3

\* A message with triggers moves what is in windows to results.
LEMMA MessageMoves ==
  ASSUME NEW d, d = definition, d.emit # "current", NEW key \in Key, NEW stamp \in Nat,
         NEW fired, ProcessTimeWindow(key, stamp, fired), NEW l \in Nat, l + 1 = Incoming,
         NEW st, st = store, NEW e, e = emitted, OnceRight(st, e, l)
  PROVE  MovesTo(st, store', e, emitted', l)
<1>1. PICK maxEnd : maxEnd = LatestTime(key, stamp) - d.grace
  OBVIOUS
<1>2. PICK maxStart : maxStart = maxEnd - d.duration
  OBVIOUS
<1>3. PICK tt : tt = store'
  OBVIOUS
<1>4. PICK f : f = emitted'
  OBVIOUS
<1>5. PICK open : open = OpenRanges(stamp, maxStart)
  OBVIOUS
<1>6. st = [k \in Key |-> st[k]] /\ \A k \in Key : IsState(st[k]) /\ st[k].latest \in Nat
  BY DEF OnceRight
<1>7. PICK before, starts : FiredDoes(before, starts, st, key, stamp, maxStart, fired, d)
  BY <1>1, <1>2, <1>6, FiredIs
<1>8. AppliedTo(st[key], before[key], open, fired, stamp, l + 1, d)
  <2>1. PICK s : s = store[key]
    OBVIOUS
  <2>2. PICK b : b = Applied(key, stamp, maxStart, fired)
    OBVIOUS
  <2>3. PICK n : n = Incoming
    OBVIOUS
  <2>4. IsState(s) /\ s.latest \in Nat
    BY <1>6, <2>1
  <2>5. AppliedTo(s, b, open, fired, stamp, n, d)
    BY <1>5, <2>1, <2>2, <2>3, <2>4, AppliedIs
  <2>6. before[key] = b
    BY <1>7, <2>2 DEF FiredDoes
  <2> QED BY <2>1, <2>3, <2>5, <2>6
<1>9. ASSUME NEW k \in Key
      PROVE  /\ IsState(before[k]) /\ before[k].latest \in Nat
             /\ \A start : Held(before[k], start) \subseteq Held(st[k], start) \cup {l + 1}
  <2>1. CASE k = key
    <3>1. PICK s : s = st[key]
      OBVIOUS
    <3>2. PICK b : b = before[key]
      OBVIOUS
    <3>3. AppliedTo(s, b, open, fired, stamp, l + 1, d)
      BY <1>8, <3>1, <3>2
    <3>4. \A start : Held(b, start) \subseteq Held(s, start) \cup {l + 1}
      BY <3>3, AppliedHolds
    <3>5. IsState(b) /\ b.latest \in Nat
      BY <1>6, <3>1, <3>3 DEF AppliedTo
    <3> QED BY <2>1, <3>1, <3>2, <3>4, <3>5
  <2>2. CASE k # key
    BY <1>6, <1>7, <2>2 DEF FiredDoes
  <2> QED BY <2>1, <2>2
<1>10. ASSUME NEW k \in Key
       PROVE  /\ OnlyDropped(before[k], tt[k], starts[k])
              /\ starts[k] \subseteq DOMAIN before[k].windows
  <2>1. PICK b : b = before[k]
    OBVIOUS
  <2>2. PICK t : t = tt[k]
    OBVIOUS
  <2>3. PICK w : w = starts[k]
    OBVIOUS
  <2>4. \/ t = ExpireInPartition(b, w, d.collect)
        \/ w = Expired(b, maxStart) /\ t = ExpireWindows(b, maxStart, TRUE, d.collect)
        \/ w = {} /\ t = b
    BY <1>3, <1>7, <2>1, <2>2, <2>3, Zenon DEF FiredDoes
  <2>5. IsState(b)
    BY <1>9, <2>1
  <2>6. OnlyDropped(b, t, w)
    BY <2>4, <2>5, ExpireDrops
  <2> QED BY <1>7, <2>1, <2>2, <2>3, <2>6 DEF FiredDoes
<1>11. \A k \in Key :
          /\ IsState(tt[k]) /\ tt[k].latest \in Nat
          /\ \A start : Held(tt[k], start) \subseteq Held(st[k], start) \cup {l + 1}
  BY <1>9, <1>10 DEF OnlyDropped, Held
<1>12. \A k \in Key : \A start \in starts[k] : Held(tt[k], start) = {}
  BY <1>10 DEF OnlyDropped, Held
<1>13. \A start \in fired : start \notin DOMAIN before[key].windows
  BY <1>8 DEF AppliedTo
<1>14. \A start \in fired : Held(tt[key], start) = {} /\ start \notin starts[key]
  BY <1>10, <1>13 DEF OnlyDropped, Held
<1>15. ASSUME NEW r, NEW start \in fired, r = Triggered(key, start, Incoming)
       PROVE  /\ r.key = key /\ r.start = start
              /\ r.aggregated \subseteq Held(st[key], start) \cup {l + 1}
  <2>1. PICK s : s = store[key]
    OBVIOUS
  <2>2. r.key = key /\ r.start = start
    BY <1>15, Zenon DEF Triggered, Result
  <2>3. r.aggregated = IF definition.trigger = "after" THEN Updated(s, start, l + 1)
                                                       ELSE Aggregated(s, start)
    BY <1>15, <2>1, Zenon DEF Triggered, Result
  <2>4. /\ Aggregated(s, start) \subseteq Held(s, start)
        /\ Updated(s, start, l + 1) \subseteq Held(s, start) \cup {l + 1}
    BY DEF Aggregated, Updated, Held
  <2> QED BY <2>1, <2>2, <2>3, <2>4
<1>16. ASSUME NEW r, NEW k \in Key, NEW start \in starts[k], r = Finished(k, before[k], start)
       PROVE  /\ r.key = k /\ r.start = start
              /\ r.aggregated \subseteq Held(st[k], start) \cup {l + 1}
  <2>1. PICK b : b = before[k]
    OBVIOUS
  <2>2. r.key = k /\ r.start = start /\ r.aggregated = Aggregated(b, start)
    BY <1>16, <2>1, Zenon DEF Finished, Result
  <2>3. Aggregated(b, start) \subseteq Held(b, start)
    BY DEF Aggregated, Held
  <2> QED BY <1>9, <2>1, <2>2, <2>3
<1>17. \A r \in f :
          \/ r \in e
          \/ \E start \in fired : r = Triggered(key, start, Incoming)
          \/ \E k \in Key : \E start \in starts[k] : r = Finished(k, before[k], start)
  BY <1>4, <1>7, Zenon DEF FiredDoes
<1>18. \A r \in f : r \in e \/
          /\ r.key \in Key /\ r.aggregated \subseteq Held(st[r.key], r.start) \cup {l + 1}
          /\ Held(tt[r.key], r.start) = {}
  BY <1>12, <1>14, <1>15, <1>16, <1>17
<1>19. ASSUME NEW x \in f, x \notin e
       PROVE  \/ x.start \in fired /\ x.key = key /\ x = Triggered(key, x.start, Incoming)
              \/ /\ x.key \in Key /\ x.start \in starts[x.key]
                 /\ x = Finished(x.key, before[x.key], x.start)
  <2>1. ASSUME NEW start \in fired, x = Triggered(key, start, Incoming)
        PROVE  x.start \in fired /\ x.key = key /\ x = Triggered(key, x.start, Incoming)
    <3>1. x.key = key /\ x.start = start
      BY <1>15, <2>1, Zenon
    <3> QED BY <2>1, <3>1
  <2>2. ASSUME NEW k \in Key, NEW start \in starts[k], x = Finished(k, before[k], start)
        PROVE  /\ x.key \in Key /\ x.start \in starts[x.key]
               /\ x = Finished(x.key, before[x.key], x.start)
    <3>1. x.key = k /\ x.start = start
      BY <1>16, <2>2, Zenon
    <3> QED BY <2>2, <3>1
  <2> QED BY <1>17, <1>19, <2>1, <2>2, Zenon
<1>20. ASSUME NEW r \in f, NEW q \in f, r \notin e, q \notin e, r.key = q.key, r.start = q.start
       PROVE  r = q
  <2>1. \/ r.start \in fired /\ r.key = key /\ r = Triggered(key, r.start, Incoming)
        \/ r.key \in Key /\ r.start \in starts[r.key] /\ r = Finished(r.key, before[r.key], r.start)
    BY <1>20, <1>19, Zenon
  <2>2. \/ q.start \in fired /\ q.key = key /\ q = Triggered(key, q.start, Incoming)
        \/ q.key \in Key /\ q.start \in starts[q.key] /\ q = Finished(q.key, before[q.key], q.start)
    BY <1>20, <1>19, Zenon
  <2> QED BY <1>14, <1>20, <2>1, <2>2
<1>21. tt = [k \in Key |-> tt[k]]
  BY <1>3, <1>7 DEF FiredDoes
<1> QED BY <1>3, <1>4, <1>11, <1>18, <1>20, <1>21, Zenon DEF MovesTo

\* Each message is in one aggregate of a window.
OnceInv ==
    /\ definition \in Definitions
    /\ Timed /\ Finally => OnceRight(store, emitted, Len(arrived)) /\ Len(arrived) \in Nat

\* The first state.
LEMMA OnceBegins ==
  ASSUME Init
  PROVE  OnceInv
<1>1. /\ definition \in Definitions /\ arrived = <<>> /\ store = [k \in Key |-> EmptyState]
      /\ emitted = {}
  BY DEF Init, WindowInit
<1>2. IsState(EmptyState) /\ EmptyState.latest \in Nat /\ DOMAIN EmptyState.windows = {}
  BY DEF IsState, EmptyState
<1>3. OnceRight(store, emitted, 0)
  BY <1>1, <1>2 DEF OnceRight
<1> QED BY <1>1, <1>3 DEF OnceInv

\* A message keeps it so.
LEMMA OnceStep ==
  ASSUME OnceInv, WindowNext
  PROVE  OnceInv'
<1>1. definition' = definition /\ definition \in Definitions
  BY DefinitionStays DEF OnceInv
<1> SUFFICES ASSUME Timed, Finally
             PROVE  OnceRight(store', emitted', Len(arrived')) /\ Len(arrived') \in Nat
  BY <1>1 DEF OnceInv, Timed, Finally
<1>2. PICK key \in Keys(definition), stamp \in Stamps(definition) : ProcessWindow(key, stamp)
  BY DEF WindowNext
<1>3. key \in Key /\ stamp \in Nat
  BY <1>1, <1>2, DefinitionAssumption
<1>4. PICK fired : ProcessTimeWindow(key, stamp, fired)
  BY <1>2 DEF Timed, ProcessWindow, ProcessSlidingWindow, ProcessCountWindow
<1>5. PICK l \in Nat : l = Len(arrived)
  BY DEF OnceInv
<1>6. PICK d : d = definition
  OBVIOUS
<1>7. d.emit # "current" /\ l + 1 = Incoming
  BY <1>5, <1>6 DEF Finally, Incoming
<1>8. Len(arrived') = l + 1
  BY <1>4, <1>5 DEF ProcessTimeWindow, Arrives
<1>9. PICK st : st = store
  OBVIOUS
<1>10. PICK e : e = emitted
  OBVIOUS
<1>11. OnceRight(st, e, l)
  BY <1>5, <1>9, <1>10 DEF OnceInv
<1>12. MovesTo(st, store', e, emitted', l)
  BY <1>3, <1>4, <1>6, <1>7, <1>9, <1>10, <1>11, MessageMoves
<1>13. PICK tt : tt = store'
  OBVIOUS
<1>14. PICK f : f = emitted'
  OBVIOUS
<1>15. OnceRight(tt, f, l + 1)
  BY <1>11, <1>12, <1>13, <1>14, OnceKept
<1> QED BY <1>8, <1>13, <1>14, <1>15

\* Other steps have nothing to do with it.
LEMMA OnceStays ==
  ASSUME OnceInv,
         \/ StateNext \/ AggregationNext \/ JoinNext \/ TableNext \/ ConfigNext
         \/ UNCHANGED dataframeVars
  PROVE  OnceInv'
<1>1. definition' = definition
  <2>1. StateNext => definition' = definition
    BY DEF StateNext
  <2>2. UNCHANGED dataframeVars => definition' = definition
    BY DEF dataframeVars
  <2> QED BY <2>1, <2>2, DefinitionStays
<1>2. CASE UNCHANGED dataframeVars
  BY <1>2 DEF dataframeVars, windowVars, OnceInv, Timed, Finally
<1>3. CASE ~(UNCHANGED dataframeVars)
  <2>1. ~Timed
    BY <1>3, StatingDefinition
       DEF Timed, OnceInv, StateNext, AggregationNext, JoinNext, TableNext, ConfigNext, Stating,
           Aggregating, Joined, TableLookup, Configured
  <2> QED BY <1>1, <2>1 DEF OnceInv, Timed
<1> QED BY <1>2, <1>3

\* Each message is in one aggregate of a window, always.
LEMMA OnceHolds == Spec => []OnceInv
<1>1. Init => OnceInv
  BY OnceBegins
<1>2. OnceInv /\ [Next]_dataframeVars => OnceInv'
  BY OnceStep, OnceStays DEF Next
<1> QED BY <1>1, <1>2, PTL DEF Spec

\* Triggers do not count a message twice.
LEMMA OnceFollows ==
  ASSUME OnceInv
  PROVE  CountedOnce
BY DEF OnceInv, OnceRight, CountedOnce

-----------------------------------------------------------------------------
(* Theorems. *)

\* A window is closed by the message that takes the time past its end and its grace period,
\* neither earlier nor later, and nothing is late before that.
THEOREM TimeClosesOnTimeHolds ==
  ASSUME AllAligned
  PROVE  Spec => []TimeClosesOnTime
<1>1. WindowInv => TimeClosesOnTime
  BY ClosesFollows
<1> QED BY <1>1, WindowsHold, PTL

\* A time window is emitted once and with all its messages that are not late, which are not
\* lost before; current() emits what has come so far.
THEOREM TimeWindowsHold ==
  ASSUME AllAligned
  PROVE  Spec => [](TimeResultsComplete /\ TimeNothingLost /\ TimeUpdatesExact)
<1>1. WindowInv => TimeResultsComplete /\ TimeNothingLost /\ TimeUpdatesExact
  BY CompleteFollows, NothingLostFollows, UpdatesFollow
<1> QED BY <1>1, WindowsHold, PTL

\* A message is in one final result of a window at most, with or without triggers.
THEOREM CountedOnceHolds == Spec => []CountedOnce
<1>1. OnceInv => CountedOnce
  BY OnceFollows
<1> QED BY <1>1, OnceHolds, PTL

\* The stores of windows and of joins keep nothing behind what is deleted and expired.
THEOREM StoresReclaimedHolds ==
  ASSUME AllAligned, Extends = {}
  PROVE  Spec => []StoresReclaimed
<1>1. WindowInv /\ JoinInv => StoresReclaimed
  BY ValuesFollow, ReclaimedFollows DEF StoresReclaimed
<1> QED BY <1>1, WindowsHold, JoinsHold, PTL
=============================================================================
