----------------------------- MODULE CountProofs -----------------------------
(***************************************************************************)
(* Proof that count windows are exact: the results of a key are the runs   *)
(* of count consecutive messages, a step apart, each with the timestamps   *)
(* it spans (CountResultsExact), and current() emits those that a message  *)
(* is in (CountUpdatesExact), for any keys, timestamps, counts and steps,  *)
(* and any number of messages in any order.                                *)
(*                                                                         *)
(* The messages of a key are numbered as they come (Number).  After t of   *)
(* them the open windows are those that began after a multiple of the step *)
(* and less than count before t, oldest first, each with the messages      *)
(* since (CountingOK).  A value has an id that follows from its number     *)
(* (IdOf), and the store has those that a window to come needs             *)
(* (CollectedOK): delete_from_collection() goes from the last deleted id   *)
(* to the first that the next window needs, and so keeps them only if the  *)
(* ids go on from one window to the next.  They start over when no window  *)
(* is open, as for hopping windows that do not overlap: the theorem        *)
(* excludes those that collect (AllCountsAligned).                         *)
(***************************************************************************)
EXTENDS WindowProofs

-----------------------------------------------------------------------------
(* Numbers of messages, and runs of them. *)

\* How many messages of the key there are up to a message.
Number(log, k, last) == Cardinality({n \in 1..Len(log) : log[n].key = k /\ n <= last})

\* How many there are.
Total(log, k) == Number(log, k, Len(log))

\* The messages of a key with the numbers a to b.
Run(log, k, a, b) == {n \in 1..Len(log) : log[n].key = k /\ Number(log, k, n) \in a..b}

\* Each message of the key has the next number.
LEMMA NumberIs ==
  ASSUME NEW log \in Seq(WindowMessage), NEW k
  PROVE  /\ \A i : Number(log, k, i) \in Nat
         /\ Number(log, k, 0) = 0
         /\ \A i \in 1..Len(log) :
               Number(log, k, i) = Number(log, k, i - 1) + IF log[i].key = k THEN 1 ELSE 0
         /\ \A i, j \in Nat : i <= j => Number(log, k, i) <= Number(log, k, j)
<1> DEFINE M(i) == {n \in 1..Len(log) : log[n].key = k /\ n <= i}
<1>1. \A i : IsFiniteSet(M(i)) /\ Cardinality(M(i)) \in Nat
  <2>1. IsFiniteSet(1..Len(log))
    BY FS_Interval
  <2>2. \A i : M(i) \subseteq 1..Len(log)
    OBVIOUS
  <2> HIDE DEF M
  <2> QED BY <2>1, <2>2, FS_Subset, FS_CardinalityType
<1>2. \A i : Number(log, k, i) = Cardinality(M(i))
  BY DEF Number
<1>3. M(0) = {}
  OBVIOUS
<1>4. ASSUME NEW i \in 1..Len(log)
      PROVE  /\ log[i].key = k => M(i) = M(i - 1) \cup {i} /\ i \notin M(i - 1)
             /\ log[i].key # k => M(i) = M(i - 1)
  OBVIOUS
<1>5. ASSUME NEW i \in Nat, NEW j \in Nat, i <= j
      PROVE  M(i) \subseteq M(j)
  BY <1>5
<1> HIDE DEF M
<1>6. Number(log, k, 0) = 0
  BY <1>2, <1>3, FS_EmptySet
<1>7. ASSUME NEW i \in 1..Len(log)
      PROVE  Number(log, k, i) = Number(log, k, i - 1) + IF log[i].key = k THEN 1 ELSE 0
  <2>1. CASE log[i].key = k
    <3>1. PICK A : A = M(i - 1)
      OBVIOUS
    <3>2. IsFiniteSet(A) /\ i \notin A /\ M(i) = A \cup {i}
      BY <1>1, <1>4, <2>1, <3>1
    <3>3. Cardinality(A \cup {i}) = Cardinality(A) + 1
      BY <3>2, FS_AddElement
    <3> QED BY <1>2, <2>1, <3>1, <3>2, <3>3
  <2>2. CASE log[i].key # k
    <3>1. Cardinality(M(i - 1)) \in Nat
      BY <1>1
    <3> QED BY <1>2, <1>4, <2>2, <3>1
  <2> QED BY <2>1, <2>2
<1>8. ASSUME NEW i \in Nat, NEW j \in Nat, i <= j
      PROVE  Number(log, k, i) <= Number(log, k, j)
  BY <1>1, <1>2, <1>5, <1>8, FS_Subset
<1> QED BY <1>1, <1>2, <1>6, <1>7, <1>8

\* The numbers of the messages of a key.
LEMMA NumbersOf ==
  ASSUME NEW log \in Seq(WindowMessage), NEW k, NEW n \in 1..Len(log), log[n].key = k
  PROVE  Number(log, k, n) \in 1..Total(log, k)
<1>1. Number(log, k, n - 1) \in Nat /\ Number(log, k, n) = Number(log, k, n - 1) + 1
  BY NumberIs
<1>2. Number(log, k, n) <= Number(log, k, Len(log)) /\ Number(log, k, Len(log)) \in Nat
  <2>1. n \in Nat /\ Len(log) \in Nat /\ n <= Len(log)
    OBVIOUS
  <2> QED BY <2>1, NumberIs
<1> QED BY <1>1, <1>2 DEF Total

\* Numbers do not change, and a message of the key has the next one.
LEMMA NumberGrows ==
  ASSUME NEW log, NEW m, NEW new, NEW l, OneMore(log, m, new, l), NEW k
  PROVE  /\ \A i \in 0..l : Number(new, k, i) = Number(log, k, i)
         /\ Total(log, k) \in Nat
         /\ Total(new, k) = Total(log, k) + IF m.key = k THEN 1 ELSE 0
         /\ Number(new, k, l + 1) = Total(new, k)
<1>1. /\ log \in Seq(WindowMessage) /\ new \in Seq(WindowMessage)
      /\ l \in Nat /\ l = Len(log) /\ Len(new) = l + 1 /\ new[l + 1] = m
      /\ \A n \in 1..l : new[n] = log[n]
  BY DEF OneMore
<1>2. ASSUME NEW i \in 0..l
      PROVE  Number(new, k, i) = Number(log, k, i)
  <2>1. {n \in 1..Len(new) : new[n].key = k /\ n <= i} =
        {n \in 1..Len(log) : log[n].key = k /\ n <= i}
    BY <1>1
  <2> QED BY <2>1 DEF Number
<1>3. Number(new, k, l + 1) = Number(new, k, (l + 1) - 1) + IF new[l + 1].key = k THEN 1 ELSE 0
  <2>1. l + 1 \in 1..Len(new)
    BY <1>1
  <2> QED BY <1>1, <2>1, NumberIs
<1>4. (l + 1) - 1 = l /\ l \in 0..l
  BY <1>1
<1>5. Total(log, k) = Number(log, k, l) /\ Total(new, k) = Number(new, k, l + 1)
  BY <1>1 DEF Total
<1>6. Total(log, k) \in Nat
  BY <1>1, NumberIs DEF Total
<1> QED BY <1>1, <1>2, <1>3, <1>4, <1>5, <1>6

\* A run has the message if it has its number.
LEMMA RunGrows ==
  ASSUME NEW log, NEW m, NEW new, NEW l, OneMore(log, m, new, l), NEW k, NEW a \in Int,
         NEW b \in Int
  PROVE  Run(new, k, a, b) = Run(log, k, a, b) \cup
            (IF m.key = k /\ Total(log, k) + 1 \in a..b THEN {l + 1} ELSE {})
<1>1. /\ l \in Nat /\ l = Len(log) /\ Len(new) = l + 1 /\ new[l + 1] = m
      /\ \A n \in 1..l : new[n] = log[n]
  BY DEF OneMore
<1>2. \A n \in 1..l : Number(new, k, n) = Number(log, k, n)
  <2>1. \A n \in 1..l : n \in 0..l
    BY <1>1
  <2> QED BY <2>1, NumberGrows
<1>3. Number(new, k, l + 1) = Total(log, k) + IF m.key = k THEN 1 ELSE 0
  BY NumberGrows
<1>4. Total(log, k) \in Nat
  BY NumberGrows
<1>5. \A n \in 1..l + 1 : n \in 1..l \/ n = l + 1
  BY <1>1
<1>6. \A n \in 1..l : n \in 1..l + 1 /\ n # l + 1
  BY <1>1
<1>7. l + 1 \in 1..l + 1
  BY <1>1
<1>8. \A n : n \in Run(new, k, a, b) <=>
         \/ n \in Run(log, k, a, b)
         \/ n = l + 1 /\ m.key = k /\ Total(log, k) + 1 \in a..b
  BY <1>1, <1>2, <1>3, <1>4, <1>5, <1>6, <1>7 DEF Run
<1> QED BY <1>8

-----------------------------------------------------------------------------
(* The windows of a key. *)

\* From one window of a number of messages to the next, which is Stride.
Step(d) == IF d.step = 0 \/ d.step >= d.count THEN d.count ELSE d.step

\* Values are collected only for windows that overlap or have no step.
CountAligned(d) == d.collect => d.step < d.count

\* A window that begins after so many messages is open when there are more.
OffsetOK(o, t, d) == o \in Nat /\ o % Step(d) = 0 /\ o < t /\ t < o + d.count

\* The open windows of a key.
CountData == [count : Nat, start : Nat, end : Nat, messages : SUBSET Nat, firstId : Nat]

\* The first and the last timestamp of messages.
Spans(log, run, first, last) ==
    /\ \E n \in run : log[n].stamp = first
    /\ \E n \in run : log[n].stamp = last
    /\ \A n \in run : first <= log[n].stamp /\ log[n].stamp <= last

\* An open window has the messages that have come since it began.
OpenOK(w, log, k, o, t, d) ==
    /\ w.messages = IF d.aggregate THEN Run(log, k, o + 1, t) ELSE {}
    /\ Spans(log, Run(log, k, o + 1, t), w.start, w.end)
    /\ d.collect => w.firstId = IF d.step = 0 THEN 0 ELSE o

\* The open windows of a key after t messages, oldest first.
CountingOK(cnt, log, k, t, d) ==
    /\ cnt \in Seq(CountData)
    /\ \A i \in 1..Len(cnt) :
          OffsetOK(t - cnt[i].count, t, d) /\ OpenOK(cnt[i], log, k, t - cnt[i].count, t, d)
    /\ \A o : OffsetOK(o, t, d) => \E i \in 1..Len(cnt) : cnt[i].count = t - o
    /\ \A i, j \in 1..Len(cnt) : i < j => cnt[i].count > cnt[j].count

\* The step is one of the definition.
LEMMA StepIs ==
  ASSUME NEW d, CountDefinition(d)
  PROVE  /\ Step(d) \in Nat \ {0} /\ Step(d) <= d.count /\ d.count \in Nat /\ 2 <= d.count
         /\ d.step = 0 => Step(d) = d.count
         /\ CountAligned(d) /\ d.collect /\ d.step # 0 => Step(d) = d.step
BY DEF CountDefinition, Step, CountAligned

\* What is left of a number above a multiple, but not above the next one.
LEMMA RemainderAbove ==
  ASSUME NEW s \in Nat \ {0}, NEW o \in Nat, o % s = 0, NEW x \in Nat, o <= x, x < o + s,
         NEW r, r = x % s
  PROVE  r = x - o
<1>1. PICK f : f = Floor(x, s)
  OBVIOUS
<1>2. f = x - r
  BY <1>1 DEF Floor
<1>3. f \in Nat /\ f % s = 0 /\ f <= x /\ x < f + s /\ o <= f
  BY <1>1, FloorIs
<1>4. o < f => o + s <= f
  BY <1>3, Multiples
<1>5. f = o
  BY <1>3, <1>4
<1>6. r \in Nat
  OBVIOUS
<1> QED BY <1>2, <1>5, <1>6

\* Between the windows that begin at a step there is an open one, or a new one begins.
LEMMA OpenOrNew ==
  ASSUME NEW d, CountDefinition(d), NEW t \in Nat
  PROVE  /\ t % Step(d) = 0 \/ \E o : OffsetOK(o, t, d)
         /\ Step(d) = d.count =>
               \A o : OffsetOK(o, t, d) => t % Step(d) # 0 /\ t % Step(d) = t - o
         /\ Step(d) # d.count => t = 0 \/ \E o : OffsetOK(o, t, d)
<1>1. PICK s \in Nat \ {0} : s = Step(d)
  BY StepIs
<1>2. PICK c \in Nat : c = d.count
  BY StepIs
<1>3. s <= c
  BY <1>1, <1>2, StepIs
<1>4. \A o : OffsetOK(o, t, d) <=> o \in Nat /\ o % s = 0 /\ o < t /\ t < o + c
  BY <1>1, <1>2 DEF OffsetOK
<1>5. PICK f : f = Floor(t, s)
  OBVIOUS
<1>6. f \in Nat /\ f % s = 0 /\ f <= t /\ t < f + s
  BY <1>5, FloorIs
<1>7. t % s = 0 \/ OffsetOK(f, t, d)
  BY <1>3, <1>4, <1>6
<1>8. ASSUME s = c, NEW o, OffsetOK(o, t, d)
      PROVE  t % s # 0 /\ t % s = t - o
  <2>1. o \in Nat /\ o % s = 0 /\ o < t /\ t < o + s
    BY <1>4, <1>8
  <2>2. PICK r : r = t % s
    OBVIOUS
  <2>3. r = t - o
    BY <1>1, <2>1, <2>2, RemainderAbove
  <2>4. r # 0
    BY <2>1, <2>3
  <2> QED BY <2>2, <2>3, <2>4
<1>9. ASSUME s # c, t # 0
      PROVE  \E o : OffsetOK(o, t, d)
  <2>1. PICK u \in Nat : t = u + 1
    <3>1. t - 1 \in Nat /\ t = (t - 1) + 1
      BY <1>9
    <3> QED BY <3>1
  <2>2. PICK e : e = Floor(u, s)
    OBVIOUS
  <2>3. e \in Nat /\ e % s = 0 /\ e <= u /\ u < e + s
    BY <2>2, FloorIs
  <2>4. OffsetOK(e, t, d)
    BY <1>3, <1>4, <1>9, <2>1, <2>3
  <2> QED BY <2>4
<1> QED BY <1>1, <1>2, <1>7, <1>8, <1>9

\* The first open window, if there is one, and the number of its messages.
LEMMA FirstOpen ==
  ASSUME NEW cnt, NEW log, NEW k, NEW t \in Nat, NEW d, CountingOK(cnt, log, k, t, d)
  PROVE  /\ cnt = <<>> => \A o : ~OffsetOK(o, t, d)
         /\ cnt # <<>> =>
               /\ 1 \in 1..Len(cnt) /\ cnt[1].count \in Nat /\ OffsetOK(t - cnt[1].count, t, d)
                          /\ OpenOK(cnt[1], log, k, t - cnt[1].count, t, d)
<1>1. cnt \in Seq(CountData)
  BY DEF CountingOK
<1>2. cnt = <<>> => \A o : ~OffsetOK(o, t, d)
  BY DEF CountingOK
<1>3. ASSUME cnt # <<>>
      PROVE  1 \in 1..Len(cnt) /\ cnt[1].count \in Nat
  <2>1. 1 \in 1..Len(cnt)
    BY <1>1, <1>3
  <2>2. cnt[1] \in CountData
    BY <1>1, <2>1
  <2> QED BY <2>1, <2>2 DEF CountData
<1> QED BY <1>2, <1>3 DEF CountingOK

\* A window begins with every message behind a step.
LEMMA OpensIs ==
  ASSUME NEW d, d = definition, CountDefinition(d), NEW cnt, NEW log, NEW k, NEW t \in Nat,
         CountingOK(cnt, log, k, t, d)
  PROVE  OpensWindow(cnt) <=> t % Step(d) = 0
<1>1. PICK s \in Nat \ {0} : s = Step(d)
  BY StepIs
<1>2. PICK c \in Nat : c = d.count
  BY StepIs
<1>3. OpensWindow(cnt) <=> cnt = <<>> \/ (d.step # 0 /\ cnt[1].count % d.step = 0)
  BY DEF OpensWindow
<1>4. CASE cnt = <<>>
  BY <1>3, <1>4, FirstOpen, OpenOrNew
<1>5. CASE cnt # <<>>
  <2>1. PICK n \in Nat : n = cnt[1].count
    BY <1>5, FirstOpen
  <2>2. PICK o : o = t - n
    OBVIOUS
  <2>3. OffsetOK(o, t, d)
    BY <1>5, <2>1, <2>2, FirstOpen
  <2>4. o \in Nat /\ o % s = 0 /\ o < t /\ t < o + c /\ t = o + n /\ n \in 1..c - 1
    BY <1>1, <1>2, <2>1, <2>2, <2>3 DEF OffsetOK
  <2>5. CASE d.step = 0
    <3>1. Step(d) = d.count
      BY <2>5, StepIs
    <3>2. t % s # 0
      BY <1>1, <2>3, <3>1, OpenOrNew
    <3> QED BY <1>1, <1>3, <1>5, <2>5, <3>2
  <2>6. CASE d.step >= c /\ d.step # 0
    <3>1. Step(d) = d.count
      BY <1>2, <2>6 DEF Step
    <3>2. t % s # 0
      BY <1>1, <2>3, <3>1, OpenOrNew
    <3>3. d.step \in Nat /\ n < d.step
      BY <1>2, <2>4, <2>6 DEF CountDefinition
    <3>4. n % d.step # 0
      BY <2>4, <3>3
    <3> QED BY <1>1, <1>3, <1>5, <2>1, <3>2, <3>4
  <2>7. CASE d.step # 0 /\ ~(d.step >= c)
    <3>1. d.step = s
      BY <1>1, <1>2, <2>7 DEF Step
    <3>2. n % s = 0 => t % s = 0
      BY <1>1, <2>4, Multiples
    <3>3. t % s = 0 => n % s = 0
      <4>1. o <= t /\ t - o = n
        BY <2>4
      <4> QED BY <1>1, <2>4, <4>1, Multiples
    <3> QED BY <1>1, <1>3, <1>5, <2>1, <2>7, <3>1, <3>2, <3>3
  <2> QED BY <2>5, <2>6, <2>7
<1> QED BY <1>4, <1>5

\* The id of the value of message number j of a key.
IdOf(j, d) == IF d.step = 0 THEN (j - 1) % d.count ELSE j - 1

\* The next value gets the id of its number.
LEMMA NextIdIs ==
  ASSUME NEW d, d = definition, CountDefinition(d), CountAligned(d), d.collect,
         NEW cnt, NEW log, NEW k, NEW t \in Nat, CountingOK(cnt, log, k, t, d)
  PROVE  NextId(cnt) = IdOf(t + 1, d)
<1>1. PICK s \in Nat \ {0} : s = Step(d)
  BY StepIs
<1>2. PICK c \in Nat : c = d.count
  BY StepIs
<1>3. (t + 1) - 1 = t
  OBVIOUS
<1>4. CASE cnt = <<>>
  <2>1. NextId(cnt) = 0
    BY <1>4 DEF NextId
  <2>2. \A o : ~OffsetOK(o, t, d)
    BY <1>4, FirstOpen
  <2>3. CASE d.step = 0
    <3>1. t % s = 0 /\ s = d.count
      BY <1>1, <2>2, <2>3, OpenOrNew, StepIs
    <3> QED BY <1>3, <2>1, <2>3, <3>1 DEF IdOf
  <2>4. CASE d.step # 0
    <3>1. Step(d) = d.step /\ d.step < d.count
      BY <2>4, StepIs DEF CountAligned
    <3>2. Step(d) # d.count
      BY <1>1, <1>2, <3>1
    <3>3. t = 0
      BY <2>2, <3>2, OpenOrNew
    <3> QED BY <1>3, <2>1, <2>4, <3>3 DEF IdOf
  <2> QED BY <2>3, <2>4
<1>5. CASE cnt # <<>>
  <2>1. PICK n \in Nat : n = cnt[1].count
    BY <1>5, FirstOpen
  <2>2. PICK o : o = t - n
    OBVIOUS
  <2>3. OffsetOK(o, t, d) /\ OpenOK(cnt[1], log, k, o, t, d)
    BY <1>5, <2>1, <2>2, FirstOpen
  <2>4. o \in Nat /\ t = o + n
    BY <2>1, <2>2, <2>3 DEF OffsetOK
  <2>5. NextId(cnt) = cnt[1].firstId + n
    BY <1>5, <2>1 DEF NextId
  <2>6. cnt[1].firstId = IF d.step = 0 THEN 0 ELSE o
    BY <2>3 DEF OpenOK
  <2>7. CASE d.step = 0
    <3>1. Step(d) = d.count
      BY <2>7, StepIs
    <3>2. PICK r : r = t % s
      OBVIOUS
    <3>3. r = t - o
      BY <1>1, <2>3, <3>1, <3>2, OpenOrNew
    <3> QED BY <1>1, <1>3, <2>4, <2>5, <2>6, <2>7, <3>1, <3>2, <3>3 DEF IdOf
  <2>8. CASE d.step # 0
    BY <1>3, <2>4, <2>5, <2>6, <2>8 DEF IdOf
  <2> QED BY <2>7, <2>8
<1> QED BY <1>4, <1>5

\* A window that begins after so many messages has the next one.
Within(o, u, d) == o \in Nat /\ o % Step(d) = 0 /\ o < u /\ u <= o + d.count

\* The windows of a message: those that are open, with the message.
CountedOK(cs, log, k, u, d) ==
    /\ cs \in Seq(CountData)
    /\ \A i \in 1..Len(cs) :
          Within(u - cs[i].count, u, d) /\ OpenOK(cs[i], log, k, u - cs[i].count, u, d)
    /\ \A o : Within(o, u, d) => \E i \in 1..Len(cs) : cs[i].count = u - o
    /\ \A i, j \in 1..Len(cs) : i < j => cs[i].count > cs[j].count

\* A window that is open or new.
OpenedOK(w, log, k, t, d, stamp, id) ==
    \/ OffsetOK(t - w.count, t, d) /\ OpenOK(w, log, k, t - w.count, t, d)
    \/ t % Step(d) = 0 /\ w = NewCountWindow(stamp, id)

\* The windows are open or new, and none that has the next message is missing.
AllOpened(op, log, k, t, d, stamp, id) ==
    /\ op \in Seq(CountData)
    /\ \A i \in 1..Len(op) : OpenedOK(op[i], log, k, t, d, stamp, id)
    /\ \A o : Within(o, t + 1, d) => \E i \in 1..Len(op) : op[i].count = t - o
    /\ \A i, j \in 1..Len(op) : i < j => op[i].count > op[j].count

\* A new window has types.
LEMMA NewData ==
  ASSUME NEW stamp \in Nat, NEW id \in Nat, NEW w, w = NewCountWindow(stamp, id)
  PROVE  /\ w \in CountData /\ w.count = 0 /\ w.start = stamp /\ w.end = stamp /\ w.messages = {}
         /\ w.firstId = id
BY DEF NewCountWindow, CountData

\* The windows with a new one if the message begins one.
LEMMA OpenedIs ==
  ASSUME NEW d, d = definition, CountDefinition(d), NEW cnt, NEW log, NEW k, NEW t \in Nat,
         CountingOK(cnt, log, k, t, d), NEW stamp \in Nat, NEW id \in Nat,
         NEW op, op = IF OpensWindow(cnt) THEN Append(cnt, NewCountWindow(stamp, id)) ELSE cnt
  PROVE  AllOpened(op, log, k, t, d, stamp, id)
<1>1. PICK s \in Nat \ {0} : s = Step(d)
  BY StepIs
<1>2. PICK c \in Nat : c = d.count
  BY StepIs
<1>3. OpensWindow(cnt) <=> t % s = 0
  BY <1>1, OpensIs
<1>4. PICK e : e = NewCountWindow(stamp, id)
  OBVIOUS
<1>5. e \in CountData /\ e.count = 0
  BY <1>4, NewData
<1>6. /\ cnt \in Seq(CountData)
      /\ \A i \in 1..Len(cnt) :
            OffsetOK(t - cnt[i].count, t, d) /\ OpenOK(cnt[i], log, k, t - cnt[i].count, t, d)
      /\ \A o : OffsetOK(o, t, d) => \E i \in 1..Len(cnt) : cnt[i].count = t - o
      /\ \A i, j \in 1..Len(cnt) : i < j => cnt[i].count > cnt[j].count
  BY DEF CountingOK
<1>7. \A i \in 1..Len(cnt) : cnt[i] \in CountData /\ cnt[i].count \in Nat /\ cnt[i].count > 0
  <2>1. \A i \in 1..Len(cnt) : cnt[i] \in CountData
    BY <1>6
  <2>2. \A i \in 1..Len(cnt) : cnt[i].count \in Nat
    BY <2>1 DEF CountData
  <2>3. \A i \in 1..Len(cnt) : t - cnt[i].count < t
    BY <1>6 DEF OffsetOK
  <2> QED BY <2>1, <2>2, <2>3
<1>8. \A o : Within(o, t + 1, d) => OffsetOK(o, t, d) \/ (o = t /\ t % s = 0)
  BY <1>1, <1>2 DEF Within, OffsetOK
<1>9. CASE t % s = 0
  <2>1. op = Append(cnt, e)
    BY <1>3, <1>4, <1>9
  <2>2. /\ op \in Seq(CountData) /\ Len(op) = Len(cnt) + 1 /\ Len(cnt) \in Nat
        /\ op[Len(cnt) + 1] = e /\ \A i \in 1..Len(cnt) : op[i] = cnt[i]
    BY <1>5, <1>6, <2>1
  <2>3. \A i \in 1..Len(op) : i \in 1..Len(cnt) \/ i = Len(cnt) + 1
    BY <2>2
  <2>4. \A i \in 1..Len(op) : OpenedOK(op[i], log, k, t, d, stamp, id)
    BY <1>1, <1>4, <1>6, <1>9, <2>2, <2>3 DEF OpenedOK
  <2>5. \A i, j \in 1..Len(op) : i < j => op[i].count > op[j].count
    <3> SUFFICES ASSUME NEW i \in 1..Len(op), NEW j \in 1..Len(op), i < j
                 PROVE  op[i].count > op[j].count
      OBVIOUS
    <3>1. i \in 1..Len(cnt)
      BY <2>2
    <3>2. CASE j \in 1..Len(cnt)
      BY <1>6, <2>2, <3>1, <3>2
    <3>3. CASE j = Len(cnt) + 1
      BY <1>5, <1>7, <2>2, <3>1, <3>3
    <3> QED BY <2>3, <3>2, <3>3
  <2>6. ASSUME NEW o, Within(o, t + 1, d)
        PROVE  \E i \in 1..Len(op) : op[i].count = t - o
    <3>1. CASE OffsetOK(o, t, d)
      <4>1. PICK i \in 1..Len(cnt) : cnt[i].count = t - o
        BY <1>6, <3>1
      <4> QED BY <2>2, <4>1
    <3>2. CASE o = t
      <4>1. Len(cnt) + 1 \in 1..Len(op) /\ op[Len(cnt) + 1].count = t - o
        BY <1>5, <2>2, <3>2
      <4> QED BY <4>1
    <3> QED BY <1>8, <2>6, <3>1, <3>2
  <2> QED BY <2>2, <2>4, <2>5, <2>6 DEF AllOpened
<1>10. CASE t % s # 0
  <2>1. op = cnt
    BY <1>3, <1>10
  <2>2. \A i \in 1..Len(op) : OpenedOK(op[i], log, k, t, d, stamp, id)
    BY <1>6, <2>1 DEF OpenedOK
  <2>3. \A o : Within(o, t + 1, d) => OffsetOK(o, t, d)
    BY <1>8, <1>10
  <2> QED BY <1>6, <2>1, <2>2, <2>3 DEF AllOpened
<1> QED BY <1>9, <1>10

\* The smaller of two numbers.
LEMMA MinOfTwo ==
  ASSUME NEW x \in Int, NEW y \in Int
  PROVE  Min({x, y}) = IF x <= y THEN x ELSE y
<1>1. \E z \in {x, y} : \A w \in {x, y} : w >= z
  OBVIOUS
<1>2. Min({x, y}) \in {x, y} /\ \A w \in {x, y} : w >= Min({x, y})
  BY <1>1, Zenon DEF Min
<1> QED BY <1>2

\* A window that has counted one more message.
HasCounted(w, x, stamp, n, d) ==
    /\ x \in CountData /\ x.count = w.count + 1 /\ x.firstId = w.firstId
    /\ x.start = IF w.start <= stamp THEN w.start ELSE stamp
    /\ x.end = IF w.end >= stamp THEN w.end ELSE stamp
    /\ x.messages = IF d.aggregate THEN w.messages \cup {n} ELSE w.messages

\* A window with one more message.
LEMMA CountedFields ==
  ASSUME NEW d, d = definition, NEW w \in CountData, NEW stamp \in Nat, NEW n \in Nat,
         NEW x, x = Counted(w, stamp, n)
  PROVE  HasCounted(w, x, stamp, n, d)
<1>1. PICK a, b \in Nat : a = w.start /\ b = w.end
  BY DEF CountData
<1>2. w.count \in Nat /\ w.messages \in SUBSET Nat /\ w.firstId \in Nat
  BY DEF CountData
<1>3. PICK e \in Nat : e = Min({a, stamp}) /\ e = IF a <= stamp THEN a ELSE stamp
  BY MinOfTwo
<1>4. PICK f \in Nat : f = Max({b, stamp}) /\ f = IF b >= stamp THEN b ELSE stamp
  BY MaxOfTwo
<1>5. PICK g : g = IF d.aggregate THEN w.messages \cup {n} ELSE w.messages
  OBVIOUS
<1>6. g \in SUBSET Nat
  BY <1>2, <1>5
<1>7. x = [w EXCEPT !.count = @ + 1, !.start = e, !.end = f, !.messages = g]
  BY <1>1, <1>3, <1>4, <1>5 DEF Counted
<1>8. w = [count |-> w.count, start |-> w.start, end |-> w.end, messages |-> w.messages,
           firstId |-> w.firstId]
  BY DEF CountData
<1>9. x = [count |-> w.count + 1, start |-> e, end |-> f, messages |-> g, firstId |-> w.firstId]
  BY <1>7, <1>8
<1>10. x \in CountData
  BY <1>2, <1>6, <1>9 DEF CountData
<1> QED BY <1>1, <1>3, <1>4, <1>5, <1>9, <1>10 DEF HasCounted

\* Timestamps span one more message.
LEMMA SpansGrow ==
  ASSUME NEW log, NEW m, NEW new, NEW l, OneMore(log, m, new, l), NEW run, run \subseteq 1..l,
         NEW first \in Nat, NEW last \in Nat,
         Spans(log, run, first, last) \/ (run = {} /\ first = m.stamp /\ last = m.stamp),
         NEW a, a = IF first <= m.stamp THEN first ELSE m.stamp,
         NEW b, b = IF last >= m.stamp THEN last ELSE m.stamp
  PROVE  Spans(new, run \cup {l + 1}, a, b)
<1>1. /\ l \in Nat /\ l = Len(log) /\ new[l + 1] = m /\ m.stamp \in Nat
      /\ \A n \in 1..l : new[n] = log[n] /\ log[n].stamp \in Nat
  <2>1. m.stamp \in Nat
    BY DEF OneMore, WindowMessage
  <2>2. \A n \in 1..Len(log) : log[n].stamp \in Nat
    BY MessageTypes DEF OneMore
  <2> QED BY <2>1, <2>2 DEF OneMore
<1>2. \A n \in run : new[n].stamp = log[n].stamp /\ log[n].stamp \in Nat
  BY <1>1
<1>3. new[l + 1].stamp = m.stamp
  BY <1>1
<1>4. CASE run = {} /\ first = m.stamp /\ last = m.stamp
  BY <1>1, <1>3, <1>4 DEF Spans
<1>5. CASE Spans(log, run, first, last)
  <2>1. \A n \in run : first <= new[n].stamp /\ new[n].stamp <= last
    BY <1>2, <1>5 DEF Spans
  <2>2. PICK n \in run : new[n].stamp = first
    BY <1>2, <1>5 DEF Spans
  <2>3. PICK j \in run : new[j].stamp = last
    BY <1>2, <1>5 DEF Spans
  <2>4. \A i \in run \cup {l + 1} : a <= new[i].stamp /\ new[i].stamp <= b
    BY <1>1, <1>2, <1>3, <2>1
  <2>5. \E i \in run \cup {l + 1} : new[i].stamp = a
    BY <1>3, <2>2
  <2>6. \E i \in run \cup {l + 1} : new[i].stamp = b
    BY <1>3, <2>3
  <2> QED BY <2>4, <2>5, <2>6, Zenon DEF Spans
<1> QED BY <1>4, <1>5

\* An open or new window has the messages since it began when it has one more.
LEMMA CountedOne ==
  ASSUME NEW log, NEW m, NEW new, NEW l, OneMore(log, m, new, l), NEW k, m.key = k,
         NEW t, t = Total(log, k), NEW d, d = definition, CountDefinition(d),
         NEW id \in Nat, d.collect => id = IdOf(t + 1, d),
         NEW w \in CountData, OpenedOK(w, log, k, t, d, m.stamp, id),
         NEW x, x = Counted(w, m.stamp, l + 1)
  PROVE  /\ x \in CountData /\ x.count = w.count + 1
         /\ Within((t + 1) - x.count, t + 1, d)
         /\ OpenOK(x, new, k, (t + 1) - x.count, t + 1, d)
<1>1. PICK s \in Nat \ {0} : s = Step(d)
  BY StepIs
<1>2. PICK c \in Nat : c = d.count /\ s <= c
  BY <1>1, StepIs
<1>3. t \in Nat /\ l \in Nat /\ m.stamp \in Nat /\ log \in Seq(WindowMessage) /\ l = Len(log)
  <2>1. t \in Nat
    BY NumberGrows
  <2> QED BY <2>1 DEF OneMore, WindowMessage
<1>4. PICK st \in Nat : st = m.stamp
  BY <1>3
<1>5. /\ x \in CountData /\ x.count = w.count + 1 /\ x.firstId = w.firstId
      /\ x.start = IF w.start <= st THEN w.start ELSE st
      /\ x.end = IF w.end >= st THEN w.end ELSE st
      /\ x.messages = IF d.aggregate THEN w.messages \cup {l + 1} ELSE w.messages
  <2>1. l + 1 \in Nat /\ m.stamp \in Nat
    BY <1>3
  <2>2. HasCounted(w, x, m.stamp, l + 1, d)
    BY <2>1, CountedFields
  <2> QED BY <1>4, <2>2 DEF HasCounted
<1>6. w.count \in Nat /\ w.start \in Nat /\ w.end \in Nat
  BY DEF CountData
<1>7. PICK o : o = t - w.count
  OBVIOUS
<1>8. (t + 1) - x.count = o
  BY <1>3, <1>5, <1>6, <1>7
<1>9. PICK run : run = Run(log, k, o + 1, t)
  OBVIOUS
<1>10. CASE OffsetOK(o, t, d) /\ OpenOK(w, log, k, o, t, d)
  <2>1. o \in Nat /\ o % s = 0 /\ o < t /\ t < o + c
    BY <1>1, <1>2, <1>10 DEF OffsetOK
  <2>2. Within(o, t + 1, d)
    BY <1>1, <1>2, <1>3, <2>1 DEF Within
  <2>3. Run(new, k, o + 1, t + 1) = run \cup {l + 1}
    <3>1. Run(new, k, o + 1, t + 1) = Run(log, k, o + 1, t + 1) \cup {l + 1}
      <4>1. PICK a \in Int, b \in Int : a = o + 1 /\ b = t + 1
        BY <1>3, <2>1
      <4>2. Run(new, k, a, b) = Run(log, k, a, b) \cup
              (IF m.key = k /\ Total(log, k) + 1 \in a..b THEN {l + 1} ELSE {})
        BY RunGrows
      <4>3. t + 1 \in a..b
        BY <1>3, <2>1, <4>1
      <4> QED BY <4>1, <4>2, <4>3
    <3>2. Run(log, k, o + 1, t + 1) = run
      <4>1. \A n \in 1..Len(log) : log[n].key = k => Number(log, k, n) \in 1..t
        BY <1>3, NumbersOf
      <4>2. \A n : n \in Run(log, k, o + 1, t + 1) <=> n \in run
        BY <1>3, <1>9, <2>1, <4>1 DEF Run
      <4> QED BY <4>2
    <3> QED BY <3>1, <3>2
  <2>4. run \subseteq 1..l
    BY <1>3, <1>9 DEF Run
  <2>5. Spans(log, run, w.start, w.end)
    BY <1>9, <1>10 DEF OpenOK
  <2>6. Spans(new, run \cup {l + 1}, x.start, x.end)
    <3>1. PICK a, b \in Nat : a = w.start /\ b = w.end
      BY <1>6
    <3>2. Spans(log, run, a, b)
      BY <2>5, <3>1
    <3>3. /\ x.start = (IF a <= m.stamp THEN a ELSE m.stamp)
          /\ x.end = IF b >= m.stamp THEN b ELSE m.stamp
      BY <1>4, <1>5, <3>1
    <3> QED BY <2>4, <3>2, <3>3, SpansGrow
  <2>7. w.messages = IF d.aggregate THEN run ELSE {}
    BY <1>9, <1>10 DEF OpenOK
  <2>8. d.collect => w.firstId = IF d.step = 0 THEN 0 ELSE o
    BY <1>10 DEF OpenOK
  <2>9. x.messages = IF d.aggregate THEN run \cup {l + 1} ELSE {}
    BY <1>5, <2>7
  <2>10. OpenOK(x, new, k, o, t + 1, d)
    BY <1>5, <2>3, <2>6, <2>8, <2>9 DEF OpenOK
  <2> QED BY <1>5, <1>8, <2>2, <2>10
<1>11. CASE t % s = 0 /\ w = NewCountWindow(st, id)
  <2>1. /\ w.count = 0 /\ w.start = st /\ w.end = st /\ w.messages = {} /\ w.firstId = id
    BY <1>11, NewData
  <2>2. o = t
    BY <1>3, <1>7, <2>1
  <2>3. Within(t, t + 1, d)
    BY <1>1, <1>2, <1>3, <1>11 DEF Within
  <2>4. Run(new, k, t + 1, t + 1) = {l + 1}
    <3>1. PICK a \in Int : a = t + 1
      BY <1>3
    <3>2. Run(new, k, a, a) = Run(log, k, a, a) \cup
              (IF m.key = k /\ Total(log, k) + 1 \in a..a THEN {l + 1} ELSE {})
      BY RunGrows
    <3>3. Run(log, k, a, a) = {}
      <4>1. \A n \in 1..Len(log) : log[n].key = k => Number(log, k, n) \in 1..t
        BY <1>3, NumbersOf
      <4> QED BY <1>3, <3>1, <4>1 DEF Run
    <3> QED BY <3>1, <3>2, <3>3
  <2>5. Spans(new, {l + 1}, x.start, x.end)
    <3>1. x.start = st /\ x.end = st
      BY <1>5, <2>1
    <3>2. new[l + 1].stamp = st
      BY <1>4 DEF OneMore
    <3> QED BY <3>1, <3>2 DEF Spans
  <2>6. x.messages = IF d.aggregate THEN {l + 1} ELSE {}
    BY <1>5, <2>1
  <2>7. d.collect => x.firstId = IF d.step = 0 THEN 0 ELSE t
    <3>1. PICK r : r = t % s
      OBVIOUS
    <3>2. d.step = 0 => s = d.count
      BY <1>1, StepIs
    <3>3. (t + 1) - 1 = t
      BY <1>3
    <3> QED BY <1>5, <1>11, <2>1, <3>2, <3>3 DEF IdOf
  <2>8. OpenOK(x, new, k, t, t + 1, d)
    BY <2>4, <2>5, <2>6, <2>7 DEF OpenOK
  <2> QED BY <1>5, <1>8, <2>2, <2>3, <2>8
<1>12. \/ OffsetOK(o, t, d) /\ OpenOK(w, log, k, o, t, d)
       \/ t % s = 0 /\ w = NewCountWindow(st, id)
  BY <1>1, <1>4, <1>7 DEF OpenedOK
<1> QED BY <1>10, <1>11, <1>12

\* The windows of a message when it has been counted.
LEMMA CountedIs ==
  ASSUME NEW log, NEW m, NEW new, NEW l, OneMore(log, m, new, l), NEW k, m.key = k,
         NEW t, t = Total(log, k), NEW d, d = definition, CountDefinition(d),
         NEW cnt, CountingOK(cnt, log, k, t, d),
         NEW id \in Nat, d.collect => id = IdOf(t + 1, d),
         NEW op, op = IF OpensWindow(cnt) THEN Append(cnt, NewCountWindow(m.stamp, id)) ELSE cnt,
         NEW cs, cs = [i \in DOMAIN op |-> Counted(op[i], m.stamp, l + 1)]
  PROVE  CountedOK(cs, new, k, t + 1, d)
<1>1. t \in Nat
  BY NumberGrows
<1>2. m.stamp \in Nat
  BY DEF OneMore, WindowMessage
<1>3. /\ op \in Seq(CountData)
      /\ \A i \in 1..Len(op) : OpenedOK(op[i], log, k, t, d, m.stamp, id)
      /\ \A o : Within(o, t + 1, d) => \E i \in 1..Len(op) : op[i].count = t - o
      /\ \A i, j \in 1..Len(op) : i < j => op[i].count > op[j].count
  <2>1. AllOpened(op, log, k, t, d, m.stamp, id)
    BY <1>1, <1>2, OpenedIs
  <2> QED BY <2>1 DEF AllOpened
<1>4. \A i \in 1..Len(op) : op[i] \in CountData
  BY <1>3
<1>5. DOMAIN op = 1..Len(op) /\ Len(op) \in Nat
  BY <1>3
<1>6. \A i \in 1..Len(op) : cs[i] = Counted(op[i], m.stamp, l + 1)
  BY <1>5
<1>7. ASSUME NEW i \in 1..Len(op)
      PROVE  /\ cs[i] \in CountData /\ cs[i].count = op[i].count + 1
             /\ Within((t + 1) - cs[i].count, t + 1, d)
             /\ OpenOK(cs[i], new, k, (t + 1) - cs[i].count, t + 1, d)
  <2>1. PICK w : w = op[i]
    OBVIOUS
  <2>2. PICK x : x = Counted(w, m.stamp, l + 1)
    OBVIOUS
  <2>3. w \in CountData /\ OpenedOK(w, log, k, t, d, m.stamp, id)
    BY <1>3, <1>4, <2>1
  <2>4. /\ x \in CountData /\ x.count = w.count + 1
        /\ Within((t + 1) - x.count, t + 1, d)
        /\ OpenOK(x, new, k, (t + 1) - x.count, t + 1, d)
    BY <2>2, <2>3, CountedOne
  <2>5. cs[i] = x
    BY <1>6, <2>1, <2>2
  <2> QED BY <2>1, <2>4, <2>5
<1>8. cs \in Seq(CountData) /\ Len(cs) = Len(op)
  <2>1. cs = [i \in 1..Len(op) |-> Counted(op[i], m.stamp, l + 1)]
    BY <1>5
  <2>2. \A i \in 1..Len(op) : Counted(op[i], m.stamp, l + 1) \in CountData
    BY <1>6, <1>7
  <2> HIDE DEF CountData
  <2> QED BY <1>5, <2>1, <2>2
<1>9. \A i \in 1..Len(op) : op[i].count \in Nat
  BY <1>4 DEF CountData
<1>10. ASSUME NEW i \in 1..Len(op), NEW j \in 1..Len(op), i < j
       PROVE  cs[i].count > cs[j].count
  <2>1. PICK a \in Nat : a = op[i].count
    BY <1>9
  <2>2. PICK b \in Nat : b = op[j].count
    BY <1>9
  <2>3. a > b
    BY <1>3, <1>10, <2>1, <2>2
  <2>4. cs[i].count = a + 1 /\ cs[j].count = b + 1
    BY <1>7, <2>1, <2>2
  <2>5. a + 1 > b + 1
    BY <2>1, <2>2, <2>3
  <2> QED BY <2>4, <2>5
<1>11. ASSUME NEW o, Within(o, t + 1, d)
       PROVE  \E i \in 1..Len(op) : cs[i].count = (t + 1) - o
  <2>1. PICK i \in 1..Len(op) : op[i].count = t - o
    BY <1>3, <1>11
  <2>2. o \in Nat
    BY <1>11 DEF Within
  <2>3. cs[i].count = op[i].count + 1
    BY <1>7, <2>1
  <2> QED BY <1>1, <2>1, <2>2, <2>3
<1> QED BY <1>7, <1>8, <1>10, <1>11 DEF CountedOK

\* The oldest window is complete if it has the count of messages, and the others are open.
CompletedOK(cs, log, k, u, d) ==
    /\ Len(cs) \in Nat \ {0} /\ cs[1] \in CountData /\ cs[1].count \in Nat
    /\ Complete(cs[1]) => cs[1].count = d.count
    /\ ~Complete(cs[1]) => CountingOK(cs, log, k, u, d)
    /\ Complete(cs[1]) => CountingOK(Tail(cs), log, k, u, d)
    /\ \A o : Within(o, u, d) /\ u = o + d.count => Complete(cs[1]) /\ o = u - cs[1].count

\* The oldest window is complete with its last message, and the others stay open.
LEMMA CompletedIs ==
  ASSUME NEW d, d = definition, CountDefinition(d), NEW log, NEW k, NEW u \in Nat \ {0},
         NEW cs, CountedOK(cs, log, k, u, d)
  PROVE  CompletedOK(cs, log, k, u, d)
<1>1. PICK s \in Nat \ {0} : s = Step(d)
  BY StepIs
<1>2. PICK c \in Nat : c = d.count /\ s <= c
  BY <1>1, StepIs
<1>3. /\ cs \in Seq(CountData)
      /\ \A i \in 1..Len(cs) :
            Within(u - cs[i].count, u, d) /\ OpenOK(cs[i], log, k, u - cs[i].count, u, d)
      /\ \A o : Within(o, u, d) => \E i \in 1..Len(cs) : cs[i].count = u - o
      /\ \A i, j \in 1..Len(cs) : i < j => cs[i].count > cs[j].count
  BY DEF CountedOK
<1>4. \A o : Within(o, u, d) <=> o \in Nat /\ o % s = 0 /\ o < u /\ u <= o + c
  BY <1>1, <1>2 DEF Within
<1>5. \A o : OffsetOK(o, u, d) <=> o \in Nat /\ o % s = 0 /\ o < u /\ u < o + c
  BY <1>1, <1>2 DEF OffsetOK
<1>6. \E o : Within(o, u, d)
  <2>1. PICK v \in Nat : u = v + 1
    <3>1. u - 1 \in Nat /\ u = (u - 1) + 1
      OBVIOUS
    <3> QED BY <3>1
  <2>2. PICK f : f = Floor(v, s)
    OBVIOUS
  <2>3. f \in Nat /\ f % s = 0 /\ f <= v /\ v < f + s
    BY <2>2, FloorIs
  <2> QED BY <1>1, <1>2, <1>4, <2>1, <2>3
<1>7. Len(cs) \in Nat \ {0} /\ \A i \in 1..Len(cs) : cs[i] \in CountData /\ cs[i].count \in Nat
  <2>1. Len(cs) \in Nat /\ \A i \in 1..Len(cs) : cs[i] \in CountData
    BY <1>3
  <2>2. Len(cs) # 0
    BY <1>3, <1>6, <2>1
  <2> QED BY <2>1, <2>2 DEF CountData
<1>8. 1 \in 1..Len(cs) /\ cs[1] \in CountData /\ cs[1].count \in Nat
  BY <1>7
<1>9. PICK n \in Nat : n = cs[1].count
  BY <1>8
<1>10. \A i \in 1..Len(cs) : i = 1 \/ cs[i].count < n
  BY <1>3, <1>7, <1>8, <1>9
<1>11. Complete(cs[1]) <=> n >= c
  BY <1>2, <1>9 DEF Complete
<1>12. ASSUME NEW i \in 1..Len(cs)
       PROVE  /\ cs[i].count > 0 /\ cs[i].count <= c
              /\ cs[i].count < c => OffsetOK(u - cs[i].count, u, d)
  <2>1. PICK a \in Nat : a = cs[i].count
    BY <1>7
  <2>2. PICK o : o = u - a
    OBVIOUS
  <2>3. Within(o, u, d)
    BY <1>3, <2>1, <2>2
  <2>4. o \in Nat /\ o % s = 0 /\ o < u /\ u <= o + c
    BY <1>4, <2>3
  <2>7. o \in Int /\ u \in Int /\ c \in Int /\ o < u /\ u <= o + c
    BY <1>2, <2>4
  <2>5. a > 0 /\ a <= c
    BY <2>2, <2>7
  <2>6. a < c => OffsetOK(o, u, d)
    BY <1>2, <1>5, <2>1, <2>2, <2>4
  <2> QED BY <2>1, <2>2, <2>5, <2>6
<1>13. n <= c /\ n > 0
  BY <1>8, <1>9, <1>12
<1>14. Complete(cs[1]) => n = c
  BY <1>11, <1>13
<1>15. \A i \in 1..Len(cs) : cs[i].count < c => OffsetOK(u - cs[i].count, u, d)
  BY <1>12
<1>16. \A o : OffsetOK(o, u, d) => Within(o, u, d)
  BY <1>2, <1>4, <1>5
<1>17. CASE ~Complete(cs[1])
  <2>1. \A i \in 1..Len(cs) : cs[i].count < c
    BY <1>2, <1>7, <1>9, <1>10, <1>11, <1>17
  <2>2. CountingOK(cs, log, k, u, d)
    BY <1>3, <1>15, <1>16, <2>1 DEF CountingOK
  <2>3. \A o : Within(o, u, d) => u # o + d.count
    <3> SUFFICES ASSUME NEW o, Within(o, u, d), u = o + d.count
                 PROVE  FALSE
      OBVIOUS
    <3>1. o \in Nat
      BY <1>4
    <3>2. PICK i \in 1..Len(cs) : cs[i].count = u - o
      BY <1>3
    <3> QED BY <1>2, <2>1, <3>1, <3>2
  <2> QED BY <1>7, <1>8, <1>17, <2>2, <2>3, Zenon DEF CompletedOK
<1>18. CASE Complete(cs[1])
  <2>1. n = c /\ n = cs[1].count
    BY <1>9, <1>14, <1>18
  <2>2. PICK l \in Nat : Len(cs) = l + 1
    <3>1. Len(cs) - 1 \in Nat /\ Len(cs) = (Len(cs) - 1) + 1
      BY <1>7
    <3> QED BY <3>1
  <2>3. PICK rest : rest = Tail(cs)
    OBVIOUS
  <2>4. /\ rest \in Seq(CountData) /\ Len(rest) = l
        /\ \A i \in 1..l : rest[i] = cs[i + 1]
    BY <1>3, <2>2, <2>3
  <2>5. \A i \in 1..l : i + 1 \in 1..Len(cs) /\ cs[i + 1].count < c
    BY <1>10, <2>1, <2>2
  <2>6. \A i \in 1..Len(rest) :
           OffsetOK(u - rest[i].count, u, d) /\ OpenOK(rest[i], log, k, u - rest[i].count, u, d)
    BY <1>3, <1>15, <2>4, <2>5
  <2>7. \A i, j \in 1..Len(rest) : i < j => rest[i].count > rest[j].count
    <3> SUFFICES ASSUME NEW i \in 1..l, NEW j \in 1..l, i < j
                 PROVE  rest[i].count > rest[j].count
      BY <2>4
    <3>1. i + 1 \in 1..Len(cs) /\ j + 1 \in 1..Len(cs) /\ i + 1 < j + 1
      BY <2>2
    <3>2. cs[i + 1].count > cs[j + 1].count
      BY <1>3, <3>1
    <3> QED BY <2>4, <3>2
  <2>8. ASSUME NEW o, OffsetOK(o, u, d)
        PROVE  \E i \in 1..Len(rest) : rest[i].count = u - o
    <3>1. PICK i \in 1..Len(cs) : cs[i].count = u - o
      BY <1>3, <1>16, <2>8
    <3>2. u - o < c
      BY <1>2, <1>5, <2>8
    <3>3. i # 1
      BY <1>2, <2>1, <3>1, <3>2
    <3>4. PICK j \in 1..l : i = j + 1
      <4>1. i - 1 \in 1..l /\ i = (i - 1) + 1
        BY <2>2, <3>1, <3>3
      <4> QED BY <4>1
    <3> QED BY <2>4, <3>1, <3>4
  <2>9. CountingOK(rest, log, k, u, d)
    BY <2>4, <2>6, <2>7, <2>8 DEF CountingOK
  <2>10. ASSUME NEW o, Within(o, u, d), u = o + d.count
         PROVE  o = u - cs[1].count
    <3>1. o \in Nat /\ u = o + c
      BY <1>2, <1>4, <2>10
    <3>2. o = u - c
      BY <1>2, <3>1
    <3> QED BY <2>1, <3>2
  <2> QED BY <1>2, <1>7, <1>8, <1>18, <2>1, <2>3, <2>9, <2>10 DEF CompletedOK
<1> QED BY <1>17, <1>18

\* A message of another key leaves the open windows of a key right.
LEMMA CountingStays ==
  ASSUME NEW log, NEW m, NEW new, NEW l, OneMore(log, m, new, l), NEW k, m.key # k,
         NEW t, t = Total(log, k), NEW d, NEW cnt, CountingOK(cnt, log, k, t, d)
  PROVE  CountingOK(cnt, new, k, t, d)
<1>1. t \in Nat /\ l = Len(log) /\ \A n \in 1..l : new[n] = log[n]
  BY NumberGrows DEF OneMore
<1>2. ASSUME NEW o \in Nat
      PROVE  Run(new, k, o + 1, t) = Run(log, k, o + 1, t)
  <2>1. PICK a \in Int : a = o + 1
    OBVIOUS
  <2>2. PICK b \in Int : b = t
    BY <1>1
  <2>3. Run(new, k, a, b) = Run(log, k, a, b) \cup
            (IF m.key = k /\ Total(log, k) + 1 \in a..b THEN {l + 1} ELSE {})
    BY RunGrows
  <2> QED BY <2>1, <2>2, <2>3
<1>3. ASSUME NEW w, NEW o \in Nat, OpenOK(w, log, k, o, t, d)
      PROVE  OpenOK(w, new, k, o, t, d)
  <2>1. PICK run : run = Run(log, k, o + 1, t)
    OBVIOUS
  <2>2. \A n \in run : new[n] = log[n]
    BY <1>1, <2>1 DEF Run
  <2>3. Spans(new, run, w.start, w.end)
    <3>1. Spans(log, run, w.start, w.end)
      BY <1>3, <2>1 DEF OpenOK
    <3> QED BY <2>2, <3>1 DEF Spans
  <2> QED BY <1>2, <1>3, <2>1, <2>3 DEF OpenOK
<1>4. /\ cnt \in Seq(CountData)
      /\ \A i \in 1..Len(cnt) :
            OffsetOK(t - cnt[i].count, t, d) /\ OpenOK(cnt[i], log, k, t - cnt[i].count, t, d)
      /\ \A o : OffsetOK(o, t, d) => \E i \in 1..Len(cnt) : cnt[i].count = t - o
      /\ \A i, j \in 1..Len(cnt) : i < j => cnt[i].count > cnt[j].count
  BY DEF CountingOK
<1>5. \A i \in 1..Len(cnt) : t - cnt[i].count \in Nat
  BY <1>4 DEF OffsetOK
<1>6. \A i \in 1..Len(cnt) : OpenOK(cnt[i], new, k, t - cnt[i].count, t, d)
  BY <1>3, <1>4, <1>5
<1> QED BY <1>4, <1>6 DEF CountingOK

-----------------------------------------------------------------------------
(* The values of a key. *)

\* The value of a message in a collection of count windows.
CountValue(log, k, n, d) == [id |-> IdOf(Number(log, k, n), d), counter |-> n]

\* A window that has not got all its messages of the key after t of them has the one with
\* the number.
Needed(number, t, d) == \E o \in Nat : o % Step(d) = 0 /\ o < number /\ t < o + d.count

\* The values of a key: those that open windows need, and for tumbling windows no others.
CollectedOK(values, log, k, t, d) ==
    /\ \A x \in values : \E n \in 1..Len(log) :
          /\ log[n].key = k /\ x = CountValue(log, k, n, d)
          /\ d.step = 0 => Floor(t, Step(d)) < Number(log, k, n)
    /\ \A n \in 1..Len(log) :
          log[n].key = k /\ Needed(Number(log, k, n), t, d) => CountValue(log, k, n, d) \in values

\* The values with the one of a message, if it is of the key.
WithValue(values, m, l, k, t, d) ==
    values \cup IF m.key = k THEN {[id |-> IdOf(t + 1, d), counter |-> l + 1]} ELSE {}

\* The value of the message is added.
LEMMA ValueAdded ==
  ASSUME NEW log, NEW m, NEW new, NEW l, OneMore(log, m, new, l), NEW k,
         NEW t, t = Total(log, k), NEW d, CountDefinition(d),
         NEW values, CollectedOK(values, log, k, t, d),
         NEW more, more = WithValue(values, m, l, k, t, d)
  PROVE  CollectedOK(more, new, k, t, d)
<1> more = values \cup (IF m.key = k THEN {[id |-> IdOf(t + 1, d), counter |-> l + 1]} ELSE {})
  BY Zenon DEF WithValue
<1>1. t \in Nat /\ l \in Nat /\ l = Len(log) /\ Len(new) = l + 1 /\ new[l + 1] = m
      /\ \A n \in 1..l : new[n] = log[n]
  <2>1. t \in Nat
    BY NumberGrows
  <2> QED BY <2>1 DEF OneMore
<1>2. PICK s \in Nat \ {0} : s = Step(d)
  BY StepIs
<1>3. \A n \in 1..l : Number(new, k, n) = Number(log, k, n)
  <2>1. \A n \in 1..l : n \in 0..l
    BY <1>1
  <2> QED BY <2>1, NumberGrows
<1>4. m.key = k => Number(new, k, l + 1) = t + 1
  <2>1. /\ Total(new, k) = Total(log, k) + IF m.key = k THEN 1 ELSE 0
        /\ Number(new, k, l + 1) = Total(new, k)
    BY NumberGrows
  <2> QED BY <2>1
<1>5. \A n \in 1..l : CountValue(new, k, n, d) = CountValue(log, k, n, d)
  BY <1>3 DEF CountValue
<1>6. m.key = k => CountValue(new, k, l + 1, d) = [id |-> IdOf(t + 1, d), counter |-> l + 1]
  BY <1>4 DEF CountValue
<1>7. \A n \in 1..l : n \in 1..l + 1
  BY <1>1
<1>8. l + 1 \in 1..l + 1 /\ \A n \in 1..l + 1 : n \in 1..l \/ n = l + 1
  BY <1>1
<1>9. ASSUME NEW x \in values
      PROVE  \E n \in 1..l + 1 :
                /\ new[n].key = k /\ x = CountValue(new, k, n, d)
                /\ d.step = 0 => Floor(t, Step(d)) < Number(new, k, n)
  <2>1. PICK n \in 1..l : /\ log[n].key = k /\ x = CountValue(log, k, n, d)
                          /\ d.step = 0 => Floor(t, Step(d)) < Number(log, k, n)
    BY <1>1, <1>9 DEF CollectedOK
  <2>2. n \in 1..l + 1 /\ new[n].key = k /\ CountValue(new, k, n, d) = CountValue(log, k, n, d)
        /\ Number(new, k, n) = Number(log, k, n)
    BY <1>1, <1>3, <1>5, <1>7, <2>1
  <2> QED BY <2>1, <2>2
<1>10. ASSUME m.key = k
       PROVE  \E n \in 1..l + 1 :
                /\ new[n].key = k
                /\ [id |-> IdOf(t + 1, d), counter |-> l + 1] = CountValue(new, k, n, d)
                /\ d.step = 0 => Floor(t, Step(d)) < Number(new, k, n)
  <2>1. PICK f : f = Floor(t, s)
    OBVIOUS
  <2>2. f \in Nat /\ f <= t
    BY <1>1, <1>2, <2>1, FloorIs
  <2>3. f < Number(new, k, l + 1)
    BY <1>1, <1>4, <1>10, <2>2
  <2> QED BY <1>1, <1>2, <1>6, <1>8, <1>10, <2>1, <2>3
<1>11. \A x \in more : \E n \in 1..Len(new) :
          /\ new[n].key = k /\ x = CountValue(new, k, n, d)
          /\ d.step = 0 => Floor(t, Step(d)) < Number(new, k, n)
  BY <1>1, <1>9, <1>10
<1>12. ASSUME NEW n \in 1..l + 1, new[n].key = k, Needed(Number(new, k, n), t, d)
       PROVE  CountValue(new, k, n, d) \in more
  <2>1. CASE n \in 1..l
    <3>1. log[n].key = k /\ Needed(Number(log, k, n), t, d)
      BY <1>1, <1>3, <1>12, <2>1
    <3>2. CountValue(log, k, n, d) \in values
      BY <1>1, <2>1, <3>1 DEF CollectedOK
    <3> QED BY <1>5, <2>1, <3>2
  <2>2. CASE n = l + 1
    BY <1>1, <1>6, <1>12, <2>2
  <2> QED BY <1>8, <2>1, <2>2
<1> QED BY <1>1, <1>11, <1>12 DEF CollectedOK

\* Between two multiples there is none.
LEMMA FloorOf ==
  ASSUME NEW s \in Nat \ {0}, NEW o \in Nat, o % s = 0, NEW x \in Nat, o <= x, x < o + s
  PROVE  Floor(x, s) = o
<1>1. PICK r : r = x % s
  OBVIOUS
<1>2. r = x - o
  BY <1>1, RemainderAbove
<1>3. Floor(x, s) = x - r
  BY <1>1 DEF Floor
<1> QED BY <1>2, <1>3

\* The same for any numbers.
LEMMA RemaindersAbove ==
  \A s \in Nat \ {0}, o \in Nat, x \in Nat :
     o % s = 0 /\ o <= x /\ x < o + s => x % s = x - o
BY RemainderAbove

\* The ids of the values of a key.
LEMMA ValueIds ==
  ASSUME NEW log \in Seq(WindowMessage), NEW k, NEW t \in Nat, NEW d, CountDefinition(d),
         NEW values, CollectedOK(values, log, k, t, d), NEW x \in values
  PROVE  \E n \in 1..Len(log), number \in Nat \ {0} :
            /\ log[n].key = k /\ number = Number(log, k, n) /\ number <= Total(log, k)
            /\ x = [id |-> IdOf(number, d), counter |-> n] /\ x.counter = n
            /\ d.step # 0 => x.id = number - 1
            /\ d.step = 0 => /\ x.id \in 0..d.count - 1 /\ Floor(t, d.count) < number
                             /\ x.id = (number - 1) % d.count
            /\ x.id \in Nat
<1>1. PICK s \in Nat \ {0} : s = Step(d)
  BY StepIs
<1>2. d.step = 0 => s = d.count
  BY <1>1, StepIs
<1>3. PICK n \in 1..Len(log) : /\ log[n].key = k /\ x = CountValue(log, k, n, d)
                               /\ d.step = 0 => Floor(t, s) < Number(log, k, n)
  BY <1>1 DEF CollectedOK
<1>4. PICK number : number = Number(log, k, n)
  OBVIOUS
<1>5. number \in 1..Total(log, k) /\ Total(log, k) \in Nat
  <2>1. Total(log, k) \in Nat
    BY NumberIs DEF Total
  <2> QED BY <1>3, <1>4, <2>1, NumbersOf
<1>6. x.id = IdOf(number, d) /\ x.counter = n /\ x = [id |-> IdOf(number, d), counter |-> n]
  BY <1>3, <1>4 DEF CountValue
<1>7. PICK j \in Nat : j = number - 1
  BY <1>5
<1>8. d.step # 0 => x.id = j
  BY <1>6, <1>7 DEF IdOf
<1>9. d.step = 0 => x.id = j % s
  BY <1>2, <1>6, <1>7 DEF IdOf
<1>10. j % s \in 0..s - 1
  BY <1>1, <1>7, Remainder
<1>11. x.id \in Nat
  BY <1>7, <1>8, <1>9, <1>10
<1>12. number \in Nat \ {0} /\ number <= Total(log, k)
  BY <1>5
<1> QED BY <1>2, <1>3, <1>4, <1>6, <1>7, <1>8, <1>9, <1>10, <1>11, <1>12

\* The collection of a window that is complete has its messages.
LEMMA CollectedRun ==
  ASSUME NEW log \in Seq(WindowMessage), NEW k, NEW t \in Nat, Total(log, k) = t + 1,
         NEW d, CountDefinition(d), CountAligned(d), d.collect,
         NEW values, CollectedOK(values, log, k, t, d), NEW s, s.values = values,
         NEW o, Within(o, t + 1, d), t + 1 = o + d.count,
         NEW from, from = IF d.step = 0 THEN 0 ELSE o
  PROVE  Collection(s, from, from + d.count) = Run(log, k, o + 1, t + 1)
<1>1. PICK step \in Nat \ {0} : step = Step(d)
  BY StepIs
<1>2. PICK c \in Nat : c = d.count /\ step <= c /\ (d.step = 0 => step = c)
  BY <1>1, StepIs
<1>3. o \in Nat /\ o % step = 0 /\ t + 1 = o + c
  BY <1>1, <1>2 DEF Within
<1>4. \A n : n \in Collection(s, from, from + c) <=>
         \E x \in values : from <= x.id /\ x.id < from + c /\ n = x.counter
  BY DEF Collection, ValuesBetween
<1>5. d.step = 0 => Floor(t, c) = o
  BY <1>2, <1>3, FloorOf
<1>6. ASSUME NEW x \in values, from <= x.id, x.id < from + c
      PROVE  x.counter \in Run(log, k, o + 1, t + 1)
  <2>1. PICK n \in 1..Len(log), number \in Nat \ {0} :
            /\ log[n].key = k /\ number = Number(log, k, n) /\ number <= Total(log, k)
            /\ x = [id |-> IdOf(number, d), counter |-> n] /\ x.counter = n
            /\ d.step # 0 => x.id = number - 1
            /\ d.step = 0 => /\ x.id \in 0..d.count - 1 /\ Floor(t, d.count) < number
                             /\ x.id = (number - 1) % d.count
            /\ x.id \in Nat
    BY ValueIds
  <2>2. number \in o + 1..t + 1
    <3>1. CASE d.step = 0
      BY <1>2, <1>3, <1>5, <2>1, <3>1
    <3>2. CASE d.step # 0
      BY <1>3, <1>6, <2>1, <3>2
    <3> QED BY <3>1, <3>2
  <2> QED BY <2>1, <2>2 DEF Run
<1>7. ASSUME NEW n \in Run(log, k, o + 1, t + 1)
      PROVE  \E x \in values : from <= x.id /\ x.id < from + c /\ n = x.counter
  <2>1. n \in 1..Len(log) /\ log[n].key = k
    BY DEF Run
  <2>2. PICK number \in Nat : number = Number(log, k, n) /\ o + 1 <= number /\ number <= t + 1
    BY <1>3 DEF Run
  <2>3. Needed(number, t, d)
    BY <1>1, <1>2, <1>3, <2>2 DEF Needed
  <2>4. CountValue(log, k, n, d) \in values
    BY <2>1, <2>2, <2>3 DEF CollectedOK
  <2>5. PICK x \in values : x = [id |-> IdOf(number, d), counter |-> n]
    BY <2>2, <2>4 DEF CountValue
  <2>6. PICK j \in Nat : j = number - 1
    BY <1>3, <2>2
  <2>7. CASE d.step = 0
    <3>1. PICK r : r = j % step
      OBVIOUS
    <3>2. o <= j /\ j < o + step
      BY <1>2, <1>3, <2>2, <2>6, <2>7
    <3>3. r = j - o
      <4>1. j \in Nat /\ o \in Nat /\ o % step = 0 /\ step \in Nat \ {0}
        BY <1>1, <1>3, <2>6
      <4> QED BY <3>1, <3>2, <4>1, RemaindersAbove
    <3>4. x.id = r
      BY <1>2, <2>5, <2>6, <2>7, <3>1 DEF IdOf
    <3> QED BY <1>2, <1>3, <2>5, <2>6, <2>7, <3>2, <3>3, <3>4
  <2>8. CASE d.step # 0
    <3>1. x.id = j
      BY <2>5, <2>6, <2>8 DEF IdOf
    <3> QED BY <1>2, <1>3, <2>2, <2>5, <2>6, <2>8, <3>1
  <2> QED BY <2>7, <2>8
<1>8. \A n : n \in Collection(s, from, from + c) <=> n \in Run(log, k, o + 1, t + 1)
  BY <1>4, <1>6, <1>7
<1> QED BY <1>2, <1>8

\* The values are those that are needed when there is one more message.
LEMMA ValuesCarry ==
  ASSUME NEW log \in Seq(WindowMessage), NEW k, NEW t \in Nat, Total(log, k) = t + 1,
         NEW d, CountDefinition(d), CountAligned(d), d.collect,
         NEW values, CollectedOK(values, log, k, t, d)
  PROVE  /\ (\A o : Within(o, t + 1, d) => t + 1 # o + d.count) =>
               CollectedOK(values, log, k, t + 1, d)
         /\ \A n \in 1..Len(log) :
               log[n].key = k /\ Needed(Number(log, k, n), t + 1, d) =>
                  CountValue(log, k, n, d) \in values
<1>1. PICK step \in Nat \ {0} : step = Step(d)
  BY StepIs
<1>2. PICK c \in Nat : c = d.count /\ step <= c /\ (d.step = 0 => step = c)
  BY <1>1, StepIs
<1>3. \A number : Needed(number, t + 1, d) => Needed(number, t, d)
  BY <1>1, <1>2 DEF Needed
<1>4. \A n \in 1..Len(log) :
         log[n].key = k /\ Needed(Number(log, k, n), t + 1, d) =>
            CountValue(log, k, n, d) \in values
  BY <1>3 DEF CollectedOK
<1>5. ASSUME \A o : Within(o, t + 1, d) => t + 1 # o + d.count, d.step = 0
      PROVE  Floor(t + 1, step) = Floor(t, step)
  <2>1. PICK f : f = Floor(t, step)
    OBVIOUS
  <2>2. f \in Nat /\ f % step = 0 /\ f <= t /\ t < f + step
    BY <1>1, <2>1, FloorIs
  <2>3. t + 1 # f + step
    <3>1. Within(f, t + 1, d)
      BY <1>1, <1>2, <2>2 DEF Within
    <3> QED BY <1>2, <1>5, <3>1
  <2>4. PICK u \in Nat : u = t + 1
    OBVIOUS
  <2>5. f <= u /\ u < f + step
    BY <1>1, <2>2, <2>3, <2>4
  <2>6. Floor(u, step) = f
    BY <1>1, <2>2, <2>5, FloorOf
  <2> QED BY <2>1, <2>4, <2>6
<1>6. ASSUME \A o : Within(o, t + 1, d) => t + 1 # o + d.count
      PROVE  CollectedOK(values, log, k, t + 1, d)
  BY <1>1, <1>4, <1>5, <1>6 DEF CollectedOK
<1> QED BY <1>4, <1>6

\* What a store has kept of a key.
ValuesLeft(s, log, k, t, d) ==
    IsState(s) /\ s.deletedValue \in Int /\ CollectedOK(s.values, log, k, t, d)

\* delete_from_collection() for a window that is complete leaves what later windows need, and
\* nothing if the ids start over.
LEMMA DiscardIs ==
  ASSUME NEW log \in Seq(WindowMessage), NEW k, NEW t \in Nat, Total(log, k) = t + 1,
         NEW d, d = definition, CountDefinition(d), CountAligned(d), d.collect,
         NEW s, ValuesLeft(s, log, k, t, d),
         NEW o, Within(o, t + 1, d), t + 1 = o + d.count,
         NEW w, w.firstId = IF d.step = 0 THEN 0 ELSE o,
         NEW x, x = Discard(s, w)
  PROVE  ValuesLeft(x, log, k, t + 1, d)
<1>1. PICK gap \in Nat \ {0} : gap = Step(d)
  BY StepIs
<1>2. PICK c \in Nat :
              c = d.count /\ gap <= c /\ (d.step = 0 => gap = c) /\ (d.step # 0 => gap = d.step)
  BY <1>1, StepIs
<1>3. o \in Nat /\ o % gap = 0 /\ t + 1 = o + c
  BY <1>1, <1>2 DEF Within
<1>4. PICK values : values = s.values
  OBVIOUS
<1>5. CollectedOK(values, log, k, t, d) /\ IsState(s) /\ s.deletedValue \in Int
  BY <1>4 DEF ValuesLeft
<1>6. \A v \in values : v.id \in Nat
  BY <1>5, ValueIds
<1>7. HaveIds(s)
  BY <1>4, <1>5, <1>6 DEF HaveIds
<1>8. PICK from \in Int : from = IF d.step = 0 THEN 0 ELSE s.deletedValue
  BY <1>5
<1>9. PICK to \in Nat : to = (IF d.step = 0 THEN 0 ELSE o) + gap
  BY <1>1, <1>3
<1>10. PICK y : y = DeleteCollection(s, from, to)
  OBVIOUS
<1>11. x = y
  BY <1>2, <1>8, <1>9, <1>10 DEF Discard, LastNeededId
<1>12. /\ IsState(y) /\ (y.deletedValue = s.deletedValue \/ y.deletedValue \in Nat)
       /\ \A v : v \in y.values <=> v \in values /\ ~(from <= v.id /\ v.id < to)
  BY <1>4, <1>5, <1>7, <1>8, <1>9, <1>10, DeleteFields
<1>13. ASSUME d.step = 0, NEW v \in y.values
       PROVE  FALSE
  <2>1. v \in values /\ ~(from <= v.id /\ v.id < to)
    BY <1>12
  <2>2. v.id \in 0..c - 1
    BY <1>2, <1>5, <1>13, <2>1, ValueIds
  <2> QED BY <1>2, <1>8, <1>9, <1>13, <2>1, <2>2
<1>14. ASSUME NEW n \in 1..Len(log), log[n].key = k, Needed(Number(log, k, n), t + 1, d)
       PROVE  CountValue(log, k, n, d) \in y.values
  <2>1. PICK v : v = CountValue(log, k, n, d)
    OBVIOUS
  <2>2. v \in values
    BY <1>5, <1>14, <2>1, ValuesCarry
  <2>3. PICK number \in Nat : number = Number(log, k, n) /\ number <= t + 1
    <3>1. Number(log, k, n) \in 1..Total(log, k)
      BY <1>14, NumbersOf
    <3> QED BY <3>1
  <2>4. PICK p \in Nat : p % gap = 0 /\ p < number /\ t + 1 < p + c
    BY <1>1, <1>2, <1>14, <2>3 DEF Needed
  <2>5. o + gap <= p
    <3>1. o < p
      BY <1>2, <1>3, <2>4
    <3> QED BY <1>1, <1>3, <2>4, <3>1, Multiples
  <2>6. d.step # 0
    BY <1>1, <1>2, <1>3, <2>3, <2>4, <2>5
  <2>7. v.id = number - 1
    BY <2>1, <2>3, <2>6 DEF CountValue, IdOf
  <2>8. ~(v.id < to)
    BY <1>1, <1>3, <1>9, <2>3, <2>4, <2>5, <2>6, <2>7
  <2> QED BY <1>12, <2>1, <2>2, <2>8
<1>15. ASSUME NEW v \in y.values
       PROVE  \E n \in 1..Len(log) :
                 /\ log[n].key = k /\ v = CountValue(log, k, n, d)
                 /\ d.step = 0 => Floor(t + 1, Step(d)) < Number(log, k, n)
  <2>1. d.step # 0
    BY <1>13, <1>15
  <2>2. v \in values
    BY <1>12, <1>15
  <2>3. PICK n \in 1..Len(log) : log[n].key = k /\ v = CountValue(log, k, n, d)
    BY <1>5, <2>2 DEF CollectedOK
  <2> QED BY <2>1, <2>3
<1>16. CollectedOK(y.values, log, k, t + 1, d)
  BY <1>14, <1>15 DEF CollectedOK
<1>17. y.deletedValue \in Int
  BY <1>5, <1>12
<1> QED BY <1>11, <1>12, <1>16, <1>17 DEF ValuesLeft

-----------------------------------------------------------------------------
(* Results. *)

\* A run of messages of a key that there is a result of: of final() when it is complete, of
\* current() from the first message on.
Expected(log, k, o, b, d) ==
    /\ o % Step(d) = 0 /\ o < b /\ b <= o + d.count /\ b <= Total(log, k)
    /\ d.emit # "current" => b = o + d.count

\* The result of a run: with its last message, and the first and the last timestamp.
RunResult(r, log, k, o, b, d) ==
    /\ r = [key |-> k, start |-> r.start, end |-> r.end,
            aggregated |-> IF d.aggregate THEN Run(log, k, o + 1, b) ELSE {},
            collected |-> IF d.collect THEN Run(log, k, o + 1, b) ELSE {},
            by |-> IF d.emit = "current" THEN "update" ELSE "count", at |-> r.at]
    /\ Spans(log, Run(log, k, o + 1, b), r.start, r.end)
    /\ r.at \in Run(log, k, o + 1, b) /\ \A n \in Run(log, k, o + 1, b) : n <= r.at

\* There is a result of every run, and of nothing else.
CountResultsOK(e, log, d) ==
    /\ \A r \in e : \E k \in Key : \E o, b \in Nat :
          Expected(log, k, o, b, d) /\ RunResult(r, log, k, o, b, d)
    /\ \A k \in Key : \A o, b \in Nat :
          Expected(log, k, o, b, d) => \E r \in e : RunResult(r, log, k, o, b, d)

\* What there is a result of with a message.
ExpectedNow(o, u, d) == Within(o, u, d) /\ (d.emit # "current" => u = o + d.count)

\* The results of a message.
ResultsNow(new, log, k, u, d) ==
    /\ \A r \in new : \E o : ExpectedNow(o, u, d) /\ RunResult(r, log, k, o, u, d)
    /\ \A o : ExpectedNow(o, u, d) => \E r \in new : RunResult(r, log, k, o, u, d)

\* A run that was there has the same result.
LEMMA ResultStays ==
  ASSUME NEW log, NEW m, NEW new, NEW l, OneMore(log, m, new, l), NEW k, NEW d,
         NEW o \in Nat, NEW b \in Nat, b <= Total(log, k)
  PROVE  \A r : RunResult(r, new, k, o, b, d) <=> RunResult(r, log, k, o, b, d)
<1>1. /\ Total(log, k) \in Nat /\ l = Len(log) /\ \A n \in 1..l : new[n] = log[n]
  BY NumberGrows DEF OneMore
<1>2. PICK run : run = Run(log, k, o + 1, b)
  OBVIOUS
<1>3. Run(new, k, o + 1, b) = run
  <2>1. PICK a \in Int : a = o + 1
    OBVIOUS
  <2>2. Run(new, k, a, b) = Run(log, k, a, b) \cup
            (IF m.key = k /\ Total(log, k) + 1 \in a..b THEN {l + 1} ELSE {})
    BY RunGrows
  <2>3. Total(log, k) + 1 \notin a..b
    BY <1>1, <2>1
  <2> QED BY <1>2, <2>1, <2>2, <2>3
<1>4. \A n \in run : new[n] = log[n]
  BY <1>1, <1>2 DEF Run
<1>5. \A r : Spans(new, run, r.start, r.end) <=> Spans(log, run, r.start, r.end)
  BY <1>4 DEF Spans
<1> QED BY <1>2, <1>3, <1>5, Zenon DEF RunResult

\* Results are right with those of one more message.
LEMMA CountResultsKept ==
  ASSUME NEW log, NEW m, NEW new, NEW l, OneMore(log, m, new, l), m.key \in Key,
         NEW d, CountDefinition(d), NEW e, CountResultsOK(e, log, d),
         NEW u, u = Total(new, m.key), NEW more, ResultsNow(more, new, m.key, u, d),
         NEW f, f = e \cup more
  PROVE  CountResultsOK(f, new, d)
<1>1. PICK key \in Key : key = m.key
  OBVIOUS
<1>2. PICK t \in Nat : t = Total(log, key)
  BY NumberGrows
<1>3. u = t + 1 /\ u = Total(new, key) /\ \A k \in Key : k # key => Total(new, k) = Total(log, k)
  <2>1. \A k : Total(new, k) = Total(log, k) + (IF m.key = k THEN 1 ELSE 0) /\ Total(log, k) \in Nat
    BY NumberGrows
  <2> QED BY <1>1, <1>2, <2>1
<1>4. \A k \in Key : Total(log, k) \in Nat
  BY NumberGrows
<1>5. ASSUME NEW k \in Key, NEW o \in Nat, NEW b \in Nat
      PROVE  Expected(new, k, o, b, d) <=>
                Expected(log, k, o, b, d) \/ (k = key /\ b = u /\ ExpectedNow(o, u, d))
  <2>1. CASE k # key
    BY <1>3, <2>1 DEF Expected
  <2>2. CASE k = key
    <3>1. PICK c \in Nat : c = d.count
      BY StepIs
    <3> QED BY <1>2, <1>3, <2>2, <3>1 DEF Expected, ExpectedNow, Within
  <2> QED BY <2>1, <2>2
<1>6. ASSUME NEW k \in Key, NEW o \in Nat, NEW b \in Nat, Expected(log, k, o, b, d)
      PROVE  \A r : RunResult(r, new, k, o, b, d) <=> RunResult(r, log, k, o, b, d)
  <2>1. b <= Total(log, k)
    BY <1>6 DEF Expected
  <2> QED BY <2>1, ResultStays
<1>7. \A o : ExpectedNow(o, u, d) => o \in Nat
  BY DEF ExpectedNow, Within
<1>8. ASSUME NEW r \in f
      PROVE  \E k \in Key : \E o, b \in Nat :
                Expected(new, k, o, b, d) /\ RunResult(r, new, k, o, b, d)
  <2>1. CASE r \in e
    <3>1. PICK k \in Key, o \in Nat, b \in Nat :
                  Expected(log, k, o, b, d) /\ RunResult(r, log, k, o, b, d)
      BY <2>1 DEF CountResultsOK
    <3> QED BY <1>5, <1>6, <3>1
  <2>2. CASE r \in more
    <3>1. PICK o : ExpectedNow(o, u, d) /\ RunResult(r, new, key, o, u, d)
      BY <1>1, <2>2 DEF ResultsNow
    <3>2. o \in Nat /\ u \in Nat
      BY <1>2, <1>3, <1>7, <3>1
    <3>3. Expected(new, key, o, u, d)
      BY <1>5, <3>1, <3>2
    <3> QED BY <3>1, <3>2, <3>3
  <2> QED BY <2>1, <2>2
<1>9. ASSUME NEW k \in Key, NEW o \in Nat, NEW b \in Nat, Expected(new, k, o, b, d)
      PROVE  \E r \in f : RunResult(r, new, k, o, b, d)
  <2>1. CASE Expected(log, k, o, b, d)
    <3>1. PICK r \in e : RunResult(r, log, k, o, b, d)
      BY <2>1 DEF CountResultsOK
    <3> QED BY <1>6, <2>1, <3>1
  <2>2. CASE k = key /\ b = u /\ ExpectedNow(o, u, d)
    <3>1. PICK r \in more : RunResult(r, new, key, o, u, d)
      BY <1>1, <2>2 DEF ResultsNow
    <3> QED BY <2>2, <3>1
  <2> QED BY <1>5, <1>9, <2>1, <2>2
<1> QED BY <1>8, <1>9 DEF CountResultsOK

-----------------------------------------------------------------------------
(* What a message does. *)

\* What a message does: cs are its windows, and s is the store with its value.
CountDoes(key, stamp, cs, s, d) ==
    /\ definition' = definition
    /\ arrived' = Append(arrived, [key |-> key, stamp |-> stamp])
    /\ counting' = [counting EXCEPT ![key] = IF Complete(cs[1]) THEN Tail(cs) ELSE cs]
    /\ store' = [store EXCEPT ![key] =
          IF Complete(cs[1]) THEN IF d.collect THEN Discard(s, cs[1]) ELSE s ELSE s]
    /\ emitted' = emitted \cup
          IF d.emit = "current"
          THEN {Result(key, w.start, w.end, w.messages, {}, "update") : w \in Range(cs)}
          ELSE IF Complete(cs[1])
               THEN {Result(key, cs[1].start, cs[1].end, cs[1].messages,
                            IF d.collect THEN Collection(s, cs[1].firstId, cs[1].firstId + d.count)
                                         ELSE {}, "count")}
               ELSE {}

\* process_window() of count windows does so.
LEMMA CountIs ==
  ASSUME NEW d, d = definition, NEW key, NEW stamp, ProcessCountWindow(key, stamp),
         NEW cnt, cnt = counting[key], NEW id, id = NextId(cnt),
         NEW op, op = IF OpensWindow(cnt) THEN Append(cnt, NewCountWindow(stamp, id)) ELSE cnt,
         NEW cs, cs = [i \in DOMAIN op |-> Counted(op[i], stamp, Incoming)],
         NEW s, s = IF d.collect THEN AddToCollection(store[key], id, Incoming) ELSE store[key]
  PROVE  CountDoes(key, stamp, cs, s, d)
<1> DEFINE Id == NextId(counting[key])
           Opened == IF OpensWindow(counting[key])
                     THEN Append(counting[key], NewCountWindow(stamp, Id)) ELSE counting[key]
           Every == [i \in DOMAIN Opened |-> Counted(Opened[i], stamp, Incoming)]
           State == IF definition.collect THEN AddToCollection(store[key], Id, Incoming)
                                          ELSE store[key]
           Updating1 == {Result(key, w.start, w.end, w.messages, {}, "update") : w \in Range(Every)}
           Values == IF definition.collect
                     THEN Collection(State, Every[1].firstId, Every[1].firstId + definition.count)
                     ELSE {}
           Done == Result(key, Every[1].start, Every[1].end, Every[1].messages, Values, "count")
<1>1. /\ IF Complete(Every[1])
         THEN /\ Emitted(Updating1, {Done})
              /\ counting' = [counting EXCEPT ![key] = Tail(Every)]
              /\ store' = [store EXCEPT ![key] =
                     IF definition.collect THEN Discard(State, Every[1]) ELSE State]
         ELSE /\ counting' = [counting EXCEPT ![key] = Every]
              /\ store' = [store EXCEPT ![key] = State]
              /\ Emitted(Updating1, {})
      /\ Arrives([key |-> key, stamp |-> stamp])
      /\ UNCHANGED <<definition, partitionExpired, late>>
  BY Zenon DEF ProcessCountWindow
<1>2. Opened = op /\ Id = id
  OBVIOUS
<1>3. Every = cs
  BY <1>2
<1>4. State = s
  BY <1>2
<1>5. Updating1 = {Result(key, w.start, w.end, w.messages, {}, "update") : w \in Range(cs)}
  BY <1>3
<1>6. Values = IF d.collect THEN Collection(s, cs[1].firstId, cs[1].firstId + d.count) ELSE {}
  BY <1>3, <1>4
<1> HIDE DEF Id, Opened, Every, State, Updating1, Values
<1>7. definition' = definition /\ arrived' = Append(arrived, [key |-> key, stamp |-> stamp])
  BY <1>1, Zenon DEF Arrives
<1>8. CASE Complete(cs[1])
  <2>1. /\ Emitted(Updating1,
                   {Result(key, cs[1].start, cs[1].end, cs[1].messages, Values, "count")})
        /\ counting' = [counting EXCEPT ![key] = Tail(cs)]
        /\ store' = [store EXCEPT ![key] = IF d.collect THEN Discard(s, cs[1]) ELSE s]
    BY <1>1, <1>3, <1>4, <1>8, Zenon
  <2>2. emitted' = emitted \cup
          IF d.emit = "current" THEN Updating1
          ELSE {Result(key, cs[1].start, cs[1].end, cs[1].messages, Values, "count")}
    BY <2>1 DEF Emitted
  <2>3. store' = [store EXCEPT ![key] =
           IF Complete(cs[1]) THEN IF d.collect THEN Discard(s, cs[1]) ELSE s ELSE s]
    <3> DEFINE x == IF d.collect THEN Discard(s, cs[1]) ELSE s
    <3>1. store' = [store EXCEPT ![key] = x]
      BY <2>1, Zenon
    <3> HIDE DEF x
    <3>2. x = IF Complete(cs[1]) THEN x ELSE s
      BY <1>8, Zenon
    <3>3. store' = [store EXCEPT ![key] = IF Complete(cs[1]) THEN x ELSE s]
      BY <3>1, <3>2, Zenon
    <3> QED BY <3>3, Zenon DEF x
  <2>4. {Result(key, cs[1].start, cs[1].end, cs[1].messages, Values, "count")} =
        {Result(key, cs[1].start, cs[1].end, cs[1].messages,
                IF d.collect THEN Collection(s, cs[1].firstId, cs[1].firstId + d.count) ELSE {},
                "count")}
    BY <1>6, Zenon
  <2>5. counting' = [counting EXCEPT ![key] = IF Complete(cs[1]) THEN Tail(cs) ELSE cs]
    <3>1. PICK rest : rest = Tail(cs)
      OBVIOUS
    <3>2. counting' = [counting EXCEPT ![key] = rest]
      BY <2>1, <3>1, Zenon
    <3>3. rest = IF Complete(cs[1]) THEN Tail(cs) ELSE cs
      BY <1>8, <3>1, Zenon
    <3> QED BY <3>2, <3>3, Zenon
  <2>6. emitted' = emitted \cup
          IF d.emit = "current"
          THEN {Result(key, w.start, w.end, w.messages, {}, "update") : w \in Range(cs)}
          ELSE IF Complete(cs[1])
               THEN {Result(key, cs[1].start, cs[1].end, cs[1].messages,
                            IF d.collect THEN Collection(s, cs[1].firstId, cs[1].firstId + d.count)
                                         ELSE {}, "count")}
               ELSE {}
    <3>1. CASE d.emit = "current"
      BY <1>5, <2>2, <3>1, Zenon
    <3>2. CASE d.emit # "current"
      BY <1>8, <2>2, <2>4, <3>2, Zenon
    <3> QED BY <3>1, <3>2
  <2> QED BY <1>7, <2>3, <2>5, <2>6, Zenon DEF CountDoes
<1>9. CASE ~Complete(cs[1])
  <2>1. /\ Emitted(Updating1, {})
        /\ counting' = [counting EXCEPT ![key] = cs]
        /\ store' = [store EXCEPT ![key] = s]
    BY <1>1, <1>3, <1>4, <1>9, Zenon
  <2>2. emitted' = emitted \cup IF d.emit = "current" THEN Updating1 ELSE {}
    BY <2>1 DEF Emitted
  <2> QED BY <1>5, <1>7, <1>9, <2>1, <2>2 DEF CountDoes
<1> QED BY <1>8, <1>9

\* What the store and the open windows of a key are.
CountStateOK(s, cnt, log, k, d) ==
    /\ IsState(s) /\ s.deletedValue \in Int
    /\ CountingOK(cnt, log, k, Total(log, k), d)
    /\ d.collect => CollectedOK(s.values, log, k, Total(log, k), d)

\* Count windows that can be right: values are collected only for those that overlap or
\* have no step, and not for current().
Counting(d) == CountDefinition(d) /\ CountAligned(d) /\ (d.emit = "current" => ~d.collect)

\* A message of another key leaves those of a key right.
LEMMA CountStateStays ==
  ASSUME NEW log, NEW m, NEW new, NEW l, OneMore(log, m, new, l), NEW k, m.key # k,
         NEW d, CountDefinition(d), NEW s, NEW cnt, CountStateOK(s, cnt, log, k, d)
  PROVE  CountStateOK(s, cnt, new, k, d)
<1>1. PICK t : t = Total(log, k)
  OBVIOUS
<1>2. Total(new, k) = t
  <2>1. /\ t \in Nat
        /\ Total(new, k) = Total(log, k) + IF m.key = k THEN 1 ELSE 0
    BY <1>1, NumberGrows
  <2> QED BY <1>1, <2>1
<1>3. CountingOK(cnt, new, k, t, d)
  <2>1. CountingOK(cnt, log, k, t, d)
    BY <1>1 DEF CountStateOK
  <2> QED BY <1>1, <2>1, CountingStays
<1>4. ASSUME d.collect
      PROVE  CollectedOK(s.values, new, k, t, d)
  <2>1. PICK values : values = s.values
    OBVIOUS
  <2>2. CollectedOK(values, log, k, t, d)
    BY <1>1, <1>4, <2>1 DEF CountStateOK
  <2>3. PICK more : more = WithValue(values, m, l, k, t, d)
    OBVIOUS
  <2>4. CollectedOK(more, new, k, t, d)
    BY <1>1, <2>2, <2>3, ValueAdded
  <2>5. more = values
    BY <2>3 DEF WithValue
  <2> QED BY <2>1, <2>4, <2>5
<1> QED BY <1>2, <1>3, <1>4 DEF CountStateOK

\* What process_window() does with the open windows and the state of a key, step by step.
CountSteps(cnt, s, stamp, n, id, op, cs, b, w, after, x, d) ==
    /\ id = NextId(cnt)
    /\ op = IF OpensWindow(cnt) THEN Append(cnt, NewCountWindow(stamp, id)) ELSE cnt
    /\ cs = [i \in DOMAIN op |-> Counted(op[i], stamp, n)]
    /\ b = IF d.collect THEN AddToCollection(s, id, n) ELSE s
    /\ w = cs[1]
    /\ after = IF Complete(w) THEN Tail(cs) ELSE cs
    /\ x = IF Complete(w) THEN IF d.collect THEN Discard(b, w) ELSE b ELSE b

\* A window that is complete collects its messages.
CollectsRun(b, w, log, k, u, d) ==
    Complete(w) /\ d.collect =>
        Collection(b, w.firstId, w.firstId + d.count) = Run(log, k, (u - w.count) + 1, u)

\* A message leaves its key right, and collects the messages of a window that is complete.
LEMMA CountStateKept ==
  ASSUME NEW log, NEW m, NEW new, NEW l, OneMore(log, m, new, l), NEW k, m.key = k,
         NEW d, d = definition, Counting(d), NEW s, NEW cnt, CountStateOK(s, cnt, log, k, d),
         NEW id, NEW op, NEW cs, NEW b, NEW w, NEW after, NEW x,
         CountSteps(cnt, s, m.stamp, l + 1, id, op, cs, b, w, after, x, d),
         NEW u, u = Total(new, k)
  PROVE  /\ CountStateOK(x, after, new, k, d) /\ CountedOK(cs, new, k, u, d)
         /\ CollectsRun(b, w, new, k, u, d)
<1>12. id = NextId(cnt)
  BY Zenon DEF CountSteps
<1>13. /\ op = IF OpensWindow(cnt) THEN Append(cnt, NewCountWindow(m.stamp, id)) ELSE cnt
       /\ cs = [i \in DOMAIN op |-> Counted(op[i], m.stamp, l + 1)]
  BY Zenon DEF CountSteps
<1>14. b = IF d.collect THEN AddToCollection(s, id, l + 1) ELSE s
  BY Zenon DEF CountSteps
<1>15. w = cs[1]
  BY Zenon DEF CountSteps
<1>16. after = IF Complete(w) THEN Tail(cs) ELSE cs
  BY Zenon DEF CountSteps
<1>17. x = IF Complete(w) THEN IF d.collect THEN Discard(b, w) ELSE b ELSE b
  BY Zenon DEF CountSteps
<1>1. CountDefinition(d) /\ CountAligned(d)
  BY DEF Counting
<1>2. PICK t \in Nat : t = Total(log, k) /\ u = t + 1
  <2>1. Total(log, k) \in Nat /\ Total(new, k) = Total(log, k) + IF m.key = k THEN 1 ELSE 0
    BY NumberGrows
  <2> QED BY <2>1
<1>3. IsState(s) /\ s.deletedValue \in Int /\ CountingOK(cnt, log, k, t, d)
  BY <1>2 DEF CountStateOK
<1>4. id \in Nat /\ (d.collect => id = IdOf(t + 1, d))
  <2>1. id \in Nat
    <3>1. CASE cnt = <<>>
      BY <1>12, <3>1 DEF NextId
    <3>2. CASE cnt # <<>>
      <4>1. cnt \in Seq(CountData)
        BY <1>3 DEF CountingOK
      <4>2. cnt[1] \in CountData
        BY <3>2, <4>1
      <4>3. cnt[1].firstId \in Nat /\ cnt[1].count \in Nat
        BY <4>2 DEF CountData
      <4> QED BY <1>12, <3>2, <4>3 DEF NextId
    <3> QED BY <3>1, <3>2
  <2>2. d.collect => NextId(cnt) = IdOf(t + 1, d)
    BY <1>1, <1>2, <1>3, NextIdIs
  <2> QED BY <1>12, <2>1, <2>2
<1>5. CountedOK(cs, new, k, t + 1, d)
  BY <1>1, <1>2, <1>3, <1>4, <1>13, CountedIs, Zenon
<1>6. u \in Nat \ {0}
  BY <1>2
<1>7. CountedOK(cs, new, k, u, d)
  BY <1>2, <1>5
<1>8. /\ Len(cs) \in Nat \ {0} /\ cs[1] \in CountData /\ cs[1].count \in Nat
      /\ Complete(cs[1]) => cs[1].count = d.count
      /\ ~Complete(cs[1]) => CountingOK(cs, new, k, u, d)
      /\ Complete(cs[1]) => CountingOK(Tail(cs), new, k, u, d)
      /\ \A o : Within(o, u, d) /\ u = o + d.count => Complete(cs[1]) /\ o = u - cs[1].count
  <2>1. CompletedOK(cs, new, k, u, d)
    BY <1>1, <1>6, <1>7, CompletedIs
  <2> QED BY <2>1 DEF CompletedOK
<1>9. CountingOK(after, new, k, u, d)
  BY <1>8, <1>15, <1>16
<1>10. CASE ~d.collect
  <2>1. x = s
    BY <1>10, <1>14, <1>17
  <2> QED BY <1>2, <1>3, <1>7, <1>9, <1>10, <2>1 DEF CountStateOK, CollectsRun
<1>11. CASE d.collect
  <2>1. b = AddToCollection(s, id, l + 1)
    BY <1>11, <1>14
  <2>2. /\ IsState(b) /\ b.deletedValue = s.deletedValue
        /\ b.values = s.values \cup {[id |-> id, counter |-> l + 1]}
    BY <1>3, <2>1, AddFields
  <2>3. CollectedOK(b.values, new, k, t, d)
    <3>1. PICK values : values = s.values
      OBVIOUS
    <3>2. CollectedOK(values, log, k, t, d)
      BY <1>2, <1>11, <3>1 DEF CountStateOK
    <3>3. PICK more : more = WithValue(values, m, l, k, t, d)
      OBVIOUS
    <3>4. CollectedOK(more, new, k, t, d)
      <4>1. t \in Nat /\ t = Total(log, k)
        BY <1>2
      <4>2. CountDefinition(d)
        BY <1>1
      <4> QED BY <3>2, <3>3, <4>1, <4>2, ValueAdded
    <3>5. more = b.values
      BY <1>4, <1>11, <2>2, <3>1, <3>3 DEF WithValue
    <3> QED BY <3>4, <3>5
  <2>4. new \in Seq(WindowMessage) /\ Total(new, k) = t + 1
    BY <1>2 DEF OneMore
  <2>5. CASE ~Complete(w)
    <3>1. x = b
      BY <1>17, <2>5
    <3>2. PICK values : values = b.values
      OBVIOUS
    <3>3. CollectedOK(values, new, k, t, d)
      BY <2>3, <3>2
    <3>4. \A o : Within(o, t + 1, d) => t + 1 # o + d.count
      BY <1>2, <1>8, <1>15, <2>5
    <3>5. CollectedOK(values, new, k, t + 1, d)
      BY <1>1, <1>11, <2>4, <3>3, <3>4, ValuesCarry
    <3> QED BY <1>2, <1>3, <1>7, <1>9, <2>2, <2>5, <3>1, <3>2, <3>5 DEF CountStateOK, CollectsRun
  <2>6. CASE Complete(w)
    <3>1. PICK o : o = u - w.count
      OBVIOUS
    <3>2. Within(o, u, d) /\ OpenOK(w, new, k, o, u, d)
      <4>1. 1 \in 1..Len(cs)
        BY <1>8
      <4>2. Within(u - cs[1].count, u, d) /\ OpenOK(cs[1], new, k, u - cs[1].count, u, d)
        BY <1>7, <4>1, Zenon DEF CountedOK
      <4> QED BY <1>15, <3>1, <4>2
    <3>3. o \in Nat /\ u = o + d.count /\ w.count = d.count
      <4>1. w.count \in Nat /\ w.count = d.count
        BY <1>8, <1>15, <2>6
      <4>2. o \in Nat
        BY <3>2 DEF Within
      <4> QED BY <1>6, <3>1, <4>1, <4>2
    <3>4. w.firstId = IF d.step = 0 THEN 0 ELSE o
      BY <1>11, <3>2 DEF OpenOK
    <3>5. Within(o, t + 1, d) /\ t + 1 = o + d.count
      BY <1>2, <3>2, <3>3
    <3>6. x = Discard(b, w)
      BY <1>11, <1>17, <2>6
    <3>7. b.deletedValue \in Int
      BY <1>3, <2>2
    <3>8. IsState(x) /\ x.deletedValue \in Int /\ CollectedOK(x.values, new, k, t + 1, d)
      <4>1. PICK y : y = Discard(b, w)
        OBVIOUS
      <4>2. t \in Nat /\ ValuesLeft(b, new, k, t, d)
        BY <1>2, <2>2, <2>3, <3>7 DEF ValuesLeft
      <4>3. ValuesLeft(y, new, k, t + 1, d)
        BY <1>1, <1>11, <2>4, <3>4, <3>5, <4>1, <4>2, DiscardIs
      <4> QED BY <3>6, <4>1, <4>3 DEF ValuesLeft
    <3>9. Collection(b, w.firstId, w.firstId + d.count) = Run(new, k, o + 1, t + 1)
      <4>1. PICK from : from = IF d.step = 0 THEN 0 ELSE o
        OBVIOUS
      <4>2. PICK values : values = b.values
        OBVIOUS
      <4>3. CollectedOK(values, new, k, t, d)
        BY <2>3, <4>2
      <4>4. Collection(b, from, from + d.count) = Run(new, k, o + 1, t + 1)
        BY <1>1, <1>11, <2>4, <3>5, <4>1, <4>2, <4>3, CollectedRun
      <4> QED BY <3>4, <4>1, <4>4
    <3> QED BY <1>2, <1>7, <1>9, <2>6, <3>1, <3>8, <3>9 DEF CountStateOK, CollectsRun
  <2> QED BY <2>5, <2>6
<1> QED BY <1>10, <1>11

\* What goes downstream with a message: cs are its windows.
CountEmits(k, cs, collected, d) ==
    IF d.emit = "current"
    THEN {Result(k, w.start, w.end, w.messages, {}, "update") : w \in Range(cs)}
    ELSE IF Complete(cs[1])
         THEN {Result(k, cs[1].start, cs[1].end, cs[1].messages, collected, "count")}
         ELSE {}

\* What is collected for the window that is complete.
CollectsAll(collected, w, log, k, u, d) ==
    Complete(w) => collected = IF d.collect THEN Run(log, k, (u - w.count) + 1, u) ELSE {}

\* The results of a message are those of its windows.
LEMMA CountResultsNew ==
  ASSUME NEW log \in Seq(WindowMessage), NEW k, NEW l \in Nat, Len(log) = l + 1, log[l + 1].key = k,
         NEW d, d = definition, Counting(d), l + 1 = Incoming,
         NEW u, u = Total(log, k), NEW cs, CountedOK(cs, log, k, u, d),
         NEW collected, CollectsAll(collected, cs[1], log, k, u, d),
         NEW more, more = CountEmits(k, cs, collected, d)
  PROVE  ResultsNow(more, log, k, u, d)
<1> /\ Complete(cs[1]) =>
          collected = IF d.collect THEN Run(log, k, (u - cs[1].count) + 1, u) ELSE {}
    /\ more =
          IF d.emit = "current"
          THEN {Result(k, w.start, w.end, w.messages, {}, "update") : w \in Range(cs)}
          ELSE IF Complete(cs[1])
               THEN {Result(k, cs[1].start, cs[1].end, cs[1].messages, collected, "count")}
               ELSE {}
  BY Zenon DEF CollectsAll, CountEmits
<1>1. CountDefinition(d) /\ (d.emit = "current" => ~d.collect)
  BY DEF Counting
<1>2. u \in Nat \ {0} /\ Number(log, k, l + 1) = u
  <2>1. Number(log, k, l + 1) = Total(log, k)
    BY DEF Total
  <2>2. l + 1 \in 1..Len(log)
    OBVIOUS
  <2>3. Number(log, k, l + 1) \in 1..Total(log, k) /\ Total(log, k) \in Nat
    BY <2>2, NumbersOf, NumberIs DEF Total
  <2> QED BY <2>1, <2>3
<1>3. CompletedOK(cs, log, k, u, d)
  BY <1>1, <1>2, CompletedIs
<1>4. /\ Len(cs) \in Nat \ {0} /\ 1 \in 1..Len(cs) /\ cs \in Seq(CountData)
      /\ Complete(cs[1]) => cs[1].count = d.count
      /\ \A o : Within(o, u, d) /\ u = o + d.count => Complete(cs[1]) /\ o = u - cs[1].count
  <2>1. cs \in Seq(CountData)
    BY DEF CountedOK
  <2> QED BY <1>3, <2>1 DEF CompletedOK
<1>5. DOMAIN cs = 1..Len(cs)
  BY <1>4
<1>6. ASSUME NEW o \in Nat, o < u
      PROVE  l + 1 \in Run(log, k, o + 1, u) /\ \A n \in Run(log, k, o + 1, u) : n <= l + 1
  BY <1>2, <1>6 DEF Run
<1>7. ASSUME NEW i \in 1..Len(cs), NEW o, o = u - cs[i].count, NEW by, NEW r, NEW values,
             r = Result(k, cs[i].start, cs[i].end, cs[i].messages, values, by),
             by = (IF d.emit = "current" THEN "update" ELSE "count"),
             values = IF d.collect THEN Run(log, k, o + 1, u) ELSE {}
      PROVE  Within(o, u, d) /\ RunResult(r, log, k, o, u, d)
  <2>1. Within(o, u, d) /\ OpenOK(cs[i], log, k, o, u, d)
    BY <1>7 DEF CountedOK
  <2>2. o \in Nat /\ o < u
    BY <2>1 DEF Within
  <2>3. PICK run : run = Run(log, k, o + 1, u)
    OBVIOUS
  <2>4. /\ cs[i].messages = IF d.aggregate THEN run ELSE {}
        /\ Spans(log, run, cs[i].start, cs[i].end)
    BY <2>1, <2>3 DEF OpenOK
  <2>5. l + 1 \in run /\ \A n \in run : n <= l + 1
    BY <1>6, <2>2, <2>3
  <2>6. r = [key |-> k, start |-> cs[i].start, end |-> cs[i].end, aggregated |-> cs[i].messages,
             collected |-> values, by |-> by, at |-> l + 1]
    BY <1>7 DEF Result
  <2>7. r.start = cs[i].start /\ r.end = cs[i].end /\ r.at = l + 1
    BY <2>6
  <2>8. r = [key |-> k, start |-> r.start, end |-> r.end,
             aggregated |-> IF d.aggregate THEN run ELSE {},
             collected |-> IF d.collect THEN run ELSE {},
             by |-> IF d.emit = "current" THEN "update" ELSE "count", at |-> r.at]
    <3>1. PICK a : a = IF d.aggregate THEN run ELSE {}
      OBVIOUS
    <3>2. cs[i].messages = a
      BY <2>4, <3>1
    <3> QED BY <1>7, <2>3, <2>6, <2>7, <3>1, <3>2, Zenon
  <2> QED BY <2>1, <2>3, <2>4, <2>5, <2>7, <2>8, Zenon DEF RunResult
<1>8. CASE d.emit = "current"
  <2>1. \A r : r \in more <=>
           \E i \in 1..Len(cs) : r = Result(k, cs[i].start, cs[i].end, cs[i].messages, {}, "update")
    BY <1>5, <1>8 DEF Range
  <2>2. ASSUME NEW i \in 1..Len(cs), NEW r,
               r = Result(k, cs[i].start, cs[i].end, cs[i].messages, {}, "update")
        PROVE  /\ ExpectedNow(u - cs[i].count, u, d) /\ RunResult(r, log, k, u - cs[i].count, u, d)
    <3>1. PICK o : o = u - cs[i].count
      OBVIOUS
    <3>2. Within(o, u, d) /\ RunResult(r, log, k, o, u, d)
      BY <1>1, <1>7, <1>8, <2>2, <3>1
    <3> QED BY <1>8, <3>1, <3>2 DEF ExpectedNow
  <2>3. ASSUME NEW o, ExpectedNow(o, u, d)
        PROVE  \E r \in more : RunResult(r, log, k, o, u, d)
    <3>1. Within(o, u, d) /\ o \in Nat
      BY <2>3 DEF ExpectedNow, Within
    <3>2. PICK i \in 1..Len(cs) : cs[i].count = u - o
      BY <3>1 DEF CountedOK
    <3>3. o = u - cs[i].count
      BY <1>2, <3>1, <3>2
    <3> QED BY <2>1, <2>2, <3>3
  <2> QED BY <2>1, <2>2, <2>3 DEF ResultsNow
<1>9. CASE d.emit # "current"
  <2>1. PICK o : o = u - cs[1].count
    OBVIOUS
  <2>2. PICK r : r = Result(k, cs[1].start, cs[1].end, cs[1].messages, collected, "count")
    OBVIOUS
  <2>3. \A q : q \in more <=> Complete(cs[1]) /\ q = r
    BY <1>9, <2>2
  <2>4. ASSUME Complete(cs[1])
        PROVE  ExpectedNow(o, u, d) /\ RunResult(r, log, k, o, u, d)
    <3>1. collected = IF d.collect THEN Run(log, k, o + 1, u) ELSE {}
      BY <2>1, <2>4
    <3>2. Within(o, u, d) /\ RunResult(r, log, k, o, u, d)
      <4>1. PICK by : by = IF d.emit = "current" THEN "update" ELSE "count"
        OBVIOUS
      <4>2. r = Result(k, cs[1].start, cs[1].end, cs[1].messages, collected, by)
        BY <1>9, <2>2, <4>1
      <4>3. 1 \in 1..Len(cs)
        BY <1>4
      <4> QED BY <1>7, <2>1, <3>1, <4>1, <4>2, <4>3, Zenon
    <3>3. u = o + d.count
      <4>1. o \in Nat
        BY <3>2 DEF Within
      <4>2. PICK c \in Nat : c = d.count
        BY <1>1, StepIs
      <4>3. o = u - c
        BY <1>4, <2>1, <2>4, <4>2
      <4> QED BY <1>2, <4>1, <4>2, <4>3
    <3> QED BY <3>2, <3>3 DEF ExpectedNow
  <2>5. ASSUME NEW p, ExpectedNow(p, u, d)
        PROVE  Complete(cs[1]) /\ p = o
    BY <1>4, <1>9, <2>1, <2>5 DEF ExpectedNow
  <2> QED BY <2>3, <2>4, <2>5 DEF ResultsNow
<1> QED BY <1>8, <1>9

-----------------------------------------------------------------------------
(* A message keeps everything right. *)

\* What the stores, the open windows and the results of count windows are.
CountRight(st, cnts, e, log, d) ==
    /\ log \in Seq(WindowMessage) /\ st = [k \in Key |-> st[k]] /\ cnts = [k \in Key |-> cnts[k]]
    /\ \A k \in Key : CountStateOK(st[k], cnts[k], log, k, d)
    /\ CountResultsOK(e, log, d)

\* process_window() of count windows keeps them right.
LEMMA CountMessageKeeps ==
  ASSUME NEW d, d = definition, Counting(d), NEW key \in Key, NEW stamp \in Nat,
         ProcessCountWindow(key, stamp), CountRight(store, counting, emitted, arrived, d)
  PROVE  CountRight(store', counting', emitted', arrived', d)
<1>1. PICK log, l, m, new : /\ log = arrived /\ l = Len(log) /\ m = [key |-> key, stamp |-> stamp]
                            /\ new = Append(log, m)
  OBVIOUS
<1>2. OneMore(log, m, new, l) /\ m.key = key /\ m.stamp = stamp
  <2>1. log \in Seq(WindowMessage) /\ m \in WindowMessage
    BY <1>1 DEF CountRight, WindowMessage
  <2> QED BY <1>1, <2>1, OneMoreIs
<1>3. PICK st, cnts, e : st = store /\ cnts = counting /\ e = emitted
  OBVIOUS
<1>4. /\ st = [k \in Key |-> st[k]] /\ cnts = [k \in Key |-> cnts[k]]
      /\ \A k \in Key : CountStateOK(st[k], cnts[k], log, k, d)
      /\ CountResultsOK(e, log, d)
  BY <1>1, <1>3, Zenon DEF CountRight
<1>5. PICK s, cnt : s = st[key] /\ cnt = cnts[key]
  OBVIOUS
<1>6. PICK id : id = NextId(cnt)
  OBVIOUS
<1>7. PICK op : op = IF OpensWindow(cnt) THEN Append(cnt, NewCountWindow(stamp, id)) ELSE cnt
  OBVIOUS
<1>8. PICK cs : cs = [i \in DOMAIN op |-> Counted(op[i], stamp, l + 1)]
  OBVIOUS
<1>9. PICK b : b = IF d.collect THEN AddToCollection(s, id, l + 1) ELSE s
  OBVIOUS
<1>10. l + 1 = Incoming
  BY <1>1 DEF Incoming
<1>11. CountDoes(key, stamp, cs, b, d)
  <2>1. cnt = counting[key] /\ s = store[key]
    BY <1>3, <1>5
  <2>2. cs = [i \in DOMAIN op |-> Counted(op[i], stamp, Incoming)]
    BY <1>8, <1>10
  <2>3. b = IF d.collect THEN AddToCollection(store[key], id, Incoming) ELSE store[key]
    BY <1>9, <1>10, <2>1
  <2> QED BY <1>6, <1>7, <2>1, <2>2, <2>3, CountIs
<1>12. PICK w : w = cs[1]
  OBVIOUS
<1>13. PICK after : after = IF Complete(w) THEN Tail(cs) ELSE cs
  OBVIOUS
<1>14. PICK x : x = IF Complete(w) THEN IF d.collect THEN Discard(b, w) ELSE b ELSE b
  OBVIOUS
<1>15. PICK u : u = Total(new, key)
  OBVIOUS
<1>16. /\ CountStateOK(x, after, new, key, d)
       /\ CountedOK(cs, new, key, u, d)
       /\ CollectsRun(b, w, new, key, u, d)
  <2>1. CountStateOK(s, cnt, log, key, d)
    BY <1>4, <1>5
  <2>2. CountSteps(cnt, s, m.stamp, l + 1, id, op, cs, b, w, after, x, d)
    BY <1>2, <1>6, <1>7, <1>8, <1>9, <1>12, <1>13, <1>14 DEF CountSteps
  <2> QED BY <1>2, <1>15, <2>1, <2>2, CountStateKept
<1>17. /\ store' = [st EXCEPT ![key] = x] /\ counting' = [cnts EXCEPT ![key] = after]
       /\ arrived' = new
  BY <1>1, <1>3, <1>11, <1>12, <1>13, <1>14, Zenon DEF CountDoes
<1>18. PICK collected :
          collected = IF d.collect THEN Collection(b, w.firstId, w.firstId + d.count) ELSE {}
  OBVIOUS
<1>19. PICK more : more =
CountEmits(key, cs, collected, d)
  OBVIOUS
<1>20. PICK f : f = e \cup more
  OBVIOUS
<1>21. emitted' = f
  BY <1>3, <1>11, <1>12, <1>18, <1>19, <1>20, Zenon DEF CountDoes, CountEmits
<1>22. ResultsNow(more, new, key, u, d)
  <2>1. CollectsAll(collected, cs[1], new, key, u, d)
    BY <1>12, <1>16, <1>18 DEF CollectsAll, CollectsRun
  <2>2. l \in Nat /\ new \in Seq(WindowMessage) /\ Len(new) = l + 1 /\ new[l + 1].key = key
    BY <1>2 DEF OneMore
  <2>3. CountedOK(cs, new, key, u, d)
    BY <1>16
  <2> QED BY <1>10, <1>15, <1>19, <2>1, <2>2, <2>3, CountResultsNew, Zenon
<1>23. CountResultsOK(f, new, d)
  <2>1. m.key \in Key /\ u = Total(new, m.key) /\ ResultsNow(more, new, m.key, u, d)
    BY <1>2, <1>15, <1>22
  <2> QED BY <1>2, <1>4, <1>20, <2>1, CountResultsKept DEF Counting
<1>24. PICK tt, after2 : tt = [st EXCEPT ![key] = x] /\ after2 = [cnts EXCEPT ![key] = after]
  OBVIOUS
<1>25. /\ tt = [k \in Key |-> IF k = key THEN x ELSE st[k]]
       /\ after2 = [k \in Key |-> IF k = key THEN after ELSE cnts[k]]
  BY <1>4, <1>24
<1>26. ASSUME NEW k \in Key
       PROVE  CountStateOK(tt[k], after2[k], new, k, d)
  <2>1. CASE k = key
    BY <1>16, <1>25, <2>1
  <2>2. CASE k # key
    <3>1. tt[k] = st[k] /\ after2[k] = cnts[k]
      BY <1>25, <2>2
    <3>2. PICK p, q : p = st[k] /\ q = cnts[k]
      OBVIOUS
    <3>3. CountStateOK(p, q, log, k, d)
      BY <1>4, <3>2
    <3>4. CountStateOK(p, q, new, k, d)
      BY <1>2, <2>2, <3>3, CountStateStays DEF Counting
    <3> QED BY <3>1, <3>2, <3>4
  <2> QED BY <2>1, <2>2
<1>27. tt = [k \in Key |-> tt[k]] /\ after2 = [k \in Key |-> after2[k]]
  BY <1>25
<1>28. new \in Seq(WindowMessage)
  BY <1>2 DEF OneMore
<1>29. CountRight(tt, after2, f, new, d)
  BY <1>23, <1>26, <1>27, <1>28, Zenon DEF CountRight
<1> QED BY <1>17, <1>21, <1>24, <1>29

-----------------------------------------------------------------------------
(* The invariant. *)

\* The ids of the values that count windows collect go on from one window to the next, unless
\* a window begins where the last one ends.
AllCountsAligned == \A d \in Definitions : d.kind = "count" => CountAligned(d)

\* What count windows keep is right.
CountInv ==
    /\ definition \in Definitions
    /\ definition.kind = "count" => CountRight(store, counting, emitted, arrived, definition)

\* A definition of count windows is one of them.
LEMMA CountingDefinition ==
  ASSUME definition \in Definitions, definition.kind = "count", AllCountsAligned
  PROVE  Counting(definition)
<1>1. CountDefinition(definition) /\ WindowComputes(definition)
  BY DefinitionAssumption, Zenon
     DEF WindowDefinition, AggregatesDefinition, StateDefinition, JoinDefinition, TableDefinition,
         ConfigurationDefinition, SlidingDefinition, TimeDefinition
<1>2. CountAligned(definition)
  BY DEF AllCountsAligned
<1> QED BY <1>1, <1>2 DEF Counting, WindowComputes

\* The first state.
LEMMA CountsBegin ==
  ASSUME Init, AllCountsAligned
  PROVE  CountInv
<1>1. definition \in Definitions
  BY DEF Init
<1> SUFFICES ASSUME definition.kind = "count"
             PROVE  CountRight(store, counting, emitted, arrived, definition)
  BY <1>1 DEF CountInv
<1>2. PICK d : d = definition
  OBVIOUS
<1>3. CountDefinition(d)
  BY <1>1, <1>2, CountingDefinition DEF Counting
<1>4. /\ arrived = <<>> /\ store = [k \in Key |-> EmptyState] /\ counting = [k \in Key |-> <<>>]
      /\ emitted = {}
  BY DEF Init, WindowInit
<1>5. PICK log : log = <<>>
  OBVIOUS
<1>6. log \in Seq(WindowMessage) /\ Len(log) = 0 /\ 1..Len(log) = {}
  BY <1>5
<1>7. ASSUME NEW k
      PROVE  Total(log, k) = 0
  <2>1. {n \in 1..Len(log) : log[n].key = k /\ n <= Len(log)} = {}
    BY <1>6
  <2> QED BY <2>1, FS_EmptySet DEF Total, Number
<1>8. PICK step \in Nat \ {0} : step = Step(d) /\ step <= d.count /\ d.count \in Nat
  BY <1>3, StepIs
<1>9. ASSUME NEW k
      PROVE  CountStateOK(EmptyState, <<>>, log, k, d)
  <2>1. PICK cnt : cnt = <<>>
    OBVIOUS
  <2>2. CountingOK(cnt, log, k, 0, d)
    <3>1. cnt \in Seq(CountData) /\ Len(cnt) = 0 /\ 1..Len(cnt) = {}
      BY <2>1
    <3>2. \A o : ~OffsetOK(o, 0, d)
      BY DEF OffsetOK
    <3> QED BY <3>1, <3>2 DEF CountingOK
  <2>3. CollectedOK({}, log, k, 0, d)
    BY <1>6 DEF CollectedOK
  <2>4. IsState(EmptyState) /\ EmptyState.deletedValue \in Int /\ EmptyState.values = {}
    BY DEF IsState, EmptyState, None
  <2>5. Total(log, k) = 0
    BY <1>7
  <2> QED BY <2>1, <2>2, <2>3, <2>4, <2>5 DEF CountStateOK
<1>10. CountResultsOK({}, log, d)
  <2>1. \A k, o, b : o \in Nat /\ b \in Nat => ~Expected(log, k, o, b, d)
    BY <1>7 DEF Expected
  <2> QED BY <2>1 DEF CountResultsOK
<1>11. CountRight([k \in Key |-> EmptyState], [k \in Key |-> <<>>], {}, log, d)
  BY <1>6, <1>9, <1>10 DEF CountRight
<1> QED BY <1>2, <1>4, <1>5, <1>11

\* A message leaves count windows right.
LEMMA CountsStep ==
  ASSUME CountInv, AllCountsAligned, WindowNext
  PROVE  CountInv'
<1>1. definition' = definition /\ definition \in Definitions
  BY DefinitionStays DEF CountInv
<1> SUFFICES ASSUME definition.kind = "count"
             PROVE  CountRight(store', counting', emitted', arrived', definition')
  BY <1>1 DEF CountInv
<1>2. PICK d : d = definition
  OBVIOUS
<1>3. Counting(d) /\ d.kind = "count"
  BY <1>1, <1>2, CountingDefinition
<1>4. PICK key \in Keys(definition), stamp \in Stamps(definition) : ProcessWindow(key, stamp)
  BY DEF WindowNext
<1>5. key \in Key /\ stamp \in Nat
  BY <1>1, <1>4, DefinitionAssumption
<1>6. ProcessCountWindow(key, stamp)
  BY <1>2, <1>3, <1>4 DEF ProcessWindow, ProcessSlidingWindow, ProcessTimeWindow
<1>7. CountRight(store, counting, emitted, arrived, d)
  BY <1>2 DEF CountInv
<1>8. CountRight(store', counting', emitted', arrived', d)
  BY <1>2, <1>3, <1>5, <1>6, <1>7, CountMessageKeeps
<1> QED BY <1>1, <1>2, <1>8

\* Other steps leave count windows alone.
LEMMA CountsStay ==
  ASSUME CountInv,
         \/ StateNext \/ AggregationNext \/ JoinNext \/ TableNext \/ ConfigNext
         \/ UNCHANGED dataframeVars
  PROVE  CountInv'
<1>1. definition' = definition
  <2>1. StateNext => definition' = definition
    BY DEF StateNext
  <2>2. UNCHANGED dataframeVars => definition' = definition
    BY DEF dataframeVars
  <2> QED BY <2>1, <2>2, DefinitionStays
<1>2. CASE UNCHANGED dataframeVars
  BY <1>2 DEF dataframeVars, windowVars, CountInv
<1>3. CASE ~(UNCHANGED dataframeVars)
  <2>1. definition.kind # "count"
    BY <1>3, StatingDefinition
       DEF CountInv, StateNext, AggregationNext, JoinNext, TableNext, ConfigNext, Stating,
           Aggregating, Joined, TableLookup, Configured
  <2> QED BY <1>1, <2>1 DEF CountInv
<1> QED BY <1>2, <1>3

\* Count windows are always right.
LEMMA CountsHold ==
  ASSUME AllCountsAligned
  PROVE  Spec => []CountInv
<1>1. Init => CountInv
  BY CountsBegin
<1>2. CountInv /\ [Next]_dataframeVars => CountInv'
  BY CountsStep, CountsStay DEF Next
<1> QED BY <1>1, <1>2, PTL DEF Spec

-----------------------------------------------------------------------------
(* What follows from it. *)

\* The terms of the properties.
LEMMA CountTerms ==
  ASSUME NEW log, log = arrived, log \in Seq(WindowMessage), NEW d, d = definition,
         CountDefinition(d)
  PROVE  /\ Message = 1..Len(log) /\ Stride = Step(d)
         /\ \A n : Stamp(n) = log[n].stamp
         /\ \A k : Cardinality(MessagesOf(k)) = Total(log, k)
         /\ \A k : \A n : Cardinality({m \in MessagesOf(k) : m <= n}) = Number(log, k, n)
         /\ \A k, a, b : Numbered(k, a, b) = Run(log, k, a, b)
<1>1. Message = 1..Len(log) /\ \A n : Stamp(n) = log[n].stamp
  BY DEF Message, Stamp
<1>2. ASSUME NEW k, NEW n
      PROVE  Cardinality({m \in MessagesOf(k) : m <= n}) = Number(log, k, n)
  <2>1. {m \in MessagesOf(k) : m <= n} = {m \in 1..Len(log) : log[m].key = k /\ m <= n}
    BY <1>1 DEF MessagesOf
  <2> QED BY <2>1 DEF Number
<1>3. ASSUME NEW k
      PROVE  Cardinality(MessagesOf(k)) = Total(log, k)
  <2>1. MessagesOf(k) = {m \in 1..Len(log) : log[m].key = k /\ m <= Len(log)}
    BY <1>1 DEF MessagesOf
  <2> QED BY <2>1 DEF Number, Total
<1>4. ASSUME NEW k, NEW a, NEW b
      PROVE  Numbered(k, a, b) = Run(log, k, a, b)
  <2>1. Numbered(k, a, b) = {n \in MessagesOf(k) : Number(log, k, n) \in a..b}
    BY <1>2 DEF Numbered
  <2>2. MessagesOf(k) = {n \in 1..Len(log) : log[n].key = k}
    BY <1>1 DEF MessagesOf
  <2> QED BY <2>1, <2>2 DEF Run
<1>5. Stride = Step(d)
  <2>1. PICK s \in Nat, c \in Nat : s = d.step /\ c = d.count
    BY DEF CountDefinition
  <2>2. Min({s, c}) = IF s <= c THEN s ELSE c
    BY MinOfTwo
  <2>3. Min({definition.step, definition.count}) = IF s <= c THEN s ELSE c
    BY <2>1, <2>2
  <2> QED BY <2>1, <2>3 DEF Stride, Step
<1> QED BY <1>1, <1>2, <1>3, <1>4, <1>5

\* The multiples of a step.
LEMMA MultiplesAre ==
  ASSUME NEW s \in Nat \ {0}
  PROVE  /\ \A i \in Nat : i * s \in Nat /\ (i * s) % s = 0 /\ i <= i * s
         /\ \A o \in Nat : o % s = 0 => \E i \in Nat : o = i * s
<1>1. ASSUME NEW i \in Nat
      PROVE  i * s \in Nat /\ (i * s) % s = 0 /\ i <= i * s
  OBVIOUS
<1>2. ASSUME NEW o \in Nat, o % s = 0
      PROVE  \E i \in Nat : o = i * s
  <2>1. o = s * (o \div s) /\ o \div s \in Nat
    BY <1>2
  <2>2. PICK i \in Nat : o = s * i
    BY <2>1
  <2> QED BY <2>2
<1> QED BY <1>1, <1>2

\* The result of a run as the properties say it.
CountResult(log, k, o, b, d) ==
    [key |-> k,
     start |-> Min({log[n].stamp : n \in Run(log, k, o + 1, b)}),
     end |-> Max({log[n].stamp : n \in Run(log, k, o + 1, b)}),
     aggregated |-> IF d.aggregate THEN Run(log, k, o + 1, b) ELSE {},
     collected |-> IF d.collect THEN Run(log, k, o + 1, b) ELSE {},
     by |-> IF d.emit = "current" THEN "update" ELSE "count",
     at |-> Max(Run(log, k, o + 1, b))]

\* A number of a set that none is below, or above, is its least, or greatest.
LEMMA EndOf ==
  ASSUME NEW B, NEW x \in B, B \subseteq Nat
  PROVE  /\ (\A y \in B : x <= y) => Min(B) = x
         /\ (\A y \in B : y <= x) => Max(B) = x
<1>1. ASSUME \A y \in B : x <= y
      PROVE  Min(B) = x
  <2>1. \E z \in B : \A w \in B : w >= z
    BY <1>1
  <2>2. PICK m : m = Min(B)
    OBVIOUS
  <2>3. m \in B /\ \A w \in B : w >= m
    BY <2>1, <2>2, Zenon DEF Min
  <2>4. m \in Nat /\ x \in Nat /\ m <= x /\ x <= m
    BY <1>1, <2>3
  <2> QED BY <2>2, <2>4
<1>2. ASSUME \A y \in B : y <= x
      PROVE  Max(B) = x
  <2>1. \E z \in B : \A w \in B : w <= z
    BY <1>2
  <2>2. PICK m : m = Max(B)
    OBVIOUS
  <2>3. m \in B /\ \A w \in B : w <= m
    BY <2>1, <2>2, Zenon DEF Max
  <2>4. m \in Nat /\ x \in Nat /\ m <= x /\ x <= m
    BY <1>2, <2>3
  <2> QED BY <2>2, <2>4
<1> QED BY <1>1, <1>2

\* There is one result of a run.
LEMMA ResultIsOne ==
  ASSUME NEW log \in Seq(WindowMessage), NEW k, NEW o, NEW b, NEW d, NEW r,
         RunResult(r, log, k, o, b, d)
  PROVE  r = CountResult(log, k, o, b, d)
<1>1. PICK run : run = Run(log, k, o + 1, b)
  OBVIOUS
<1>2. PICK first, last, at : first = r.start /\ last = r.end /\ at = r.at
  OBVIOUS
<1>3. /\ r = [key |-> k, start |-> first, end |-> last,
              aggregated |-> IF d.aggregate THEN run ELSE {},
              collected |-> IF d.collect THEN run ELSE {},
              by |-> IF d.emit = "current" THEN "update" ELSE "count", at |-> at]
      /\ Spans(log, run, first, last)
      /\ at \in run /\ \A n \in run : n <= at
  BY <1>1, <1>2, Zenon DEF RunResult
<1>4. run \subseteq Nat /\ \A n \in run : log[n].stamp \in Nat
  BY <1>1, MessageTypes DEF Run
<1>5. PICK B : B = {log[n].stamp : n \in run}
  OBVIOUS
<1>6. /\ B \subseteq Nat /\ first \in B /\ last \in B
      /\ \A y \in B : first <= y /\ y <= last
  BY <1>3, <1>4, <1>5 DEF Spans
<1>7. Min(B) = first /\ Max(B) = last /\ Max(run) = at
  BY <1>3, <1>4, <1>6, EndOf
<1> QED BY <1>1, <1>3, <1>5, <1>7, Zenon DEF CountResult

\* What the properties of count windows are about.
LEMMA CountsFollow ==
  ASSUME CountInv, definition.kind = "count"
  PROVE  /\ CountDefinition(definition) /\ WindowComputes(definition)
         /\ CountRight(store, counting, emitted, arrived, definition)
BY DefinitionAssumption, Zenon
   DEF CountInv, WindowDefinition, AggregatesDefinition, StateDefinition, JoinDefinition,
       TableDefinition, ConfigurationDefinition, SlidingDefinition, TimeDefinition

\* The results of final() are the runs of a number of messages, and nothing else.
LEMMA CountResultsFollow ==
  ASSUME CountInv
  PROVE  CountResultsExact
<1> SUFFICES ASSUME definition.kind = "count", Finally
             PROVE  CountResultsExact
  BY DEF CountResultsExact
<1>1. PICK log : log = arrived
  OBVIOUS
<1>2. PICK d : d = definition
  OBVIOUS
<1>3. CountDefinition(d) /\ log \in Seq(WindowMessage) /\ CountResultsOK(emitted, log, d)
  BY <1>1, <1>2, CountsFollow DEF CountRight
<1>4. d.emit # "current"
  BY <1>2 DEF Finally
<1>5. PICK step \in Nat \ {0} : step = Step(d)
  BY <1>3, StepIs
<1>6. PICK c \in Nat : c = d.count /\ 2 <= c
  BY <1>3, StepIs
<1>7. Stride = step
  BY <1>1, <1>2, <1>3, <1>5, CountTerms
<1>8. definition.count = c
  BY <1>2, <1>6
<1>9. ASSUME NEW k \in Key
      PROVE  LET stride == Stride
                 total  == Cardinality(MessagesOf(k))
                 runs   == {i \in 0..total : i * stride + definition.count <= total}
                 run(i) == Numbered(k, i * stride + 1, i * stride + definition.count)
             IN  {r \in emitted : r.key = k} =
                 {[key |-> k,
                   start |-> Min({Stamp(n) : n \in run(i)}),
                   end   |-> Max({Stamp(n) : n \in run(i)}),
                   aggregated |-> IF definition.aggregate THEN run(i) ELSE {},
                   collected  |-> IF definition.collect THEN run(i) ELSE {},
                   by |-> "count", at |-> Max(run(i))] : i \in runs}
  <2> DEFINE total  == Cardinality(MessagesOf(k))
             runs   == {i \in 0..total : i * Stride + definition.count <= total}
             run(i) == Numbered(k, i * Stride + 1, i * Stride + definition.count)
             res(i) == [key |-> k,
                        start |-> Min({Stamp(n) : n \in run(i)}),
                        end   |-> Max({Stamp(n) : n \in run(i)}),
                        aggregated |-> IF definition.aggregate THEN run(i) ELSE {},
                        collected  |-> IF definition.collect THEN run(i) ELSE {},
                        by |-> "count", at |-> Max(run(i))]
  <2>1. PICK t \in Nat : t = Total(log, k)
    BY <1>3, NumberIs DEF Total
  <2>2. total = t
    BY <1>1, <1>2, <1>3, <2>1, CountTerms
  <2>3. /\ runs = {i \in 0..total : i * step + c <= total}
        /\ \A i : run(i) = Numbered(k, i * step + 1, i * step + c)
    BY <1>7, <1>8
  <2>4. ASSUME NEW i, NEW o, o = i * step
        PROVE  res(i) = CountResult(log, k, o, o + c, d)
    <3>1. PICK set : set = Run(log, k, o + 1, o + c)
      OBVIOUS
    <3>2. run(i) = set
      BY <1>1, <1>2, <1>3, <2>3, <2>4, <3>1, CountTerms
    <3>3. {Stamp(n) : n \in set} = {log[n].stamp : n \in set}
      BY <1>1, <1>2, <1>3, CountTerms
    <3>4. res(i) = [key |-> k,
                    start |-> Min({log[n].stamp : n \in set}),
                    end   |-> Max({log[n].stamp : n \in set}),
                    aggregated |-> IF d.aggregate THEN set ELSE {},
                    collected  |-> IF d.collect THEN set ELSE {},
                    by |-> "count", at |-> Max(set)]
      BY <1>2, <3>2, <3>3
    <3>5. "count" = IF d.emit = "current" THEN "update" ELSE "count"
      BY <1>4
    <3>6. PICK by : by = "count"
      OBVIOUS
    <3> QED BY <3>1, <3>4, <3>5 DEF CountResult
  <2>5. ASSUME NEW o \in Nat, NEW b
        PROVE  Expected(log, k, o, b, d) <=> \E i \in runs : o = i * step /\ b = o + c
    <3>1. ASSUME Expected(log, k, o, b, d)
          PROVE  \E i \in runs : o = i * step /\ b = o + c
      <4>1. o % step = 0 /\ b = o + c /\ b <= t
        BY <1>4, <1>5, <1>6, <2>1, <3>1 DEF Expected
      <4>2. PICK i \in Nat : o = i * step
        BY <4>1, MultiplesAre
      <4>3. i <= i * step
        BY MultiplesAre
      <4>4. i \in 0..t
        BY <4>1, <4>2, <4>3
      <4> QED BY <2>3, <2>2, <4>1, <4>2, <4>4
    <3>2. ASSUME NEW i \in runs, o = i * step, b = o + c
          PROVE  Expected(log, k, o, b, d)
      <4>1. i \in Nat /\ i * step + c <= t
        BY <2>3, <2>2
      <4>2. o % step = 0
        BY <3>2, <4>1, MultiplesAre
      <4>3. b <= t
        BY <3>2, <4>1
      <4> QED BY <1>5, <1>6, <2>1, <3>2, <4>2, <4>3 DEF Expected
    <3> QED BY <3>1, <3>2
  <2> HIDE DEF run, res, runs
  <2>6. ASSUME NEW r \in emitted, r.key = k
        PROVE  \E i \in runs : r = res(i)
    <3>1. PICK q \in Key, o \in Nat, b \in Nat :
                  Expected(log, q, o, b, d) /\ RunResult(r, log, q, o, b, d)
      BY <1>3 DEF CountResultsOK
    <3>2. q = k
      <4>1. r = [key |-> q, start |-> r.start, end |-> r.end,
                 aggregated |-> IF d.aggregate THEN Run(log, q, o + 1, b) ELSE {},
                 collected |-> IF d.collect THEN Run(log, q, o + 1, b) ELSE {},
                 by |-> IF d.emit = "current" THEN "update" ELSE "count", at |-> r.at]
        BY <3>1, Zenon DEF RunResult
      <4>2. r.key = q
        BY <4>1
      <4> QED BY <2>6, <4>2
    <3>3. Expected(log, k, o, b, d) /\ RunResult(r, log, k, o, b, d)
      BY <3>1, <3>2
    <3>4. PICK i \in runs : o = i * step /\ b = o + c
      BY <2>5, <3>3
    <3>5. r = CountResult(log, k, o, o + c, d)
      BY <1>3, <3>3, <3>4, ResultIsOne
    <3> QED BY <2>4, <3>4, <3>5
  <2>7. ASSUME NEW i \in runs
        PROVE  res(i) \in emitted /\ res(i).key = k
    <3>1. PICK o \in Nat : o = i * step
      BY <2>3, MultiplesAre
    <3>2. PICK b \in Nat : b = o + c
      BY <3>1
    <3>3. Expected(log, k, o, b, d)
      BY <2>5, <3>1, <3>2
    <3>4. PICK r \in emitted : RunResult(r, log, k, o, b, d)
      BY <1>3, <3>3 DEF CountResultsOK
    <3>5. r = CountResult(log, k, o, b, d)
      BY <1>3, <3>4, ResultIsOne
    <3>6. r = res(i)
      BY <2>4, <3>1, <3>2, <3>5
    <3>7. res(i).key = k
      BY DEF res
    <3> QED BY <3>6, <3>7
  <2>8. {r \in emitted : r.key = k} = {res(i) : i \in runs}
    BY <2>6, <2>7
  <2> QED BY <2>8 DEF res, run, runs
<1> QED BY <1>9, Zenon DEF CountResultsExact

\* A message of a key has every number up to their total.
LEMMA NumberReached ==
  ASSUME NEW log \in Seq(WindowMessage), NEW k, NEW b \in Nat \ {0}, b <= Total(log, k)
  PROVE  \E n \in 1..Len(log) : log[n].key = k /\ Number(log, k, n) = b
<1>1. PICK B : B = {n \in Nat : b <= Number(log, k, n)}
  OBVIOUS
<1>2. Len(log) \in Nat /\ Len(log) \in B
  BY <1>1 DEF Total
<1>3. PICK n \in B : \A m \in B : n <= m
  BY <1>1, <1>2, Least
<1>4. n \in Nat /\ b <= Number(log, k, n) /\ n <= Len(log)
  BY <1>1, <1>2, <1>3
<1>5. n # 0
  <2>1. Number(log, k, 0) = 0
    BY NumberIs
  <2> QED BY <1>4, <2>1
<1>6. n \in 1..Len(log)
  BY <1>2, <1>4, <1>5
<1>7. ~(b <= Number(log, k, n - 1))
  <2>1. n - 1 \in Nat /\ ~(n <= n - 1)
    BY <1>6
  <2>2. n - 1 \notin B
    BY <1>3, <2>1
  <2> QED BY <1>1, <2>1, <2>2
<1>8. PICK p \in Nat : p = Number(log, k, n - 1)
  BY NumberIs
<1>9. Number(log, k, n) = p + IF log[n].key = k THEN 1 ELSE 0
  BY <1>6, <1>8, NumberIs
<1>10. log[n].key = k /\ Number(log, k, n) = b
  BY <1>4, <1>7, <1>8, <1>9
<1> QED BY <1>6, <1>10

\* A later message of a key has a greater number.
LEMMA NumberRises ==
  ASSUME NEW log \in Seq(WindowMessage), NEW k, NEW n \in 1..Len(log), NEW m \in 1..Len(log),
         log[m].key = k, n < m
  PROVE  Number(log, k, n) < Number(log, k, m)
<1>1. PICK p \in Nat : p = Number(log, k, m - 1)
  BY NumberIs
<1>2. PICK a \in Nat : a = Number(log, k, n)
  BY NumberIs
<1>3. Number(log, k, m) = p + 1
  BY <1>1, NumberIs
<1>4. a <= p
  <2>1. n \in Nat /\ m - 1 \in Nat /\ n <= m - 1
    OBVIOUS
  <2> QED BY <1>1, <1>2, <2>1, NumberIs
<1> QED BY <1>2, <1>3, <1>4

\* The results of current() are the runs of each message with what has come.
LEMMA CountUpdatesFollow ==
  ASSUME CountInv
  PROVE  CountUpdatesExact
<1> SUFFICES ASSUME definition.kind = "count", Updating, NEW n \in Message
             PROVE  LET number == Cardinality({m \in MessagesOf(arrived[n].key) : m <= n})
                        runs == {i \in 0..number :
                                    number \in i * Stride + 1..i * Stride + definition.count}
                        run(i) == Numbered(arrived[n].key, i * Stride + 1, number)
                    IN  UpdatedBy(n) =
                        {[start |-> Min({Stamp(m) : m \in run(i)}),
                          end |-> Max({Stamp(m) : m \in run(i)}), messages |-> run(i)] : i \in runs}
  BY DEF CountUpdatesExact
<1>1. PICK log : log = arrived
  OBVIOUS
<1>2. PICK d : d = definition
  OBVIOUS
<1>3. /\ CountDefinition(d) /\ WindowComputes(d)
      /\ log \in Seq(WindowMessage) /\ CountResultsOK(emitted, log, d)
  BY <1>1, <1>2, CountsFollow DEF CountRight
<1>4. d.emit = "current" /\ d.aggregate
  BY <1>2, <1>3 DEF Updating, WindowComputes
<1>5. PICK step \in Nat \ {0} : step = Step(d)
  BY <1>3, StepIs
<1>6. PICK c \in Nat : c = d.count /\ 2 <= c
  BY <1>3, StepIs
<1>7. Stride = step /\ definition.count = c
  BY <1>1, <1>2, <1>3, <1>5, <1>6, CountTerms
<1>8. n \in 1..Len(log)
  BY <1>1, <1>2, <1>3, CountTerms
<1>9. PICK k \in Key : k = log[n].key
  BY <1>3, <1>8, MessageTypes
<1>10. PICK u \in Nat : u = Number(log, k, n) /\ 1 <= u /\ u <= Total(log, k)
  <2>1. Number(log, k, n) \in 1..Total(log, k) /\ Total(log, k) \in Nat
    BY <1>3, <1>8, <1>9, NumbersOf, NumberIs DEF Total
  <2> QED BY <2>1
<1> DEFINE number == Cardinality({m \in MessagesOf(arrived[n].key) : m <= n})
           runs == {i \in 0..number : number \in i * Stride + 1..i * Stride + definition.count}
           run(i) == Numbered(arrived[n].key, i * Stride + 1, number)
           res(i) == [start |-> Min({Stamp(m) : m \in run(i)}),
                      end |-> Max({Stamp(m) : m \in run(i)}), messages |-> run(i)]
<1>11. number = u
  BY <1>1, <1>2, <1>3, <1>9, <1>10, CountTerms
<1>12. runs = {i \in 0..u : u \in i * step + 1..i * step + c}
  BY <1>7, <1>11
<1>13. ASSUME NEW i, NEW o \in Nat, o = i * step
       PROVE  run(i) = Run(log, k, o + 1, u)
  <2>1. run(i) = Numbered(k, o + 1, u)
    BY <1>1, <1>7, <1>9, <1>11, <1>13
  <2> QED BY <1>1, <1>2, <1>3, <2>1, CountTerms
<1> HIDE DEF number, runs
<1>14. ASSUME NEW r \in emitted, NEW q, NEW o \in Nat, NEW b \in Nat, Expected(log, q, o, b, d),
              RunResult(r, log, q, o, b, d), r.at = n
       PROVE  q = k /\ b = u
  <2>1. n \in Run(log, q, o + 1, b) /\ \A m \in Run(log, q, o + 1, b) : m <= n
    BY <1>14 DEF RunResult
  <2>2. q = k
    BY <1>9, <2>1 DEF Run
  <2>3. u \in o + 1..b
    BY <1>10, <2>1, <2>2 DEF Run
  <2>4. o < b /\ b <= Total(log, k)
    BY <1>14, <2>2 DEF Expected
  <2>5. PICK m \in 1..Len(log) : log[m].key = k /\ Number(log, k, m) = b
    <3>1. b \in Nat \ {0}
      BY <2>4
    <3> QED BY <1>3, <2>4, <3>1, NumberReached
  <2>6. m \in Run(log, k, o + 1, b)
    BY <1>14, <2>4, <2>5 DEF Run
  <2>7. m <= n
    BY <2>1, <2>2, <2>6
  <2>8. b <= u
    <3>1. m \in Nat /\ n \in Nat
      BY <1>8
    <3> QED BY <1>3, <1>10, <2>5, <2>7, <3>1, NumberIs
  <2> QED BY <2>2, <2>3, <2>8
<1>15. ASSUME NEW r, NEW o \in Nat, RunResult(r, log, k, o, u, d)
       PROVE  /\ r.at \in 1..Len(log) /\ (n \in Run(log, k, o + 1, u) => r.at = n)
              /\ \A i : o = i * step =>
                    res(i) = [start |-> r.start, end |-> r.end, messages |-> r.aggregated]
  <2>1. r.at \in Run(log, k, o + 1, u) /\ \A m \in Run(log, k, o + 1, u) : m <= r.at
    BY <1>15 DEF RunResult
  <2>2. PICK at \in 1..Len(log) : at = r.at /\ log[at].key = k /\ Number(log, k, at) <= u
    BY <1>10, <2>1 DEF Run
  <2>3. ~(n < at)
    <3>1. PICK a \in Nat : a = Number(log, k, at)
      BY <1>3, NumberIs
    <3>2. n < at => u < a
      BY <1>3, <1>8, <1>10, <2>2, <3>1, NumberRises
    <3> QED BY <2>2, <3>1, <3>2
  <2>4. r = CountResult(log, k, o, u, d)
    BY <1>3, <1>15, ResultIsOne
  <2>5. ASSUME NEW i, o = i * step
        PROVE  res(i) = [start |-> r.start, end |-> r.end, messages |-> r.aggregated]
    <3>1. PICK set : set = Run(log, k, o + 1, u)
      OBVIOUS
    <3>2. run(i) = set
      BY <1>13, <2>5, <3>1
    <3>3. {Stamp(m) : m \in set} = {log[m].stamp : m \in set}
      BY <1>1, <1>2, <1>3, CountTerms
    <3>4. r.start = Min({log[m].stamp : m \in set}) /\ r.end = Max({log[m].stamp : m \in set})
          /\ r.aggregated = set
      BY <1>4, <2>4, <3>1 DEF CountResult
    <3> QED BY <3>2, <3>3, <3>4
  <2> QED BY <1>8, <2>1, <2>2, <2>3, <2>5
<1> HIDE DEF run
<1>16. UpdatedBy(n) = {[start |-> r.start, end |-> r.end, messages |-> r.aggregated] :
                       r \in {q \in emitted : q.at = n}}
  BY DEF UpdatedBy
<1> HIDE DEF res
<1>17. ASSUME NEW x \in UpdatedBy(n)
       PROVE  \E i \in runs : x = res(i)
  <2>1. PICK r \in emitted : r.at = n /\ x = [start |-> r.start, end |-> r.end,
                                              messages |-> r.aggregated]
    BY <1>16
  <2>2. PICK q \in Key, o \in Nat, b \in Nat :
                Expected(log, q, o, b, d) /\ RunResult(r, log, q, o, b, d)
    BY <1>3 DEF CountResultsOK
  <2>3. q = k /\ b = u
    BY <1>14, <2>1, <2>2
  <2>4. Expected(log, k, o, u, d) /\ RunResult(r, log, k, o, u, d)
    BY <2>2, <2>3
  <2>5. o % step = 0 /\ o < u /\ u <= o + c
    BY <1>5, <1>6, <2>4 DEF Expected
  <2>6. PICK i \in Nat : o = i * step
    BY <2>5, MultiplesAre
  <2>7. i <= i * step
    BY MultiplesAre
  <2>8. i \in 0..u /\ u \in i * step + 1..i * step + c
    BY <2>5, <2>6, <2>7
  <2>9. i \in runs
    BY <1>12, <2>8
  <2>10. x = res(i)
    BY <1>15, <2>1, <2>4, <2>6
  <2> QED BY <2>9, <2>10
<1>18. ASSUME NEW i \in runs
       PROVE  res(i) \in UpdatedBy(n)
  <2>1. i \in Nat /\ u \in i * step + 1..i * step + c
    BY <1>12
  <2>2. PICK o \in Nat : o = i * step
    BY <2>1, MultiplesAre
  <2>3. o % step = 0 /\ o < u /\ u <= o + c
    BY <2>1, <2>2, MultiplesAre
  <2>4. Expected(log, k, o, u, d)
    BY <1>4, <1>5, <1>6, <1>10, <2>3 DEF Expected
  <2>5. PICK r \in emitted : RunResult(r, log, k, o, u, d)
    BY <1>3, <2>4 DEF CountResultsOK
  <2>6. n \in Run(log, k, o + 1, u)
    BY <1>8, <1>9, <1>10, <2>3 DEF Run
  <2>7. r.at = n /\ res(i) = [start |-> r.start, end |-> r.end, messages |-> r.aggregated]
    BY <1>15, <2>2, <2>5, <2>6
  <2> QED BY <1>16, <2>5, <2>7
<1>19. UpdatedBy(n) = {res(i) : i \in runs}
  BY <1>17, <1>18
<1> QED BY <1>19 DEF res, run, runs, number

-----------------------------------------------------------------------------
(* Theorem. *)

\* The results of count windows are the consecutive runs of messages, complete for final()
\* and with what has come so far for current().
THEOREM CountWindowsHold ==
  ASSUME AllCountsAligned
  PROVE  Spec => [](CountResultsExact /\ CountUpdatesExact)
<1>1. CountInv => CountResultsExact /\ CountUpdatesExact
  BY CountResultsFollow, CountUpdatesFollow
<1> QED BY <1>1, CountsHold, PTL
=============================================================================
