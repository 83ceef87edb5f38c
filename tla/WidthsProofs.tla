---------------------------- MODULE WidthsProofs ----------------------------
(***************************************************************************)
(* Proofs about the widths of the code: the packet table and the timers    *)
(* under a clock that wraps around, for a word of any even size, a table   *)
(* of any size and any priorities and delays; and the length byte of a     *)
(* path, for any number of nodes.                                          *)
(***************************************************************************)
EXTENDS MillisQueue, FloodPath, PacketQueueProofs, WellFoundedInduction

(***************************************************************************)
(* Arithmetic modulo the word.                                             *)
(***************************************************************************)
\* A remainder is found by counting the whole words.
LEMMA Remainder ==
  ASSUME NEW n \in Nat \ {0}, NEW x \in Int
  PROVE  /\ 0 <= x /\ x < n => x % n = x
         /\ n <= x /\ x < 2 * n => x % n = x - n
         /\ -n <= x /\ x < 0 => x % n = x + n
<1>1. PICK q \in Int, r \in 0..(n - 1) : x = n * q + r /\ x % n = r
  OBVIOUS
<1>2. q >= 2 => n * q >= 2 * n
  BY <1>1
<1>3. q <= -1 => n * q <= -n
  BY <1>1
<1>4. q <= -2 => n * q <= -(2 * n)
  BY <1>1
<1>5. q >= 1 => n * q >= n
  BY <1>1
<1>6. (q = 0 => n * q = 0) /\ (q = 1 => n * q = n) /\ (q = -1 => n * q = -n)
  OBVIOUS
<1>7. PICK p \in Int : p = n * q
  OBVIOUS
<1>8. ASSUME 0 <= x, x < n PROVE x % n = x
  BY <1>1, <1>3, <1>5, <1>6, <1>7, <1>8
<1>9. ASSUME n <= x, x < 2 * n PROVE x % n = x - n
  BY <1>1, <1>2, <1>3, <1>6, <1>7, <1>9
<1>10. ASSUME -n <= x, x < 0 PROVE x % n = x + n
  BY <1>1, <1>4, <1>5, <1>6, <1>7, <1>10
<1> QED BY <1>8, <1>9, <1>10

LEMMA HalfWord == EvenWord => Word \in Nat \ {0} /\ Half \in Nat \ {0} /\ Word = 2 * Half
BY DEF EvenWord, Half

\* The difference of two times of day, and the time that is t after one.
LEMMA Distance ==
  ASSUME EvenWord, NEW a \in 0..(Word - 1), NEW b \in 0..(Word - 1)
  PROVE  (a - b) % Word = IF a >= b THEN a - b ELSE a - b + Word
<1>1. Word \in Nat \ {0}
  BY DEF EvenWord
<1>2. PICK d \in Int : d = a - b
  BY <1>1
<1>3. /\ 0 <= d /\ d < Word => d % Word = d
      /\ -Word <= d /\ d < 0 => d % Word = d + Word
  BY <1>1, Remainder, Zenon
<1>4. PICK m : m = d % Word
  OBVIOUS
<1>5. m = IF a >= b THEN a - b ELSE a - b + Word
  BY <1>1, <1>2, <1>3, <1>4
<1> QED BY <1>2, <1>4, <1>5

LEMMA LaterTime ==
  ASSUME EvenWord, NEW a \in 0..(Word - 1), NEW t \in 0..(Word - 1)
  PROVE  (a + t) % Word = IF a + t < Word THEN a + t ELSE a + t - Word
<1>1. Word \in Nat \ {0}
  BY DEF EvenWord
<1>2. PICK s \in Int : s = a + t
  BY <1>1
<1>3. /\ 0 <= s /\ s < Word => s % Word = s
      /\ Word <= s /\ s < 2 * Word => s % Word = s - Word
  BY <1>1, Remainder, Zenon
<1>4. PICK m : m = s % Word
  OBVIOUS
<1>5. m = IF a + t < Word THEN a + t ELSE a + t - Word
  BY <1>1, <1>2, <1>3, <1>4
<1> QED BY <1>2, <1>4, <1>5

(***************************************************************************)
(* The timer and the table keep step with their distances.                 *)
(***************************************************************************)
\* x is d after now, around the word.
After(x, d) == x \in {now + d, now + d + Word, now + d - Word}

TimerInv ==
  /\ now \in 0..(Word - 1) /\ timer \in 0..(Word - 1)
  /\ remaining \in (1 - Half)..(Half - 1)
  /\ After(timer, remaining)

LEMMA InitTimer == EvenWord /\ TableInit => TimerInv
BY HalfWord DEF TableInit, TimerInv, After

LEMMA NextTimer == EvenWord /\ ShortDelays /\ TimerInv /\ [TableNext]_tableVars => TimerInv'
<1> SUFFICES ASSUME EvenWord, ShortDelays, TimerInv, [TableNext]_tableVars PROVE TimerInv'
  OBVIOUS
<1>1. Word \in Nat \ {0} /\ Half \in Nat \ {0} /\ Word = 2 * Half
  BY HalfWord
<1>2. CASE TableTick
  <2>1. now' = IF now + 1 < Word THEN now + 1 ELSE now + 1 - Word
    BY <1>1, <1>2, LaterTime DEF TableTick, TimerInv
  <2> QED BY <1>1, <1>2, <2>1 DEF TableTick, TimerInv, After
<1>3. ASSUME NEW t \in TableDelays, Arm(t) PROVE TimerInv'
  <2>1. t \in 0..(Half - 1)
    BY DEF ShortDelays
  <2>2. timer' = IF now + t < Word THEN now + t ELSE now + t - Word
    BY <1>1, <1>3, <2>1, LaterTime DEF Arm, futureMillis, TimerInv
  <2> QED BY <1>1, <1>3, <2>1, <2>2 DEF Arm, TimerInv, After
<1>4. CASE UNCHANGED <<now, timer, remaining>>
  BY <1>4 DEF TimerInv, After
<1> QED BY <1>2, <1>3, <1>4 DEF TableNext, Get, Add, tableVars

LEMMA TimerIsRight == EvenWord /\ TimerInv => TimerAgrees
<1> SUFFICES ASSUME EvenWord, TimerInv PROVE TimerAgrees
  OBVIOUS
<1>1. /\ Word \in Nat \ {0} /\ Half \in Nat \ {0} /\ Word = 2 * Half
      /\ (now - timer) % Word = IF now >= timer THEN now - timer ELSE now - timer + Word
  BY Distance, HalfWord DEF TimerInv
<1> QED BY <1>1 DEF TimerInv, After, TimerAgrees, millisHasNowPassed, SignedDifference

\* A timer set with futureMillis() for less than half a word ahead, and looked at
\* before it has been over for half a word, reads as passed when it is, and only
\* then.
THEOREM TimersPass == EvenWord /\ ShortDelays => (TableSpec => []TimerAgrees)
<1> SUFFICES ASSUME EvenWord, ShortDelays PROVE TableSpec => []TimerAgrees
  OBVIOUS
<1>1. TableInit => TimerInv
  BY InitTimer
<1>2. TimerInv /\ [TableNext]_tableVars => TimerInv'
  BY NextTimer
<1>3. TimerInv => TimerAgrees
  BY TimerIsRight
<1> QED BY <1>1, <1>2, <1>3, PTL DEF TableSpec

(***************************************************************************)
(* The scan.                                                               *)
(***************************************************************************)
LEMMA LeastNumber ==
  ASSUME NEW S, S \subseteq Nat, S # {}
  PROVE  \E m \in S : \A n \in S : m <= n
<1>1. PICK R : /\ IsWellFoundedOn(R, Nat)
               /\ \A a, b \in Nat : a < b => <<a, b>> \in R
  <2> DEFINE R == {ss \in Nat \X Nat : ss[1] < ss[2]}
  <2>1. IsWellFoundedOn(R, Nat)
    BY NatLessThanWellFounded DEF OpToRel
  <2>2. \A a, b \in Nat : a < b => <<a, b>> \in R
    OBVIOUS
  <2> QED BY <2>1, <2>2
<1>2. \E m \in S : \A n \in S : ~(<<n, m>> \in R)
  <2>1. IsWellFoundedOn(R, Nat)
    BY <1>1
  <2> QED BY <2>1, WFMin, Zenon
<1>3. PICK m \in S : \A n \in S : ~(<<n, m>> \in R)
  BY <1>2
<1>4. ASSUME NEW n \in S PROVE m <= n
  <2>1. m \in Nat /\ n \in Nat
    OBVIOUS
  <2>2. ~(n < m)
    BY <1>1, <1>3, <2>1
  <2> QED BY <2>1, <2>2
<1> QED BY <1>4

\* f is a scan of the first n entries.
ScanOf(f, n) == f = [k \in 0..n |-> IF k = 0 THEN <<255, 0>> ELSE Step(f[k - 1], k)]

LEMMA ScanExists == \A n \in Nat : \E f : ScanOf(f, n)
<1> DEFINE Missing == {n \in Nat : \A f : ~ScanOf(f, n)}
<1>1. SUFFICES ASSUME Missing # {} PROVE FALSE
  OBVIOUS
<1>2. PICK m \in Missing : \A n \in Missing : m <= n
  <2> HIDE DEF Missing
  <2>1. Missing \subseteq Nat
    BY DEF Missing
  <2> QED BY <1>1, <2>1, LeastNumber
<1>3. CASE m = 0
  <2>1. ScanOf([k \in 0..0 |-> <<255, 0>>], 0)
    BY DEF ScanOf
  <2> QED BY <1>3, <2>1
<1>4. CASE m # 0
  <2>1. m - 1 \in Nat /\ m - 1 \notin Missing
    BY <1>2, <1>4
  <2>2. PICK f : ScanOf(f, m - 1)
    BY <2>1
  <2> DEFINE g == [k \in 0..m |-> IF k = m THEN Step(f[m - 1], m) ELSE f[k]]
  <2>3. ASSUME NEW k \in 0..m
        PROVE  g[k] = IF k = 0 THEN <<255, 0>> ELSE Step(g[k - 1], k)
    <3>1. CASE k = m
      BY <1>4, <2>1, <3>1
    <3>2. CASE k # m
      <4>1. f[k] = IF k = 0 THEN <<255, 0>> ELSE Step(f[k - 1], k)
        BY <2>2, <3>2 DEF ScanOf
      <4>2. k # 0 => g[k - 1] = f[k - 1]
        BY <3>2
      <4> QED BY <3>2, <4>1, <4>2
    <3> QED BY <3>1, <3>2
  <2>4. ScanOf(g, m)
    BY <2>3 DEF ScanOf
  <2> QED BY <2>4
<1> QED BY <1>3, <1>4

LEMMA ScanIsScan == Len(table) \in Nat => ScanOf(scan, Len(table))
<1> SUFFICES ASSUME Len(table) \in Nat PROVE ScanOf(scan, Len(table))
  OBVIOUS
<1>1. PICK f : ScanOf(f, Len(table))
  BY ScanExists
<1> QED BY <1>1 DEF scan, ScanOf

\* What the scan has found among the first k entries: nothing, if none is due,
\* or the first of the most important ones that are.
Found(b, k) ==
  \/ b = <<255, 0>> /\ \A j \in 1..k : j \notin NonFuture(ideal)
  \/ /\ b[2] \in 1..k /\ b[2] \in NonFuture(ideal)
     /\ b[1] = ideal[b[2]].pri
     /\ \A j \in 1..k : j \in NonFuture(ideal) => Preferred(ideal, b[2], j)

\* Entry e of the table is entry x of the ideal queue: it is due in x.at, or has
\* been for no more than half a word.
SameEntry(e, x) ==
  /\ e.pri = x.pri /\ e.pri \in TablePriorities /\ e.sched \in 0..(Word - 1)
  /\ x.at \in 0..(Half - 1)
  /\ \E d \in (-Half)..(Half - 1) :
       /\ After(e.sched, d)
       /\ x.at = IF d > 0 THEN d ELSE 0

TableInv ==
  /\ now \in 0..(Word - 1)
  /\ table \in Seq([pri : TablePriorities, sched : 0..(Word - 1)])
  /\ ideal \in Seq(Entry({"packet"}, TablePriorities, 0..(Half - 1)))
  /\ Len(ideal) = Len(table)
  /\ \A i \in 1..Len(table) : SameEntry(table[i], ideal[i])

LEMMA TableFacts ==
  ASSUME TableInv
  PROVE  /\ Len(table) \in Nat
         /\ DOMAIN table = 1..Len(table) /\ DOMAIN ideal = 1..Len(table)
BY LenProperties DEF TableInv

\* The comparison modulo the word tells whether an entry is due.
LEMMA FutureIsAhead ==
  ASSUME EvenWord, now \in 0..(Word - 1), NEW e, NEW x, SameEntry(e, x)
  PROVE  ScheduledForFuture(e) <=> x.at > 0
<1>1. Word \in Nat \ {0} /\ Half \in Nat \ {0} /\ Word = 2 * Half
  BY HalfWord
<1>2. PICK d \in (-Half)..(Half - 1) :
        After(e.sched, d) /\ x.at = IF d > 0 THEN d ELSE 0
  BY DEF SameEntry
<1>3. PICK s \in 0..(Word - 1) : s = e.sched
  BY DEF SameEntry
<1>4. PICK m : m = (s - now) % Word
  OBVIOUS
<1>5. m = IF s >= now THEN s - now ELSE s - now + Word
  BY <1>3, <1>4, Distance
<1>6. ScheduledForFuture(e) <=> (IF m < Half THEN m ELSE m - Word) > 0
  BY <1>3, <1>4 DEF ScheduledForFuture, SignedDifference
<1> QED BY <1>1, <1>2, <1>3, <1>5, <1>6 DEF After

LEMMA DueAreDue ==
  ASSUME EvenWord, TableInv, NEW i \in 1..Len(table)
  PROVE  /\ i \in NonFuture(ideal) <=> ~ScheduledForFuture(table[i])
         /\ table[i].pri = ideal[i].pri /\ table[i].pri \in TablePriorities
<1>1. SameEntry(table[i], ideal[i]) /\ now \in 0..(Word - 1)
  BY DEF TableInv
<1>2. ScheduledForFuture(table[i]) <=> ideal[i].at > 0
  BY <1>1, FutureIsAhead
<1>3. ideal[i].at \in Nat
  BY <1>1, HalfWord DEF SameEntry
<1>4. i \in NonFuture(ideal) <=> ~(ideal[i].at > 0)
  BY <1>3, TableFacts DEF NonFuture
<1> QED BY <1>1, <1>2, <1>4 DEF SameEntry

LEMMA PrioritiesAreBytes ==
  ShortDelays => \A x \in TablePriorities : x \in 0..254 /\ x \in Nat /\ x < 255
<1> SUFFICES ASSUME ShortDelays, NEW x \in TablePriorities
             PROVE  x \in 0..254 /\ x \in Nat /\ x < 255
  OBVIOUS
<1>1. x \in 0..254
  BY Zenon DEF ShortDelays
<1> QED BY <1>1

\* Preferred orders entries with numbers for priorities.
LEMMA PreferredOrders ==
  ASSUME NEW q, NEW i \in Nat, NEW j \in Nat, q[i].pri \in Nat, q[j].pri \in Nat
  PROVE  /\ Preferred(q, i, i)
         /\ Preferred(q, i, j) /\ Preferred(q, j, i) => i = j
         /\ q[i].pri < q[j].pri => Preferred(q, i, j)
         /\ q[i].pri <= q[j].pri /\ i < j => Preferred(q, i, j)
         /\ Preferred(q, i, j) => q[i].pri <= q[j].pri
<1>1. Preferred(q, i, i) /\ (q[i].pri < q[j].pri => Preferred(q, i, j))
  BY DEF Preferred
<1>2. Preferred(q, i, j) /\ Preferred(q, j, i) => i = j
  BY DEF Preferred
<1>3. q[i].pri <= q[j].pri /\ i < j => Preferred(q, i, j)
  BY DEF Preferred
<1>4. Preferred(q, i, j) => q[i].pri <= q[j].pri
  BY DEF Preferred
<1> QED BY <1>1, <1>2, <1>3, <1>4

\* One more entry.
LEMMA StepFinds ==
  ASSUME EvenWord, ShortDelays, TableInv, NEW k \in 1..Len(table), NEW b, Found(b, k - 1)
  PROVE  Found(Step(b, k), k)
<1>1. Len(table) \in Nat /\ k \in Nat
  BY TableFacts
<1>2. \A j \in 1..k : j \in Nat /\ ideal[j].pri \in Nat /\ ideal[j].pri < 255
  <2> SUFFICES ASSUME NEW j \in 1..k
               PROVE  j \in Nat /\ ideal[j].pri \in Nat /\ ideal[j].pri < 255
    OBVIOUS
  <2>1. j \in 1..Len(table) /\ j \in Nat
    BY <1>1
  <2>2. ideal[j].pri \in TablePriorities
    BY <2>1, DueAreDue
  <2> QED BY <2>1, <2>2, PrioritiesAreBytes
<1>3. /\ k \in NonFuture(ideal) <=> ~ScheduledForFuture(table[k])
      /\ table[k].pri = ideal[k].pri /\ k \in 1..k
  BY <1>1, DueAreDue
<1>4. \A j \in 1..k : j \in 1..(k - 1) \/ j = k
  BY <1>1
<1>5. CASE ScheduledForFuture(table[k])
  <2>1. Step(b, k) = b
    BY <1>5 DEF Step
  <2>2. 1..(k - 1) \subseteq 1..k
    BY <1>1
  <2> QED BY <1>3, <1>4, <1>5, <2>1, <2>2 DEF Found
<1>6. CASE ~ScheduledForFuture(table[k]) /\ table[k].pri < b[1]
  <2>1. PICK c : c = Step(b, k)
    OBVIOUS
  <2>2. c = <<table[k].pri, k>>
    BY <1>6, <2>1 DEF Step
  <2>3. c[1] = ideal[k].pri /\ c[2] = k
    BY <1>3, <2>2
  <2>4. ASSUME NEW j \in 1..k, j \in NonFuture(ideal) PROVE Preferred(ideal, k, j)
    <3>1. k \in Nat /\ j \in Nat /\ ideal[k].pri \in Nat /\ ideal[j].pri \in Nat
      BY <1>2, <1>3
    <3>2. CASE j = k
      BY <3>1, <3>2, PreferredOrders
    <3>3. CASE j \in 1..(k - 1)
      <4>1. b # <<255, 0>>
        BY <2>4, <3>3 DEF Found
      <4>2. PICK i \in 1..(k - 1) : /\ i = b[2] /\ b[1] = ideal[i].pri
                                    /\ Preferred(ideal, i, j)
        BY <2>4, <3>3, <4>1 DEF Found
      <4>3. i \in 1..k
        BY <1>1
      <4>4. ideal[i].pri \in Nat /\ i \in Nat
        BY <1>2, <4>3
      <4>5. ideal[i].pri <= ideal[j].pri
        BY <3>1, <4>2, <4>4, PreferredOrders
      <4>6. ideal[k].pri < ideal[i].pri
        BY <1>3, <1>6, <4>2
      <4>7. ideal[k].pri < ideal[j].pri
        BY <3>1, <4>4, <4>5, <4>6
      <4> QED BY <3>1, <4>7, PreferredOrders
    <3> QED BY <1>4, <3>2, <3>3
  <2> QED BY <1>1, <1>3, <1>6, <2>1, <2>3, <2>4 DEF Found
<1>7. CASE ~ScheduledForFuture(table[k]) /\ ~(table[k].pri < b[1])
  <2>1. Step(b, k) = b
    BY <1>7 DEF Step
  <2>2. ideal[k].pri < 255 /\ ~(ideal[k].pri < b[1])
    <3>1. ideal[k].pri < 255
      BY <1>2, <1>3
    <3> QED BY <1>3, <1>7, <3>1, Zenon
  <2>3. b # <<255, 0>>
    <3>1. SUFFICES ASSUME b = <<255, 0>> PROVE FALSE
      OBVIOUS
    <3>2. b[1] = 255
      BY <3>1
    <3> QED BY <2>2, <3>2, Zenon
  <2>4. /\ b[2] \in 1..(k - 1) /\ b[2] \in NonFuture(ideal) /\ b[1] = ideal[b[2]].pri
        /\ \A j \in 1..(k - 1) : j \in NonFuture(ideal) => Preferred(ideal, b[2], j)
    BY <2>3 DEF Found
  <2>5. PICK i \in 1..(k - 1) : i = b[2] /\ b[1] = ideal[i].pri
    BY <2>4
  <2>6. i \in 1..k /\ i < k
    BY <1>1
  <2>7. ideal[i].pri <= ideal[k].pri /\ ideal[i].pri \in Nat /\ ideal[k].pri \in Nat
    <3>1. ideal[i].pri \in Nat /\ ideal[k].pri \in Nat
      BY <1>2, <1>3, <2>6
    <3>2. ~(ideal[k].pri < ideal[i].pri)
      BY <2>2, <2>5, Zenon
    <3> QED BY <3>1, <3>2
  <2>8. Preferred(ideal, i, k)
    BY <1>1, <2>6, <2>7, PreferredOrders
  <2> QED BY <1>4, <2>1, <2>4, <2>5, <2>6, <2>8 DEF Found
<1> QED BY <1>5, <1>6, <1>7

LEMMA ScanFinds ==
  ASSUME EvenWord, ShortDelays, TableInv
  PROVE  \A k \in 0..Len(table) : Found(scan[k], k)
<1>1. Len(table) \in Nat /\ ScanOf(scan, Len(table))
  BY TableFacts, ScanIsScan
<1>2. \A k \in 0..Len(table) : scan[k] = IF k = 0 THEN <<255, 0>> ELSE Step(scan[k - 1], k)
  BY <1>1 DEF ScanOf
<1> DEFINE Bad == {k \in 0..Len(table) : ~Found(scan[k], k)}
<1>3. SUFFICES ASSUME Bad # {} PROVE FALSE
  OBVIOUS
<1>4. PICK m \in Bad : \A n \in Bad : m <= n
  <2>1. Bad \subseteq Nat
    BY <1>1
  <2> HIDE DEF Bad
  <2> QED BY <1>3, <2>1, LeastNumber
<1>5. m \in 0..Len(table) /\ ~Found(scan[m], m)
  OBVIOUS
<1>6. CASE m = 0
  <2>1. scan[0] = <<255, 0>>
    BY <1>2, <1>5, <1>6
  <2> QED BY <1>5, <1>6, <2>1 DEF Found
<1>7. CASE m # 0
  <2>1. m \in 1..Len(table) /\ m - 1 \in 0..Len(table) /\ m - 1 \notin Bad
    BY <1>1, <1>4, <1>5, <1>7
  <2>2. Found(scan[m - 1], m - 1) /\ scan[m] = Step(scan[m - 1], m)
    BY <1>2, <1>5, <1>7, <2>1
  <2>3. PICK b : b = scan[m - 1]
    OBVIOUS
  <2> QED BY <1>5, <2>1, <2>2, <2>3, StepFinds
<1> QED BY <1>6, <1>7

LEMMA ScanIsBest == EvenWord /\ ShortDelays /\ TableInv => ScanFindsBest
<1> SUFFICES ASSUME EvenWord, ShortDelays, TableInv PROVE ScanFindsBest
  OBVIOUS
<1>1. PICK n \in Nat : n = Len(table) /\ DOMAIN ideal = 1..n
  BY TableFacts
<1>2. PICK b : b = scan[n] /\ Found(b, n)
  BY <1>1, ScanFinds
<1>3. best_idx = b[2]
  BY <1>1, <1>2 DEF best_idx
<1>4. NonFuture(ideal) \subseteq 1..n
  BY <1>1 DEF NonFuture
<1>5. CASE NonFuture(ideal) = {}
  <2>1. b = <<255, 0>>
    BY <1>2, <1>5 DEF Found
  <2> QED BY <1>3, <1>5, <2>1 DEF ScanFindsBest
<1>6. CASE NonFuture(ideal) # {}
  <2>1. b # <<255, 0>>
    BY <1>2, <1>4, <1>6 DEF Found
  <2>2. Found(b, n)
    BY <1>2
  <2>3. /\ b[2] \in NonFuture(ideal)
        /\ \A j \in NonFuture(ideal) : Preferred(ideal, b[2], j)
    BY <1>4, <2>1, <2>2 DEF Found
  <2>4. /\ BestIndex(ideal) \in NonFuture(ideal)
        /\ \A j \in NonFuture(ideal) : Preferred(ideal, BestIndex(ideal), j)
    <3>1. TablePriorities \subseteq Nat /\ 0..(Half - 1) \subseteq Int
      BY HalfWord DEF ShortDelays
    <3>2. ideal \in Seq(Entry({"packet"}, TablePriorities, 0..(Half - 1)))
      BY DEF TableInv
    <3> QED BY <1>6, <3>1, <3>2, BestIndexExists
  <2>5. PICK k \in 1..n : k = BestIndex(ideal)
    BY <1>4, <2>4
  <2>6. PICK l \in 1..n : l = b[2]
    BY <1>4, <2>3
  <2>7. Preferred(ideal, k, l) /\ Preferred(ideal, l, k)
    BY <2>3, <2>4, <2>5, <2>6
  <2>8. ideal[k].pri \in Nat /\ ideal[l].pri \in Nat
    <3>1. ideal[k].pri \in TablePriorities /\ ideal[l].pri \in TablePriorities
      BY <1>1, DueAreDue
    <3> QED BY <3>1, PrioritiesAreBytes
  <2>9. k = l
    BY <1>1, <2>7, <2>8, PreferredOrders
  <2> QED BY <1>3, <1>6, <2>5, <2>6, <2>9 DEF ScanFindsBest
<1> QED BY <1>5, <1>6

LEMMA CountedCanBeGot == EvenWord /\ ShortDelays /\ TableInv => CountedIsThere
<1> SUFFICES ASSUME EvenWord, ShortDelays, TableInv PROVE CountedIsThere
  OBVIOUS
<1>1. PICK n \in Nat : n = Len(table) /\ DOMAIN table = 1..n /\ DOMAIN ideal = 1..n
  BY TableFacts
<1>2. {i \in DOMAIN table : ~ScheduledForFuture(table[i])} = NonFuture(ideal)
  BY <1>1, DueAreDue DEF NonFuture
<1>3. IF NonFuture(ideal) = {} THEN best_idx = 0 ELSE best_idx \in NonFuture(ideal)
  <2>1. ScanFindsBest
    BY ScanIsBest
  <2>2. NonFuture(ideal) # {} => BestIndex(ideal) \in NonFuture(ideal)
    <3>1. TablePriorities \subseteq Nat /\ 0..(Half - 1) \subseteq Int
      BY PrioritiesAreBytes, HalfWord
    <3>2. ideal \in Seq(Entry({"packet"}, TablePriorities, 0..(Half - 1)))
      BY DEF TableInv
    <3> QED BY <3>1, <3>2, BestIndexExists
  <2> QED BY <2>1, <2>2 DEF ScanFindsBest
<1>4. NonFuture(ideal) \subseteq 1..n /\ IsFiniteSet(NonFuture(ideal))
  <2>1. NonFuture(ideal) \subseteq 1..n
    BY <1>1 DEF NonFuture
  <2> QED BY <2>1, IntervalSize, FS_Subset
<1>5. Cardinality(NonFuture(ideal)) = 0 <=> NonFuture(ideal) = {}
  BY <1>4, FS_EmptySet
<1>6. WordCountBefore = IF now = Word - 1 THEN n ELSE Cardinality(NonFuture(ideal))
  BY <1>1, <1>2 DEF WordCountBefore
<1>7. ASSUME WordCountBefore = 0 PROVE best_idx = 0
  <2>1. NonFuture(ideal) = {}
    <3>1. CASE now = Word - 1
      <4>1. n = 0
        BY <1>6, <1>7, <3>1
      <4> QED BY <1>4, <4>1
    <3>2. CASE now # Word - 1
      BY <1>5, <1>6, <1>7, <3>2
    <3> QED BY <3>1, <3>2
  <2> QED BY <1>3, <2>1
<1>8. ASSUME WordCountBefore > 0, now # Word - 1 PROVE best_idx # 0
  <2>1. Cardinality(NonFuture(ideal)) > 0
    BY <1>6, <1>8
  <2>2. NonFuture(ideal) # {}
    BY <1>5, <2>1
  <2>3. best_idx \in 1..n
    BY <1>3, <1>4, <2>2
  <2> QED BY <2>3
<1> QED BY <1>7, <1>8 DEF CountedIsThere

(***************************************************************************)
(* Every step keeps the table in step with the ideal queue.                *)
(***************************************************************************)
LEMMA AddKeepsTable ==
  ASSUME EvenWord, ShortDelays, TableInv,
         NEW pri \in TablePriorities, NEW t \in TableDelays, Add(pri, t)
  PROVE  TableInv'
<1>1. /\ Word \in Nat \ {0} /\ Half \in Nat \ {0} /\ Word = 2 * Half
      /\ t \in 0..(Half - 1) /\ now \in 0..(Word - 1)
  BY HalfWord DEF ShortDelays, TableInv
<1>2. PICK s \in 0..(Word - 1) :
        s = futureMillis(t) /\ s = IF now + t < Word THEN now + t ELSE now + t - Word
  <2>1. t \in 0..(Word - 1)
    BY <1>1
  <2>2. futureMillis(t) = IF now + t < Word THEN now + t ELSE now + t - Word
    BY <1>1, <2>1, LaterTime DEF futureMillis
  <2>3. (IF now + t < Word THEN now + t ELSE now + t - Word) \in 0..(Word - 1)
    BY <1>1
  <2> QED BY <2>2, <2>3
<1>3. PICK e, x : /\ e = [pri |-> pri, sched |-> s]
                  /\ x = [pkt |-> "packet", pri |-> pri, at |-> t]
  OBVIOUS
<1>4. table' = Append(table, e) /\ ideal' = Append(ideal, x) /\ now' = now
  BY <1>2, <1>3 DEF Add, add
<1>5. SameEntry(e, x)
  <2>1. After(s, t)
    BY <1>1, <1>2 DEF After
  <2>2. t \in (-Half)..(Half - 1) /\ t = IF t > 0 THEN t ELSE 0
    BY <1>1
  <2> QED BY <1>1, <1>3, <2>1, <2>2 DEF SameEntry
<1>6. /\ e \in [pri : TablePriorities, sched : 0..(Word - 1)]
      /\ x \in Entry({"packet"}, TablePriorities, 0..(Half - 1))
  BY <1>1, <1>3 DEF Entry
<1>7. PICK n \in Nat : n = Len(table) /\ n = Len(ideal)
  BY TableFacts DEF TableInv
<1>8. /\ table' \in Seq([pri : TablePriorities, sched : 0..(Word - 1)])
      /\ ideal' \in Seq(Entry({"packet"}, TablePriorities, 0..(Half - 1)))
      /\ Len(table') = n + 1 /\ Len(ideal') = n + 1
      /\ \A i \in 1..n : table'[i] = table[i] /\ ideal'[i] = ideal[i]
      /\ table'[n + 1] = e /\ ideal'[n + 1] = x
  BY <1>4, <1>6, <1>7, AppendProperties DEF TableInv
<1>9. ASSUME NEW i \in 1..(n + 1) PROVE SameEntry(table'[i], ideal'[i])
  <2>1. CASE i = n + 1
    BY <1>5, <1>8, <2>1
  <2>2. CASE i \in 1..n
    <3>1. SameEntry(table[i], ideal[i])
      BY <1>7, <2>2 DEF TableInv
    <3> QED BY <1>8, <2>2, <3>1
  <2> QED BY <2>1, <2>2
<1>10. \A i \in 1..Len(table') : SameEntry(table[i], ideal[i])'
  BY <1>4, <1>8, <1>9 DEF SameEntry, After
<1> QED BY <1>1, <1>4, <1>8, <1>10 DEF TableInv

LEMMA GetKeepsTable == EvenWord /\ ShortDelays /\ TableInv /\ Get => TableInv'
<1> SUFFICES ASSUME EvenWord, ShortDelays, TableInv, Get PROVE TableInv'
  OBVIOUS
<1>1. PICK n \in Nat : n = Len(table) /\ n = Len(ideal) /\ DOMAIN ideal = 1..n
  BY TableFacts DEF TableInv
<1>2. PICK k \in 1..n : k = best_idx /\ k = BestIndex(ideal)
  <2>1. ScanFindsBest /\ best_idx # 0
    BY ScanIsBest DEF Get
  <2>2. NonFuture(ideal) # {} /\ best_idx = BestIndex(ideal)
    BY <2>1 DEF ScanFindsBest
  <2>3. BestIndex(ideal) \in DOMAIN ideal
    <3>1. TablePriorities \subseteq Nat /\ 0..(Half - 1) \subseteq Int
      BY PrioritiesAreBytes, HalfWord
    <3>2. ideal \in Seq(Entry({"packet"}, TablePriorities, 0..(Half - 1)))
      BY DEF TableInv
    <3> QED BY <2>2, <3>1, <3>2, BestIndexExists
  <2> QED BY <1>1, <2>2, <2>3
<1>3. table' = RemoveAt(table, k) /\ ideal' = RemoveAt(ideal, k) /\ now' = now
  BY <1>2 DEF Get, removeByIdx
<1>4. /\ table' \in Seq([pri : TablePriorities, sched : 0..(Word - 1)])
      /\ DOMAIN table' = 1..(n - 1)
      /\ \A i \in 1..(n - 1) : table'[i] = IF i < k THEN table[i] ELSE table[i + 1]
  <2>1. PICK q, E : /\ q = table /\ E = [pri : TablePriorities, sched : 0..(Word - 1)]
                    /\ q \in Seq(E)
    BY DEF TableInv
  <2>2. k \in 1..Len(q) /\ Len(q) = n
    BY <1>1, <2>1
  <2>3. /\ RemoveAt(q, k) \in Seq(E) /\ DOMAIN RemoveAt(q, k) = 1..(n - 1)
        /\ \A i \in 1..(n - 1) : RemoveAt(q, k)[i] = IF i < k THEN q[i] ELSE q[i + 1]
    BY <2>1, <2>2, RemoveAtProperties
  <2> QED BY <1>3, <2>1, <2>3
<1>5. /\ ideal' \in Seq(Entry({"packet"}, TablePriorities, 0..(Half - 1)))
      /\ DOMAIN ideal' = 1..(n - 1)
      /\ \A i \in 1..(n - 1) : ideal'[i] = IF i < k THEN ideal[i] ELSE ideal[i + 1]
  <2>1. PICK q, E : /\ q = ideal /\ E = Entry({"packet"}, TablePriorities, 0..(Half - 1))
                    /\ q \in Seq(E)
    BY DEF TableInv
  <2>2. k \in 1..Len(q) /\ Len(q) = n
    BY <1>1, <2>1
  <2>3. /\ RemoveAt(q, k) \in Seq(E) /\ DOMAIN RemoveAt(q, k) = 1..(n - 1)
        /\ \A i \in 1..(n - 1) : RemoveAt(q, k)[i] = IF i < k THEN q[i] ELSE q[i + 1]
    BY <2>1, <2>2, RemoveAtProperties
  <2> QED BY <1>3, <2>1, <2>3
<1>6. Len(table') = n - 1 /\ Len(ideal') = n - 1
  BY <1>1, <1>2, <1>4, <1>5, LenProperties
<1>7. ASSUME NEW i \in 1..(n - 1) PROVE SameEntry(table'[i], ideal'[i])
  <2>1. i \in 1..n /\ i + 1 \in 1..n
    OBVIOUS
  <2>2. SameEntry(table[i], ideal[i]) /\ SameEntry(table[i + 1], ideal[i + 1])
    BY <1>1, <2>1 DEF TableInv
  <2>3. CASE i < k
    BY <1>4, <1>5, <2>2, <2>3
  <2>4. CASE ~(i < k)
    BY <1>4, <1>5, <2>2, <2>4
  <2> QED BY <2>3, <2>4
<1>8. \A i \in 1..Len(table') : SameEntry(table[i], ideal[i])'
  BY <1>3, <1>6, <1>7 DEF SameEntry, After
<1> QED BY <1>3, <1>4, <1>5, <1>6, <1>8 DEF TableInv

LEMMA TickKeepsTable == EvenWord /\ ShortDelays /\ TableInv /\ TableTick => TableInv'
<1> SUFFICES ASSUME EvenWord, ShortDelays, TableInv, TableTick PROVE TableInv'
  OBVIOUS
<1>1. /\ Word \in Nat \ {0} /\ Half \in Nat \ {0} /\ Word = 2 * Half
      /\ now \in 0..(Word - 1)
  BY HalfWord DEF TableInv
<1>2. now' = IF now + 1 < Word THEN now + 1 ELSE now + 1 - Word
  BY <1>1, LaterTime DEF TableTick
<1>3. PICK n \in Nat : /\ n = Len(table) /\ n = Len(ideal)
                       /\ DOMAIN table = 1..n /\ DOMAIN ideal = 1..n
  BY TableFacts DEF TableInv
<1>4. table' = table /\ ideal' = Elapse(ideal)
  BY DEF TableTick
<1>5. ASSUME NEW i \in 1..n
      PROVE  /\ ideal'[i] \in Entry({"packet"}, TablePriorities, 0..(Half - 1))
             /\ SameEntry(table[i], ideal[i])'
  <2>1. PICK e, x : /\ e = table[i] /\ x = ideal[i] /\ SameEntry(e, x)
                    /\ x \in Entry({"packet"}, TablePriorities, 0..(Half - 1))
    BY <1>3, ElementOfSeq DEF TableInv
  <2>2. PICK d \in (-Half)..(Half - 1) :
          After(e.sched, d) /\ x.at = IF d > 0 THEN d ELSE 0
    BY <2>1 DEF SameEntry
  <2>3. PICK s \in 0..(Word - 1) : s = e.sched
    BY <2>1 DEF SameEntry
  <2>4. d > -Half
    <3>1. x.at > 0 \/ (now - s) % Word < Half
      BY <1>3, <2>1, <2>3 DEF TableTick, Overdue
    <3>2. CASE x.at > 0
      BY <1>1, <2>2, <3>2
    <3>3. CASE (now - s) % Word < Half
      <4>1. PICK m : m = (now - s) % Word
        OBVIOUS
      <4>2. m = (IF now >= s THEN now - s ELSE now - s + Word) /\ m < Half
        BY <1>1, <3>3, <4>1, Distance
      <4>3. s \in {now + d, now + d + Word, now + d - Word}
        BY <2>2, <2>3 DEF After
      <4> QED BY <1>1, <4>2, <4>3
    <3> QED BY <3>1, <3>2, <3>3
  <2>5. PICK y : /\ y = ideal'[i]
                 /\ y = [x EXCEPT !.at = IF x.at > 0 THEN x.at - 1 ELSE 0]
    BY <1>3, <1>4, <2>1 DEF Elapse
  <2>6. x.at \in 0..(Half - 1) /\ x.pri \in TablePriorities /\ x.pkt = "packet"
    BY <2>1 DEF Entry
  <2>7. y = [pkt |-> "packet", pri |-> x.pri, at |-> IF x.at > 0 THEN x.at - 1 ELSE 0]
    BY <2>1, <2>5, <2>6 DEF Entry
  <2>8. y.pri = x.pri /\ y.at = IF d - 1 > 0 THEN d - 1 ELSE 0
    BY <1>1, <2>2, <2>4, <2>6, <2>7
  <2>9. y.at \in 0..(Half - 1) /\ d - 1 \in (-Half)..(Half - 1)
    BY <1>1, <2>4, <2>8
  <2>10. y \in Entry({"packet"}, TablePriorities, 0..(Half - 1))
    BY <2>6, <2>7, <2>9 DEF Entry
  <2>11. s \in {now' + (d - 1), now' + (d - 1) + Word, now' + (d - 1) - Word}
    <3>1. s \in {now + d, now + d + Word, now + d - Word}
      BY <2>2, <2>3 DEF After
    <3> QED BY <1>1, <1>2, <2>4, <3>1
  <2>12. /\ e.pri = y.pri /\ e.pri \in TablePriorities /\ e.sched \in 0..(Word - 1)
    BY <2>1, <2>3, <2>8 DEF SameEntry
  <2>13. table'[i] = e /\ ideal'[i] = y
    BY <1>4, <2>1, <2>5
  <2> QED BY <2>3, <2>8, <2>9, <2>10, <2>11, <2>12, <2>13 DEF SameEntry, After
<1>6. DOMAIN ideal' = 1..n
  BY <1>3, <1>4 DEF Elapse
<1>7. /\ ideal' \in Seq(Entry({"packet"}, TablePriorities, 0..(Half - 1))) /\ Len(ideal') = n
  <2>1. ideal' = [i \in 1..n |-> ideal'[i]]
    BY <1>3, <1>4 DEF Elapse
  <2> QED BY <1>5, <2>1
<1>8. now' \in 0..(Word - 1)
  BY <1>1, <1>2
<1> QED BY <1>3, <1>4, <1>5, <1>7, <1>8 DEF TableInv

LEMMA TableInvariant == EvenWord /\ ShortDelays => (TableSpec => []TableInv)
<1> SUFFICES ASSUME EvenWord, ShortDelays PROVE TableSpec => []TableInv
  OBVIOUS
<1>1. TableInit => TableInv
  BY HalfWord DEF TableInit, TableInv
<1>2. TableInv /\ [TableNext]_tableVars => TableInv'
  <2> SUFFICES ASSUME TableInv, [TableNext]_tableVars PROVE TableInv'
    OBVIOUS
  <2>1. CASE UNCHANGED <<now, table, ideal>>
    BY <2>1 DEF TableInv, SameEntry, After
  <2> QED BY <2>1, AddKeepsTable, GetKeepsTable, TickKeepsTable DEF TableNext, Arm, tableVars
<1> QED BY <1>1, <1>2, PTL DEF TableSpec

\* The scan over wrapped times returns the entry the ideal queue would, the first
\* of the most important ones that are due, for a word of any even size, a table
\* of any size and any priorities below 255.
THEOREM ScanIsRight == EvenWord /\ ShortDelays => (TableSpec => []ScanFindsBest)
<1> SUFFICES ASSUME EvenWord, ShortDelays PROVE TableSpec => []ScanFindsBest
  OBVIOUS
<1>1. TableInv => ScanFindsBest
  BY ScanIsBest
<1> QED BY <1>1, TableInvariant, PTL

\* What countBefore() counts get() finds, but for the millisecond in which the
\* time is countBefore()'s sentinel.
THEOREM CountIsRight == EvenWord /\ ShortDelays => (TableSpec => []CountedIsThere)
<1> SUFFICES ASSUME EvenWord, ShortDelays PROVE TableSpec => []CountedIsThere
  OBVIOUS
<1>1. TableInv => CountedIsThere
  BY CountedCanBeGot
<1> QED BY <1>1, TableInvariant, PTL

(***************************************************************************)
(* The path of a packet.                                                   *)
(***************************************************************************)
Size == getPathHashSize(path_len)
Count == getPathHashCount(path_len)

\* The first n entries of p, of the given size, are the hashes of the n nodes
\* that come after node f.
HopsAfter(p, f, n, size) ==
  \A k \in 1..n : \A b \in 0..(size - 1) : p[(k - 1) * size + b] = <<f + k, b>>

FloodInv ==
  /\ path_len \in 0..191 /\ DOMAIN path = Bytes
  /\ forwarders \in Nat /\ followed \in Nat
  /\ Count = forwarders - followed
  /\ Count * Size <= 64
  /\ HopsAfter(path, followed, Count, Size)

\* What routeRecvPacket() and removeSelfFromPath() make of path p.
Written(p, f, n, size) ==
  [i \in Bytes |-> IF i \in (n * size)..(n * size + size - 1)
                           THEN <<f + n + 1, i - n * size>> ELSE p[i]]

Taken(p, n, size) ==
  [i \in Bytes |-> IF i < (n - 1) * size THEN p[i + size] ELSE p[i]]

\* The getters and setters of the length byte, for sizes of one to three bytes.
LEMMA LengthByte ==
  ASSUME NEW w \in 0..191
  PROVE  /\ getPathHashSize(w) \in 1..3
         /\ getPathHashCount(w) \in 0..63
         /\ \A n \in 0..63 :
              /\ setPathHashCount(w, n) \in 0..191
              /\ getPathHashSize(setPathHashCount(w, n)) = getPathHashSize(w)
              /\ getPathHashCount(setPathHashCount(w, n)) = n
<1>1. PICK q \in 0..2, r \in 0..63 : w = q * 64 + r /\ w \div 64 = q /\ w % 64 = r
  OBVIOUS
<1>2. ASSUME NEW n \in 0..63
      PROVE  /\ setPathHashCount(w, n) = q * 64 + n
             /\ (q * 64 + n) \div 64 = q /\ (q * 64 + n) % 64 = n
  BY <1>1 DEF setPathHashCount
<1>3. /\ getPathHashSize(w) = q + 1 /\ getPathHashCount(w) = r
      /\ q + 1 \in 1..3
  BY <1>1 DEF getPathHashSize, getPathHashCount
<1>4. ASSUME NEW n \in 0..63
      PROVE  /\ setPathHashCount(w, n) \in 0..191
             /\ getPathHashSize(setPathHashCount(w, n)) = q + 1
             /\ getPathHashCount(setPathHashCount(w, n)) = n
  <2>1. PICK v \in 0..191 : v = q * 64 + n
    OBVIOUS
  <2>2. setPathHashCount(w, n) = v /\ v \div 64 = q /\ v % 64 = n
    BY <1>2, <2>1
  <2> QED BY <2>2 DEF getPathHashSize, getPathHashCount
<1> QED BY <1>3, <1>4

\* A forwarder writes its hash behind those that are there.
LEMMA HopWritten ==
  ASSUME NEW p, NEW f \in Nat, NEW n \in Nat, NEW size \in 1..3, (n + 1) * size <= 64,
         HopsAfter(p, f, n, size)
  PROVE  HopsAfter(Written(p, f, n, size), f, n + 1, size)
<1>0. PICK r : r = Written(p, f, n, size)
  OBVIOUS
<1> SUFFICES ASSUME NEW k \in 1..(n + 1), NEW b \in 0..(size - 1)
             PROVE  r[(k - 1) * size + b] = <<f + k, b>>
  BY <1>0 DEF HopsAfter
<1>1. PICK i \in Int : i = (k - 1) * size + b
  OBVIOUS
<1>2. i \in Bytes
  <2>1. size = 1 \/ size = 2 \/ size = 3
    OBVIOUS
  <2> QED BY <1>1, <2>1 DEF Bytes, MAX_PATH_SIZE
<1>3. CASE k = n + 1
  <2>1. i = n * size + b /\ i \in (n * size)..(n * size + size - 1) /\ i - n * size = b
    BY <1>1, <1>3
  <2> QED BY <1>0, <1>1, <1>2, <1>3, <2>1 DEF Written
<1>4. CASE k \in 1..n
  <2>1. size = 1 \/ size = 2 \/ size = 3
    OBVIOUS
  <2>2. i < n * size
    BY <1>1, <1>4, <2>1
  <2>3. r[i] = p[i]
    BY <1>0, <1>1, <1>2, <2>2 DEF Written
  <2> QED BY <1>1, <1>4, <2>3 DEF HopsAfter
<1> QED BY <1>3, <1>4

\* A node on the path takes itself off, and the rest moves up.
LEMMA HopTaken ==
  ASSUME NEW p, NEW f \in Nat, NEW n \in Nat \ {0}, NEW size \in 1..3, n * size <= 64,
         HopsAfter(p, f, n, size)
  PROVE  /\ p[0] = <<f + 1, 0>>
         /\ HopsAfter(Taken(p, n, size), f + 1, n - 1, size)
<1> DEFINE r == Taken(p, n, size)
<1>0. size = 1 \/ size = 2 \/ size = 3
  OBVIOUS
<1>1. p[0] = <<f + 1, 0>>
  <2>1. 1 \in 1..n /\ 0 \in 0..(size - 1) /\ (1 - 1) * size + 0 = 0
    OBVIOUS
  <2>2. p[(1 - 1) * size + 0] = <<f + 1, 0>>
    BY <2>1 DEF HopsAfter
  <2> QED BY <2>1, <2>2
<1>2. ASSUME NEW k \in 1..(n - 1), NEW b \in 0..(size - 1)
      PROVE  r[(k - 1) * size + b] = <<f + 1 + k, b>>
  <2>1. PICK i \in Int : i = (k - 1) * size + b
    OBVIOUS
  <2>2. i \in Bytes /\ i < (n - 1) * size
    BY <1>0, <2>1 DEF Bytes, MAX_PATH_SIZE
  <2>3. PICK j \in 1..n : j = k + 1
    OBVIOUS
  <2>4. i + size = (j - 1) * size + b /\ f + j = f + 1 + k
    BY <1>0, <2>1, <2>3
  <2>5. p[(j - 1) * size + b] = <<f + j, b>>
    BY DEF HopsAfter
  <2> QED BY <2>1, <2>2, <2>4, <2>5 DEF Taken
<1> QED BY <1>1, <1>2 DEF HopsAfter

LEMMA InitFlood == FloodInit => FloodInv
<1> SUFFICES ASSUME FloodInit PROVE FloodInv
  OBVIOUS
<1>1. PICK size \in 1..3 : path_len = (size - 1) * 64
  BY DEF FloodInit, HashSizes, setPathHashSizeAndCount
<1>2. path_len \in 0..191 /\ Count = 0 /\ Size \in Int
  BY <1>1 DEF Count, Size, getPathHashCount, getPathHashSize
<1> QED BY <1>2 DEF FloodInit, FloodInv, HopsAfter

LEMMA NextFlood ==
  FloodMax \in 0..63 /\ FloodInv /\ [FloodNext]_pathVars => FloodInv'
<1> SUFFICES ASSUME FloodMax \in 0..63, FloodInv, [FloodNext]_pathVars PROVE FloodInv'
  OBVIOUS
<1>1. PICK n \in 0..63, size \in 1..3 : n = Count /\ size = Size
  BY LengthByte DEF FloodInv, Count, Size
<1>0. PICK p, r, f : f \in Nat /\ p = path /\ r = path' /\ f = followed
  BY DEF FloodInv
<1>2. CASE routeRecvPacket
  <2>1. /\ n < FloodMax /\ (n + 1) * size <= 64
        /\ path' = [i \in Bytes |-> IF i \in (n * size)..(n * size + size - 1)
                                            THEN <<forwarders + 1, i - n * size>>
                                            ELSE path[i]]
        /\ path_len' = setPathHashCount(path_len, n + 1)
        /\ forwarders' = forwarders + 1 /\ followed' = followed
    BY <1>1, <1>2 DEF routeRecvPacket, HasRoom, MAX_PATH_SIZE, Count, Size
  <2>2. n + 1 \in 0..63 /\ forwarders + 1 = followed + n + 1
    BY <1>1, <2>1 DEF FloodInv
  <2>3. path_len' \in 0..191 /\ Size' = size /\ Count' = n + 1
    BY <1>1, <2>1, <2>2, LengthByte DEF FloodInv, Size, Count
  <2>4. r = Written(p, f, n, size)
    BY <1>0, <2>1, <2>2 DEF Written
  <2>5. HopsAfter(p, f, n, size)
    BY <1>0, <1>1 DEF FloodInv
  <2>6. HopsAfter(r, f, n + 1, size)
    BY <1>0, <2>1, <2>4, <2>5, HopWritten
  <2>7. HopsAfter(path', followed', Count', Size')
    BY <1>0, <2>1, <2>3, <2>6
  <2> QED BY <1>1, <2>1, <2>2, <2>3, <2>7 DEF FloodInv
<1>3. CASE followPath
  <2>1. /\ n > 0
        /\ path_len' = setPathHashCount(path_len, n - 1)
        /\ path' = [i \in Bytes |-> IF i < (n - 1) * size THEN path[i + size] ELSE path[i]]
        /\ followed' = path[0 * size][1] /\ forwarders' = forwarders
    BY <1>1, <1>3 DEF followPath, removeSelfFromPath, Hop, Count, Size
  <2>2. PICK m \in 0..63 : m = n - 1
    BY <2>1
  <2>3. path_len' \in 0..191 /\ Size' = size /\ Count' = n - 1
    BY <1>1, <2>1, <2>2, LengthByte DEF FloodInv, Size, Count
  <2>4. r = Taken(p, n, size)
    BY <1>0, <2>1 DEF Taken
  <2>5. HopsAfter(p, f, n, size) /\ n * size <= 64
    BY <1>0, <1>1 DEF FloodInv
  <2> n \in Nat \ {0}
    BY <2>1
  <2>6. p[0] = <<f + 1, 0>> /\ HopsAfter(r, f + 1, n - 1, size)
    BY <1>0, <2>1, <2>4, <2>5, HopTaken
  <2>7. followed' = f + 1
    BY <1>0, <2>1, <2>6
  <2>8. HopsAfter(path', followed', Count', Size')
    BY <1>0, <2>3, <2>6, <2>7
  <2>9. Count' * Size' <= 64
    <3>1. size = 1 \/ size = 2 \/ size = 3
      OBVIOUS
    <3> QED BY <2>3, <2>5, <3>1
  <2>10. followed' \in Nat /\ Count' = forwarders' - followed'
    <3>1. n = forwarders - f /\ forwarders \in Nat /\ forwarders' = forwarders
      BY <1>0, <1>1, <2>1 DEF FloodInv
    <3> QED BY <1>0, <2>3, <2>7, <3>1
  <2>11. forwarders' \in Nat /\ DOMAIN path' = Bytes
    BY <2>1 DEF FloodInv
  <2> QED BY <2>3, <2>8, <2>9, <2>10, <2>11 DEF FloodInv
<1>4. CASE UNCHANGED <<path_len, path, forwarders, followed>>
  BY <1>4 DEF FloodInv, Count, Size
<1> QED BY <1>2, <1>3, <1>4 DEF FloodNext, sendDirect, pathVars

\* With flood_max at most 63, whoever reads the path of a packet finds the hashes
\* of the nodes it has passed, or has still to pass, whole and in order, after any
\* number of nodes and for each hash size.
THEOREM PathsAreWhole == FloodMax \in 0..63 => (FloodSpec => []PathHoldsHops)
<1> SUFFICES ASSUME FloodMax \in 0..63 PROVE FloodSpec => []PathHoldsHops
  OBVIOUS
<1>1. FloodInv /\ [FloodNext]_pathVars => FloodInv'
  BY NextFlood
<1>2. FloodInv => PathHoldsHops
  BY DEF FloodInv, HopsAfter, Count, Size, PathHoldsHops, MAX_PATH_SIZE
<1> QED BY <1>1, <1>2, InitFlood, PTL DEF FloodSpec
=============================================================================
