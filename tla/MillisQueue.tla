----------------------------- MODULE MillisQueue -----------------------------
(***************************************************************************)
(* PacketQueue as it is: scheduled times are 32-bit millis() values that   *)
(* wrap around, and get() finds its entry in one scan.  The module runs    *)
(* the real table next to an ideal queue of distances (module              *)
(* PacketQueue), which is what the Dispatcher module uses, and to a timer  *)
(* checked with millisHasNowPassed().  Word stands for 2^32; all ones,     *)
(* Word - 1, is countBefore()'s "count everything".                        *)
(***************************************************************************)
EXTENDS PacketQueue

CONSTANTS
  Word,             \* the number of values of millis(), an even number
  Capacity,         \* max_entries
  TablePriorities,  \* bytes other than 255, where the scan for the lowest begins
  TableDelays       \* less than half a word

Half == Word \div 2

\* What the constants stand for: 2^32 and its like, bytes, and half a word.
EvenWord == Word \in Nat \ {0} /\ 2 * Half = Word
ShortDelays == TablePriorities \subseteq 0..254 /\ TableDelays \subseteq 0..(Half - 1)

VARIABLES
  now,              \* millis()
  table,            \* [pri, sched] in the order of _table, _pri_table, _schedule_table
  ideal,            \* the same entries as PacketQueue sees them
  timer,            \* a timestamp set with futureMillis(), such as outbound_expiry
  remaining         \* its distance from now

tableVars == <<now, table, ideal, timer, remaining>>

\* (int32_t)(a - b), for a and b in 0..Word-1.
PlainDifference(a, b) == a - b

SignedDifference(a, b) ==
  LET d == (a - b) % Word IN IF d < Half THEN d ELSE d - Word

futureMillis(t) == (now + t) % Word

millisHasNowPassed(timestamp) == SignedDifference(now, timestamp) > 0

ScheduledForFuture(e) == SignedDifference(e.sched, now) > 0

CountByPlainOrder == Cardinality({i \in DOMAIN table : table[i].sched <= now})

\* countBefore(): at the one instant its sentinel is a time, it counts all.
WordCountBefore ==
  IF now = Word - 1 THEN Len(table)
  ELSE Cardinality({i \in DOMAIN table : ~ScheduledForFuture(table[i])})

LastOfEquals(best, i) ==
  IF ~ScheduledForFuture(table[i]) /\ table[i].pri <= best[1]
    THEN <<table[i].pri, i>> ELSE best

\* get()'s scan: best is <<min_pri, best_idx>> so far, <<255, 0>> to begin with.
\* scan[k] is what it has found in the first k entries.
Step(best, i) ==
  IF ScheduledForFuture(table[i]) THEN best
  ELSE IF table[i].pri < best[1] THEN <<table[i].pri, i>> ELSE best

scan[k \in 0..Len(table)] == IF k = 0 THEN <<255, 0>> ELSE Step(scan[k - 1], k)

best_idx == scan[Len(table)][2]

TableInit ==
  /\ now = 0 /\ table = <<>> /\ ideal = <<>>
  /\ timer = 0 /\ remaining = 0

Add(pri, delay) ==
  /\ Len(table) < Capacity
  /\ table' = Append(table, [pri |-> pri, sched |-> futureMillis(delay)])
  /\ ideal' = add(ideal, "packet", pri, delay)
  /\ UNCHANGED <<now, timer, remaining>>

\* The ideal queue gives up the entry of its choice: the two stay in step only
\* if the choices are the same.
Get ==
  /\ best_idx # 0
  /\ table' = removeByIdx(table, best_idx)
  /\ ideal' = removeByIdx(ideal, BestIndex(ideal))
  /\ UNCHANGED <<now, timer, remaining>>

Arm(t) ==
  /\ timer' = futureMillis(t) /\ remaining' = t
  /\ UNCHANGED <<now, table, ideal>>

\* Time passes, as long as nothing has been overdue for half a word.
Overdue(e) == (now - e.sched) % Word
TableTick ==
  /\ \A i \in DOMAIN table : ideal[i].at > 0 \/ Overdue(table[i]) < Half
  /\ remaining > -Half + 1
  /\ now' = (now + 1) % Word
  /\ remaining' = remaining - 1
  /\ ideal' = Elapse(ideal)
  /\ UNCHANGED <<table, timer>>

TableNext ==
  \/ Get \/ TableTick
  \/ \E pri \in TablePriorities, t \in TableDelays : Add(pri, t)
  \/ \E t \in TableDelays : Arm(t)

TableSpec == TableInit /\ [][TableNext]_tableVars

-----------------------------------------------------------------------------
\* The scan over wrapped times returns the entry the ideal queue would: the
\* first of the most important ones that are due, across a wrap of millis().
ScanFindsBest ==
  IF NonFuture(ideal) = {} THEN best_idx = 0 ELSE best_idx = BestIndex(ideal)

\* Whenever checkSend() is told that something is due it can get it, except in
\* the millisecond in which now is countBefore()'s sentinel.
CountedIsThere ==
  /\ WordCountBefore = 0 => best_idx = 0
  /\ WordCountBefore > 0 /\ now # Word - 1 => best_idx # 0

\* A timestamp from futureMillis() has passed exactly when its time is over, as
\* long as it is looked at within half a word.
TimerAgrees == millisHasNowPassed(timer) <=> remaining < 0
=============================================================================
