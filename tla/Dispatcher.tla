----------------------------- MODULE Dispatcher -----------------------------
(***************************************************************************)
(* mesh::Dispatcher: the main loop's packet pump.  It moves every packet   *)
(* of a static pool between the unused table, the delayed inbound queue,   *)
(* the outbound queue, the radio and the application's hands, and decides  *)
(* when the node may transmit.                                             *)
(*                                                                         *)
(* Dispatcher::loop() is cut at the four places where it looks at the      *)
(* world (phase "outbound", "inbound", "recv", "send"), so the radio       *)
(* interrupt and the clock interleave with it.  onRecvPacket() is a phase  *)
(* of its own ("handler_in", "handler_rx"): what a subclass may do in it   *)
(* is obtain, send and release packets and choose the returned action.     *)
(* Phase "app" is everything the firmware does between two calls of        *)
(* loop().                                                                 *)
(*                                                                         *)
(* A time the code stores is kept as its distance from now: next_tx_time   *)
(* and outbound_expiry count down to -1 (millisHasNowPassed is strict),    *)
(* outbound_start, last_budget_update and cad_busy_start count up, each to *)
(* the value above which the code no longer tells two ages apart.          *)
(* Statistics, error flags and logging are left out.                       *)
(***************************************************************************)
EXTENDS PacketQueue, RadioLibWrapper

CONSTANTS
  Packets,          \* the pool (StaticPoolPacketManager's pool_size packets)
  Priorities,       \* priorities passed to sendPacket and ACTION_RETRANSMIT
  Delays,           \* delays in ms passed to them, and the score delays
  AirTimes,         \* possible getEstAirtimeFor(len) of a queued packet
  EstAirTime,       \* getEstAirtimeFor(MAX_TRANS_UNIT)
  AirtimeFactor,    \* getAirtimeBudgetFactor()
  MaxBudget,        \* getDutyCycleWindowMs() * duty cycle
  MinReserve,       \* MIN_TX_BUDGET_RESERVE_MS
  CADRetryDelay,    \* getCADFailRetryDelay()
  CADMaxDuration,   \* getCADFailMaxDuration()
  NoPacket          \* NULL

ASSUME PoolAssumption == IsFiniteSet(Packets) /\ NoPacket \notin Packets
ASSUME QueueAssumption == Priorities \subseteq 0..254 /\ Delays \subseteq Nat
ASSUME AirTimeAssumption ==
  /\ EstAirTime \in Nat
  /\ AirTimes \subseteq 0..EstAirTime
ASSUME BudgetAssumption ==
  /\ AirtimeFactor \in Nat
  /\ MaxBudget \in Nat /\ MinReserve \in Nat
  /\ EstAirTime \div 2 <= MaxBudget
ASSUME CADAssumption == CADRetryDelay \in Nat /\ CADMaxDuration \in Nat

VARIABLES
  unused,           \* the pool's table of free packets
  send_queue, rx_queue,
  outbound,         \* the packet being transmitted, or NoPacket
  cur,              \* the packet onRecvPacket() is looking at, or NoPacket
  held,             \* obtained by the application, not yet sent or released
  phase,
  tx_budget,        \* tx_budget_ms
  since_update,     \* now - last_budget_update
  next_tx,          \* next_tx_time - now
  outbound_for,     \* now - outbound_start
  expiry,           \* outbound_expiry - now
  cad_busy_for      \* now - cad_busy_start, or NotBusy for the sentinel 0

poolVars == <<unused, send_queue, rx_queue, outbound, cur, held>>
budgetVars == <<tx_budget, since_update>>
timerVars == <<next_tx, outbound_for, expiry, cad_busy_for>>
vars == <<poolVars, phase, budgetVars, timerVars, radioVars>>

NotBusy == -1
Window == MaxBudget * (1 + AirtimeFactor)

HasPassed(distance) == distance < 0     \* millisHasNowPassed

TypeOK ==
  /\ unused \in Seq(Packets)
  /\ send_queue \in Seq(Entry(Packets, Priorities, Nat))
  /\ rx_queue \in Seq(Entry(Packets, {0}, Nat))
  /\ outbound \in Packets \cup {NoPacket}
  /\ cur \in Packets \cup {NoPacket}
  /\ held \subseteq Packets
  /\ phase \in {"app", "outbound", "inbound", "handler_in", "recv",
                "handler_rx", "send"}
  /\ tx_budget \in 0..MaxBudget
  /\ since_update \in 0..Window
  /\ next_tx \in Nat \cup {-1}
  /\ outbound_for \in Nat
  /\ expiry \in Nat \cup {-1}
  /\ cad_busy_for \in Nat \cup {NotBusy}
  /\ RadioTypeOK

(***************************************************************************)
(* The pool.  Its three tables have one slot per packet.                   *)
(***************************************************************************)
PoolSize == Cardinality(Packets)

\* allocNew() takes the first free packet, free() appends to the table.
allocNew == unused' = Tail(unused)

Freed(u, p) == IF Len(u) < PoolSize THEN Append(u, p) ELSE u

free(p) == unused' = Freed(unused, p)

\* A packet the queue has no slot for goes back to the pool.
queueOutbound(p, pri, delay) ==
  IF Len(send_queue) < PoolSize
    THEN send_queue' = add(send_queue, p, pri, delay) /\ UNCHANGED unused
    ELSE free(p) /\ UNCHANGED send_queue

(***************************************************************************)
(* begin().                                                                *)
(***************************************************************************)
Init ==
  /\ unused \in SetToSeqs(Packets) /\ ToSet(unused) = Packets
  /\ send_queue = <<>> /\ rx_queue = <<>>
  /\ outbound = NoPacket /\ cur = NoPacket /\ held = {}
  /\ phase = "app"
  /\ tx_budget = MaxBudget /\ since_update = 0
  /\ next_tx = 0 /\ outbound_for = 0 /\ expiry = 0 /\ cad_busy_for = NotBusy
  /\ RadioInit

(***************************************************************************)
(* The application: between two passes of loop(), and inside               *)
(* onRecvPacket().  sendPacket() releases a packet it finds invalid.       *)
(***************************************************************************)
AppRuns == phase \in {"app", "handler_in", "handler_rx"}

ObtainNewPacket ==
  /\ AppRuns /\ unused # <<>>
  /\ allocNew
  /\ held' = held \cup {Head(unused)}
  /\ UNCHANGED <<send_queue, rx_queue, outbound, cur, phase, budgetVars,
                 timerVars, radioVars>>

SendPacket(p, pri, delay) ==
  /\ AppRuns /\ p \in held
  /\ held' = held \ {p}
  /\ queueOutbound(p, pri, delay)
  /\ UNCHANGED <<rx_queue, outbound, cur, phase, budgetVars, timerVars,
                 radioVars>>

ReleasePacket(p) ==
  /\ AppRuns /\ p \in held
  /\ held' = held \ {p}
  /\ free(p)
  /\ UNCHANGED <<send_queue, rx_queue, outbound, cur, phase, budgetVars,
                 timerVars, radioVars>>

LoopStart ==
  /\ phase = "app" /\ phase' = "outbound"
  /\ UNCHANGED <<poolVars, budgetVars, timerVars, radioVars>>

(***************************************************************************)
(* The transmit budget.                                                    *)
(***************************************************************************)
Refill == since_update \div (1 + AirtimeFactor)

\* tx_budget_ms after updateTxBudget().  Nothing is credited, and the elapsed
\* time kept, while the refill truncates to zero.
UpdatedBudget ==
  IF tx_budget + Refill > MaxBudget THEN MaxBudget ELSE tx_budget + Refill

ForgottenSince == 0

UpdatedSince == IF Refill > 0 THEN 0 ELSE since_update

\* What is left of it when a transmission of t ms has been charged.
ChargedBlindly(budget, t) == budget - t

Charged(budget, t) == IF t > budget THEN 0 ELSE budget - t

(***************************************************************************)
(* loop(), first part: a transmission in progress.                         *)
(***************************************************************************)
\* While a packet is on the air, and it has neither completed nor expired, the
\* rest of loop() is skipped.
StillSendingAlways ==
  /\ phase = "outbound" /\ outbound # NoPacket
  /\ ~isSendComplete
  /\ phase' = "app"
  /\ UNCHANGED <<poolVars, budgetVars, timerVars, radioVars>>

StillSending ==
  /\ phase = "outbound" /\ outbound # NoPacket
  /\ ~isSendComplete /\ ~HasPassed(expiry)
  /\ phase' = "app"
  /\ UNCHANGED <<poolVars, budgetVars, timerVars, radioVars>>

ReleaseOutboundLeaks ==
  /\ outbound' = NoPacket
  /\ phase' = "inbound"
  /\ onSendFinished
  /\ outbound_for' = 0
  /\ UNCHANGED <<unused, send_queue, rx_queue, cur, held, expiry, cad_busy_for>>

ReleaseOutbound ==
  /\ free(outbound) /\ outbound' = NoPacket
  /\ phase' = "inbound"
  /\ onSendFinished
  /\ outbound_for' = 0
  /\ UNCHANGED <<send_queue, rx_queue, cur, held, expiry, cad_busy_for>>

SendCompleted ==
  /\ phase = "outbound" /\ outbound # NoPacket
  /\ isSendComplete
  /\ tx_budget' = Charged(UpdatedBudget, outbound_for)
  /\ since_update' = UpdatedSince
  /\ next_tx' = IF tx_budget' < MinReserve
                  THEN (MinReserve - tx_budget') * (1 + AirtimeFactor)
                  ELSE 0
  /\ ReleaseOutbound

SendTimedOut ==
  /\ phase = "outbound" /\ outbound # NoPacket
  /\ ~isSendComplete /\ HasPassed(expiry)
  /\ ReleaseOutbound
  /\ UNCHANGED <<budgetVars, next_tx>>

\* With nothing on the air the AGC may be due for a reset.
NothingOnAir ==
  /\ phase = "outbound" /\ outbound = NoPacket
  /\ phase' = "inbound"
  /\ resetAGC \/ UNCHANGED radioVars
  /\ UNCHANGED <<poolVars, budgetVars, timerVars>>

(***************************************************************************)
(* loop(), second part: the delayed inbound queue.                         *)
(***************************************************************************)
getNextInbound ==
  /\ phase = "inbound" /\ NonFuture(rx_queue) # {}
  /\ LET i == BestIndex(rx_queue)
     IN cur' = rx_queue[i].pkt /\ rx_queue' = removeByIdx(rx_queue, i)
  /\ phase' = "handler_in"
  /\ UNCHANGED <<unused, send_queue, outbound, held, budgetVars, timerVars,
                 radioVars>>

NoInbound ==
  /\ phase = "inbound" /\ NonFuture(rx_queue) = {}
  /\ phase' = "recv"
  /\ UNCHANGED <<poolVars, budgetVars, timerVars, radioVars>>

\* processRecvPacket(): what becomes of the packet is the handler's decision.
HandlerReturns ==
  /\ phase \in {"handler_in", "handler_rx"}
  /\ phase' = IF phase = "handler_in" THEN "recv" ELSE "send"
  /\ cur' = NoPacket
  /\ UNCHANGED <<rx_queue, outbound, budgetVars, timerVars, radioVars>>

ActionRelease ==
  /\ HandlerReturns
  /\ free(cur) /\ UNCHANGED <<send_queue, held>>

ActionManualHold ==
  /\ HandlerReturns
  /\ held' = held \cup {cur} /\ UNCHANGED <<unused, send_queue>>

ActionRetransmit(pri, delay) ==
  /\ HandlerReturns
  /\ queueOutbound(cur, pri, delay) /\ UNCHANGED held

(***************************************************************************)
(* loop(), third part: checkRecv().                                        *)
(***************************************************************************)
\* No frame, a frame that could not be read, or none of the pool's packets
\* left to put it in.
NothingReceived ==
  /\ phase = "recv"
  /\ recvRaw
  /\ phase' = "send"
  /\ UNCHANGED <<poolVars, budgetVars, timerVars>>

\* A frame that does not parse takes a packet from the pool and returns it.
ReceiveUnparsable ==
  /\ phase = "recv" /\ int_ready /\ unused # <<>>
  /\ recvRaw
  /\ unused' = Freed(Tail(unused), Head(unused))
  /\ phase' = "send"
  /\ UNCHANGED <<send_queue, rx_queue, outbound, cur, held, budgetVars,
                 timerVars>>

\* A direct packet, and a flood packet with a score delay under 50 ms.
ReceiveNow ==
  /\ phase = "recv" /\ int_ready /\ unused # <<>>
  /\ recvRaw
  /\ cur' = Head(unused) /\ allocNew
  /\ phase' = "handler_rx"
  /\ UNCHANGED <<send_queue, rx_queue, outbound, held, budgetVars, timerVars>>

\* A flood packet heard with a weak signal waits.
ReceiveDelayed(delay) ==
  /\ phase = "recv" /\ int_ready /\ unused # <<>>
  /\ recvRaw
  /\ IF Len(rx_queue) < PoolSize
       THEN /\ rx_queue' = add(rx_queue, Head(unused), 0, delay)
            /\ allocNew
       ELSE /\ unused' = Freed(Tail(unused), Head(unused))
            /\ UNCHANGED rx_queue
  /\ phase' = "send"
  /\ UNCHANGED <<send_queue, outbound, cur, held, budgetVars, timerVars>>

(***************************************************************************)
(* loop(), last part: checkSend().                                         *)
(***************************************************************************)
NothingToSend ==
  /\ phase = "send" /\ countBefore(send_queue) = 0
  /\ phase' = "app"
  /\ UNCHANGED <<poolVars, budgetVars, timerVars, radioVars>>

\* The part of checkSend() every packet that is due goes through.
SomethingToSend ==
  /\ phase = "send" /\ countBefore(send_queue) > 0
  /\ phase' = "app"
  /\ tx_budget' = UpdatedBudget /\ since_update' = UpdatedSince

\* At least half of the longest packet's air time must be in the budget.
NoMinBudget == 0

MinBudget == EstAirTime \div 2

BudgetTooLow ==
  /\ SomethingToSend
  /\ tx_budget' < MinBudget
  /\ next_tx' = (MinBudget - tx_budget') * (1 + AirtimeFactor)
  /\ UNCHANGED <<poolVars, outbound_for, expiry, cad_busy_for, radioVars>>

TooEarly ==
  /\ SomethingToSend
  /\ tx_budget' >= MinBudget /\ ~HasPassed(next_tx)
  /\ UNCHANGED <<poolVars, timerVars, radioVars>>

BudgetIgnored == SomethingToSend /\ HasPassed(next_tx)

BudgetAllows ==
  /\ SomethingToSend
  /\ tx_budget' >= MinBudget /\ HasPassed(next_tx)

\* cad_busy_for once this check has found the channel busy.
BusyFor == IF cad_busy_for = NotBusy THEN 0 ELSE cad_busy_for

ChannelBusy ==
  /\ BudgetAllows
  /\ BusyFor <= CADMaxDuration
  /\ cad_busy_for' = BusyFor
  /\ next_tx' = CADRetryDelay
  /\ channelScan \/ UNCHANGED radioVars
  /\ UNCHANGED <<poolVars, outbound_for, expiry>>

\* The channel is free, or has been busy for so long that the node transmits
\* into it: both outcomes are the same from here on.
getNextOutbound ==
  /\ BudgetAllows
  /\ cad_busy_for' = NotBusy
  /\ send_queue' = removeByIdx(send_queue, BestIndex(send_queue))
  /\ UNCHANGED <<rx_queue, cur, held, next_tx>>

StartSend(airtime) ==
  /\ getNextOutbound
  /\ outbound' = send_queue[BestIndex(send_queue)].pkt
  /\ startSendRaw
  /\ outbound_for' = 0
  /\ expiry' = (airtime * 3) \div 2
  /\ UNCHANGED unused

StartSendFails ==
  /\ getNextOutbound
  /\ startSendRawFails
  /\ outbound' = NoPacket /\ free(send_queue[BestIndex(send_queue)].pkt)
  /\ outbound_for' = 0
  /\ UNCHANGED expiry

(***************************************************************************)
(* The clock and the interrupt.                                            *)
(***************************************************************************)
CountDown(distance) == IF HasPassed(distance) THEN distance ELSE distance - 1
CountUp(age, cap) == IF age < cap THEN age + 1 ELSE age

Tick ==
  /\ send_queue' = Elapse(send_queue) /\ rx_queue' = Elapse(rx_queue)
  /\ next_tx' = CountDown(next_tx) /\ expiry' = CountDown(expiry)
  /\ outbound_for' = IF outbound = NoPacket THEN 0
                     ELSE CountUp(outbound_for, MaxBudget + 1)
  /\ since_update' = CountUp(since_update, Window)
  /\ cad_busy_for' = IF cad_busy_for = NotBusy THEN NotBusy
                     ELSE CountUp(cad_busy_for, CADMaxDuration + 1)
  /\ UNCHANGED <<unused, outbound, cur, held, phase, tx_budget, radioVars>>

RadioInterrupt ==
  /\ RxDone \/ TxDone
  /\ UNCHANGED <<poolVars, phase, budgetVars, timerVars>>

App ==
  \/ ObtainNewPacket
  \/ \E p \in held : \/ ReleasePacket(p)
                     \/ \E pri \in Priorities, d \in Delays : SendPacket(p, pri, d)

HandlerReturn ==
  \/ ActionRelease
  \/ ActionManualHold
  \/ \E pri \in Priorities, d \in Delays : ActionRetransmit(pri, d)

CheckOutbound == StillSending \/ SendCompleted \/ SendTimedOut \/ NothingOnAir
CheckInbound == getNextInbound \/ NoInbound
CheckRecv == \/ NothingReceived \/ ReceiveUnparsable \/ ReceiveNow
             \/ \E d \in Delays : ReceiveDelayed(d)
CheckSend == \/ NothingToSend \/ BudgetTooLow \/ TooEarly \/ ChannelBusy
             \/ \E a \in AirTimes : StartSend(a)
             \/ StartSendFails

\* One uninterrupted piece of the main loop.
Loop == \/ LoopStart \/ CheckOutbound \/ CheckInbound \/ HandlerReturn
        \/ CheckRecv \/ CheckSend

Next == App \/ Loop \/ Tick \/ RadioInterrupt

\* The main loop keeps running and time keeps passing.  Nothing is assumed of
\* the radio: it may report no frame, no end of transmission, and a busy
\* channel for ever.
Fairness == WF_vars(Loop) /\ WF_vars(Tick)

Spec == Init /\ [][Next]_vars /\ Fairness

-----------------------------------------------------------------------------
(***************************************************************************)
(* Properties.                                                             *)
(***************************************************************************)
InHand == {cur} \ {NoPacket}
OnAir == {outbound} \ {NoPacket}

\* Where a packet can be.
Places == <<ToSet(unused), PacketsIn(send_queue), PacketsIn(rx_queue), OnAir,
            InHand, held>>

\* The pool is conserved: every packet allocated by StaticPoolPacketManager's
\* constructor is, at any moment, in exactly one place and only once there.  A
\* packet released twice, queued while still on the air, or forgotten on an
\* early return of loop(), checkRecv() or checkSend() breaks it.
PoolConserved ==
  /\ UNION {Places[i] : i \in DOMAIN Places} = Packets
  /\ \A i, j \in DOMAIN Places : i # j => Places[i] \cap Places[j] = {}
  /\ IsInjective(unused)
  /\ \A i, j \in DOMAIN send_queue :
       send_queue[i].pkt = send_queue[j].pkt => i = j
  /\ \A i, j \in DOMAIN rx_queue : rx_queue[i].pkt = rx_queue[j].pkt => i = j

\* The branches of queueOutbound() and queueInbound() that drop a packet for
\* want of a slot are never taken: whoever has a packet to queue finds room.
QueuesHaveRoom ==
  InHand \cup held # {} \/ unused # <<>> =>
    Len(send_queue) < PoolSize /\ Len(rx_queue) < PoolSize

\* The dispatcher and the driver agree on who owns the radio: a packet is on
\* the air exactly while the driver waits for the end of a transmission, and
\* the interrupt flag then means that end and never a frame received before.
RadioAgrees ==
  /\ outbound # NoPacket <=> state = "TX_WAIT"
  /\ state = "TX_WAIT" <=> chip \in {"tx", "sent"}
  /\ state = "TX_WAIT" /\ int_ready => chip = "sent"

\* While a packet is on the air the budget that let it go is still there to be
\* charged.
BudgetBacksOutbound == outbound # NoPacket => tx_budget >= MinBudget

\* The dispatcher implements the lifecycle of a packet and of the transmitter.
Where(p) == CASE p \in ToSet(unused) -> "free"
              [] p \in PacketsIn(send_queue) -> "txq"
              [] p \in PacketsIn(rx_queue) -> "rxq"
              [] p = outbound -> "air"
              [] OTHER -> "app"

Lifecycle == INSTANCE PacketLifecycle WITH where <- [p \in Packets |-> Where(p)]

\* Every step of the dispatcher moves at most one packet, along an edge of the
\* lifecycle, and whatever the radio does the transmitter is given back.
LifecycleSpec == Lifecycle!Spec

\* Nothing on the radio side keeps a packet in the outbound queue for ever: one
\* of the most important priority leaves it even if the channel is always
\* busy, no transmission ever reports its end and traffic keeps arriving.
UrgentPacketLeaves ==
  \A p \in Packets :
    (\E i \in DOMAIN send_queue : send_queue[i].pkt = p /\ send_queue[i].pri = 0)
      ~> p \notin PacketsIn(send_queue)

\* A flood packet put aside for its score delay is eventually looked at.
DelayedPacketHandled ==
  \A p \in Packets : p \in PacketsIn(rx_queue) ~> p \notin PacketsIn(rx_queue)
=============================================================================
