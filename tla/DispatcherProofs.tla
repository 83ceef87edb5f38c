-------------------------- MODULE DispatcherProofs --------------------------
(***************************************************************************)
(* Proofs about the dispatcher, for a pool of any size, any priorities,    *)
(* delays and air times, and any duty cycle.                               *)
(***************************************************************************)
EXTENDS DispatcherAirtime, PacketQueueProofs

\* Whose turn it is.  onRecvPacket() runs with a packet in hand, and the parts of
\* loop() after the first are reached only with nothing on the air.
PhaseInv ==
  /\ cur # NoPacket <=> phase \in {"handler_in", "handler_rx"}
  /\ outbound # NoPacket => phase \in {"app", "outbound"}

TypeInv == TypeOK /\ PhaseInv

(***************************************************************************)
(* Type correctness.                                                       *)
(***************************************************************************)
LEMMA InitTypeInv == Init => TypeInv
<1> SUFFICES ASSUME Init PROVE TypeInv
  OBVIOUS
<1>1. Cardinality(Packets) \in Nat
  BY PoolAssumption, FS_CardinalityType
<1>2. unused \in [1..Cardinality(Packets) -> Packets]
  BY DEF Init, SetToSeqs
<1>3. unused \in Seq(Packets)
  BY <1>1, <1>2
<1>4. MaxBudget * (1 + AirtimeFactor) \in Nat
  BY BudgetAssumption
<1> QED
  BY <1>3, <1>4, BudgetAssumption
  DEF Init, TypeInv, TypeOK, PhaseInv, Window, NotBusy, RadioInit, RadioTypeOK

\* The budget arithmetic stays in range.
LEMMA BudgetTypes ==
  ASSUME TypeOK
  PROVE  /\ UpdatedBudget \in 0..MaxBudget
         /\ UpdatedSince \in 0..Window
         /\ \A t \in Nat : Charged(UpdatedBudget, t) \in 0..MaxBudget
         /\ \A b \in 0..MaxBudget, w \in Nat :
              b < w => (w - b) * (1 + AirtimeFactor) \in Nat
<1>1. AirtimeFactor \in Nat /\ MaxBudget \in Nat
  BY BudgetAssumption
<1>2. Window \in Nat
  BY <1>1 DEF Window
<1>3. tx_budget \in 0..MaxBudget /\ since_update \in 0..Window
  BY DEF TypeOK
<1>4. Refill \in Nat
  <2>1. 1 + AirtimeFactor \in Nat \ {0} /\ since_update \in Nat
    BY <1>1, <1>2, <1>3
  <2>2. \A a \in Nat, d \in Nat \ {0} : a \div d \in Nat
    OBVIOUS
  <2> QED BY <2>1, <2>2 DEF Refill
<1>5. UpdatedBudget \in 0..MaxBudget
  BY <1>1, <1>3, <1>4 DEF UpdatedBudget
<1>6. UpdatedSince \in 0..Window
  BY <1>2, <1>3, <1>4 DEF UpdatedSince
<1>7. \A t \in Nat : Charged(UpdatedBudget, t) \in 0..MaxBudget
  BY <1>1, <1>5 DEF Charged
<1>8. ASSUME NEW b \in 0..MaxBudget, NEW w \in Nat, b < w
      PROVE  (w - b) * (1 + AirtimeFactor) \in Nat
  <2>1. w - b \in Nat /\ 1 + AirtimeFactor \in Nat
    BY <1>1, <1>8
  <2>2. \A x, y \in Nat : x * y \in Nat
    OBVIOUS
  <2> QED BY <2>1, <2>2
<1> QED BY <1>5, <1>6, <1>7, <1>8

\* Releasing and queueing keep the tables tables of packets.
LEMMA PoolTypes ==
  ASSUME TypeOK, NEW p \in Packets
  PROVE  /\ \A u \in Seq(Packets) : Freed(u, p) \in Seq(Packets)
         /\ \A pri \in Priorities, d \in Delays : queueOutbound(p, pri, d) =>
              /\ unused' \in Seq(Packets)
              /\ send_queue' \in Seq(Entry(Packets, Priorities, Nat))
<1>1. \A u \in Seq(Packets) : Freed(u, p) \in Seq(Packets)
  BY AppendProperties DEF Freed
<1>2. ASSUME NEW pri \in Priorities, NEW d \in Delays, queueOutbound(p, pri, d)
      PROVE  /\ unused' \in Seq(Packets)
             /\ send_queue' \in Seq(Entry(Packets, Priorities, Nat))
  <2>1. d \in Nat
    BY QueueAssumption
  <2>2. add(send_queue, p, pri, d) \in Seq(Entry(Packets, Priorities, Nat))
    BY <2>1, AddAdds DEF TypeOK
  <2> QED BY <1>1, <1>2, <2>2 DEF queueOutbound, free, TypeOK
<1> QED BY <1>1, <1>2

\* Each kind of entry keeps its type while time passes or one entry is taken.
LEMMA QueueTypes ==
  ASSUME TypeOK
  PROVE  /\ Elapse(send_queue) \in Seq(Entry(Packets, Priorities, Nat))
         /\ Elapse(rx_queue) \in Seq(Entry(Packets, {0}, Nat))
         /\ NonFuture(send_queue) # {} =>
              /\ BestIndex(send_queue) \in DOMAIN send_queue
              /\ send_queue[BestIndex(send_queue)].pkt \in Packets
              /\ removeByIdx(send_queue, BestIndex(send_queue))
                   \in Seq(Entry(Packets, Priorities, Nat))
         /\ NonFuture(rx_queue) # {} =>
              /\ BestIndex(rx_queue) \in DOMAIN rx_queue
              /\ rx_queue[BestIndex(rx_queue)].pkt \in Packets
              /\ removeByIdx(rx_queue, BestIndex(rx_queue))
                   \in Seq(Entry(Packets, {0}, Nat))
<1>1. /\ send_queue \in Seq(Entry(Packets, Priorities, Nat))
      /\ rx_queue \in Seq(Entry(Packets, {0}, Nat))
      /\ Priorities \subseteq Nat /\ {0} \subseteq Nat /\ Nat \subseteq Int
  BY QueueAssumption DEF TypeOK
<1>2. ASSUME NonFuture(send_queue) # {}
      PROVE  BestIndex(send_queue) \in DOMAIN send_queue
  BY <1>1, <1>2, BestIndexExists
<1>3. ASSUME NonFuture(rx_queue) # {}
      PROVE  BestIndex(rx_queue) \in DOMAIN rx_queue
  BY <1>1, <1>3, BestIndexExists
<1>4. /\ Elapse(send_queue) \in Seq(Entry(Packets, Priorities, Nat))
      /\ Elapse(rx_queue) \in Seq(Entry(Packets, {0}, Nat))
  BY <1>1, ElapseKeepsPackets
<1> QED BY <1>1, <1>2, <1>3, <1>4, RemoveByIdxTakesOne

\* The driver keeps its type, whatever it is asked.
LEMMA RadioTypes ==
  ASSUME RadioTypeOK
  PROVE  /\ RxDone \/ TxDone \/ recvRaw \/ startSendRaw \/ startSendRawFails
              \/ onSendFinished \/ channelScan \/ resetAGC \/ UNCHANGED radioVars
              => RadioTypeOK'
BY DEF RadioTypeOK, RxDone, TxDone, recvRaw, startReceive, startSendRaw,
       startSendRawFails, onSendFinished, channelScan, resetAGC, radioVars

\* getNextOutbound is reached with an entry that is due.
LEMMA SomethingIsDue ==
  ASSUME TypeOK, SomethingToSend
  PROVE  NonFuture(send_queue) # {}
<1>1. Cardinality(NonFuture(send_queue)) > 0
  BY DEF SomethingToSend, countBefore
<1> QED BY <1>1, FS_EmptySet

LEMMA AppTypeInv == TypeInv /\ App => TypeInv'
<1> SUFFICES ASSUME TypeInv, App PROVE TypeInv'
  OBVIOUS
<1> USE DEF TypeInv
<1>1. CASE ObtainNewPacket
  <2>1. Head(unused) \in Packets /\ Tail(unused) \in Seq(Packets)
    BY <1>1, HeadTailProperties DEF ObtainNewPacket, TypeOK
  <2> QED BY <1>1, <2>1
      DEF ObtainNewPacket, AppRuns, allocNew, TypeOK, PhaseInv, RadioTypeOK,
          budgetVars, timerVars, radioVars
<1>2. ASSUME NEW p \in held, ReleasePacket(p) PROVE TypeInv'
  <2>1. p \in Packets /\ unused' \in Seq(Packets)
    BY <1>2, PoolTypes DEF ReleasePacket, free, TypeOK
  <2> QED BY <1>2, <2>1
      DEF ReleasePacket, AppRuns, TypeOK, PhaseInv, RadioTypeOK,
          budgetVars, timerVars, radioVars
<1>3. ASSUME NEW p \in held, NEW pri \in Priorities, NEW d \in Delays,
             SendPacket(p, pri, d)
      PROVE  TypeInv'
  <2>1. /\ unused' \in Seq(Packets)
        /\ send_queue' \in Seq(Entry(Packets, Priorities, Nat))
    BY <1>3, PoolTypes DEF SendPacket, TypeOK
  <2> QED BY <1>3, <2>1
      DEF SendPacket, AppRuns, TypeOK, PhaseInv, RadioTypeOK,
          budgetVars, timerVars, radioVars
<1> QED BY <1>1, <1>2, <1>3 DEF App

LEMMA OutboundTypeInv == TypeInv /\ (LoopStart \/ CheckOutbound) => TypeInv'
<1> SUFFICES ASSUME TypeInv, LoopStart \/ CheckOutbound PROVE TypeInv'
  OBVIOUS
<1> USE DEF TypeInv
<1>1. CASE LoopStart \/ StillSending
  BY <1>1 DEF LoopStart, StillSending, TypeOK, PhaseInv, RadioTypeOK, poolVars,
              budgetVars, timerVars, radioVars
<1>2. ASSUME ReleaseOutbound, phase = "outbound", outbound # NoPacket
      PROVE  /\ unused' \in Seq(Packets) /\ outbound' = NoPacket
             /\ phase' = "inbound" /\ outbound_for' = 0 /\ RadioTypeOK'
             /\ UNCHANGED <<send_queue, rx_queue, cur, held, expiry, cad_busy_for>>
  BY <1>2, PoolTypes, RadioTypes DEF ReleaseOutbound, free, TypeOK
<1>3. CASE SendCompleted
  <2>1. outbound_for \in Nat /\ MinReserve \in Nat
    BY BudgetAssumption DEF TypeOK
  <2>2. tx_budget' \in 0..MaxBudget /\ since_update' \in 0..Window
    BY <1>3, <2>1, BudgetTypes DEF SendCompleted
  <2>3. next_tx' \in Nat
    BY <1>3, <2>1, <2>2, BudgetTypes DEF SendCompleted
  <2> QED BY <1>2, <1>3, <2>2, <2>3 DEF SendCompleted, TypeOK, PhaseInv
<1>4. CASE SendTimedOut
  BY <1>2, <1>4 DEF SendTimedOut, TypeOK, PhaseInv, budgetVars
<1>5. CASE NothingOnAir
  BY <1>5, RadioTypes DEF NothingOnAir, TypeOK, PhaseInv, poolVars, budgetVars, timerVars
<1> QED BY <1>1, <1>3, <1>4, <1>5 DEF CheckOutbound

LEMMA InboundTypeInv == TypeInv /\ CheckInbound => TypeInv'
<1> SUFFICES ASSUME TypeInv, CheckInbound PROVE TypeInv'
  OBVIOUS
<1> USE DEF TypeInv
<1>1. CASE getNextInbound
  <2>1. cur' \in Packets /\ rx_queue' \in Seq(Entry(Packets, {0}, Nat))
    BY <1>1, QueueTypes DEF getNextInbound
  <2> QED BY <1>1, <2>1, PoolAssumption
      DEF getNextInbound, TypeOK, PhaseInv, RadioTypeOK, budgetVars, timerVars,
          radioVars
<1>2. CASE NoInbound
  BY <1>2 DEF NoInbound, TypeOK, PhaseInv, RadioTypeOK, poolVars, budgetVars,
              timerVars, radioVars
<1> QED BY <1>1, <1>2 DEF CheckInbound

LEMMA HandlerTypeInv == TypeInv /\ HandlerReturn => TypeInv'
<1> SUFFICES ASSUME TypeInv, HandlerReturn PROVE TypeInv'
  OBVIOUS
<1> USE DEF TypeInv
<1>1. ASSUME HandlerReturns,
             unused' \in Seq(Packets), held' \subseteq Packets,
             send_queue' \in Seq(Entry(Packets, Priorities, Nat))
      PROVE  TypeInv'
  BY <1>1 DEF HandlerReturns, TypeOK, PhaseInv, RadioTypeOK, budgetVars, timerVars,
              radioVars
<1>2. HandlerReturns => cur \in Packets
  BY DEF HandlerReturns, TypeOK, PhaseInv
<1>3. CASE ActionRelease
  BY <1>1, <1>2, <1>3, PoolTypes DEF ActionRelease, free, TypeOK
<1>4. CASE ActionManualHold
  BY <1>1, <1>2, <1>4 DEF ActionManualHold, TypeOK
<1>5. ASSUME NEW pri \in Priorities, NEW d \in Delays, ActionRetransmit(pri, d)
      PROVE  TypeInv'
  BY <1>1, <1>2, <1>5, PoolTypes DEF ActionRetransmit, TypeOK
<1> QED BY <1>3, <1>4, <1>5 DEF HandlerReturn

LEMMA RecvTypeInv == TypeInv /\ CheckRecv => TypeInv'
<1> SUFFICES ASSUME TypeInv, CheckRecv PROVE TypeInv'
  OBVIOUS
<1> USE DEF TypeInv
<1>1. unused # <<>> => Head(unused) \in Packets /\ Tail(unused) \in Seq(Packets)
  BY HeadTailProperties DEF TypeOK
<1>2. recvRaw => RadioTypeOK'
  BY RadioTypes DEF TypeOK
<1>3. CASE NothingReceived
  BY <1>2, <1>3 DEF NothingReceived, TypeOK, PhaseInv, poolVars, budgetVars, timerVars
<1>4. CASE ReceiveUnparsable
  <2>1. unused' \in Seq(Packets)
    BY <1>1, <1>4, PoolTypes DEF ReceiveUnparsable
  <2> QED BY <1>2, <1>4, <2>1
      DEF ReceiveUnparsable, TypeOK, PhaseInv, budgetVars, timerVars
<1>5. CASE ReceiveNow
  BY <1>1, <1>2, <1>5, PoolAssumption
  DEF ReceiveNow, allocNew, TypeOK, PhaseInv, budgetVars, timerVars
<1>6. ASSUME NEW d \in Delays, ReceiveDelayed(d) PROVE TypeInv'
  <2>1. d \in Nat
    BY QueueAssumption
  <2>2. /\ unused' \in Seq(Packets)
        /\ rx_queue' \in Seq(Entry(Packets, {0}, Nat))
    <3>1. add(rx_queue, Head(unused), 0, d) \in Seq(Entry(Packets, {0}, Nat))
      BY <1>1, <1>6, <2>1, AddAdds DEF ReceiveDelayed, TypeOK
    <3>2. Freed(Tail(unused), Head(unused)) \in Seq(Packets)
      BY <1>1, <1>6, PoolTypes DEF ReceiveDelayed
    <3> QED BY <1>1, <1>6, <3>1, <3>2 DEF ReceiveDelayed, allocNew, TypeOK
  <2> QED BY <1>2, <1>6, <2>2
      DEF ReceiveDelayed, TypeOK, PhaseInv, budgetVars, timerVars
<1> QED BY <1>3, <1>4, <1>5, <1>6 DEF CheckRecv

LEMMA SendTypeInv == TypeInv /\ CheckSend => TypeInv'
<1> SUFFICES ASSUME TypeInv, CheckSend PROVE TypeInv'
  OBVIOUS
<1> USE DEF TypeInv
<1>1. CASE NothingToSend
  BY <1>1 DEF NothingToSend, TypeOK, PhaseInv, RadioTypeOK, poolVars, budgetVars,
              timerVars, radioVars
<1>2. ASSUME SomethingToSend
      PROVE  /\ phase = "send" /\ phase' = "app" /\ outbound = NoPacket
             /\ cur = NoPacket
             /\ tx_budget' \in 0..MaxBudget /\ since_update' \in 0..Window
  BY <1>2, BudgetTypes DEF SomethingToSend, PhaseInv
<1>3. CASE BudgetTooLow
  <2>1. MinBudget \in Nat
    BY AirTimeAssumption DEF MinBudget
  <2>2. next_tx' \in Nat
    BY <1>2, <1>3, <2>1, BudgetTypes DEF BudgetTooLow
  <2> QED BY <1>2, <1>3, <2>2
      DEF BudgetTooLow, TypeOK, PhaseInv, RadioTypeOK, poolVars, radioVars
<1>4. CASE TooEarly
  BY <1>2, <1>4 DEF TooEarly, TypeOK, PhaseInv, RadioTypeOK, poolVars, timerVars,
                    radioVars
<1>5. CASE ChannelBusy
  <2>1. CADRetryDelay \in Nat /\ BusyFor \in Nat
    BY CADAssumption DEF BusyFor, NotBusy, TypeOK
  <2>2. RadioTypeOK'
    BY <1>5, RadioTypes DEF ChannelBusy, TypeOK
  <2> QED BY <1>2, <1>5, <2>1, <2>2
      DEF ChannelBusy, BudgetAllows, TypeOK, PhaseInv, poolVars
<1>6. ASSUME getNextOutbound
      PROVE  /\ send_queue' \in Seq(Entry(Packets, Priorities, Nat))
             /\ send_queue[BestIndex(send_queue)].pkt \in Packets
             /\ cad_busy_for' \in Nat \cup {NotBusy}
             /\ SomethingToSend /\ UNCHANGED <<rx_queue, cur, held, next_tx>>
  BY <1>6, SomethingIsDue, QueueTypes DEF getNextOutbound, BudgetAllows
<1>7. ASSUME NEW a \in AirTimes, StartSend(a) PROVE TypeInv'
  <2>1. (a * 3) \div 2 \in Nat
    BY AirTimeAssumption
  <2>2. RadioTypeOK'
    BY <1>7, RadioTypes DEF StartSend, TypeOK
  <2> QED BY <1>2, <1>6, <1>7, <2>1, <2>2 DEF StartSend, TypeOK, PhaseInv
<1>8. CASE StartSendFails
  <2>1. RadioTypeOK'
    BY <1>8, RadioTypes DEF StartSendFails, TypeOK
  <2>2. unused' \in Seq(Packets)
    BY <1>6, <1>8, PoolTypes DEF StartSendFails, free, TypeOK
  <2> QED BY <1>2, <1>6, <1>8, <2>1, <2>2 DEF StartSendFails, TypeOK, PhaseInv
<1> QED BY <1>1, <1>3, <1>4, <1>5, <1>7, <1>8 DEF CheckSend

LEMMA ClockTypeInv == TypeInv /\ (Tick \/ RadioInterrupt) => TypeInv'
<1> SUFFICES ASSUME TypeInv, Tick \/ RadioInterrupt PROVE TypeInv'
  OBVIOUS
<1> USE DEF TypeInv
<1>1. CASE Tick
  <2>1. /\ send_queue' \in Seq(Entry(Packets, Priorities, Nat))
        /\ rx_queue' \in Seq(Entry(Packets, {0}, Nat))
    BY <1>1, QueueTypes DEF Tick
  <2>2. MaxBudget \in Nat /\ Window \in Nat /\ CADMaxDuration \in Nat
    BY BudgetAssumption, CADAssumption DEF Window
  <2>3. /\ next_tx' \in Nat \cup {-1} /\ expiry' \in Nat \cup {-1}
        /\ outbound_for' \in Nat /\ since_update' \in 0..Window
        /\ cad_busy_for' \in Nat \cup {NotBusy}
    BY <1>1, <2>2 DEF Tick, CountDown, CountUp, HasPassed, NotBusy, TypeOK
  <2> QED BY <1>1, <2>1, <2>3 DEF Tick, TypeOK, PhaseInv, RadioTypeOK, radioVars
<1>2. CASE RadioInterrupt
  BY <1>2, RadioTypes
  DEF RadioInterrupt, TypeOK, PhaseInv, poolVars, budgetVars, timerVars
<1> QED BY <1>1, <1>2

LEMMA StutterTypeInv == TypeInv /\ UNCHANGED vars => TypeInv'
BY DEF TypeInv, TypeOK, PhaseInv, RadioTypeOK, vars, poolVars, budgetVars,
       timerVars, radioVars

LEMMA NextTypeInv == TypeInv /\ [Next]_vars => TypeInv'
BY AppTypeInv, OutboundTypeInv, InboundTypeInv, HandlerTypeInv, RecvTypeInv,
   SendTypeInv, ClockTypeInv, StutterTypeInv DEF Next, Loop

\* Every variable of the dispatcher and the driver keeps to its type.
THEOREM TypeCorrect == Spec => []TypeOK
<1>1. TypeInv => TypeOK
  BY DEF TypeInv
<1> QED BY <1>1, InitTypeInv, NextTypeInv, PTL DEF Spec

(***************************************************************************)
(* Ownership of the radio and of the transmit budget.                      *)
(***************************************************************************)
AirInv == TypeInv /\ RadioAgrees /\ BudgetBacksOutbound

LEMMA NextAirInv == AirInv /\ [Next]_vars => AirInv'
<1> SUFFICES ASSUME AirInv, [Next]_vars PROVE AirInv'
  OBVIOUS
<1> USE DEF AirInv
<1>0. TypeInv /\ TypeInv'
  BY NextTypeInv
<1> DEFINE Quiet == UNCHANGED <<outbound, tx_budget, radioVars>>
<1>1. Quiet => AirInv'
  BY <1>0 DEF RadioAgrees, BudgetBacksOutbound, radioVars
<1>2. CASE App \/ LoopStart \/ StillSending \/ CheckInbound \/ HandlerReturn \/ Tick
           \/ NothingToSend \/ UNCHANGED vars
  <2>1. Quiet
    BY <1>2
    DEF App, ObtainNewPacket, SendPacket, ReleasePacket, LoopStart, StillSending,
        CheckInbound, getNextInbound, NoInbound, HandlerReturn, ActionRelease,
        ActionManualHold, ActionRetransmit, HandlerReturns, Tick, NothingToSend,
        vars, poolVars, budgetVars
  <2> QED BY <1>1, <2>1
<1>3. CASE SendCompleted \/ SendTimedOut
  BY <1>0, <1>3
  DEF SendCompleted, SendTimedOut, ReleaseOutbound, onSendFinished, RadioAgrees,
      BudgetBacksOutbound
<1>4. CASE NothingOnAir
  BY <1>0, <1>4
  DEF NothingOnAir, resetAGC, RadioAgrees, BudgetBacksOutbound, poolVars,
      budgetVars, radioVars
\* Reception starts again only with nothing on the air.
<1>5. ASSUME recvRaw \/ channelScan, outbound = NoPacket, outbound' = NoPacket
      PROVE  AirInv'
  BY <1>0, <1>5
  DEF recvRaw, channelScan, startReceive, RadioAgrees, BudgetBacksOutbound
<1>6. CASE CheckRecv
  <2>1. recvRaw /\ outbound = NoPacket /\ outbound' = NoPacket
    BY <1>0, <1>6
    DEF CheckRecv, NothingReceived, ReceiveUnparsable, ReceiveNow, ReceiveDelayed,
        poolVars, TypeInv, PhaseInv
  <2> QED BY <1>5, <2>1
<1>7. SomethingToSend => outbound = NoPacket
  BY <1>0 DEF SomethingToSend, TypeInv, PhaseInv
<1>8. CASE BudgetTooLow \/ TooEarly
  BY <1>0, <1>7, <1>8
  DEF BudgetTooLow, TooEarly, RadioAgrees, BudgetBacksOutbound, poolVars, radioVars
<1>9. CASE ChannelBusy
  <2>1. outbound = NoPacket /\ outbound' = NoPacket
    BY <1>7, <1>9 DEF ChannelBusy, BudgetAllows, poolVars
  <2>2. CASE channelScan
    BY <1>5, <2>1, <2>2
  <2>3. CASE UNCHANGED radioVars
    BY <1>0, <2>1, <2>3 DEF RadioAgrees, BudgetBacksOutbound, radioVars
  <2> QED BY <1>9, <2>2, <2>3 DEF ChannelBusy
<1>10. ASSUME NEW a \in AirTimes, StartSend(a) PROVE AirInv'
  <2>1. outbound' \in Packets
    BY <1>0, <1>10, SomethingIsDue, QueueTypes
    DEF StartSend, getNextOutbound, BudgetAllows, TypeInv
  <2>2. outbound' # NoPacket /\ MinBudget' = MinBudget /\ tx_budget' >= MinBudget
    BY <1>10, <2>1, PoolAssumption
    DEF StartSend, getNextOutbound, BudgetAllows, MinBudget
  <2> QED BY <1>0, <1>10, <2>2
      DEF StartSend, startSendRaw, RadioAgrees, BudgetBacksOutbound
<1>11. CASE StartSendFails
  BY <1>0, <1>11
  DEF StartSendFails, startSendRawFails, RadioAgrees, BudgetBacksOutbound
<1>12. CASE RadioInterrupt
  BY <1>0, <1>12
  DEF RadioInterrupt, RxDone, TxDone, RadioAgrees, BudgetBacksOutbound, poolVars,
      budgetVars
<1> QED
  BY <1>2, <1>3, <1>4, <1>6, <1>8, <1>9, <1>10, <1>11, <1>12
  DEF Next, Loop, CheckOutbound, CheckSend

LEMMA InitAirInv == Init => AirInv
BY InitTypeInv DEF AirInv, RadioAgrees, BudgetBacksOutbound, Init, RadioInit

\* The dispatcher and the driver never disagree on who owns the radio, and the
\* interrupt flag of a transmission is never one left over from a reception.
THEOREM RadioOwnership == Spec => []RadioAgrees
<1>1. AirInv => RadioAgrees
  BY DEF AirInv
<1> QED BY <1>1, InitAirInv, NextAirInv, PTL DEF Spec

\* The budget that let a packet go out is still there when its air time is
\* charged.
THEOREM BudgetReserved == Spec => []BudgetBacksOutbound
<1>1. AirInv => BudgetBacksOutbound
  BY DEF AirInv
<1> QED BY <1>1, InitAirInv, NextAirInv, PTL DEF Spec

(***************************************************************************)
(* The pool is conserved.                                                  *)
(***************************************************************************)

\* U, S, R, O, C and H partition the pool.
Partition(U, S, R, O, C, H) ==
  /\ U \cup S \cup R \cup O \cup C \cup H = Packets
  /\ U \cap S = {} /\ U \cap R = {} /\ U \cap O = {} /\ U \cap C = {} /\ U \cap H = {}
  /\ S \cap R = {} /\ S \cap O = {} /\ S \cap C = {} /\ S \cap H = {}
  /\ R \cap O = {} /\ R \cap C = {} /\ R \cap H = {}
  /\ O \cap C = {} /\ O \cap H = {} /\ C \cap H = {}

Conserved ==
  /\ Partition(ToSet(unused), PacketsIn(send_queue), PacketsIn(rx_queue), OnAir,
               InHand, held)
  /\ IsInjective(unused) /\ Distinct(send_queue) /\ Distinct(rx_queue)

PoolInv == TypeInv /\ Conserved

LEMMA ConservedMeaning == PoolConserved <=> Conserved
<1>1. /\ DOMAIN Places = 1..6
      /\ Places[1] = ToSet(unused) /\ Places[2] = PacketsIn(send_queue)
      /\ Places[3] = PacketsIn(rx_queue) /\ Places[4] = OnAir
      /\ Places[5] = InHand /\ Places[6] = held
  BY DEF Places
<1>2. DOMAIN Places = {1, 2, 3, 4, 5, 6}
  BY <1>1
<1> HIDE DEF Places
<1>3. UNION {Places[i] : i \in DOMAIN Places}
        = Places[1] \cup Places[2] \cup Places[3] \cup Places[4] \cup Places[5]
            \cup Places[6]
  BY <1>2
<1>4. (\A i, j \in DOMAIN Places : i # j => Places[i] \cap Places[j] = {})
        <=> /\ Places[1] \cap Places[2] = {} /\ Places[1] \cap Places[3] = {}
            /\ Places[1] \cap Places[4] = {} /\ Places[1] \cap Places[5] = {}
            /\ Places[1] \cap Places[6] = {} /\ Places[2] \cap Places[3] = {}
            /\ Places[2] \cap Places[4] = {} /\ Places[2] \cap Places[5] = {}
            /\ Places[2] \cap Places[6] = {} /\ Places[3] \cap Places[4] = {}
            /\ Places[3] \cap Places[5] = {} /\ Places[3] \cap Places[6] = {}
            /\ Places[4] \cap Places[5] = {} /\ Places[4] \cap Places[6] = {}
            /\ Places[5] \cap Places[6] = {}
  <2>1. \A i, j : Places[i] \cap Places[j] = Places[j] \cap Places[i]
    OBVIOUS
  <2> QED BY <1>2, <2>1
<1> QED BY <1>1, <1>3, <1>4 DEF PoolConserved, Conserved, Partition, Distinct

\* Moving one packet from one part to another keeps the partition.
LEMMA Moves ==
  ASSUME NEW U, NEW S, NEW R, NEW O, NEW C, NEW H, Partition(U, S, R, O, C, H)
  PROVE  /\ \A p \in U : /\ Partition(U \ {p}, S, R, O, C, H \cup {p})
                         /\ Partition(U \ {p}, S, R \cup {p}, O, C, H)
                         /\ C = {} => Partition(U \ {p}, S, R, O, {p}, H)
         /\ \A p \in H : /\ Partition(U, S \cup {p}, R, O, C, H \ {p})
                         /\ Partition(U \cup {p}, S, R, O, C, H \ {p})
         /\ \A p \in S : /\ Partition(U \cup {p}, S \ {p}, R, O, C, H)
                         /\ O = {} => Partition(U, S \ {p}, R, {p}, C, H)
         /\ \A p \in R : C = {} => Partition(U, S, R \ {p}, O, {p}, H)
         /\ \A p : O = {p} => Partition(U \cup {p}, S, R, {}, C, H)
         /\ \A p : C = {p} => /\ Partition(U \cup {p}, S, R, O, {}, H)
                              /\ Partition(U, S \cup {p}, R, O, {}, H)
                              /\ Partition(U, S, R, O, {}, H \cup {p})
BY DEF Partition

\* A packet that is not free finds a slot in the pool's table, and one that is
\* not queued a slot in the queue.
LEMMA FreedAdds ==
  ASSUME PoolInv, NEW p \in Packets, p \notin ToSet(unused)
  PROVE  /\ Freed(unused, p) = Append(unused, p)
         /\ ToSet(Freed(unused, p)) = ToSet(unused) \cup {p}
         /\ IsInjective(Freed(unused, p))
<1>1. unused \in Seq(Packets) /\ IsInjective(unused)
  BY DEF PoolInv, TypeInv, TypeOK, Conserved
<1>2. Len(unused) < PoolSize
  BY <1>1, RoomForOneMore, PoolAssumption DEF PoolSize
<1>3. Freed(unused, p) = Append(unused, p)
  BY <1>2 DEF Freed
<1>4. /\ ToSet(Append(unused, p)) = ToSet(unused) \cup {p}
      /\ IsInjective(Append(unused, p))
  BY <1>1, AppendAdds
<1> QED BY <1>3, <1>4

LEMMA QueueOutboundAdds ==
  ASSUME PoolInv, NEW p \in Packets, p \notin PacketsIn(send_queue),
         NEW pri \in Priorities, NEW d \in Delays, queueOutbound(p, pri, d)
  PROVE  /\ unused' = unused /\ Distinct(send_queue')
         /\ PacketsIn(send_queue') = PacketsIn(send_queue) \cup {p}
<1>1. send_queue \in Seq(Entry(Packets, Priorities, Nat)) /\ Distinct(send_queue)
  BY DEF PoolInv, TypeInv, TypeOK, Conserved
<1>2. Len(send_queue) < PoolSize
  BY <1>1, QueueHasRoom, PoolAssumption DEF PoolSize
<1>3. send_queue' = add(send_queue, p, pri, d) /\ unused' = unused
  BY <1>2 DEF queueOutbound
<1>4. d \in Nat
  BY QueueAssumption
<1> QED BY <1>1, <1>3, <1>4, AddAdds

\* Taking the first free packet, and giving it back at once.
LEMMA AllocTakes ==
  ASSUME PoolInv, unused # <<>>
  PROVE  /\ Head(unused) \in Packets /\ Head(unused) \in ToSet(unused)
         /\ ToSet(Tail(unused)) = ToSet(unused) \ {Head(unused)}
         /\ IsInjective(Tail(unused))
         /\ ToSet(Freed(Tail(unused), Head(unused))) = ToSet(unused)
         /\ IsInjective(Freed(Tail(unused), Head(unused)))
<1>1. unused \in Seq(Packets) /\ IsInjective(unused)
  BY DEF PoolInv, TypeInv, TypeOK, Conserved
<1>2. PICK h, t : h = Head(unused) /\ t = Tail(unused)
  OBVIOUS
<1>3. /\ h \in Packets /\ h \in ToSet(unused) /\ t \in Seq(Packets)
      /\ ToSet(t) = ToSet(unused) \ {h} /\ IsInjective(t)
  BY <1>1, <1>2, TailTakesHead
<1>4. h \notin ToSet(t)
  BY <1>3
<1>5. Len(t) < PoolSize
  BY <1>3, <1>4, RoomForOneMore, PoolAssumption DEF PoolSize
<1>6. ToSet(Append(t, h)) = ToSet(t) \cup {h} /\ IsInjective(Append(t, h))
  BY <1>3, <1>4, AppendAdds
<1>7. Freed(t, h) = Append(t, h)
  BY <1>5 DEF Freed
<1>8. ToSet(t) \cup {h} = ToSet(unused)
  BY <1>3
<1> QED BY <1>2, <1>3, <1>6, <1>7, <1>8

LEMMA InitPoolInv == Init => PoolInv
<1> SUFFICES ASSUME Init PROVE PoolInv
  OBVIOUS
<1>1. TypeInv
  BY InitTypeInv
<1>2. /\ ToSet(unused) = Packets /\ OnAir = {} /\ InHand = {} /\ held = {}
      /\ send_queue = <<>> /\ rx_queue = <<>>
  BY DEF Init, OnAir, InHand
<1>3. PacketsIn(send_queue) = {} /\ PacketsIn(rx_queue) = {}
  BY <1>2 DEF PacketsIn
<1>4. Distinct(send_queue) /\ Distinct(rx_queue)
  BY <1>2 DEF Distinct
<1>5. IsInjective(unused)
  BY DEF Init, SetToSeqs, IsInjective
<1> QED BY <1>1, <1>2, <1>3, <1>4, <1>5 DEF PoolInv, Conserved, Partition

\* A step that moves no packet.
LEMMA StillPool ==
  ASSUME PoolInv, TypeInv', UNCHANGED poolVars
  PROVE  PoolInv'
BY DEF PoolInv, Conserved, Partition, OnAir, InHand, ToSet, IsInjective, PacketsIn,
       Distinct, poolVars

LEMMA AppPoolInv == PoolInv /\ TypeInv' /\ App => PoolInv'
<1> SUFFICES ASSUME PoolInv, TypeInv', App PROVE PoolInv'
  OBVIOUS
<1> DEFINE U == ToSet(unused)
           S == PacketsIn(send_queue)
           R == PacketsIn(rx_queue)
<1>0. Partition(U, S, R, OnAir, InHand, held)
  BY DEF PoolInv, Conserved
<1>1. CASE ObtainNewPacket
  <2>1. /\ ToSet(unused') = U \ {Head(unused)} /\ IsInjective(unused')
        /\ Head(unused) \in U
    BY <1>1, AllocTakes DEF ObtainNewPacket, allocNew
  <2>2. /\ held' = held \cup {Head(unused)}
        /\ UNCHANGED <<send_queue, rx_queue, OnAir, InHand>>
    BY <1>1 DEF ObtainNewPacket, OnAir, InHand
  <2> HIDE DEF U
  <2>3. Partition(ToSet(unused'), S, R, OnAir, InHand, held')
    <3>1. Partition(U \ {Head(unused)}, S, R, OnAir, InHand, held \cup {Head(unused)})
      BY <1>0, <2>1, Moves
    <3> QED BY <2>1, <2>2, <3>1
  <2> QED BY <2>1, <2>2, <2>3 DEF PoolInv, Conserved, Partition
<1>2. ASSUME NEW p \in held, ReleasePacket(p) PROVE PoolInv'
  <2>1. p \in Packets /\ p \notin U
    BY <1>0, <1>2 DEF Partition
  <2>2. ToSet(unused') = U \cup {p} /\ IsInjective(unused')
    BY <1>2, <2>1, FreedAdds DEF ReleasePacket, free
  <2>3. /\ held' = held \ {p}
        /\ UNCHANGED <<send_queue, rx_queue, OnAir, InHand>>
    BY <1>2 DEF ReleasePacket, OnAir, InHand
  <2> HIDE DEF U
  <2>4. Partition(ToSet(unused'), S, R, OnAir, InHand, held')
    <3>1. Partition(U \cup {p}, S, R, OnAir, InHand, held \ {p})
      BY <1>0, Moves
    <3> QED BY <2>2, <2>3, <3>1
  <2> QED BY <2>2, <2>3, <2>4 DEF PoolInv, Conserved, Partition
<1>3. ASSUME NEW p \in held, NEW pri \in Priorities, NEW d \in Delays,
             SendPacket(p, pri, d)
      PROVE  PoolInv'
  <2>1. p \in Packets /\ p \notin S
    BY <1>0, <1>3 DEF Partition
  <2>2. unused' = unused /\ Distinct(send_queue') /\ PacketsIn(send_queue') = S \cup {p}
    BY <1>3, <2>1, QueueOutboundAdds DEF SendPacket
  <2>3. held' = held \ {p} /\ UNCHANGED <<rx_queue, OnAir, InHand>>
    BY <1>3 DEF SendPacket, OnAir, InHand
  <2> HIDE DEF S
  <2>4. Partition(U, PacketsIn(send_queue'), R, OnAir, InHand, held')
    <3>1. Partition(U, S \cup {p}, R, OnAir, InHand, held \ {p})
      BY <1>0, Moves
    <3> QED BY <2>2, <2>3, <3>1
  <2> QED BY <2>2, <2>3, <2>4 DEF PoolInv, Conserved, Partition
<1> QED BY <1>1, <1>2, <1>3 DEF App

LEMMA OutboundPoolInv == PoolInv /\ TypeInv' /\ (LoopStart \/ CheckOutbound) => PoolInv'
<1> SUFFICES ASSUME PoolInv, TypeInv', LoopStart \/ CheckOutbound PROVE PoolInv'
  OBVIOUS
<1>1. CASE LoopStart \/ StillSending \/ NothingOnAir
  BY <1>1, StillPool DEF LoopStart, StillSending, NothingOnAir
<1>2. CASE SendCompleted \/ SendTimedOut
  <2> DEFINE U == ToSet(unused)
             S == PacketsIn(send_queue)
             R == PacketsIn(rx_queue)
  <2>0. Partition(U, S, R, OnAir, InHand, held)
    BY DEF PoolInv, Conserved
  <2>1. /\ outbound # NoPacket /\ OnAir = {outbound}
        /\ unused' = Freed(unused, outbound) /\ OnAir' = {}
        /\ UNCHANGED <<send_queue, rx_queue, InHand, held>>
    BY <1>2 DEF SendCompleted, SendTimedOut, ReleaseOutbound, free, OnAir, InHand
  <2>2. outbound \in Packets /\ outbound \notin U
    BY <2>0, <2>1 DEF Partition
  <2>3. ToSet(unused') = U \cup {outbound} /\ IsInjective(unused')
    BY <2>1, <2>2, FreedAdds
  <2> HIDE DEF U
  <2>4. Partition(U \cup {outbound}, S, R, {}, InHand, held)
    BY <2>0, <2>1, Moves
  <2> QED BY <2>1, <2>3, <2>4 DEF PoolInv, Conserved
<1> QED BY <1>1, <1>2 DEF CheckOutbound

LEMMA InboundPoolInv == PoolInv /\ TypeInv' /\ CheckInbound => PoolInv'
<1> SUFFICES ASSUME PoolInv, TypeInv', CheckInbound PROVE PoolInv'
  OBVIOUS
<1>1. CASE NoInbound
  BY <1>1, StillPool DEF NoInbound
<1>2. CASE getNextInbound
  <2> DEFINE U == ToSet(unused)
             S == PacketsIn(send_queue)
             R == PacketsIn(rx_queue)
  <2>0. Partition(U, S, R, OnAir, InHand, held) /\ Distinct(rx_queue)
    BY DEF PoolInv, Conserved
  <2>1. rx_queue \in Seq(Entry(Packets, {0}, Nat))
        /\ BestIndex(rx_queue) \in DOMAIN rx_queue
    BY <1>2, QueueTypes DEF PoolInv, TypeInv, TypeOK, getNextInbound
  <2>2. PICK i \in DOMAIN rx_queue : i = BestIndex(rx_queue)
    BY <2>1
  <2>3. cur' = rx_queue[i].pkt /\ rx_queue' = removeByIdx(rx_queue, i)
    BY <1>2, <2>2 DEF getNextInbound
  <2>4. /\ cur' \in Packets /\ cur' \in R
        /\ PacketsIn(rx_queue') = R \ {cur'} /\ Distinct(rx_queue')
    BY <2>0, <2>1, <2>3, RemoveByIdxTakesOne
  <2>5. /\ InHand = {} /\ InHand' = {cur'}
        /\ UNCHANGED <<unused, send_queue, OnAir, held>>
    BY <1>2, <2>4, PoolAssumption
    DEF getNextInbound, InHand, OnAir, PoolInv, TypeInv, PhaseInv
  <2> HIDE DEF R
  <2>6. Partition(U, S, R \ {cur'}, OnAir, {cur'}, held)
    BY <2>0, <2>4, <2>5, Moves
  <2> QED BY <2>4, <2>5, <2>6 DEF PoolInv, Conserved
<1> QED BY <1>1, <1>2 DEF CheckInbound

LEMMA HandlerPoolInv == PoolInv /\ TypeInv' /\ HandlerReturn => PoolInv'
<1> SUFFICES ASSUME PoolInv, TypeInv', HandlerReturn PROVE PoolInv'
  OBVIOUS
<1> DEFINE U == ToSet(unused)
           S == PacketsIn(send_queue)
           R == PacketsIn(rx_queue)
<1>0. /\ Partition(U, S, R, OnAir, InHand, held)
      /\ IsInjective(unused) /\ Distinct(send_queue) /\ Distinct(rx_queue)
  BY DEF PoolInv, Conserved
<1>1. /\ cur \in Packets /\ InHand = {cur} /\ InHand' = {}
      /\ UNCHANGED <<rx_queue, OnAir>>
  BY DEF HandlerReturn, ActionRelease, ActionManualHold, ActionRetransmit,
         HandlerReturns, PoolInv, TypeInv, TypeOK, PhaseInv, InHand, OnAir
<1>2. cur \notin U /\ cur \notin S
  BY <1>0, <1>1 DEF Partition
<1>3. CASE ActionRelease
  <2>1. ToSet(unused') = U \cup {cur} /\ IsInjective(unused')
    BY <1>1, <1>2, <1>3, FreedAdds DEF ActionRelease, free
  <2>2. UNCHANGED <<send_queue, held>>
    BY <1>3 DEF ActionRelease
  <2> HIDE DEF U
  <2>3. Partition(U \cup {cur}, S, R, OnAir, {}, held)
    BY <1>0, <1>1, Moves
  <2> QED BY <1>0, <1>1, <2>1, <2>2, <2>3 DEF PoolInv, Conserved
<1>4. CASE ActionManualHold
  <2>1. held' = held \cup {cur} /\ UNCHANGED <<unused, send_queue>>
    BY <1>4 DEF ActionManualHold
  <2>2. Partition(U, S, R, OnAir, {}, held \cup {cur})
    BY <1>0, <1>1, Moves
  <2> QED BY <1>0, <1>1, <2>1, <2>2 DEF PoolInv, Conserved
<1>5. ASSUME NEW pri \in Priorities, NEW d \in Delays, ActionRetransmit(pri, d)
      PROVE  PoolInv'
  <2>1. /\ unused' = unused /\ Distinct(send_queue')
        /\ PacketsIn(send_queue') = S \cup {cur}
    BY <1>1, <1>2, <1>5, QueueOutboundAdds DEF ActionRetransmit
  <2>2. held' = held
    BY <1>5 DEF ActionRetransmit
  <2> HIDE DEF S
  <2>3. Partition(U, S \cup {cur}, R, OnAir, {}, held)
    BY <1>0, <1>1, Moves
  <2> QED BY <1>0, <1>1, <2>1, <2>2, <2>3 DEF PoolInv, Conserved
<1> QED BY <1>3, <1>4, <1>5 DEF HandlerReturn

LEMMA RecvPoolInv == PoolInv /\ TypeInv' /\ CheckRecv => PoolInv'
<1> SUFFICES ASSUME PoolInv, TypeInv', CheckRecv PROVE PoolInv'
  OBVIOUS
<1> DEFINE U == ToSet(unused)
           S == PacketsIn(send_queue)
           R == PacketsIn(rx_queue)
<1>0. /\ Partition(U, S, R, OnAir, InHand, held)
      /\ IsInjective(unused) /\ Distinct(send_queue) /\ Distinct(rx_queue)
      /\ InHand = {}
  BY DEF PoolInv, Conserved, InHand, TypeInv, PhaseInv, CheckRecv, NothingReceived,
         ReceiveUnparsable, ReceiveNow, ReceiveDelayed
<1>1. CASE NothingReceived
  BY <1>1, StillPool DEF NothingReceived
<1>2. CASE ReceiveUnparsable
  <2>1. ToSet(unused') = U /\ IsInjective(unused')
    BY <1>2, AllocTakes DEF ReceiveUnparsable
  <2>2. UNCHANGED <<send_queue, rx_queue, OnAir, InHand, held>>
    BY <1>2 DEF ReceiveUnparsable, OnAir, InHand
  <2> HIDE DEF U
  <2> QED BY <1>0, <2>1, <2>2 DEF PoolInv, Conserved
<1>3. CASE ReceiveNow
  <2>1. PICK h : h = Head(unused)
    OBVIOUS
  <2>2. /\ h \in Packets /\ h \in U
        /\ ToSet(unused') = U \ {h} /\ IsInjective(unused')
    BY <1>3, <2>1, AllocTakes DEF ReceiveNow, allocNew
  <2>3. InHand' = {h} /\ UNCHANGED <<send_queue, rx_queue, OnAir, held>>
    BY <1>3, <2>1, <2>2, PoolAssumption DEF ReceiveNow, InHand, OnAir
  <2> HIDE DEF U
  <2>4. Partition(U \ {h}, S, R, OnAir, {h}, held)
    BY <1>0, <2>2, Moves
  <2> QED BY <1>0, <2>2, <2>3, <2>4 DEF PoolInv, Conserved
<1>4. ASSUME NEW d \in Delays, ReceiveDelayed(d) PROVE PoolInv'
  <2>1. PICK h : h = Head(unused)
    OBVIOUS
  <2>2. /\ h \in Packets /\ h \in U
        /\ ToSet(Tail(unused)) = U \ {h} /\ IsInjective(Tail(unused))
    BY <1>4, <2>1, AllocTakes DEF ReceiveDelayed
  <2>3. h \notin R
    BY <1>0, <2>2 DEF Partition
  <2>4. rx_queue \in Seq(Entry(Packets, {0}, Nat)) /\ d \in Nat
    BY QueueAssumption DEF PoolInv, TypeInv, TypeOK
  <2>5. Len(rx_queue) < PoolSize
    BY <1>0, <2>2, <2>3, <2>4, QueueHasRoom, PoolAssumption DEF PoolSize
  <2>6. /\ unused' = Tail(unused) /\ rx_queue' = add(rx_queue, h, 0, d)
        /\ UNCHANGED <<send_queue, OnAir, InHand, held>>
    BY <1>4, <2>1, <2>5 DEF ReceiveDelayed, allocNew, OnAir, InHand
  <2>7. PacketsIn(rx_queue') = R \cup {h} /\ Distinct(rx_queue')
    BY <1>0, <2>2, <2>3, <2>4, <2>6, AddAdds
  <2> HIDE DEF U, R
  <2>8. Partition(U \ {h}, S, R \cup {h}, OnAir, InHand, held)
    BY <1>0, <2>2, Moves
  <2> QED BY <1>0, <2>2, <2>6, <2>7, <2>8 DEF PoolInv, Conserved
<1> QED BY <1>1, <1>2, <1>3, <1>4 DEF CheckRecv

LEMMA SendPoolInv == PoolInv /\ TypeInv' /\ CheckSend => PoolInv'
<1> SUFFICES ASSUME PoolInv, TypeInv', CheckSend PROVE PoolInv'
  OBVIOUS
<1> DEFINE U == ToSet(unused)
           S == PacketsIn(send_queue)
           R == PacketsIn(rx_queue)
<1>0. /\ Partition(U, S, R, OnAir, InHand, held)
      /\ IsInjective(unused) /\ Distinct(send_queue) /\ Distinct(rx_queue)
  BY DEF PoolInv, Conserved
<1>1. CASE NothingToSend \/ BudgetTooLow \/ TooEarly \/ ChannelBusy
  BY <1>1, StillPool DEF NothingToSend, BudgetTooLow, TooEarly, ChannelBusy
<1>2. ASSUME getNextOutbound,
             NEW p, p = send_queue[BestIndex(send_queue)].pkt
      PROVE  /\ p \in Packets /\ p \in S /\ p \notin U /\ OnAir = {}
             /\ PacketsIn(send_queue') = S \ {p} /\ Distinct(send_queue')
             /\ UNCHANGED <<rx_queue, InHand, held>>
  <2>1. NonFuture(send_queue) # {}
    BY <1>2, SomethingIsDue DEF getNextOutbound, BudgetAllows, PoolInv, TypeInv
  <2>2. send_queue \in Seq(Entry(Packets, Priorities, Nat))
        /\ BestIndex(send_queue) \in DOMAIN send_queue
    BY <2>1, QueueTypes DEF PoolInv, TypeInv, TypeOK
  <2>3. PICK i \in DOMAIN send_queue : i = BestIndex(send_queue)
    BY <2>2
  <2>4. send_queue' = removeByIdx(send_queue, i) /\ p = send_queue[i].pkt
    BY <1>2, <2>3 DEF getNextOutbound
  <2>5. /\ p \in Packets /\ p \in S
        /\ PacketsIn(send_queue') = S \ {p} /\ Distinct(send_queue')
    BY <1>0, <2>2, <2>4, RemoveByIdxTakesOne
  <2>6. p \notin U
    BY <1>0, <2>5 DEF Partition
  <2>7. OnAir = {}
    BY <1>2 DEF getNextOutbound, BudgetAllows, SomethingToSend, PoolInv, TypeInv,
                PhaseInv, OnAir
  <2>8. UNCHANGED <<rx_queue, InHand, held>>
    BY <1>2 DEF getNextOutbound, InHand
  <2> QED BY <2>5, <2>6, <2>7, <2>8
<1>3. ASSUME NEW a \in AirTimes, StartSend(a) PROVE PoolInv'
  <2>1. PICK p : p = send_queue[BestIndex(send_queue)].pkt
    OBVIOUS
  <2>2. /\ p \in Packets /\ p \in S /\ OnAir = {}
        /\ PacketsIn(send_queue') = S \ {p} /\ Distinct(send_queue')
        /\ UNCHANGED <<rx_queue, InHand, held>>
    BY <1>2, <1>3, <2>1 DEF StartSend
  <2>3. OnAir' = {p} /\ unused' = unused
    BY <1>3, <2>1, <2>2, PoolAssumption DEF StartSend, OnAir
  <2> HIDE DEF S
  <2>4. Partition(U, S \ {p}, R, {p}, InHand, held)
    BY <1>0, <2>2, Moves
  <2> QED BY <1>0, <2>2, <2>3, <2>4 DEF PoolInv, Conserved
<1>4. CASE StartSendFails
  <2>1. PICK p : p = send_queue[BestIndex(send_queue)].pkt
    OBVIOUS
  <2>2. /\ p \in Packets /\ p \in S /\ p \notin U /\ OnAir = {}
        /\ PacketsIn(send_queue') = S \ {p} /\ Distinct(send_queue')
        /\ UNCHANGED <<rx_queue, InHand, held>>
    BY <1>2, <1>4, <2>1 DEF StartSendFails
  <2>3. OnAir' = {} /\ unused' = Freed(unused, p)
    BY <1>4, <2>1 DEF StartSendFails, free, OnAir
  <2>4. ToSet(unused') = U \cup {p} /\ IsInjective(unused')
    BY <2>2, <2>3, FreedAdds
  <2> HIDE DEF U, S
  <2>5. Partition(U \cup {p}, S \ {p}, R, OnAir, InHand, held)
    BY <1>0, <2>2, Moves
  <2> QED BY <1>0, <2>2, <2>3, <2>4, <2>5 DEF PoolInv, Conserved
<1> QED BY <1>1, <1>3, <1>4 DEF CheckSend

LEMMA ClockPoolInv ==
  PoolInv /\ TypeInv' /\ (Tick \/ RadioInterrupt \/ UNCHANGED vars) => PoolInv'
<1> SUFFICES ASSUME PoolInv, TypeInv', Tick \/ RadioInterrupt \/ UNCHANGED vars
             PROVE  PoolInv'
  OBVIOUS
<1>1. CASE Tick
  <2>1. /\ send_queue \in Seq(Entry(Packets, Priorities, Nat))
        /\ rx_queue \in Seq(Entry(Packets, {0}, Nat))
    BY DEF PoolInv, TypeInv, TypeOK
  <2>2. /\ PacketsIn(send_queue') = PacketsIn(send_queue)
        /\ PacketsIn(rx_queue') = PacketsIn(rx_queue)
        /\ Distinct(send_queue) => Distinct(send_queue')
        /\ Distinct(rx_queue) => Distinct(rx_queue')
    BY <1>1, <2>1, ElapseKeepsPackets DEF Tick
  <2>3. UNCHANGED <<unused, OnAir, InHand, held>>
    BY <1>1 DEF Tick, OnAir, InHand
  <2> QED BY <2>2, <2>3 DEF PoolInv, Conserved
<1>2. CASE RadioInterrupt \/ UNCHANGED vars
  BY <1>2, StillPool DEF RadioInterrupt, vars
<1> QED BY <1>1, <1>2

LEMMA NextPoolInv == PoolInv /\ [Next]_vars => PoolInv'
<1> SUFFICES ASSUME PoolInv, [Next]_vars PROVE PoolInv'
  OBVIOUS
<1>1. TypeInv'
  BY NextTypeInv DEF PoolInv
<1> QED
  BY <1>1, AppPoolInv, OutboundPoolInv, InboundPoolInv, HandlerPoolInv, RecvPoolInv,
     SendPoolInv, ClockPoolInv DEF Next, Loop

LEMMA PoolInvariant == Spec => []PoolInv
BY InitPoolInv, NextPoolInv, PTL DEF Spec

\* No packet of the pool is ever lost, released twice, or in two places.
THEOREM PoolConservation == Spec => []PoolConserved
<1>1. PoolInv => PoolConserved
  BY ConservedMeaning DEF PoolInv
<1> QED BY <1>1, PoolInvariant, PTL

\* Whoever has a packet to queue finds a slot for it.
THEOREM RoomInTheQueues == Spec => []QueuesHaveRoom
<1>1. ASSUME PoolInv PROVE QueuesHaveRoom
  <2>1. SUFFICES ASSUME InHand \cup held # {} \/ unused # <<>>
                 PROVE  Len(send_queue) < PoolSize /\ Len(rx_queue) < PoolSize
    BY DEF QueuesHaveRoom
  <2>2. Partition(ToSet(unused), PacketsIn(send_queue), PacketsIn(rx_queue), OnAir,
                  InHand, held)
        /\ Distinct(send_queue) /\ Distinct(rx_queue)
    BY <1>1 DEF PoolInv, Conserved
  <2>3. PICK p : p \in InHand \/ p \in held \/ p \in ToSet(unused)
    BY <1>1, <2>1, AllocTakes
  <2>4. p \in Packets /\ p \notin PacketsIn(send_queue) /\ p \notin PacketsIn(rx_queue)
    BY <2>2, <2>3 DEF Partition
  <2>5. /\ send_queue \in Seq(Entry(Packets, Priorities, Nat))
        /\ rx_queue \in Seq(Entry(Packets, {0}, Nat))
    BY <1>1 DEF PoolInv, TypeInv, TypeOK
  <2> QED BY <2>2, <2>4, <2>5, QueueHasRoom, PoolAssumption DEF PoolSize
<1> QED BY <1>1, PoolInvariant, PTL

(***************************************************************************)
(* The lifecycle of a packet.                                              *)
(***************************************************************************)
where == [p \in Packets |-> Where(p)]

\* Where a packet is follows from the part of the pool that it is in.
InItsPlace(p) ==
  /\ p \in ToSet(unused) => Where(p) = "free"
  /\ p \in PacketsIn(send_queue) => Where(p) = "txq"
  /\ p \in PacketsIn(rx_queue) => Where(p) = "rxq"
  /\ p \in OnAir => Where(p) = "air"
  /\ p \in InHand \cup held => Where(p) = "app"

InTheirPlaces == \A p \in Packets : InItsPlace(p)

LEMMA Located == PoolInv => InTheirPlaces
<1> SUFFICES ASSUME PoolInv, NEW p \in Packets PROVE InItsPlace(p)
  BY DEF InTheirPlaces
<1>1. Partition(ToSet(unused), PacketsIn(send_queue), PacketsIn(rx_queue), OnAir, InHand, held)
  BY DEF PoolInv, Conserved
<1>2. p = outbound <=> p \in OnAir
  BY PoolAssumption DEF OnAir
<1> QED BY <1>1, <1>2, Zenon DEF Partition, Where, InItsPlace

\* A step that leaves all packets but p where they are moves p.
LEMMA OneMoves ==
  ASSUME NEW p \in Packets,
         \A q \in Packets \ {p} : /\ q \in ToSet(unused) <=> q \in ToSet(unused')
                                  /\ q \in PacketsIn(send_queue) <=> q \in PacketsIn(send_queue')
                                  /\ q \in PacketsIn(rx_queue) <=> q \in PacketsIn(rx_queue')
                                  /\ q = outbound <=> q = outbound'
  PROVE  Lifecycle!Move(p, Where(p), Where(p)')
<1>1. ASSUME NEW q \in Packets \ {p} PROVE Where(q)' = Where(q)
  BY <1>1, SMT DEF Where
<1>2. where' = [where EXCEPT ![p] = Where(p)']
  BY <1>1 DEF where
<1> QED BY <1>2 DEF Lifecycle!Move, where

\* The edges along which a packet moves.
Edge(p, from, to) == /\ Where(p) = from /\ Where(p)' = to
                     /\ Lifecycle!Move(p, Where(p), Where(p)')

LEMMA EdgesAreSteps ==
  ASSUME NEW p \in Packets,
         \/ Edge(p, "free", "app") \/ Edge(p, "app", "free") \/ Edge(p, "app", "txq")
         \/ Edge(p, "free", "rxq") \/ Edge(p, "rxq", "app") \/ Edge(p, "air", "free")
         \/ /\ \A q \in Packets : Where(q) # "air"
            /\ Edge(p, "txq", "air") \/ Edge(p, "txq", "free")
  PROVE  Lifecycle!Next
BY DEF Edge, Lifecycle!Next, Lifecycle!Allocate, Lifecycle!Release, Lifecycle!Enqueue,
       Lifecycle!Defer, Lifecycle!TakeUp, Lifecycle!Transmit, Lifecycle!GiveUp, Lifecycle!Landed,
       Lifecycle!AirIsFree

LEMMA LocatedAfter == PoolInv' => InTheirPlaces'
BY Located, PTL

LEMMA NoneOnAir ==
  ASSUME outbound = NoPacket PROVE \A p \in Packets : Where(p) # "air"
<1> SUFFICES ASSUME NEW p \in Packets PROVE Where(p) # "air"
  OBVIOUS
<1>1. p # outbound
  BY PoolAssumption
<1> QED BY <1>1, Zenon DEF Where

\* A step of the dispatcher, as one of the lifecycle.
LifecycleStep == [Lifecycle!Next]_where

\* Nothing moves if the tables hold the same packets and the air is the same.
LEMMA NothingMoves ==
  ASSUME ToSet(unused') = ToSet(unused), PacketsIn(send_queue') = PacketsIn(send_queue),
         PacketsIn(rx_queue') = PacketsIn(rx_queue), outbound' = outbound
  PROVE  LifecycleStep
<1>1. ASSUME NEW p \in Packets PROVE Where(p)' = Where(p)
  BY SMT DEF Where
<1> QED BY <1>1 DEF LifecycleStep, where

LEMMA PoolUntouched == UNCHANGED poolVars => LifecycleStep
BY NothingMoves DEF poolVars, ToSet, PacketsIn

LEMMA AppSteps == PoolInv /\ PoolInv' /\ App => LifecycleStep
<1> SUFFICES ASSUME PoolInv, PoolInv', App PROVE LifecycleStep
  OBVIOUS
<1>1. CASE ObtainNewPacket
  <2> PICK h : h = Head(unused)
    OBVIOUS
  <2>1. /\ h \in Packets /\ h \in ToSet(unused) /\ ToSet(unused') = ToSet(unused) \ {h}
        /\ h \in held' /\ UNCHANGED <<send_queue, rx_queue, outbound>>
    BY <1>1, AllocTakes DEF ObtainNewPacket, allocNew
  <2>2. Edge(h, "free", "app")
    BY <2>1, OneMoves, Located, LocatedAfter DEF Edge, InTheirPlaces, InItsPlace
  <2> QED BY <2>1, <2>2, EdgesAreSteps DEF LifecycleStep
<1>2. ASSUME NEW p \in held, ReleasePacket(p) PROVE LifecycleStep
  <2>1. p \in Packets /\ p \notin ToSet(unused)
    BY <1>2 DEF PoolInv, Conserved, Partition
  <2>2. /\ ToSet(unused') = ToSet(unused) \cup {p}
        /\ UNCHANGED <<send_queue, rx_queue, outbound>>
    BY <1>2, <2>1, FreedAdds DEF ReleasePacket, free
  <2>3. Edge(p, "app", "free")
    BY <2>1, <2>2, OneMoves, Located, LocatedAfter DEF Edge, InTheirPlaces, InItsPlace
  <2> QED BY <2>1, <2>3, EdgesAreSteps DEF LifecycleStep
<1>3. ASSUME NEW p \in held, NEW pri \in Priorities, NEW d \in Delays, SendPacket(p, pri, d)
      PROVE  LifecycleStep
  <2>1. p \in Packets /\ p \notin PacketsIn(send_queue)
    BY <1>3 DEF PoolInv, Conserved, Partition
  <2>2. /\ PacketsIn(send_queue') = PacketsIn(send_queue) \cup {p}
        /\ UNCHANGED <<unused, rx_queue, outbound>>
    BY <1>3, <2>1, QueueOutboundAdds DEF SendPacket
  <2>3. Edge(p, "app", "txq")
    BY <2>1, <2>2, OneMoves, Located, LocatedAfter DEF Edge, InTheirPlaces, InItsPlace
  <2> QED BY <2>1, <2>3, EdgesAreSteps DEF LifecycleStep
<1> QED BY <1>1, <1>2, <1>3 DEF App

LEMMA OutboundSteps == PoolInv /\ PoolInv' /\ (LoopStart \/ CheckOutbound) => LifecycleStep
<1> SUFFICES ASSUME PoolInv, PoolInv', LoopStart \/ CheckOutbound PROVE LifecycleStep
  OBVIOUS
<1>1. CASE LoopStart \/ StillSending \/ NothingOnAir
  BY <1>1, PoolUntouched DEF LoopStart, StillSending, NothingOnAir
<1>2. CASE SendCompleted \/ SendTimedOut
  <2> PICK p : p = outbound
    OBVIOUS
  <2>1. /\ p # NoPacket /\ unused' = Freed(unused, p) /\ outbound' = NoPacket
        /\ UNCHANGED <<send_queue, rx_queue>>
    BY <1>2 DEF SendCompleted, SendTimedOut, ReleaseOutbound, free
  <2>2. p \in Packets /\ p \in OnAir /\ p \notin ToSet(unused)
    BY <2>1 DEF PoolInv, Conserved, Partition, OnAir
  <2>3. ToSet(unused') = ToSet(unused) \cup {p}
    BY <2>1, <2>2, FreedAdds
  <2>4. \A q \in Packets \ {p} : ~(q = outbound) /\ ~(q = outbound')
    BY <2>1, PoolAssumption
  <2>5. Edge(p, "air", "free")
    BY <2>1, <2>2, <2>3, <2>4, OneMoves, Located, LocatedAfter DEF Edge, InTheirPlaces, InItsPlace
  <2> QED BY <2>2, <2>5, EdgesAreSteps DEF LifecycleStep
<1> QED BY <1>1, <1>2 DEF CheckOutbound

LEMMA InboundSteps == PoolInv /\ PoolInv' /\ CheckInbound => LifecycleStep
<1> SUFFICES ASSUME PoolInv, PoolInv', CheckInbound PROVE LifecycleStep
  OBVIOUS
<1>1. CASE NoInbound
  BY <1>1, PoolUntouched DEF NoInbound
<1>2. CASE getNextInbound
  <2>1. /\ rx_queue \in Seq(Entry(Packets, {0}, Nat)) /\ Distinct(rx_queue)
        /\ BestIndex(rx_queue) \in DOMAIN rx_queue
    BY <1>2, QueueTypes DEF PoolInv, TypeInv, TypeOK, Conserved, getNextInbound
  <2>2. PICK i \in DOMAIN rx_queue : i = BestIndex(rx_queue)
    BY <2>1
  <2>3. PICK p : p = rx_queue[i].pkt
    OBVIOUS
  <2>4. cur' = p /\ rx_queue' = removeByIdx(rx_queue, i)
        /\ UNCHANGED <<unused, send_queue, outbound>>
    BY <1>2, <2>2, <2>3 DEF getNextInbound
  <2>5. /\ p \in Packets /\ p \in PacketsIn(rx_queue)
        /\ PacketsIn(rx_queue') = PacketsIn(rx_queue) \ {p}
    BY <2>1, <2>3, <2>4, RemoveByIdxTakesOne
  <2>6. p \in InHand'
    BY <2>4, <2>5, PoolAssumption DEF InHand
  <2>7. Edge(p, "rxq", "app")
    BY <2>4, <2>5, <2>6, OneMoves, Located, LocatedAfter DEF Edge, InTheirPlaces, InItsPlace
  <2> QED BY <2>5, <2>7, EdgesAreSteps DEF LifecycleStep
<1> QED BY <1>1, <1>2 DEF CheckInbound

LEMMA HandlerSteps == PoolInv /\ PoolInv' /\ HandlerReturn => LifecycleStep
<1> SUFFICES ASSUME PoolInv, PoolInv', HandlerReturn PROVE LifecycleStep
  OBVIOUS
<1> PICK p : p = cur
  OBVIOUS
<1>1. p \in Packets /\ p \in InHand /\ UNCHANGED <<rx_queue, outbound>>
  BY DEF HandlerReturn, ActionRelease, ActionManualHold, ActionRetransmit, HandlerReturns,
         PoolInv, TypeInv, TypeOK, PhaseInv, InHand
<1>2. p \notin ToSet(unused) /\ p \notin PacketsIn(send_queue)
  BY <1>1 DEF PoolInv, Conserved, Partition
<1>3. CASE ActionRelease
  <2>1. ToSet(unused') = ToSet(unused) \cup {p} /\ UNCHANGED send_queue
    BY <1>1, <1>2, <1>3, FreedAdds DEF ActionRelease, free
  <2>2. Edge(p, "app", "free")
    BY <1>1, <2>1, OneMoves, Located, LocatedAfter DEF Edge, InTheirPlaces, InItsPlace
  <2> QED BY <1>1, <2>2, EdgesAreSteps DEF LifecycleStep
<1>4. CASE ActionManualHold
  BY <1>1, <1>4, NothingMoves DEF ActionManualHold, ToSet, PacketsIn
<1>5. ASSUME NEW pri \in Priorities, NEW d \in Delays, ActionRetransmit(pri, d)
      PROVE  LifecycleStep
  <2>1. PacketsIn(send_queue') = PacketsIn(send_queue) \cup {p} /\ UNCHANGED unused
    BY <1>1, <1>2, <1>5, QueueOutboundAdds DEF ActionRetransmit
  <2>2. Edge(p, "app", "txq")
    BY <1>1, <2>1, OneMoves, Located, LocatedAfter DEF Edge, InTheirPlaces, InItsPlace
  <2> QED BY <1>1, <2>2, EdgesAreSteps DEF LifecycleStep
<1> QED BY <1>3, <1>4, <1>5 DEF HandlerReturn

LEMMA RecvSteps == PoolInv /\ PoolInv' /\ CheckRecv => LifecycleStep
<1> SUFFICES ASSUME PoolInv, PoolInv', CheckRecv PROVE LifecycleStep
  OBVIOUS
<1>1. CASE NothingReceived
  BY <1>1, PoolUntouched DEF NothingReceived
<1>2. CASE ReceiveUnparsable
  <2>1. ToSet(unused') = ToSet(unused) /\ UNCHANGED <<send_queue, rx_queue, outbound>>
    BY <1>2, AllocTakes DEF ReceiveUnparsable
  <2> QED BY <2>1, NothingMoves DEF PacketsIn
<1> PICK h : h = Head(unused)
  OBVIOUS
<1>3. CASE ReceiveNow
  <2>1. /\ h \in Packets /\ h \in ToSet(unused) /\ ToSet(unused') = ToSet(unused) \ {h}
        /\ cur' = h /\ UNCHANGED <<send_queue, rx_queue, outbound>>
    BY <1>3, AllocTakes DEF ReceiveNow, allocNew
  <2>2. h \in InHand'
    BY <2>1, PoolAssumption DEF InHand
  <2>3. Edge(h, "free", "app")
    BY <2>1, <2>2, OneMoves, Located, LocatedAfter DEF Edge, InTheirPlaces, InItsPlace
  <2> QED BY <2>1, <2>3, EdgesAreSteps DEF LifecycleStep
<1>4. ASSUME NEW d \in Delays, ReceiveDelayed(d) PROVE LifecycleStep
  <2>1. /\ h \in Packets /\ h \in ToSet(unused) /\ ToSet(Tail(unused)) = ToSet(unused) \ {h}
    BY <1>4, AllocTakes DEF ReceiveDelayed
  <2>2. h \notin PacketsIn(rx_queue) /\ Distinct(rx_queue)
    BY <2>1 DEF PoolInv, Conserved, Partition
  <2>3. rx_queue \in Seq(Entry(Packets, {0}, Nat)) /\ d \in Nat
    BY QueueAssumption DEF PoolInv, TypeInv, TypeOK
  <2>4. Len(rx_queue) < PoolSize
    BY <2>1, <2>2, <2>3, QueueHasRoom, PoolAssumption DEF PoolSize
  <2>5. /\ unused' = Tail(unused) /\ rx_queue' = add(rx_queue, h, 0, d)
        /\ UNCHANGED <<send_queue, outbound>>
    BY <1>4, <2>4 DEF ReceiveDelayed, allocNew
  <2>6. PacketsIn(rx_queue') = PacketsIn(rx_queue) \cup {h}
    <3> PICK pri \in {0} : pri = 0
      OBVIOUS
    <3>1. PacketsIn(add(rx_queue, h, pri, d)) = PacketsIn(rx_queue) \cup {h}
      BY <2>1, <2>3, AddAdds
    <3> QED BY <2>5, <3>1
  <2>7. Edge(h, "free", "rxq")
    BY <2>1, <2>5, <2>6, OneMoves, Located, LocatedAfter DEF Edge, InTheirPlaces, InItsPlace
  <2> QED BY <2>1, <2>7, EdgesAreSteps DEF LifecycleStep
<1> QED BY <1>1, <1>2, <1>3, <1>4 DEF CheckRecv

LEMMA SendSteps == PoolInv /\ PoolInv' /\ CheckSend => LifecycleStep
<1> SUFFICES ASSUME PoolInv, PoolInv', CheckSend PROVE LifecycleStep
  OBVIOUS
<1>1. CASE NothingToSend \/ BudgetTooLow \/ TooEarly \/ ChannelBusy
  BY <1>1, PoolUntouched DEF NothingToSend, BudgetTooLow, TooEarly, ChannelBusy
<1> PICK p : p = send_queue[BestIndex(send_queue)].pkt
  OBVIOUS
<1>2. ASSUME getNextOutbound
      PROVE  /\ p \in Packets /\ p \in PacketsIn(send_queue) /\ p \notin ToSet(unused)
             /\ outbound = NoPacket /\ UNCHANGED rx_queue
             /\ PacketsIn(send_queue') = PacketsIn(send_queue) \ {p}
  <2>1. NonFuture(send_queue) # {} /\ outbound = NoPacket
    BY <1>2, SomethingIsDue
    DEF getNextOutbound, BudgetAllows, SomethingToSend, PoolInv, TypeInv, PhaseInv
  <2>2. /\ send_queue \in Seq(Entry(Packets, Priorities, Nat)) /\ Distinct(send_queue)
        /\ BestIndex(send_queue) \in DOMAIN send_queue
    BY <2>1, QueueTypes DEF PoolInv, TypeInv, TypeOK, Conserved
  <2>3. PICK i \in DOMAIN send_queue : i = BestIndex(send_queue)
    BY <2>2
  <2>4. send_queue' = removeByIdx(send_queue, i) /\ UNCHANGED rx_queue
    BY <1>2, <2>3 DEF getNextOutbound
  <2>5. /\ p \in Packets /\ p \in PacketsIn(send_queue)
        /\ PacketsIn(send_queue') = PacketsIn(send_queue) \ {p}
    BY <2>2, <2>3, <2>4, RemoveByIdxTakesOne
  <2>6. p \notin ToSet(unused)
    BY <2>5 DEF PoolInv, Conserved, Partition
  <2> QED BY <2>1, <2>4, <2>5, <2>6
<1>3. ASSUME NEW a \in AirTimes, StartSend(a) PROVE LifecycleStep
  <2>1. /\ p \in Packets /\ p \in PacketsIn(send_queue) /\ outbound = NoPacket
        /\ PacketsIn(send_queue') = PacketsIn(send_queue) \ {p}
        /\ outbound' = p /\ UNCHANGED <<unused, rx_queue>>
    BY <1>2, <1>3 DEF StartSend
  <2>2. p \in OnAir' /\ \A q \in Packets \ {p} : ~(q = outbound) /\ ~(q = outbound')
    BY <2>1, PoolAssumption DEF OnAir
  <2>3. Edge(p, "txq", "air")
    BY <2>1, <2>2, OneMoves, Located, LocatedAfter DEF Edge, InTheirPlaces, InItsPlace
  <2> QED BY <2>1, <2>3, NoneOnAir, EdgesAreSteps DEF LifecycleStep
<1>4. CASE StartSendFails
  <2>1. /\ p \in Packets /\ p \in PacketsIn(send_queue) /\ outbound = NoPacket
        /\ PacketsIn(send_queue') = PacketsIn(send_queue) \ {p}
        /\ p \notin ToSet(unused) /\ outbound' = NoPacket /\ UNCHANGED rx_queue
        /\ unused' = Freed(unused, p)
    BY <1>2, <1>4 DEF StartSendFails, free
  <2>2. ToSet(unused') = ToSet(unused) \cup {p}
    BY <2>1, FreedAdds
  <2>3. Edge(p, "txq", "free")
    BY <2>1, <2>2, OneMoves, Located, LocatedAfter DEF Edge, InTheirPlaces, InItsPlace
  <2> QED BY <2>1, <2>3, NoneOnAir, EdgesAreSteps DEF LifecycleStep
<1> QED BY <1>1, <1>3, <1>4 DEF CheckSend

LEMMA ClockSteps ==
  PoolInv /\ (Tick \/ RadioInterrupt \/ UNCHANGED vars) => LifecycleStep
<1>1. ASSUME PoolInv, Tick PROVE LifecycleStep
  <2>1. /\ send_queue \in Seq(Entry(Packets, Priorities, Nat))
        /\ rx_queue \in Seq(Entry(Packets, {0}, Nat))
    BY <1>1 DEF PoolInv, TypeInv, TypeOK
  <2>2. /\ PacketsIn(send_queue') = PacketsIn(send_queue)
        /\ PacketsIn(rx_queue') = PacketsIn(rx_queue)
        /\ ToSet(unused') = ToSet(unused) /\ outbound' = outbound
    BY <1>1, <2>1, ElapseKeepsPackets DEF Tick, ToSet
  <2> QED BY <2>2, NothingMoves
<1>2. RadioInterrupt \/ UNCHANGED vars => LifecycleStep
  BY PoolUntouched DEF RadioInterrupt, vars
<1> QED BY <1>1, <1>2

\* The dispatcher starts as the lifecycle does, and each of its steps moves at most
\* one packet, along an edge of the lifecycle: what LifecycleSpec says but for its
\* fairness, that the transmitter is given back in the end.
THEOREM FollowsLifecycle == Spec => Lifecycle!Init /\ [][Lifecycle!Next]_where
<1>1. Init => Lifecycle!Init
  <2> SUFFICES ASSUME Init, NEW p \in Packets PROVE Where(p) = "free"
    BY DEF Lifecycle!Init
  <2>1. p \in ToSet(unused)
    BY DEF Init
  <2> QED BY <2>1, InitPoolInv, Located DEF InTheirPlaces, InItsPlace
<1>2. PoolInv /\ [Next]_vars => LifecycleStep
  <2> SUFFICES ASSUME PoolInv, [Next]_vars PROVE LifecycleStep
    OBVIOUS
  <2>1. PoolInv'
    BY NextPoolInv
  <2> QED BY <2>1, AppSteps, OutboundSteps, InboundSteps, HandlerSteps, RecvSteps, SendSteps,
             ClockSteps DEF Next, Loop
<1>3. PoolInv /\ [Next]_vars => [Lifecycle!Next]_where
  BY <1>2 DEF LifecycleStep
<1> QED BY <1>1, <1>3, PoolInvariant, PTL DEF Spec

(***************************************************************************)
(* The time on the air stays within twice the transmit budget, at any duty *)
(* cycle and for any air times.                                            *)
(***************************************************************************)
\* The time on the air that twice the budget spent so far does not account for.
Unpaid == on_air - 2 * (credited - tx_budget)

OnAirLeft == IF chip = "tx" THEN air_left ELSE 0

\* Nothing is unpaid between transmissions.  During one, what is unpaid is at
\* most the time for which it will be charged, and at most the time it takes. It
\* cannot expire, because its end is reported before.
LedgerInv ==
  /\ air_left \in Nat /\ on_air \in Nat /\ credited \in Nat
  /\ outbound = NoPacket => Unpaid <= 0
  /\ outbound # NoPacket => /\ outbound_for <= MaxBudget => Unpaid <= outbound_for
                            /\ Unpaid + OnAirLeft <= EstAirTime
  /\ chip = "tx" => air_left <= expiry
  /\ chip = "sent" => int_ready

AirtimeInv == AirInv /\ LedgerInv

\* The estimate for the longest packet is even, so that half of it is half.
EvenEstimate == 2 * MinBudget = EstAirTime

(***************************************************************************)
(* The ledger adds nothing to what the dispatcher does.                    *)
(***************************************************************************)
LEMMA AirtimeSteps == [AirtimeNext]_ledgerVars => [Next]_vars
BY DEF AirtimeNext, AirtimeApp, AirtimeLoop, AirtimeTick, AirtimeInterrupt, Next,
       Loop, CheckSend, ledgerVars

\* Refilling never takes anything away, and an update grants what it adds.
LEMMA RefillGrants ==
  ASSUME TypeOK
  PROVE  UpdatedBudget \in tx_budget..MaxBudget
<1>1. UpdatedBudget \in 0..MaxBudget /\ MaxBudget \in Nat /\ tx_budget \in 0..MaxBudget
  BY BudgetTypes, BudgetAssumption DEF TypeOK
<1>2. Refill \in Nat
  <2>1. Window \in Nat /\ 1 + AirtimeFactor \in Nat \ {0}
    BY BudgetAssumption DEF Window
  <2>2. since_update \in Nat
    BY <2>1 DEF TypeOK
  <2>3. \A a \in Nat, d \in Nat \ {0} : a \div d \in Nat
    OBVIOUS
  <2> QED BY <2>1, <2>2, <2>3 DEF Refill
<1> QED BY <1>1, <1>2 DEF UpdatedBudget

LEMMA InitAirtimeInv == AirtimeInit => AirtimeInv
<1>1. AirtimeInit => AirInv
  BY InitAirInv DEF AirtimeInit
<1>2. AirtimeInit => LedgerInv
  BY BudgetAssumption DEF AirtimeInit, Init, RadioInit, LedgerInv, Unpaid
<1> QED BY <1>1, <1>2 DEF AirtimeInv

(***************************************************************************)
(* Every step preserves the ledger's invariant.                            *)
(***************************************************************************)
\* What the arithmetic of the steps below is about.
LEMMA LedgerFacts ==
  ASSUME AirtimeInv
  PROVE  /\ MaxBudget \in Nat /\ EstAirTime \in Nat /\ tx_budget \in 0..MaxBudget
         /\ outbound_for \in Nat /\ expiry \in Nat \cup {-1}
         /\ air_left \in Nat /\ on_air \in Nat /\ credited \in Nat
         /\ outbound # NoPacket <=> chip \in {"tx", "sent"}
BY BudgetAssumption, AirTimeAssumption
DEF AirtimeInv, AirInv, TypeInv, TypeOK, LedgerInv, RadioAgrees

\* Steps that touch neither the transmission nor the ledger.
LEMMA QuietKeepsLedger ==
  ASSUME LedgerInv,
         UNCHANGED <<outbound, tx_budget, outbound_for, expiry, chip,
                     air_left, on_air, credited>>,
         chip = "sent" /\ int_ready => int_ready'
  PROVE  LedgerInv'
BY DEF LedgerInv, Unpaid, OnAirLeft

LEMMA TickKeepsLedger == AirtimeInv /\ AirtimeTick => LedgerInv'
<1> SUFFICES ASSUME AirtimeInv, AirtimeTick PROVE LedgerInv'
  OBVIOUS
<1>1. /\ UNCHANGED <<outbound, tx_budget, chip, int_ready, credited>>
      /\ chip = "tx" => air_left > 0 /\ air_left' = air_left - 1 /\ on_air' = on_air + 1
      /\ chip # "tx" => air_left' = air_left /\ on_air' = on_air
      /\ outbound # NoPacket => outbound_for' = CountUp(outbound_for, MaxBudget + 1)
      /\ expiry' = CountDown(expiry)
  BY DEF AirtimeTick, Tick, radioVars
<1>2. outbound # NoPacket =>
        (outbound_for' <= MaxBudget => outbound_for' = outbound_for + 1)
  BY <1>1, LedgerFacts DEF CountUp
<1>3. CASE chip = "tx"
  BY <1>1, <1>2, <1>3, LedgerFacts
  DEF AirtimeInv, LedgerInv, Unpaid, OnAirLeft, CountDown, HasPassed
<1>4. CASE chip # "tx"
  BY <1>1, <1>2, <1>4, LedgerFacts DEF AirtimeInv, LedgerInv, Unpaid, OnAirLeft
<1> QED BY <1>3, <1>4

LEMMA InterruptKeepsLedger == AirtimeInv /\ AirtimeInterrupt => LedgerInv'
<1> SUFFICES ASSUME AirtimeInv, AirtimeInterrupt PROVE LedgerInv'
  OBVIOUS
<1>1. /\ UNCHANGED <<outbound, tx_budget, outbound_for, expiry, air_left, on_air, credited>>
      /\ RxDone \/ TxDone
      /\ chip = "tx" => air_left = 0
  BY DEF AirtimeInterrupt, RadioInterrupt, poolVars, budgetVars, timerVars
<1> QED
  BY <1>1, LedgerFacts
  DEF AirtimeInv, LedgerInv, Unpaid, OnAirLeft, RxDone, TxDone

\* The end of a transmission: its air time is charged, all of it or as much as
\* the budget can pay, which is at least half.
LEMMA CompletionPays ==
  ASSUME EvenEstimate, AirtimeInv, SendCompleted,
         credited' = credited + UpdatedBudget - tx_budget,
         UNCHANGED <<on_air, air_left>>
  PROVE  LedgerInv'
<1> DEFINE budget == UpdatedBudget
           time == outbound_for
<1>1. /\ tx_budget' = (IF time > budget THEN 0 ELSE budget - time)
      /\ outbound # NoPacket /\ outbound' = NoPacket /\ chip' = "standby"
  BY DEF SendCompleted, Charged, ReleaseOutbound, onSendFinished
<1>2. budget \in tx_budget..MaxBudget
  BY RefillGrants DEF AirtimeInv, AirInv, TypeInv
<1>3. tx_budget >= MinBudget /\ 2 * MinBudget = EstAirTime /\ MinBudget \in Nat
  BY <1>1, AirTimeAssumption DEF AirtimeInv, AirInv, BudgetBacksOutbound, EvenEstimate, MinBudget
<1>4. /\ time <= MaxBudget => Unpaid <= time
      /\ Unpaid <= EstAirTime
  BY <1>1, LedgerFacts DEF AirtimeInv, LedgerInv, Unpaid, OnAirLeft
<1> HIDE DEF budget
<1>5. Unpaid' <= 0
  BY <1>1, <1>2, <1>3, <1>4, LedgerFacts DEF Unpaid, budget
<1>6. credited' \in Nat
  BY <1>2, LedgerFacts DEF budget
<1> QED BY <1>1, <1>5, <1>6, LedgerFacts DEF LedgerInv

\* A transmission begins with everything before it paid.
LEMMA StartKeepsLedger ==
  ASSUME AirtimeInv, NEW a \in AirTimes, StartSend(a), chip' = "tx", air_left' = a,
         credited' = credited + UpdatedBudget - tx_budget, UNCHANGED on_air
  PROVE  LedgerInv'
<1>1. /\ phase = "send" /\ tx_budget' = UpdatedBudget
      /\ outbound_for' = 0 /\ expiry' = (a * 3) \div 2
  BY DEF StartSend, getNextOutbound, BudgetAllows, SomethingToSend
<1>2. outbound = NoPacket
  BY <1>1 DEF AirtimeInv, AirInv, TypeInv, PhaseInv
<1>3. a \in 0..EstAirTime
  BY AirTimeAssumption
<1>4. a <= expiry'
  BY <1>1, <1>3, AirTimeAssumption
<1>5. UpdatedBudget \in tx_budget..MaxBudget
  BY RefillGrants DEF AirtimeInv, AirInv, TypeInv
<1>6. Unpaid <= 0
  BY <1>2 DEF AirtimeInv, LedgerInv
<1>7. credited' \in Nat /\ Unpaid' <= 0 /\ Unpaid' \in Int
  BY <1>1, <1>5, <1>6, LedgerFacts DEF Unpaid
<1> QED BY <1>1, <1>3, <1>4, <1>7, LedgerFacts DEF LedgerInv, OnAirLeft

\* The rest of checkSend(), and everything else loop() does with nothing on the
\* air: an update grants what it adds.
LEMMA OffAirKeepsLedger ==
  ASSUME AirtimeInv, outbound = NoPacket, outbound' = NoPacket, RadioAgrees',
         UNCHANGED <<air_left, on_air>>,
         \/ UNCHANGED <<tx_budget, credited>>
         \/ /\ tx_budget' = UpdatedBudget
            /\ credited' = credited + UpdatedBudget - tx_budget
  PROVE  LedgerInv'
<1>1. chip' \notin {"tx", "sent"}
  BY DEF RadioAgrees
<1>2. UpdatedBudget \in tx_budget..MaxBudget
  BY RefillGrants DEF AirtimeInv, AirInv, TypeInv
<1>3. Unpaid <= 0
  BY DEF AirtimeInv, LedgerInv
<1>4. credited' \in Nat /\ Unpaid' <= 0
  BY <1>2, <1>3, LedgerFacts DEF Unpaid
<1> QED BY <1>1, <1>4, LedgerFacts DEF LedgerInv

LEMMA LoopKeepsLedger ==
  EvenEstimate /\ AirtimeInv /\ AirInv' /\ AirtimeLoop => LedgerInv'
<1> SUFFICES ASSUME EvenEstimate, AirtimeInv, AirInv', AirtimeLoop PROVE LedgerInv'
  OBVIOUS
<1>0. TypeInv /\ RadioAgrees /\ RadioAgrees' /\ UNCHANGED on_air
  BY DEF AirtimeInv, AirInv, AirtimeLoop
<1>1. ASSUME NEW a \in AirTimes, StartSend(a), chip' = "tx", air_left' = a PROVE LedgerInv'
  <2>1. Updates
    BY <1>1 DEF StartSend, getNextOutbound, BudgetAllows, Updates
  <2> QED BY <1>0, <1>1, <2>1, StartKeepsLedger DEF AirtimeLoop
<1>2. CASE Loop /\ ~TransmissionStarts /\ UNCHANGED air_left
  <2>1. CASE SendCompleted
    BY <1>0, <1>2, <2>1, CompletionPays DEF AirtimeLoop, Updates
  \* A transmission that is over has been reported.
  <2>2. ~SendTimedOut
    <3>1. SUFFICES ASSUME SendTimedOut PROVE FALSE
      OBVIOUS
    <3>2. outbound # NoPacket /\ ~int_ready /\ expiry < 0
      BY <3>1 DEF SendTimedOut, isSendComplete, HasPassed
    <3> QED BY <3>2, LedgerFacts DEF AirtimeInv, LedgerInv
  <2>3. CASE outbound # NoPacket /\ ~SendCompleted
    <3>1. LoopStart \/ StillSending
      BY <1>0, <1>2, <2>2, <2>3
      DEF Loop, CheckOutbound, NothingOnAir, CheckInbound, getNextInbound, NoInbound,
          HandlerReturn, ActionRelease, ActionManualHold, ActionRetransmit,
          HandlerReturns, CheckRecv, NothingReceived, ReceiveUnparsable, ReceiveNow,
          ReceiveDelayed, CheckSend, NothingToSend, BudgetTooLow, TooEarly,
          ChannelBusy, StartSend, StartSendFails, getNextOutbound, BudgetAllows,
          SomethingToSend, TypeInv, PhaseInv
    <3>2. ~Updates /\ UNCHANGED <<outbound, tx_budget, outbound_for, expiry, chip, int_ready>>
      BY <2>3, <3>1
      DEF LoopStart, StillSending, Updates, SomethingToSend, poolVars, budgetVars,
          timerVars, radioVars
    <3> QED BY <1>0, <1>2, <3>2, QuietKeepsLedger DEF AirtimeInv, AirtimeLoop
  <2>4. CASE outbound = NoPacket
    <3>1. outbound' = NoPacket
      BY <1>2, <2>4 DEF TransmissionStarts
    <3>2. CASE Updates
      <4>1. tx_budget' = UpdatedBudget
        BY <2>4, <3>2 DEF Updates, SendCompleted, SomethingToSend
      <4> QED BY <1>0, <1>2, <2>4, <3>1, <3>2, <4>1, OffAirKeepsLedger DEF AirtimeLoop
    <3>3. CASE ~Updates
      <4>1. UNCHANGED tx_budget
        BY <1>2, <2>4, <3>3
        DEF Loop, LoopStart, CheckOutbound, StillSending, SendTimedOut, NothingOnAir,
            CheckInbound, getNextInbound, NoInbound, HandlerReturn, ActionRelease,
            ActionManualHold, ActionRetransmit, HandlerReturns, CheckRecv,
            NothingReceived, ReceiveUnparsable, ReceiveNow, ReceiveDelayed, CheckSend,
            NothingToSend, BudgetTooLow, TooEarly, ChannelBusy, StartSend,
            StartSendFails, getNextOutbound, BudgetAllows, Updates, budgetVars
      <4> QED BY <1>0, <1>2, <2>4, <3>1, <3>3, <4>1, OffAirKeepsLedger DEF AirtimeLoop
    <3> QED BY <3>2, <3>3
  <2> QED BY <2>1, <2>3, <2>4
<1> QED BY <1>1, <1>2 DEF AirtimeLoop

LEMMA NextAirtimeInv ==
  EvenEstimate /\ AirtimeInv /\ [AirtimeNext]_ledgerVars => AirtimeInv'
<1> SUFFICES ASSUME EvenEstimate, AirtimeInv, [AirtimeNext]_ledgerVars PROVE AirtimeInv'
  OBVIOUS
<1>1. AirInv'
  BY AirtimeSteps, NextAirInv DEF AirtimeInv
<1>2. CASE AirtimeApp \/ UNCHANGED ledgerVars
  <2>1. UNCHANGED <<outbound, tx_budget, outbound_for, expiry, chip, int_ready,
                    air_left, on_air, credited>>
    BY <1>2
    DEF AirtimeApp, App, ObtainNewPacket, SendPacket, ReleasePacket, ledgerVars, vars,
        poolVars, budgetVars, timerVars, radioVars
  <2> QED BY <1>1, <2>1, QuietKeepsLedger DEF AirtimeInv
<1> QED
  BY <1>1, <1>2, TickKeepsLedger, InterruptKeepsLedger, LoopKeepsLedger
  DEF AirtimeNext, AirtimeInv

\* Whatever the duty cycle, the air time a node spends never exceeds twice the
\* transmit budget it has been granted, if half of the longest packet's air time
\* is a whole number of milliseconds.
THEOREM AirtimeBounded == EvenEstimate => (AirtimeSpec => []AirtimeWithinTwiceBudget)
<1> SUFFICES ASSUME EvenEstimate PROVE AirtimeSpec => []AirtimeWithinTwiceBudget
  OBVIOUS
<1>1. AirtimeInv => AirtimeWithinTwiceBudget
  <2> SUFFICES ASSUME AirtimeInv PROVE AirtimeWithinTwiceBudget
    OBVIOUS
  <2>1. outbound # NoPacket => 2 * tx_budget >= EstAirTime
    BY LedgerFacts, AirTimeAssumption
    DEF AirtimeInv, AirInv, BudgetBacksOutbound, EvenEstimate, MinBudget
  <2> QED BY <2>1, LedgerFacts
      DEF AirtimeInv, LedgerInv, Unpaid, OnAirLeft, AirtimeWithinTwiceBudget
<1>2. AirtimeInv /\ [AirtimeNext]_ledgerVars => AirtimeInv'
  BY NextAirtimeInv
<1> QED BY <1>1, <1>2, InitAirtimeInv, PTL DEF AirtimeSpec
=============================================================================
