--------------------------- MODULE RadioLibWrapper ---------------------------
(***************************************************************************)
(* The radio driver the dispatcher polls, and the interrupt it races with. *)
(*                                                                         *)
(* The code packs "state" and STATE_INT_READY in one volatile byte that    *)
(* setFlag(), the DIO interrupt, ORs into and that every driver call       *)
(* overwrites: int_ready is that bit, state the rest.  chip is what the    *)
(* transceiver itself is doing ("sent": a transmission has finished and    *)
(* nobody has told the chip to do something else).  The same interrupt     *)
(* line reports a received frame and a finished transmission, so nothing   *)
(* but the order of calls tells the two apart.                             *)
(***************************************************************************)
VARIABLES state, int_ready, chip

radioVars == <<state, int_ready, chip>>

RadioTypeOK ==
  /\ state \in {"IDLE", "RX", "TX_WAIT"}
  /\ int_ready \in BOOLEAN
  /\ chip \in {"standby", "rx", "tx", "sent"}

\* begin(): a node woken from deep sleep by a frame starts with the flag set.
RadioInit == state = "IDLE" /\ int_ready \in BOOLEAN /\ chip = "standby"

\* setFlag() from the interrupt line: a frame was received ...
RxDone ==
  /\ chip = "rx" /\ ~int_ready
  /\ int_ready' = TRUE
  /\ UNCHANGED <<state, chip>>

\* ... or the transmission in progress has ended.
TxDone ==
  /\ chip = "tx"
  /\ chip' = "sent"
  /\ int_ready' = TRUE
  /\ UNCHANGED state

\* PhysicalLayer::startReceive() may fail and leaves the driver idle then.
startReceive ==
  \/ state' = "RX" /\ chip' = "rx"
  \/ state' = "IDLE" /\ chip' = chip

\* recvRaw() consumes the flag, whatever the read returned, and goes back to
\* receiving unless it already is.
recvRaw ==
  /\ int_ready' = FALSE
  /\ IF int_ready \/ state # "RX" THEN startReceive
                                  ELSE UNCHANGED <<state, chip>>

\* startSendRaw(): the pending flag of a frame received since the last recvRaw()
\* is overwritten, and with it the frame.  So is the flag of a transmission that
\* ends before startTransmit() has returned and the flag byte is written.
startSendRawKeepsFlag ==
  /\ state' = "TX_WAIT" /\ chip' = "tx" /\ UNCHANGED int_ready

startSendRaw ==
  /\ state' = "TX_WAIT" /\ int_ready' = FALSE /\ chip' \in {"tx", "sent"}

startSendRawFails ==
  /\ state' = "IDLE" /\ int_ready' = FALSE /\ chip' = "standby"

\* isSendComplete() followed by onSendFinished(), and onSendFinished() alone.
isSendComplete == int_ready
onSendFinished ==
  /\ state' = "IDLE" /\ int_ready' = FALSE /\ chip' = "standby"

\* isReceiving() with hardware CAD enabled: the scan raises the interrupt line
\* itself, so the flag is cleared and reception restarted.
channelScan == int_ready' = FALSE /\ startReceive

\* resetAGC(): skipped while a frame is being received or waits to be read.
resetAGC ==
  /\ ~int_ready
  /\ state' = "IDLE" /\ chip' = "standby" /\ UNCHANGED int_ready
=============================================================================
