-------------------------- MODULE DispatcherAirtime --------------------------
(***************************************************************************)
(* The dispatcher with a radio that keeps to its air times, and the ledger *)
(* that relates the time spent on the air to the transmit budget: credited *)
(* is everything updateTxBudget() has ever put in tx_budget_ms, the full   *)
(* budget begin() starts with included, and on_air the milliseconds the    *)
(* chip has been transmitting.                                             *)
(***************************************************************************)
EXTENDS Dispatcher

VARIABLES air_left, on_air, credited

ledgerVars == <<vars, air_left, on_air, credited>>

AirtimeInit == Init /\ air_left = 0 /\ on_air = 0 /\ credited = MaxBudget

\* updateTxBudget() runs in these steps.
Updates == SendCompleted \/ SomethingToSend

TransmissionStarts == outbound = NoPacket /\ outbound' # NoPacket

\* A transmission lasts the air time computed for its length, to the
\* millisecond, and its end raises the interrupt before the next one.
AirtimeTick ==
  /\ Tick
  /\ chip = "tx" => air_left > 0
  /\ on_air' = IF chip = "tx" THEN on_air + 1 ELSE on_air
  /\ air_left' = IF chip = "tx" THEN air_left - 1 ELSE air_left
  /\ UNCHANGED credited

AirtimeInterrupt ==
  /\ RadioInterrupt
  /\ chip = "tx" => air_left = 0
  /\ UNCHANGED <<air_left, on_air, credited>>

AirtimeLoop ==
  /\ \/ \E a \in AirTimes : StartSend(a) /\ chip' = "tx" /\ air_left' = a
     \/ Loop /\ ~TransmissionStarts /\ UNCHANGED air_left
  /\ credited' = IF Updates THEN credited + UpdatedBudget - tx_budget ELSE credited
  /\ UNCHANGED on_air

AirtimeApp == App /\ UNCHANGED <<air_left, on_air, credited>>

AirtimeNext == AirtimeApp \/ AirtimeLoop \/ AirtimeTick \/ AirtimeInterrupt

AirtimeSpec == AirtimeInit /\ [][AirtimeNext]_ledgerVars

-----------------------------------------------------------------------------
\* The limit the command line documents: with `set dutycycle` at 1/(1+af) a
\* node's air time stays within the budget granted so far, give or take the
\* packet on the air.
DutyCycleLimit == on_air <= credited + EstAirTime

\* What the code guarantees.  A packet goes out as soon as half of the longest
\* packet's air time is in the budget, and the part of its air time the budget
\* cannot pay is forgiven, so the overrun adds up; it never exceeds what was
\* granted.  (With EstAirTime even; an odd one may add a millisecond per packet.)
AirtimeWithinTwiceBudget == on_air <= 2 * credited
=============================================================================
