------------------------------ MODULE MCWidths ------------------------------
(***************************************************************************)
(* The places where it matters how long a number may grow, in one run: the *)
(* ledger of the transmit budget, the packet table under a clock that      *)
(* wraps around, and the length byte of a path.  They share nothing here,  *)
(* so a behaviour is about one of them.                                    *)
(***************************************************************************)
EXTENDS MCDispatcherAirtime, MillisQueue, FloodPath

VARIABLE subject

ASSUME WidthsAssumption == EvenWord /\ ShortDelays /\ FloodMax \in 0..63

WidthsInit ==
  /\ AirtimeInit /\ TableInit /\ FloodInit
  /\ subject \in {"budget", "table", "path"}
  /\ subject # "budget" => ~int_ready
  /\ subject # "path" => path_len = 0

WidthsNext ==
  \/ subject = "budget" /\ MCNext /\ UNCHANGED <<tableVars, pathVars, subject>>
  \/ subject = "table" /\ TableNext /\ UNCHANGED <<ledgerVars, pathVars, subject>>
  \/ subject = "path" /\ FloodNext /\ UNCHANGED <<ledgerVars, tableVars, subject>>

WidthsSpec == WidthsInit /\ [][WidthsNext]_<<ledgerVars, tableVars, pathVars, subject>>
=============================================================================
