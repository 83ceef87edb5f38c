------------------------------ MODULE MCRings ------------------------------
(***************************************************************************)
(* The two rings that the observer keeps for readers that come and go, in  *)
(* one run: packets for the MQTT brokers, and the captured log.  They      *)
(* share nothing here, so a behaviour is about one of them.                *)
(***************************************************************************)
EXTENDS MqttRingLog, CaptureLog

VARIABLE subject

\* a short line, a longer one, and one whose newline was cut off
SomeLines == [len : {1}, ended : {TRUE}] \union [len : {2}, ended : BOOLEAN]

RingsInit ==
  /\ Init /\ CaptureInit
  /\ subject \in {"mqtt", "capture"}
  /\ subject # "mqtt" => hasClient = [r \in Readers |-> FALSE] /\ hasIata = hasClient
  /\ subject # "capture" => mode = "cursor"
  /\ ~identified => mode = "consume"   \* enough: it concerns the notes only

RingsNext ==
  \/ subject = "mqtt" /\ Next /\ UNCHANGED <<captureVars, subject>>
  \/ subject = "capture" /\ CaptureNext /\ UNCHANGED <<vars, subject>>

\* Fairness and CaptureFairness, each for the behaviours it is about
RingsFairness ==
  /\ WF_vars(subject = "mqtt" /\ Publishing)
  /\ \A r \in Readers :
       /\ WF_vars(subject = "mqtt" /\ Reload(r))
       /\ SF_vars(subject = "mqtt" /\ publish /\ slot = r)
  /\ WF_captureVars(subject = "capture" /\ service)

RingsSpec == RingsInit /\ [][RingsNext]_<<vars, captureVars, subject>> /\ RingsFairness
=============================================================================
