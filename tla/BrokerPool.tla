----------------------------- MODULE BrokerPool -----------------------------
(***************************************************************************)
(* The life of the MQTT brokers: MqttBrokerPool's worker task, which makes *)
(* and destroys clients, rotates the scarce TLS contexts between brokers   *)
(* and starts connections; the esp-mqtt tasks, one per started client,     *)
(* whose events change a broker's state at any time and without a lock;    *)
(* and the operator, whose changes loopTask queues for the worker.         *)
(*                                                                         *)
(* The worker's pass is cut wherever it blocks or goes on to another part  *)
(* of the work.  A timer is whether it has run out: Elapse lets any one    *)
(* run out at any time.  Of the service epochs only the order counts: they *)
(* are kept as ranks, 0 for never.                                         *)
(***************************************************************************)
EXTENDS Integers, Sequences, FiniteSets, SequencesExt

CONSTANTS
  Slots,            \* broker slots, 0..N-1
  MaxLiveTls,       \* OFFBAND_MAX_LIVE_TLS
  TerminalPenalty,  \* OFFBAND_BROKER_TERMINAL_PENALTY
  SuccessBar,       \* OFFBAND_BROKER_SUCCESS_BAR
  QueueDepth,       \* depth of reconcile_q_
  Scenarios,        \* initial configuration and what the operator may store
  StartFailsEarly   \* whether a start may fail while the last failure's window is open

ASSUME PoolAssumption ==
  /\ IsFiniteSet(Slots) /\ Slots # {} /\ Slots = 0..(Cardinality(Slots) - 1)
  /\ MaxLiveTls \in Nat \ {0} /\ TerminalPenalty \in Nat \ {0} /\ SuccessBar \in Nat \ {0}
  /\ QueueDepth \in Nat \ {0} /\ StartFailsEarly \in BOOLEAN

kNoSlot == -1

Configs == {"unset", "tcp", "tcp_off", "tls", "tls_off"}

ASSUME ScenarioAssumption ==
  \A sc \in Scenarios : /\ sc.boot \in [Slots -> Configs]
                        /\ sc.operator \in [Slots -> SUBSET Configs]
                        /\ sc.reloads \in Nat /\ sc.flaky \subseteq Slots
                        /\ sc.clockSane \in BOOLEAN

VARIABLES
  operator, reloads,       \* the changes the operator may make, and how many are left
  flaky,                   \* slots whose setup, memory or connections may fail
  stored, config,          \* configuration in NVS, and the one each broker runs with
  state,                   \* BrokerState
  client,                  \* "none", "idle" or "started" (its own task is running)
  penalty, streak,         \* BrokerHealth
  windowOpen,              \* FailEscalateWindow
  backoffOver,             \* in Backoff: whether the backoff has run out
  held,                    \* BudgetHoldClock: "no", "fresh" or "dwell"
  cooling,                 \* the slot rotated out less than a dwell ago, or kNoSlot
  clockSane,               \* wallClockSane()
  queue, reconciling,      \* reconcile_q_, reconciling_
  knownUp, epoch,          \* last_known_state_, and the rank of last_served_epoch_
  pc, slot, tls_live, candidates, starting,   \* workerLoop()
  refused, converted       \* history: reloads that could not be queued; plaintext slots
                           \* with a client that were made TLS

brokerVars == <<state, client, penalty, streak, windowOpen, backoffOver, held>>
fairVars == <<knownUp, epoch>>
workerVars == <<pc, slot, tls_live, candidates, starting>>
operatorVars == <<operator, flaky, reloads, stored, queue, reconciling>>
history == <<refused, converted>>
vars == <<operatorVars, config, brokerVars, cooling, clockSane, fairVars, workerVars, history>>

BrokerStates == {"Down", "Connecting", "Up", "Backoff", "HeldNoClock", "HeldNoHeap",
                 "HeldBudget", "Failed"}

isTlsTransport(c) == c \in {"tls", "tls_off"}
Enabled(c) == c \in {"tcp", "tls"}
Tls(s) == isTlsTransport(config[s])
hasClient(s) == client[s] # "none"

tlsClientsAllocated == {s \in Slots : Tls(s) /\ hasClient(s)}

(***************************************************************************)
(* One broker.  Each operator gives the next values of brokerVars for slot *)
(* s; a broker is described by a record so that steps can follow on.       *)
(***************************************************************************)
Broker(s) == [state |-> state[s], client |-> client[s], penalty |-> penalty[s],
              streak |-> streak[s], windowOpen |-> windowOpen[s],
              backoffOver |-> backoffOver[s], held |-> held[s]]

SetBroker(s, b) ==
  /\ state' = [state EXCEPT ![s] = b.state] /\ client' = [client EXCEPT ![s] = b.client]
  /\ penalty' = [penalty EXCEPT ![s] = b.penalty] /\ streak' = [streak EXCEPT ![s] = b.streak]
  /\ windowOpen' = [windowOpen EXCEPT ![s] = b.windowOpen]
  /\ backoffOver' = [backoffOver EXCEPT ![s] = b.backoffOver]
  /\ held' = [held EXCEPT ![s] = b.held]

SetBrokers(B(_)) ==
  /\ state' = [s \in Slots |-> B(s).state] /\ client' = [s \in Slots |-> B(s).client]
  /\ penalty' = [s \in Slots |-> B(s).penalty] /\ streak' = [s \in Slots |-> B(s).streak]
  /\ windowOpen' = [s \in Slots |-> B(s).windowOpen]
  /\ backoffOver' = [s \in Slots |-> B(s).backoffOver]
  /\ held' = [s \in Slots |-> B(s).held]

In(b, st) == [b EXCEPT !.state = st, !.backoffOver = FALSE]

\* noteFailure(); the penalty is kept at its terminal value.
noteFailure(b) ==
  LET p == IF b.penalty < TerminalPenalty THEN b.penalty + 1 ELSE b.penalty
  IN [In(b, IF p >= TerminalPenalty THEN "Failed" ELSE "Backoff")
        EXCEPT !.penalty = p, !.streak = 0]

\* One failed attempt may be reported by up to three events: those within the
\* window of the first do not count.
escalateFailureOnce(b) ==
  IF b.windowOpen THEN b ELSE noteFailure([b EXCEPT !.windowOpen = TRUE])

noteCleanDwellOffByOne(b) ==
  IF b.penalty = 0 THEN b
  ELSE IF b.streak + 1 > SuccessBar THEN [b EXCEPT !.penalty = 0, !.streak = 0]
  ELSE [b EXCEPT !.streak = @ + 1]

noteCleanDwell(b) ==
  IF b.penalty = 0 THEN b
  ELSE IF b.streak + 1 >= SuccessBar THEN [b EXCEPT !.penalty = 0, !.streak = 0]
  ELSE [b EXCEPT !.streak = @ + 1]

releaseClientOnly(b, keepFailed) == [b EXCEPT !.client = "none", !.held = "no"]

releaseClient(b, keepFailed) ==
  [In(b, IF keepFailed /\ b.state = "Failed" THEN "Failed" ELSE "Down")
     EXCEPT !.client = "none", !.held = "no"]

\* begin() replaces whatever the slot had by a client for configuration c; the
\* setup may fail.
begin(b, c, mayAlloc, mayFail) ==
  LET fresh == releaseClient(b, FALSE)
  IN IF ~Enabled(c) THEN {fresh}
     ELSE IF ~mayAlloc /\ isTlsTransport(c) THEN {In(fresh, "HeldBudget")}
     ELSE {[fresh EXCEPT !.client = "idle"]} \cup (IF mayFail THEN {fresh} ELSE {})

\* tryConnect() as far as it does not block: the broker is left waiting, or in
\* Connecting with a client to start.  clockOk and heapOk are what it finds.
Attempts(b, c) ==
  /\ Enabled(c)
  /\ b.state \notin {"Connecting", "Up", "Failed"}
  /\ b.state = "Backoff" => b.backoffOver

Deferred(b, c, budgetOk, heapOk) ==
  CASE ~isTlsTransport(c) -> "no"
    [] isTlsTransport(c) /\ ~clockSane -> "HeldNoClock"
    [] isTlsTransport(c) /\ clockSane /\ ~budgetOk -> "HeldBudget"
    [] isTlsTransport(c) /\ clockSane /\ budgetOk -> IF heapOk THEN "no" ELSE "HeldNoHeap"

tryConnect(b, c, budgetOk, heapOk) ==
  IF ~Enabled(c) THEN In(b, "Down")
  ELSE IF ~Attempts(b, c) THEN b
  ELSE IF Deferred(b, c, budgetOk, heapOk) # "no"
       THEN In(b, Deferred(b, c, budgetOk, heapOk))
  ELSE IF b.client = "none" THEN In(b, "Down")
  ELSE In(b, "Connecting")

\* Its blocking rest: a stale credential that cannot be renewed ends the attempt;
\* then a started client is stopped, which joins its task, and started again.
Restart(b) == {[In(b, IF b.client = "started" THEN "Connecting" ELSE b.state)
                  EXCEPT !.client = "started"]}

MayFail(s) == s \in flaky /\ (StartFailsEarly \/ ~windowOpen[s])

StartFails(b) ==
  {escalateFailureOnce([In(b, IF b.client = "started" THEN "Connecting" ELSE b.state)
                          EXCEPT !.client = "idle"])}

CredentialFails(b) == {escalateFailureOnce(b)}

Starts(s) ==
  Restart(Broker(s)) \cup
  (IF MayFail(s) THEN StartFails(Broker(s)) \cup CredentialFails(Broker(s)) ELSE {})

(***************************************************************************)
(* The worker task.                                                        *)
(***************************************************************************)
To(next) ==
  /\ pc' = next /\ slot' = 0 /\ UNCHANGED <<tls_live, candidates, starting>>

MayAllocateLive(s) ==
  Cardinality({t \in Slots \ {s} : Tls(t) /\ state[t] \in {"Up", "Connecting"}}) < MaxLiveTls

\* The slot's own client is left out of the count, whether it was counted or not:
\* below zero the unsigned difference is larger than any budget.
MayAllocate(s) ==
  LET others == Cardinality(tlsClientsAllocated) - (IF hasClient(s) THEN 1 ELSE 0)
  IN others >= 0 /\ others < MaxLiveTls

\* What reconcileSlot() may make of the broker.
Reconciled(s) ==
  IF state[s] = "Failed" THEN {Broker(s)}
  ELSE IF stored[s] = "unset" THEN {releaseClient(Broker(s), FALSE)}
  ELSE begin(Broker(s), stored[s], MayAllocate(s), s \in flaky)

AppliedUnlessUnset(s) ==
  IF state[s] = "Failed" \/ stored[s] = "unset" THEN config[s] ELSE stored[s]

Applied(s) == IF state[s] = "Failed" THEN config[s] ELSE stored[s]

reconcileSlot(s, b) ==
  /\ SetBroker(s, b)
  /\ config' = [config EXCEPT ![s] = Applied(s)]
  /\ refused' = IF state[s] = "Failed" THEN refused ELSE refused \ {s}
  /\ converted' = (converted \/ (/\ hasClient(s) /\ ~Tls(s)
                                 /\ isTlsTransport(Applied(s))))

TakeReload ==
  /\ pc = "wait" /\ queue # <<>>
  /\ \E b \in Reconciled(Head(queue)) : reconcileSlot(Head(queue), b)
  /\ reconciling' = [reconciling EXCEPT ![Head(queue)] = FALSE]
  /\ queue' = Tail(queue)
  /\ To("rotate")
  /\ UNCHANGED <<operator, flaky, reloads, stored, cooling, clockSane, fairVars>>

\* After the reload, or after 500 ms without one.
Awake == pc = "rotate" \/ (pc = "wait" /\ queue = <<>>)

\* rotateTlsIfDue(): the TLS broker that has been up longest gives its client up,
\* if another is waiting for the budget and it has had a full dwell.
Waiting == \E s \in Slots : Tls(s) /\ state[s] \in {"HeldNoHeap", "HeldBudget"}

RotationDue ==
  /\ cooling = kNoSlot
  /\ Cardinality({s \in Slots : Tls(s)}) > MaxLiveTls /\ Waiting

Victims == {s \in Slots : ~reconciling[s] /\ Tls(s) /\ state[s] = "Up" /\ held[s] = "dwell"}

ChooseVictim(s) ==
  /\ Awake /\ RotationDue /\ s \in Victims
  /\ reconciling' = [reconciling EXCEPT ![s] = TRUE]
  /\ cooling' = s
  /\ pc' = "release" /\ slot' = s
  /\ UNCHANGED <<operator, flaky, reloads, stored, queue, config, brokerVars, clockSane,
                 fairVars, tls_live, candidates, starting, history>>

ReleaseVictim ==
  /\ pc = "release"
  /\ SetBroker(slot, releaseClient(noteCleanDwell(Broker(slot)), FALSE))
  /\ reconciling' = [reconciling EXCEPT ![slot] = FALSE]
  /\ To("survey")
  /\ UNCHANGED <<operator, flaky, reloads, stored, queue, config, cooling, clockSane, fairVars, history>>

\* Live TLS contexts are counted once per pass; brokers that have come up since the
\* last one are served, which puts them last in line.
NewlyUp == {s \in Slots : state[s] = "Up" /\ ~knownUp[s]}
ServedBefore == {s \in Slots \ NewlyUp : epoch[s] # 0}

EpochRank(s) ==
  IF s \in NewlyUp THEN Cardinality(ServedBefore) + Cardinality({t \in NewlyUp : t <= s})
  ELSE Cardinality({t \in ServedBefore : epoch[t] <= epoch[s]})

Count ==
  /\ tls_live' = Cardinality({s \in Slots : Tls(s) /\ state[s] \in {"Up", "Connecting"}})
  /\ epoch' = [s \in Slots |-> EpochRank(s)]
  /\ knownUp' = [s \in Slots |-> state[s] = "Up"]

\* The pass over the slots, each of which it looks at alone: a failed broker loses
\* its client, an idle plaintext one is connected, an idle TLS one becomes a
\* candidate for the budget.
Driven(s) == ~reconciling[s] /\ config[s] # "unset"

Redrivable(s) ==
  /\ Driven(s) /\ s # cooling
  /\ state[s] \in {"Down", "Backoff", "HeldNoClock", "HeldNoHeap", "HeldBudget"}

Driving(s) ==
  IF Driven(s) /\ state[s] = "Failed" THEN releaseClient(Broker(s), TRUE)
  ELSE IF Redrivable(s) /\ ~Tls(s) THEN tryConnect(Broker(s), config[s], TRUE, TRUE)
  ELSE Broker(s)

Drive ==
  /\ SetBrokers(Driving)
  /\ candidates' = {s \in Slots : Redrivable(s) /\ Tls(s)}
  /\ starting' = {s \in Slots : Redrivable(s) /\ ~Tls(s) /\ Driving(s).state = "Connecting"}

Pass ==
  /\ \/ Awake /\ (~RotationDue \/ Victims = {})
     \/ pc = "survey"
  /\ Count /\ Drive
  /\ pc' = "start" /\ slot' = 0
  /\ UNCHANGED <<operatorVars, config, cooling, clockSane, history>>

\* What remains of tryConnect() for the brokers that go ahead; a TLS one has taken
\* the budget if it is connecting then.
Start(s) ==
  /\ pc = "start" /\ s \in starting
  /\ \E b \in Starts(s) :
       /\ SetBroker(s, b)
       /\ tls_live' = IF Tls(s) /\ b.state = "Connecting" THEN tls_live + 1 ELSE tls_live
  /\ starting' = starting \ {s}
  /\ UNCHANGED <<operatorVars, config, cooling, clockSane, fairVars, pc, slot, candidates, history>>

\* selectTlsPromotion(): whoever was served longest ago, never before all, ties to
\* the lower slot.
FirstSlot == CHOOSE s \in candidates : \A t \in candidates : s <= t

selectTlsPromotion ==
  CHOOSE s \in candidates :
    \A t \in candidates : epoch[s] < epoch[t] \/ (epoch[s] = epoch[t] /\ s <= t)

Budgeted == candidates # {} /\ tls_live < MaxLiveTls

Promote(s, heapOk) ==
  /\ pc = "start" /\ starting = {} /\ Budgeted
  /\ s = selectTlsPromotion /\ (heapOk \/ s \in flaky)
  /\ \E b \in IF hasClient(s) THEN {Broker(s)} ELSE Reconciled(s) :
       LET c == IF hasClient(s) THEN config[s] ELSE Applied(s)
           next == tryConnect(b, c, TRUE, heapOk)
       IN /\ IF hasClient(s) THEN SetBroker(s, next) /\ UNCHANGED <<config, history>>
             ELSE reconcileSlot(s, next)
          /\ starting' = IF next.state = "Connecting" THEN {s} ELSE {}
  /\ candidates' = candidates \ {s}
  /\ UNCHANGED <<operatorVars, cooling, clockSane, fairVars, pc, slot, tls_live>>

\* The candidates that did not win are driven too, so that they read as waiting and
\* a rotation comes about.
Deferring(s) ==
  IF s \in candidates THEN tryConnect(Broker(s), config[s], FALSE, TRUE) ELSE Broker(s)

LeaveLosers == UNCHANGED brokerVars

DriveLosers == SetBrokers(Deferring)

PassEnds ==
  /\ pc = "start" /\ starting = {} /\ ~Budgeted
  /\ DriveLosers
  /\ pc' = "wait" /\ tls_live' = 0 /\ candidates' = {}
  /\ UNCHANGED <<operatorVars, config, cooling, clockSane, fairVars, slot, starting, history>>

workerLoop ==
  \/ TakeReload
  \/ (\E s \in Slots : ChooseVictim(s)) \/ ReleaseVictim
  \/ Pass
  \/ (\E s \in Slots : Start(s))
  \/ (\E s \in Slots, heapOk \in BOOLEAN : Promote(s, heapOk))
  \/ PassEnds

(***************************************************************************)
(* The events of a started client, which reconnects by itself.             *)
(***************************************************************************)
Event(s, b) ==
  /\ SetBroker(s, b)
  /\ UNCHANGED <<operatorVars, config, cooling, clockSane, fairVars, workerVars, history>>

onConnected(s) ==
  /\ client[s] = "started" /\ state[s] # "Failed"
  /\ Event(s, [In(Broker(s), "Up") EXCEPT
                 !.held = IF @ = "no" THEN "fresh" ELSE @, !.windowOpen = FALSE])

\* onError() and onDisconnected().
onFailure(s) ==
  /\ client[s] = "started" /\ s \in flaky
  /\ Event(s, escalateFailureOnce(Broker(s)))

(***************************************************************************)
(* The operator, and time.                                                 *)
(***************************************************************************)
clearTerminalFailure(b) ==
  IF b.state = "Failed" THEN [In(b, "Down") EXCEPT !.penalty = 0, !.streak = 0] ELSE b

reloadSlot(s) ==
  /\ reloads > 0 /\ reloads' = reloads - 1
  /\ \E c \in operator[s] : stored' = [stored EXCEPT ![s] = c]
  /\ SetBroker(s, clearTerminalFailure(Broker(s)))
  /\ IF Len(queue) < QueueDepth
     THEN /\ queue' = Append(queue, s)
          /\ reconciling' = [reconciling EXCEPT ![s] = TRUE]
          /\ UNCHANGED refused
     ELSE /\ reconciling' = [reconciling EXCEPT ![s] = FALSE]
          /\ refused' = refused \cup {s}
          /\ UNCHANGED queue
  /\ UNCHANGED <<operator, flaky, config, cooling, clockSane, fairVars, workerVars, converted>>

WindowCloses(s) ==
  /\ windowOpen[s] /\ Event(s, [Broker(s) EXCEPT !.windowOpen = FALSE])

BackoffRunsOut(s) ==
  /\ state[s] = "Backoff" /\ ~backoffOver[s]
  /\ Event(s, [Broker(s) EXCEPT !.backoffOver = TRUE])

\* Dwell and cooldown are 60 s each, a pass is started every 500 ms: a broker that
\* stays up has been counted by then, and the pass that freed the budget is over.
DwellPasses(s) ==
  /\ held[s] = "fresh" /\ (state[s] = "Up" => knownUp[s])
  /\ Event(s, [Broker(s) EXCEPT !.held = "dwell"])

\* The victim's cooldown and the time until the next rotation are the same dwell.
CooldownEnds ==
  /\ cooling # kNoSlot /\ pc = "wait"
  /\ cooling' = kNoSlot
  /\ UNCHANGED <<operatorVars, config, brokerVars, clockSane, fairVars, workerVars, history>>

ClockIsSet ==
  /\ ~clockSane /\ clockSane' = TRUE
  /\ UNCHANGED <<operatorVars, config, brokerVars, cooling, fairVars,
                 workerVars, history>>

Elapse(s) == WindowCloses(s) \/ BackoffRunsOut(s) \/ DwellPasses(s)

-----------------------------------------------------------------------------
\* begin(): clients are made in the order of the slots, TLS ones while the budget
\* lasts; ok is the set of slots whose setup succeeds.
BootClients(ok) == {s \in Slots : Enabled(stored[s]) /\ s \in ok}

HasBudget(s, ok) ==
  Cardinality({t \in BootClients(ok) : t < s /\ isTlsTransport(stored[t])}) < MaxLiveTls

Granted(s, ok) == isTlsTransport(stored[s]) => HasBudget(s, ok)

Init ==
  /\ \E sc \in Scenarios :
       /\ stored = sc.boot /\ operator = sc.operator /\ reloads = sc.reloads
       /\ flaky = sc.flaky /\ clockSane = sc.clockSane
  /\ config = stored
  /\ \E failed \in SUBSET flaky : LET ok == Slots \ failed IN
       /\ state = [s \in Slots |-> IF Enabled(stored[s]) /\ ~Granted(s, ok)
                                   THEN "HeldBudget" ELSE "Down"]
       /\ client = [s \in Slots |-> IF s \in BootClients(ok) /\ Granted(s, ok)
                                    THEN "idle" ELSE "none"]
  /\ penalty = [s \in Slots |-> 0] /\ streak = [s \in Slots |-> 0]
  /\ windowOpen = [s \in Slots |-> FALSE] /\ backoffOver = [s \in Slots |-> FALSE]
  /\ held = [s \in Slots |-> "no"] /\ cooling = kNoSlot
  /\ queue = <<>> /\ reconciling = [s \in Slots |-> FALSE]
  /\ knownUp = [s \in Slots |-> FALSE] /\ epoch = [s \in Slots |-> 0]
  /\ pc = "wait" /\ slot = 0 /\ tls_live = 0 /\ candidates = {} /\ starting = {}
  /\ refused = {} /\ converted = FALSE

Next ==
  \/ workerLoop
  \/ CooldownEnds \/ ClockIsSet
  \/ \E s \in Slots : onConnected(s) \/ onFailure(s) \/ reloadSlot(s) \/ Elapse(s)

\* The worker runs, time passes, the clock is set in the end, a client that is
\* connecting reports how it went, and memory is not always short for the same slot.
Fairness ==
  /\ WF_vars(workerLoop) /\ SF_vars(CooldownEnds) /\ WF_vars(ClockIsSet)
  /\ \A s \in Slots :
       /\ WF_vars(WindowCloses(s)) /\ WF_vars(BackoffRunsOut(s))
       /\ SF_vars(DwellPasses(s))
       /\ WF_vars(state[s] = "Connecting" /\ (onConnected(s) \/ onFailure(s)))
       /\ SF_vars(Promote(s, TRUE) /\ s \in starting')

Spec == Init /\ [][Next]_vars /\ Fairness

-----------------------------------------------------------------------------
(***************************************************************************)
(* Properties.                                                             *)
(***************************************************************************)
TypeOK ==
  /\ operator \in [Slots -> SUBSET Configs] /\ reloads \in Nat /\ flaky \subseteq Slots
  /\ stored \in [Slots -> Configs] /\ config \in [Slots -> Configs]
  /\ state \in [Slots -> BrokerStates]
  /\ client \in [Slots -> {"none", "idle", "started"}]
  /\ penalty \in [Slots -> 0..TerminalPenalty] /\ streak \in [Slots -> 0..(SuccessBar - 1)]
  /\ windowOpen \in [Slots -> BOOLEAN] /\ backoffOver \in [Slots -> BOOLEAN]
  /\ held \in [Slots -> {"no", "fresh", "dwell"}]
  /\ cooling \in Slots \cup {kNoSlot} /\ clockSane \in BOOLEAN
  /\ queue \in Seq(Slots) /\ Len(queue) <= QueueDepth
  /\ reconciling \in [Slots -> BOOLEAN] /\ knownUp \in [Slots -> BOOLEAN]
  /\ epoch \in [Slots -> 0..Cardinality(Slots)]
  /\ pc \in {"wait", "rotate", "release", "survey", "start"}
  /\ slot \in Slots
  /\ tls_live \in Nat /\ candidates \subseteq Slots /\ starting \subseteq Slots
  /\ refused \subseteq Slots /\ converted \in BOOLEAN

\* Memory holds the TLS contexts of MaxLiveTls clients.  No more TLS clients exist,
\* whatever fails, is rotated, reloaded or reconnects by itself -- except after a
\* plaintext slot with a client is made TLS, where reconcileSlot() subtracts a client
\* that the count did not include.
TlsBudget == converted \/ Cardinality(tlsClientsAllocated) <= MaxLiveTls

\* A broker that reads as up, and may be published to, rotated and credited, has a
\* running client: no event outlives its client, no release leaves the state behind.
UpHasClient == \A s \in Slots : state[s] = "Up" => client[s] = "started" /\ held[s] # "no"

\* An accepted change of configuration is applied once the worker has come to it,
\* unless the broker failed for good in between: then the change is lost.
ReloadApplied ==
  \A s \in Slots :
    \/ config[s] = stored[s]
    \/ s \in ToSet(queue) \cup refused
    \/ state[s] = "Failed"

\* Fair turns: a TLS broker that stays enabled is tried again and again, or has
\* failed for good, however the others flap, fail or hold on to the budget.
EveryBrokerServed ==
  \A s \in Slots :
    <>[](config[s] = "tls") => []<>(state[s] \in {"Connecting", "Up", "Failed"})

\* MqttBroker.h: "Connecting = 1,  // tcp connect / TLS handshake in progress".
ConnectingIsTrying ==
  \A s \in Slots :
    state[s] = "Connecting" => client[s] = "started" \/ s \in starting
=============================================================================
