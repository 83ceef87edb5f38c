-------------------------- MODULE BrokerPoolProofs --------------------------
(***************************************************************************)
(* The broker pool, whatever the number of slots, TLS contexts and changes *)
(* by the operator: its types, the TLS budget, that a broker which reads   *)
(* as up has a client, and that no accepted change of configuration is     *)
(* forgotten.  What holds of one broker by itself is BrokerOK; every       *)
(* operator on brokers is shown once to keep it.                           *)
(***************************************************************************)
EXTENDS BrokerPool, TLAPS, FiniteSetTheorems, WellFoundedInduction

BrokerType ==
  [state : BrokerStates, client : {"none", "idle", "started"}, penalty : 0..TerminalPenalty,
   streak : 0..(SuccessBar - 1), windowOpen : BOOLEAN, backoffOver : BOOLEAN,
   held : {"no", "fresh", "dwell"}]

\* A broker that is up has a running client that holds its context, and one that
\* has failed for good has the penalty that keeps it so.
BrokerOK(b) ==
  /\ b \in BrokerType
  /\ b.state = "Up" => b.client = "started" /\ b.held # "no"
  /\ b.state = "Failed" => b.penalty = TerminalPenalty

\* A broker that is about to be started has a client, which only the worker may take.
StartingInv ==
  /\ pc # "start" => starting = {}
  /\ \A s \in starting : hasClient(s)

\* The change of slot s has been applied, is queued, or was refused.
Accounted(s) == config[s] = stored[s] \/ s \in ToSet(queue) \cup refused

\* A broker may only leave Failed without the operator while it is being started or
\* rotated out, and then no reload has been dropped.
ReloadInv ==
  \A s \in Slots :
    state[s] # "Failed" \/ s \in starting \/ (pc = "release" /\ slot = s) => Accounted(s)

\* A disabled broker has no client whose failure could be counted.
DisabledInv == \A s \in Slots : ~Enabled(config[s]) => client[s] = "none" /\ state[s] # "Failed"

IInv ==
  /\ TypeOK
  /\ \A s \in Slots : BrokerOK(Broker(s))
  /\ StartingInv /\ ReloadInv /\ DisabledInv /\ TlsBudget

-----------------------------------------------------------------------------
(* TypeOK in two parts: the brokers, and everything else. *)

BrokersType ==
  /\ state \in [Slots -> BrokerStates]
  /\ client \in [Slots -> {"none", "idle", "started"}]
  /\ penalty \in [Slots -> 0..TerminalPenalty] /\ streak \in [Slots -> 0..(SuccessBar - 1)]
  /\ windowOpen \in [Slots -> BOOLEAN] /\ backoffOver \in [Slots -> BOOLEAN]
  /\ held \in [Slots -> {"no", "fresh", "dwell"}]

OthersType ==
  /\ operator \in [Slots -> SUBSET Configs] /\ reloads \in Nat /\ flaky \subseteq Slots
  /\ stored \in [Slots -> Configs] /\ config \in [Slots -> Configs]
  /\ cooling \in Slots \cup {kNoSlot} /\ clockSane \in BOOLEAN
  /\ queue \in Seq(Slots) /\ Len(queue) <= QueueDepth
  /\ reconciling \in [Slots -> BOOLEAN] /\ knownUp \in [Slots -> BOOLEAN]
  /\ epoch \in [Slots -> 0..Cardinality(Slots)]
  /\ pc \in {"wait", "rotate", "release", "survey", "start"}
  /\ slot \in Slots
  /\ tls_live \in Nat /\ candidates \subseteq Slots /\ starting \subseteq Slots
  /\ refused \subseteq Slots /\ converted \in BOOLEAN

LEMMA TypeParts == TypeOK <=> BrokersType /\ OthersType
BY DEF TypeOK, BrokersType, OthersType

LEMMA Constants ==
  /\ IsFiniteSet(Slots) /\ Slots \subseteq Nat /\ 0 \in Slots /\ Cardinality(Slots) \in Nat
  /\ MaxLiveTls \in Nat \ {0} /\ TerminalPenalty \in Nat \ {0}
  /\ SuccessBar \in Nat \ {0} /\ QueueDepth \in Nat \ {0}
<1>1. Cardinality(Slots) \in Nat
  BY PoolAssumption, FS_CardinalityType
<1>2. Slots = 0..(Cardinality(Slots) - 1) /\ Slots # {}
  BY PoolAssumption
<1> QED BY <1>1, <1>2, PoolAssumption

-----------------------------------------------------------------------------
(* What each operator makes of a broker. *)

LEMMA InType ==
  ASSUME NEW b \in BrokerType, NEW st \in BrokerStates
  PROVE  /\ In(b, st) \in BrokerType /\ In(b, st).state = st
         /\ In(b, st).client = b.client /\ In(b, st).penalty = b.penalty
         /\ In(b, st).held = b.held /\ In(b, st).windowOpen = b.windowOpen
BY DEF In, BrokerType

LEMMA noteFailureOK ==
  ASSUME NEW b \in BrokerType
  PROVE  /\ BrokerOK(noteFailure(b)) /\ noteFailure(b).client = b.client
         /\ b.penalty = TerminalPenalty => noteFailure(b).state = "Failed"
<1> DEFINE p == IF b.penalty < TerminalPenalty THEN b.penalty + 1 ELSE b.penalty
           st == IF p >= TerminalPenalty THEN "Failed" ELSE "Backoff"
           c == In(b, st)
<1>1. p \in 0..TerminalPenalty /\ (p >= TerminalPenalty => p = TerminalPenalty)
      /\ (b.penalty = TerminalPenalty => p = TerminalPenalty) /\ 0 \in 0..(SuccessBar - 1)
  BY Constants DEF BrokerType
<1>2. st \in BrokerStates /\ st # "Up" /\ (st = "Failed" => p = TerminalPenalty)
      /\ (p = TerminalPenalty => st = "Failed")
  BY <1>1, Constants DEF BrokerStates
<1>3. c \in BrokerType /\ c.state = st /\ c.client = b.client
  BY <1>2, InType
<1>4. noteFailure(b) = [c EXCEPT !.penalty = p, !.streak = 0]
  BY DEF noteFailure
<1> HIDE DEF p, st, c
<1>5. /\ noteFailure(b) \in BrokerType /\ noteFailure(b).state = st
      /\ noteFailure(b).client = b.client /\ noteFailure(b).penalty = p
  BY <1>1, <1>3, <1>4 DEF BrokerType
<1> QED BY <1>1, <1>2, <1>5 DEF BrokerOK

LEMMA escalateOK ==
  ASSUME NEW b, BrokerOK(b)
  PROVE  /\ BrokerOK(escalateFailureOnce(b)) /\ escalateFailureOnce(b).client = b.client
         /\ b.state = "Failed" => escalateFailureOnce(b).state = "Failed"
<1> DEFINE c == [b EXCEPT !.windowOpen = TRUE]
<1>1. c \in BrokerType /\ c.client = b.client /\ c.penalty = b.penalty
  BY DEF BrokerOK, BrokerType
<1> HIDE DEF c
<1>2. /\ BrokerOK(noteFailure(c)) /\ noteFailure(c).client = b.client
      /\ b.penalty = TerminalPenalty => noteFailure(c).state = "Failed"
  BY <1>1, noteFailureOK
<1> QED BY <1>2 DEF escalateFailureOnce, c, BrokerOK

LEMMA noteCleanDwellType ==
  ASSUME NEW b \in BrokerType PROVE noteCleanDwell(b) \in BrokerType
<1>1. b.streak \in Nat /\ SuccessBar \in Nat /\ 0 \in 0..TerminalPenalty /\ 0 \in 0..(SuccessBar - 1)
  BY Constants DEF BrokerType
<1>2. CASE b.penalty = 0
  BY <1>2 DEF noteCleanDwell
<1>3. CASE b.penalty # 0 /\ b.streak + 1 >= SuccessBar
  <2>1. noteCleanDwell(b) = [b EXCEPT !.penalty = 0, !.streak = 0]
    BY <1>3 DEF noteCleanDwell
  <2> QED BY <1>1, <2>1 DEF BrokerType
<1>4. CASE b.penalty # 0 /\ ~(b.streak + 1 >= SuccessBar)
  <2>1. noteCleanDwell(b) = [b EXCEPT !.streak = b.streak + 1]
    BY <1>4 DEF noteCleanDwell
  <2>2. b.streak + 1 \in 0..(SuccessBar - 1)
    BY <1>1, <1>4
  <2> QED BY <2>1, <2>2 DEF BrokerType
<1> QED BY <1>2, <1>3, <1>4

LEMMA releaseClientOK ==
  ASSUME NEW b \in BrokerType, NEW keep \in BOOLEAN,
         keep => BrokerOK(b)
  PROVE  LET r == releaseClient(b, keep)
         IN /\ BrokerOK(r) /\ r.client = "none"
            /\ r.state = IF keep /\ b.state = "Failed" THEN "Failed" ELSE "Down"
<1> DEFINE st == IF keep /\ b.state = "Failed" THEN "Failed" ELSE "Down"
           c == In(b, st)  r == releaseClient(b, keep)
<1>1. st \in BrokerStates /\ st # "Up"
  BY DEF BrokerStates
<1>2. c \in BrokerType /\ c.state = st /\ c.penalty = b.penalty
  BY <1>1, InType
<1>3. r = [c EXCEPT !.client = "none", !.held = "no"]
  BY DEF releaseClient
<1> HIDE DEF c, r
<1>4. r \in BrokerType /\ r.state = st /\ r.client = "none" /\ r.penalty = b.penalty
  BY <1>2, <1>3 DEF BrokerType
<1> QED BY <1>1, <1>4 DEF BrokerOK, r

\* begin() gives a client only to an enabled slot, and a TLS one only if it may.
LEMMA beginOK ==
  ASSUME NEW b \in BrokerType, NEW c \in Configs, NEW mayAlloc \in BOOLEAN, NEW mayFail \in BOOLEAN,
         NEW r \in begin(b, c, mayAlloc, mayFail)
  PROVE  /\ BrokerOK(r) /\ r.state \in {"Down", "HeldBudget"}
         /\ r.client # "none" => Enabled(c) /\ (mayAlloc \/ ~isTlsTransport(c))
<1> DEFINE fresh == releaseClient(b, FALSE)
<1>1. BrokerOK(fresh) /\ fresh.client = "none" /\ fresh.state = "Down" /\ fresh \in BrokerType
  BY releaseClientOK DEF BrokerOK
<1>2. CASE r = fresh
  BY <1>1, <1>2
<1>3. CASE Enabled(c) /\ ~(~mayAlloc /\ isTlsTransport(c)) /\ r = [fresh EXCEPT !.client = "idle"]
  <2> HIDE DEF fresh
  <2> QED BY <1>1, <1>3 DEF BrokerOK, BrokerType
<1>4. CASE r = In(fresh, "HeldBudget")
  <2>1. "HeldBudget" \in BrokerStates
    BY DEF BrokerStates
  <2> HIDE DEF fresh
  <2>2. r \in BrokerType /\ r.state = "HeldBudget" /\ r.client = "none"
    BY <1>1, <1>4, <2>1, InType
  <2> QED BY <2>2 DEF BrokerOK
<1> QED BY <1>2, <1>3, <1>4 DEF begin

LEMMA DeferredType ==
  ASSUME NEW b, NEW c \in Configs, NEW budgetOk \in BOOLEAN, NEW heapOk \in BOOLEAN,
         Deferred(b, c, budgetOk, heapOk) # "no", clockSane \in BOOLEAN
  PROVE  Deferred(b, c, budgetOk, heapOk) \in {"HeldNoClock", "HeldBudget", "HeldNoHeap"}
<1>1. isTlsTransport(c) \in BOOLEAN
  BY DEF isTlsTransport
<1> QED BY <1>1 DEF Deferred

\* tryConnect() leaves the client alone, and a broker that has failed for good.
LEMMA tryConnectOK ==
  ASSUME NEW b, BrokerOK(b), NEW c \in Configs, NEW budgetOk \in BOOLEAN, NEW heapOk \in BOOLEAN,
         clockSane \in BOOLEAN
  PROVE  LET r == tryConnect(b, c, budgetOk, heapOk)
         IN /\ BrokerOK(r) /\ r.client = b.client
            /\ Enabled(c) /\ b.state = "Failed" => r.state = "Failed"
            /\ b.state # "Failed" => r.state # "Failed"
            /\ r.state = "Connecting" => b.state = "Connecting" \/ (b.state # "Failed" /\ b.client # "none")
<1> DEFINE d == Deferred(b, c, budgetOk, heapOk)
           r == tryConnect(b, c, budgetOk, heapOk)
<1>1. b \in BrokerType
  BY DEF BrokerOK
<1>2. ASSUME NEW st \in {"Down", "HeldNoClock", "HeldBudget", "HeldNoHeap", "Connecting"}
      PROVE  In(b, st).state = st /\ In(b, st).client = b.client /\ BrokerOK(In(b, st))
  <2>1. st \in BrokerStates
    BY DEF BrokerStates
  <2>2. In(b, st) \in BrokerType /\ In(b, st).state = st /\ In(b, st).client = b.client
    BY <1>1, <2>1, InType
  <2> QED BY <2>2 DEF BrokerOK
<1>3. CASE ~Enabled(c)
  BY <1>2, <1>3 DEF tryConnect
<1>4. CASE Enabled(c) /\ ~Attempts(b, c)
  BY <1>4 DEF tryConnect
<1>5. CASE Enabled(c) /\ Attempts(b, c) /\ d # "no"
  <2>1. d \in {"HeldNoClock", "HeldBudget", "HeldNoHeap"} /\ r = In(b, d) /\ b.state # "Failed"
    BY <1>5, DeferredType DEF tryConnect, Attempts
  <2> HIDE DEF d
  <2> QED BY <1>2, <2>1
<1>6. CASE Enabled(c) /\ Attempts(b, c) /\ d = "no"
  <2>1. r = IF b.client = "none" THEN In(b, "Down") ELSE In(b, "Connecting")
    BY <1>6 DEF tryConnect
  <2>2. b.state # "Failed"
    BY <1>6 DEF Attempts
  <2> QED BY <1>2, <2>1, <2>2
<1> QED BY <1>3, <1>4, <1>5, <1>6

\* A start leaves a client behind, whether it succeeds or not.
LEMMA StartsOK ==
  ASSUME NEW s \in Slots, BrokerOK(Broker(s)), hasClient(s), NEW r \in Starts(s)
  PROVE  BrokerOK(r) /\ r.client # "none"
<1> DEFINE b == Broker(s)
           st == IF b.client = "started" THEN "Connecting" ELSE b.state
           c == In(b, st)
<1>1. b \in BrokerType /\ b.client # "none" /\ st \in BrokerStates /\ st # "Up"
  BY DEF BrokerOK, BrokerType, BrokerStates, Broker, hasClient
<1>2. st = "Failed" => b.penalty = TerminalPenalty
  BY DEF BrokerOK
<1> HIDE DEF b, st
<1>3. c \in BrokerType /\ c.state = st /\ c.penalty = b.penalty
  BY <1>1, InType
<1> HIDE DEF c
<1>4. \A cl \in {"idle", "started"} :
        BrokerOK([c EXCEPT !.client = cl]) /\ [c EXCEPT !.client = cl].client = cl
  BY <1>1, <1>2, <1>3 DEF BrokerOK, BrokerType
<1>5. CASE r \in Restart(b)
  <2>1. r = [c EXCEPT !.client = "started"]
    BY <1>5 DEF Restart, c, st
  <2> QED BY <1>4, <2>1
<1>6. CASE r \in StartFails(b)
  <2>1. r = escalateFailureOnce([c EXCEPT !.client = "idle"])
    BY <1>6 DEF StartFails, c, st
  <2> QED BY <1>4, <2>1, escalateOK
<1>7. CASE r \in CredentialFails(b)
  <2>1. r = escalateFailureOnce(b) /\ BrokerOK(b)
    BY <1>7 DEF CredentialFails, b
  <2> QED BY <1>1, <2>1, escalateOK
<1> QED BY <1>5, <1>6, <1>7 DEF Starts, b

-----------------------------------------------------------------------------
(* One or all of the brokers changed. *)

LEMMA BrokersRecord == BrokersType => \A s \in Slots : Broker(s) \in BrokerType
BY DEF BrokersType, BrokerType, Broker

LEMMA OneBroker ==
  ASSUME IInv, NEW s \in Slots, NEW b, BrokerOK(b), SetBroker(s, b)
  PROVE  /\ BrokersType' /\ \A t \in Slots : BrokerOK(Broker(t))'
         /\ state'[s] = b.state /\ client'[s] = b.client
         /\ \A t \in Slots \ {s} : state'[t] = state[t] /\ client'[t] = client[t]
<1>1. BrokersType /\ b \in BrokerType
  BY TypeParts DEF IInv, BrokerOK
<1>2. BrokersType'
  BY <1>1 DEF BrokersType, BrokerType, SetBroker
<1>3. Broker(s)' = b
  <2>1. /\ state'[s] = b.state /\ client'[s] = b.client /\ penalty'[s] = b.penalty
        /\ streak'[s] = b.streak /\ windowOpen'[s] = b.windowOpen
        /\ backoffOver'[s] = b.backoffOver /\ held'[s] = b.held
    BY <1>1 DEF BrokersType, SetBroker
  <2> QED BY <1>1, <2>1 DEF Broker, BrokerType
<1>4. \A t \in Slots \ {s} : Broker(t)' = Broker(t) /\ state'[t] = state[t] /\ client'[t] = client[t]
  BY <1>1 DEF BrokersType, SetBroker, Broker
<1>5. \A t \in Slots : BrokerOK(Broker(t)')
  BY <1>3, <1>4 DEF IInv
<1>6. state'[s] = b.state /\ client'[s] = b.client
  BY <1>1 DEF BrokersType, SetBroker
<1> QED BY <1>2, <1>4, <1>5, <1>6 DEF BrokerOK

LEMMA EveryBroker ==
  ASSUME NEW f, \A s \in Slots : BrokerOK(f[s]),
         state' = [s \in Slots |-> f[s].state], client' = [s \in Slots |-> f[s].client],
         penalty' = [s \in Slots |-> f[s].penalty], streak' = [s \in Slots |-> f[s].streak],
         windowOpen' = [s \in Slots |-> f[s].windowOpen],
         backoffOver' = [s \in Slots |-> f[s].backoffOver], held' = [s \in Slots |-> f[s].held]
  PROVE  BrokersType' /\ \A t \in Slots : BrokerOK(Broker(t))'
<1>1. \A s \in Slots : f[s] \in BrokerType
  BY DEF BrokerOK
<1>2. BrokersType'
  BY <1>1 DEF BrokersType, BrokerType
<1>3. \A s \in Slots : Broker(s)' = f[s]
  BY <1>1 DEF Broker, BrokerType
<1>4. \A s \in Slots : BrokerOK(Broker(s)')
  BY <1>3
<1> QED BY <1>2, <1>4 DEF BrokerOK

LEMMA BrokersKept ==
  ASSUME IInv, UNCHANGED brokerVars
  PROVE  BrokersType' /\ \A t \in Slots : BrokerOK(Broker(t))'
<1>1. BrokersType' /\ \A t \in Slots : Broker(t)' = Broker(t)
  BY TypeParts DEF IInv, brokerVars, BrokersType, Broker
<1>2. \A t \in Slots : BrokerOK(Broker(t)')
  BY <1>1 DEF IInv
<1> QED BY <1>1, <1>2 DEF BrokerOK

\* The budget is kept when nobody gains a TLS client.
LEMMA BudgetKept ==
  ASSUME IInv, converted => converted',
         \A t \in Slots : isTlsTransport(config'[t]) /\ client'[t] # "none"
                            => isTlsTransport(config[t]) /\ client[t] # "none"
  PROVE  TlsBudget'
<1> DEFINE new == {t \in Slots : isTlsTransport(config'[t]) /\ client'[t] # "none"}
<1>1. new \subseteq tlsClientsAllocated /\ tlsClientsAllocated \subseteq Slots
  BY DEF tlsClientsAllocated, Tls, hasClient
<1>2. IsFiniteSet(tlsClientsAllocated)
  BY <1>1, Constants, FS_Subset
<1>3. Cardinality(new) <= Cardinality(tlsClientsAllocated) /\ Cardinality(new) \in Nat
      /\ Cardinality(tlsClientsAllocated) \in Nat
  BY <1>1, <1>2, FS_Subset, FS_CardinalityType
<1>4. tlsClientsAllocated' = new
  BY DEF tlsClientsAllocated, Tls, hasClient
<1> HIDE DEF new
<1>5. converted \/ Cardinality(tlsClientsAllocated) <= MaxLiveTls
  BY DEF IInv, TlsBudget
<1>6. CASE converted
  BY <1>6 DEF TlsBudget
<1>7. CASE Cardinality(tlsClientsAllocated) <= MaxLiveTls
  <2>1. Cardinality(new) <= MaxLiveTls
    BY <1>3, <1>7, Constants
  <2> QED BY <1>4, <2>1 DEF TlsBudget
<1> QED BY <1>5, <1>6, <1>7

\* What an event, a timer or a start of slot s may do: the client stays or is made
\* anew, and a broker that has failed for good stays so unless its reload is accounted for.
LEMMA BrokerStep ==
  ASSUME IInv, NEW s \in Slots, NEW b, BrokerOK(b), SetBroker(s, b),
         b.client # "none" <=> client[s] # "none",
         state[s] = "Failed" => b.state = "Failed" \/ Accounted(s),
         b.state = "Failed" => state[s] = "Failed" \/ client[s] # "none",
         UNCHANGED <<operatorVars, config, cooling, clockSane, fairVars, history>>,
         UNCHANGED <<pc, slot>>, tls_live' \in Nat, candidates' \subseteq Slots,
         \A t \in starting' :
           t \in starting \/ (t = s /\ pc = "start" /\ b.client # "none" /\ Accounted(s))
  PROVE  IInv'
<1>1. /\ BrokersType' /\ \A t \in Slots : BrokerOK(Broker(t))'
      /\ state'[s] = b.state /\ client'[s] = b.client
      /\ \A t \in Slots \ {s} : state'[t] = state[t] /\ client'[t] = client[t]
  BY OneBroker
<1>5. starting' \subseteq Slots
  BY DEF IInv, TypeOK
<1>2. OthersType'
  BY <1>5, TypeParts DEF IInv, OthersType, operatorVars, fairVars, history
<1>3. TypeOK'
  <2>1. TypeOK' <=> BrokersType' /\ OthersType'
    BY DEF TypeOK, BrokersType, OthersType
  <2> QED BY <1>1, <1>2, <2>1
<1>4. \A t \in Slots : client'[t] # "none" <=> client[t] # "none"
  BY <1>1
<1>6. StartingInv'
  BY <1>1, <1>4, <1>5 DEF IInv, StartingInv, hasClient, TypeOK
<1>7. \A t \in Slots : Accounted(t) => Accounted(t)'
  BY DEF Accounted, operatorVars, history
<1>8. ReloadInv'
  <2> SUFFICES ASSUME NEW t \in Slots,
                      state'[t] # "Failed" \/ t \in starting' \/ (pc' = "release" /\ slot' = t)
               PROVE  Accounted(t)
    BY <1>7 DEF ReloadInv
  <2>1. CASE t = s
    BY <1>1, <2>1 DEF IInv, ReloadInv
  <2>2. CASE t # s
    BY <1>1, <2>2 DEF IInv, ReloadInv
  <2> QED BY <2>1, <2>2
<1>9. DisabledInv'
  <2> SUFFICES ASSUME NEW t \in Slots, ~Enabled(config[t])
               PROVE  client'[t] = "none" /\ state'[t] # "Failed"
    BY DEF DisabledInv
  <2> QED BY <1>1, <1>4 DEF IInv, DisabledInv
<1>10. TlsBudget'
  BY <1>4, BudgetKept DEF history
<1> QED BY <1>1, <1>3, <1>6, <1>8, <1>9, <1>10 DEF IInv

-----------------------------------------------------------------------------
(* The budget: at boot, and when a reload makes a client. *)

\* A finite set of slots has a last one: the sets of later slots are finite, so one
\* of them has no part among the others.
LEMMA LastSlot ==
  ASSUME NEW S \in SUBSET Slots, S # {}
  PROVE  \E last \in S : \A t \in S : t <= last
<1> DEFINE After(i) == {j \in Slots : j > i}
           F == {After(i) : i \in S}
<1>1. IsWellFoundedOn(StrictSubsetOrdering(Slots), SUBSET Slots)
  BY Constants, FS_StrictSubsetOrderingWellFounded, FS_FiniteSubsetsOfFinite
<1>2. F \subseteq SUBSET Slots /\ F # {}
  OBVIOUS
<1>3. PICK D \in F : \A C \in F : ~(<<C, D>> \in StrictSubsetOrdering(Slots))
  <2> HIDE DEF F
  <2> QED BY <1>1, <1>2, WFMin
<1>4. PICK last \in S : D = After(last)
  OBVIOUS
<1>5. ASSUME NEW t \in S, ~(t <= last) PROVE FALSE
  <2>1. t \in Nat /\ last \in Nat /\ t > last
    BY <1>5, Constants
  <2>2. \A j \in Slots : j \in Nat
    BY Constants
  <2>3. \A j \in Slots : j > t => j > last
    BY <2>1, <2>2
  <2>4. t \in Slots /\ ~(t > t)
    BY <2>1
  <2>5. After(t) \subseteq After(last) /\ t \in After(last) /\ t \notin After(t)
    BY <2>1, <2>3, <2>4
  <2>6. After(t) \in F /\ <<After(t), After(last)>> \in StrictSubsetOrdering(Slots)
    BY <2>5 DEF StrictSubsetOrdering
  <2> QED BY <1>3, <1>4, <2>6
<1> QED BY <1>5

\* Clients that were each made while fewer than m came before them are at most m.
LEMMA FirstComers ==
  ASSUME NEW B \in SUBSET Slots, NEW m \in Nat \ {0},
         NEW S, S = {s \in B : Cardinality({t \in B : t < s}) < m}
  PROVE  Cardinality(S) <= m
<1>1. IsFiniteSet(S) /\ S \subseteq Slots
  BY Constants, FS_Subset
<1>2. CASE S = {}
  <2>1. Cardinality(S) = 0
    BY <1>2, FS_EmptySet
  <2> QED BY <2>1
<1>3. CASE S # {}
  <2>1. PICK last \in S : \A t \in S : t <= last
    BY <1>1, <1>3, LastSlot
  <2> DEFINE before == {t \in B : t < last}
  <2>2. IsFiniteSet(before) /\ Cardinality(before) < m /\ Cardinality(before) \in Nat /\ last \notin before
    <3>1. before \subseteq Slots /\ last \in Slots /\ last \in Nat /\ Cardinality(before) < m
      BY <1>1, Constants
    <3>2. last \notin before
      BY <3>1
    <3> HIDE DEF before
    <3> QED BY <3>1, <3>2, Constants, FS_Subset, FS_CardinalityType
  <2>3. IsFiniteSet(before \cup {last}) /\ Cardinality(before \cup {last}) = Cardinality(before) + 1
    BY <2>2, FS_AddElement
  <2>4. S \subseteq before \cup {last}
    <3>1. \A t \in Slots : t \in Nat
      BY Constants
    <3>2. \A t \in S : t = last \/ t < last
      <4> SUFFICES ASSUME NEW t \in S, ~(t = last) PROVE t < last
        OBVIOUS
      <4>1. t \in Nat /\ last \in Nat /\ t <= last
        BY <1>1, <2>1, <3>1
      <4> QED BY <4>1
    <3> QED BY <3>2
  <2> HIDE DEF before
  <2>5. Cardinality(S) <= Cardinality(before \cup {last}) /\ Cardinality(S) \in Nat
    BY <1>1, <2>3, <2>4, FS_Subset, FS_CardinalityType
  <2> QED BY <2>2, <2>3, <2>5
<1> QED BY <1>2, <1>3

LEMMA ReconciledOK ==
  ASSUME IInv, NEW s \in Slots, NEW b \in Reconciled(s)
  PROVE  /\ BrokerOK(b)
         /\ state[s] = "Failed" => b = Broker(s) /\ Applied(s) = config[s]
         /\ state[s] # "Failed" =>
              /\ b.state \in {"Down", "HeldBudget"} /\ Applied(s) = stored[s]
              /\ b.client # "none" =>
                   Enabled(stored[s]) /\ (MayAllocate(s) \/ ~isTlsTransport(stored[s]))
<1>1. BrokerOK(Broker(s)) /\ Broker(s) \in BrokerType /\ stored[s] \in Configs
  BY DEF IInv, BrokerOK, TypeOK
<1>2. CASE state[s] = "Failed"
  BY <1>1, <1>2 DEF Reconciled, Applied
<1>3. CASE state[s] # "Failed" /\ stored[s] = "unset"
  <2>1. b = releaseClient(Broker(s), FALSE) /\ Applied(s) = stored[s]
    BY <1>3 DEF Reconciled, Applied
  <2> QED BY <1>1, <1>3, <2>1, releaseClientOK
<1>4. CASE state[s] # "Failed" /\ stored[s] # "unset"
  <2>1. b \in begin(Broker(s), stored[s], MayAllocate(s), s \in flaky) /\ Applied(s) = stored[s]
    BY <1>4 DEF Reconciled, Applied
  <2>2. MayAllocate(s) \in BOOLEAN /\ (s \in flaky) \in BOOLEAN
    BY DEF MayAllocate
  <2>3. PICK mayAlloc \in BOOLEAN, mayFail \in BOOLEAN : mayAlloc = MayAllocate(s) /\ mayFail = (s \in flaky)
    BY <2>2
  <2>4. b \in begin(Broker(s), stored[s], mayAlloc, mayFail)
    BY <2>1, <2>3
  <2>5. /\ BrokerOK(b) /\ b.state \in {"Down", "HeldBudget"}
        /\ b.client # "none" => Enabled(stored[s]) /\ (mayAlloc \/ ~isTlsTransport(stored[s]))
    BY <1>1, <2>4, beginOK
  <2> QED BY <1>4, <2>1, <2>3, <2>5
<1> QED BY <1>2, <1>3, <1>4

\* The allocation test, on the count that leaves the slot's own client out.
LEMMA AllocationFits ==
  ASSUME NEW s \in Slots, MayAllocate(s), hasClient(s) => Tls(s)
  PROVE  Cardinality(tlsClientsAllocated \cup {s}) <= MaxLiveTls
<1>1. IsFiniteSet(tlsClientsAllocated) /\ Cardinality(tlsClientsAllocated) \in Nat
  BY Constants, FS_Subset, FS_CardinalityType DEF tlsClientsAllocated
<1>2. Cardinality(tlsClientsAllocated) - (IF hasClient(s) THEN 1 ELSE 0) < MaxLiveTls
  BY DEF MayAllocate
<1>3. CASE hasClient(s)
  <2>1. tlsClientsAllocated \cup {s} = tlsClientsAllocated
    BY <1>3 DEF tlsClientsAllocated
  <2>2. Cardinality(tlsClientsAllocated) - 1 < MaxLiveTls
    BY <1>2, <1>3
  <2>3. Cardinality(tlsClientsAllocated) <= MaxLiveTls
    BY <1>1, <2>2, Constants
  <2> QED BY <2>1, <2>3
<1>4. CASE ~hasClient(s)
  <2>1. s \notin tlsClientsAllocated
    BY <1>4 DEF tlsClientsAllocated
  <2>2. Cardinality(tlsClientsAllocated \cup {s}) = Cardinality(tlsClientsAllocated) + 1
    BY <1>1, <2>1, FS_AddElement
  <2> QED BY <1>1, <1>2, <1>4, <2>2, Constants
<1> QED BY <1>3, <1>4

\* A reconciliation, perhaps with an attempt to connect after it: b0 is what it made of
\* the broker, b what is stored.
LEMMA ReconcileStep ==
  ASSUME IInv, NEW s \in Slots, NEW b0 \in Reconciled(s), NEW b, BrokerOK(b),
         b.client = b0.client, b.state = "Failed" <=> state[s] = "Failed", reconcileSlot(s, b)
  PROVE  /\ BrokersType' /\ \A t \in Slots : BrokerOK(Broker(t))'
         /\ state'[s] = b.state /\ client'[s] = b.client
         /\ \A t \in Slots \ {s} : state'[t] = state[t] /\ client'[t] = client[t] /\ config'[t] = config[t]
         /\ config' \in [Slots -> Configs] /\ refused' \subseteq Slots /\ converted' \in BOOLEAN
         /\ state[s] # "Failed" => config'[s] = stored[s]
         /\ refused \ {s} \subseteq refused'
         /\ DisabledInv' /\ TlsBudget'
<1>1. SetBroker(s, b) /\ config' = [config EXCEPT ![s] = Applied(s)]
  BY DEF reconcileSlot
<1>2. /\ BrokersType' /\ \A t \in Slots : BrokerOK(Broker(t))'
      /\ state'[s] = b.state /\ client'[s] = b.client
      /\ \A t \in Slots \ {s} : state'[t] = state[t] /\ client'[t] = client[t]
  BY <1>1, OneBroker
<1>3. config \in [Slots -> Configs] /\ stored \in [Slots -> Configs] /\ Applied(s) \in Configs
      /\ refused \subseteq Slots /\ converted \in BOOLEAN
  BY DEF IInv, TypeOK, Applied
<1>4. /\ config' \in [Slots -> Configs] /\ config'[s] = Applied(s)
      /\ \A t \in Slots \ {s} : config'[t] = config[t]
  BY <1>1, <1>3
<1>5. refused' \subseteq Slots /\ refused \ {s} \subseteq refused'
  BY <1>3 DEF reconcileSlot
<1>6. converted' \in BOOLEAN /\ (converted => converted')
      /\ (hasClient(s) /\ ~Tls(s) /\ isTlsTransport(Applied(s)) => converted')
  BY DEF reconcileSlot
<1>7. state[s] # "Failed" => config'[s] = stored[s]
  BY <1>4 DEF Applied
<1>8. DisabledInv'
  <2> SUFFICES ASSUME NEW t \in Slots, ~Enabled(config'[t])
               PROVE  client'[t] = "none" /\ state'[t] # "Failed"
    BY DEF DisabledInv
  <2>1. CASE t # s
    BY <1>2, <1>4, <2>1 DEF IInv, DisabledInv
  <2>2. CASE t = s /\ state[s] = "Failed"
    BY <1>4, <2>2 DEF IInv, DisabledInv, Applied
  <2>3. CASE t = s /\ state[s] # "Failed"
    BY <1>2, <1>7, <2>3, ReconciledOK
  <2> QED BY <2>1, <2>2, <2>3
<1>9. TlsBudget'
  <2>1. CASE state[s] = "Failed"
    <3>1. b.client = client[s] /\ config'[s] = config[s]
      BY <1>4, <2>1, ReconciledOK DEF Broker
    <3> QED BY <1>2, <1>4, <1>6, <3>1, BudgetKept
  <2>2. CASE state[s] # "Failed" /\ ~(b.client # "none" /\ isTlsTransport(stored[s]))
    BY <1>2, <1>4, <1>6, <1>7, <2>2, BudgetKept
  <2>3. CASE state[s] # "Failed" /\ b.client # "none" /\ isTlsTransport(stored[s])
    <3>1. MayAllocate(s) /\ Applied(s) = stored[s]
      BY <2>3, ReconciledOK
    <3>2. CASE hasClient(s) /\ ~Tls(s)
      BY <1>6, <2>3, <3>1, <3>2 DEF TlsBudget
    <3>3. CASE hasClient(s) => Tls(s)
      <4>1. Cardinality(tlsClientsAllocated \cup {s}) <= MaxLiveTls
        BY <3>1, <3>3, AllocationFits
      <4> DEFINE new == {t \in Slots : isTlsTransport(config'[t]) /\ client'[t] # "none"}
      <4>2. new \subseteq tlsClientsAllocated \cup {s}
        BY <1>2, <1>4 DEF tlsClientsAllocated, Tls, hasClient
      <4>3. IsFiniteSet(tlsClientsAllocated \cup {s}) /\ IsFiniteSet(new)
        BY Constants, FS_Subset DEF tlsClientsAllocated
      <4>4. tlsClientsAllocated' = new
        BY DEF tlsClientsAllocated, Tls, hasClient
      <4> HIDE DEF new
      <4>5. /\ Cardinality(new) <= Cardinality(tlsClientsAllocated \cup {s})
            /\ Cardinality(new) \in Nat /\ Cardinality(tlsClientsAllocated \cup {s}) \in Nat
        BY <4>2, <4>3, FS_Subset, FS_CardinalityType
      <4>6. Cardinality(new) <= MaxLiveTls
        BY <4>1, <4>5, Constants
      <4> QED BY <4>4, <4>6 DEF TlsBudget
    <3> QED BY <3>2, <3>3
  <2> QED BY <2>1, <2>2, <2>3
<1> QED BY <1>2, <1>4, <1>5, <1>6, <1>7, <1>8, <1>9

-----------------------------------------------------------------------------
(* The worker's steps. *)

LEMMA QueueFacts ==
  ASSUME NEW q \in Seq(Slots)
  PROVE  /\ q # <<>> => /\ Head(q) \in Slots /\ Tail(q) \in Seq(Slots) /\ Len(Tail(q)) = Len(q) - 1
                        /\ Len(q) \in Nat /\ ToSet(q) \ {Head(q)} \subseteq ToSet(Tail(q))
         /\ \A s \in Slots : /\ Append(q, s) \in Seq(Slots) /\ Len(Append(q, s)) = Len(q) + 1
                             /\ ToSet(q) \cup {s} \subseteq ToSet(Append(q, s))
<1>1. ASSUME q # <<>>
      PROVE  /\ Head(q) \in Slots /\ Tail(q) \in Seq(Slots) /\ Len(Tail(q)) = Len(q) - 1
             /\ Len(q) \in Nat /\ ToSet(q) \ {Head(q)} \subseteq ToSet(Tail(q))
  <2>1. Head(q) \in Slots /\ Tail(q) \in Seq(Slots) /\ Len(Tail(q)) = Len(q) - 1 /\ Len(q) \in Nat
    BY <1>1
  <2>2. ASSUME NEW x \in ToSet(q), x # Head(q) PROVE x \in ToSet(Tail(q))
    <3>1. PICK i \in 1..Len(q) : q[i] = x
      BY DEF ToSet
    <3>2. i # 1
      BY <1>1, <2>2, <3>1
    <3>3. i - 1 \in 1..Len(Tail(q)) /\ Tail(q)[i - 1] = x
      BY <1>1, <2>1, <3>1, <3>2
    <3>4. DOMAIN Tail(q) = 1..Len(Tail(q))
      BY <2>1
    <3> QED BY <3>3, <3>4 DEF ToSet
  <2> QED BY <2>1, <2>2
<1>2. ASSUME NEW s \in Slots
      PROVE  /\ Append(q, s) \in Seq(Slots) /\ Len(Append(q, s)) = Len(q) + 1
             /\ ToSet(q) \cup {s} \subseteq ToSet(Append(q, s))
  <2>1. Append(q, s) \in Seq(Slots) /\ Len(Append(q, s)) = Len(q) + 1 /\ Len(q) \in Nat
    OBVIOUS
  <2>2. \A i \in 1..Len(q) : Append(q, s)[i] = q[i]
    OBVIOUS
  <2>3. Append(q, s)[Len(q) + 1] = s
    OBVIOUS
  <2>4. DOMAIN q = 1..Len(q) /\ DOMAIN Append(q, s) = 1..(Len(q) + 1)
    OBVIOUS
  <2>5. \A i \in 1..Len(q) : i \in 1..(Len(q) + 1)
    BY <2>1
  <2>6. Len(q) + 1 \in 1..(Len(q) + 1)
    BY <2>1
  <2> QED BY <2>1, <2>2, <2>3, <2>4, <2>5, <2>6 DEF ToSet
<1> QED BY <1>1, <1>2

LEMMA TakeReloadStep == ASSUME IInv, TakeReload PROVE IInv'
<1> DEFINE s == Head(queue)
<1>1. queue \in Seq(Slots) /\ queue # <<>> /\ pc = "wait" /\ Len(queue) <= QueueDepth
  BY DEF IInv, TypeOK, TakeReload
<1>2. /\ s \in Slots /\ Tail(queue) \in Seq(Slots) /\ Len(Tail(queue)) <= QueueDepth
      /\ ToSet(queue) \ {s} \subseteq ToSet(Tail(queue))
  BY <1>1, QueueFacts, Constants
<1>3. PICK b \in Reconciled(s) : reconcileSlot(s, b)
  BY DEF TakeReload
<1> HIDE DEF s
<1>4. BrokerOK(b) /\ (b.state = "Failed" <=> state[s] = "Failed")
  BY <1>2, <1>3, ReconciledOK DEF Broker
<1>5. /\ BrokersType' /\ \A t \in Slots : BrokerOK(Broker(t))'
      /\ state'[s] = b.state
      /\ \A t \in Slots \ {s} : state'[t] = state[t] /\ config'[t] = config[t]
      /\ config' \in [Slots -> Configs] /\ refused' \subseteq Slots /\ converted' \in BOOLEAN
      /\ state[s] # "Failed" => config'[s] = stored[s]
      /\ refused \ {s} \subseteq refused'
      /\ DisabledInv' /\ TlsBudget'
  BY <1>2, <1>3, <1>4, ReconcileStep
<1>6. /\ queue' = Tail(queue) /\ stored' = stored /\ pc' = "rotate" /\ slot' = 0
      /\ UNCHANGED <<tls_live, candidates, starting>> /\ reconciling' \in [Slots -> BOOLEAN]
      /\ UNCHANGED <<operator, flaky, reloads, cooling, clockSane, fairVars>>
  BY <1>2 DEF TakeReload, To, IInv, TypeOK
<1>7. OthersType'
  BY <1>2, <1>5, <1>6, TypeParts, Constants DEF IInv, OthersType, fairVars
<1>8. TypeOK' /\ starting = {} /\ starting' = {}
  BY <1>1, <1>5, <1>6, <1>7 DEF IInv, StartingInv, TypeOK, BrokersType, OthersType
<1>9. StartingInv'
  BY <1>8 DEF StartingInv
<1>10. ReloadInv'
  <2> SUFFICES ASSUME NEW t \in Slots, state'[t] # "Failed"
               PROVE  config'[t] = stored[t] \/ t \in ToSet(Tail(queue)) \cup refused'
    BY <1>6, <1>8 DEF ReloadInv, Accounted
  <2>1. CASE t = s
    BY <1>4, <1>5, <2>1
  <2>2. CASE t # s
    BY <1>2, <1>5, <2>2 DEF IInv, ReloadInv, Accounted
  <2> QED BY <2>1, <2>2
<1> QED BY <1>5, <1>8, <1>9, <1>10 DEF IInv

\* A step that leaves the brokers and the operator's changes alone, and starts nothing.
LEMMA QuietStep ==
  ASSUME IInv, UNCHANGED <<brokerVars, config, stored, queue, history>>, OthersType',
         starting' = starting, pc' # "start" => starting = {},
         pc' = "release" => (pc = "release" /\ slot' = slot) \/ state[slot'] # "Failed"
  PROVE  IInv'
<1>1. BrokersType' /\ \A t \in Slots : BrokerOK(Broker(t))'
  BY BrokersKept DEF brokerVars
<1>2. TypeOK'
  BY <1>1 DEF TypeOK, BrokersType, OthersType
<1>3. StartingInv' /\ DisabledInv'
  BY DEF IInv, StartingInv, DisabledInv, hasClient, brokerVars
<1>4. \A t \in Slots : Accounted(t)' = Accounted(t)
  BY DEF Accounted, history
<1>5. ReloadInv'
  BY <1>4 DEF IInv, ReloadInv, brokerVars
<1>6. TlsBudget'
  BY BudgetKept DEF brokerVars, history
<1> QED BY <1>1, <1>2, <1>3, <1>5, <1>6 DEF IInv

LEMMA ChooseVictimStep == ASSUME IInv, NEW s \in Slots, ChooseVictim(s) PROVE IInv'
<1>1. state[s] = "Up" /\ pc # "start" /\ pc # "release"
  BY DEF ChooseVictim, Victims, Awake
<1>2. OthersType'
  BY TypeParts DEF IInv, OthersType, ChooseVictim, fairVars, history
<1>3. starting' = starting /\ starting = {} /\ slot' = s
  BY <1>1 DEF IInv, StartingInv, ChooseVictim
<1>4. UNCHANGED <<brokerVars, config, stored, queue, history>>
  BY DEF ChooseVictim
<1> QED BY <1>1, <1>2, <1>3, <1>4, QuietStep

LEMMA ReleaseVictimStep == ASSUME IInv, ReleaseVictim PROVE IInv'
<1> DEFINE b == releaseClient(noteCleanDwell(Broker(slot)), FALSE)
<1>1. slot \in Slots /\ Broker(slot) \in BrokerType /\ pc = "release" /\ SetBroker(slot, b)
  BY DEF IInv, TypeOK, BrokerOK, ReleaseVictim
<1>2. BrokerOK(b) /\ b.client = "none" /\ b.state = "Down"
  <2>1. PICK c \in BrokerType : c = noteCleanDwell(Broker(slot))
    BY <1>1, noteCleanDwellType
  <2> QED BY <2>1, releaseClientOK
<1> HIDE DEF b
<1>3. /\ BrokersType' /\ \A t \in Slots : BrokerOK(Broker(t))'
      /\ state'[slot] = "Down" /\ client'[slot] = "none"
      /\ \A t \in Slots \ {slot} : state'[t] = state[t] /\ client'[t] = client[t]
  BY <1>1, <1>2, OneBroker
<1>4. /\ UNCHANGED <<operator, flaky, reloads, stored, queue, config, cooling, clockSane, fairVars, history>>
      /\ pc' = "survey" /\ slot' = 0 /\ UNCHANGED <<tls_live, candidates, starting>>
      /\ reconciling' \in [Slots -> BOOLEAN]
  BY <1>1 DEF ReleaseVictim, To, IInv, TypeOK
<1>5. OthersType'
  BY <1>4, TypeParts, Constants DEF IInv, OthersType, fairVars, history
<1>6. TypeOK' /\ starting' = {}
  BY <1>1, <1>3, <1>4, <1>5 DEF IInv, StartingInv, TypeOK, BrokersType, OthersType
<1>7. StartingInv'
  BY <1>6 DEF StartingInv
<1>8. ReloadInv'
  <2>1. \A t \in Slots : Accounted(t)' = Accounted(t)
    BY <1>4 DEF Accounted, history
  <2>2. Accounted(slot)
    BY <1>1 DEF IInv, ReloadInv
  <2> QED BY <1>3, <1>4, <1>6, <2>1, <2>2 DEF IInv, ReloadInv
<1>9. DisabledInv'
  BY <1>1, <1>3, <1>4 DEF IInv, DisabledInv
<1>10. TlsBudget'
  BY <1>1, <1>3, <1>4, BudgetKept DEF history
<1> QED BY <1>3, <1>6, <1>7, <1>8, <1>9, <1>10 DEF IInv

\* The ranks stay ranks: the slots served before and those newly up are different.
LEMMA CountType ==
  ASSUME IInv, Count
  PROVE  tls_live' \in Nat /\ knownUp' \in [Slots -> BOOLEAN] /\ epoch' \in [Slots -> 0..Cardinality(Slots)]
<1>1. \A S \in SUBSET Slots :
        IsFiniteSet(S) /\ Cardinality(S) \in Nat /\ Cardinality(S) <= Cardinality(Slots)
  BY Constants, FS_Subset, FS_CardinalityType
<1>2. tls_live' \in Nat
  <2>1. {s \in Slots : Tls(s) /\ state[s] \in {"Up", "Connecting"}} \in SUBSET Slots
    OBVIOUS
  <2> QED BY <1>1, <2>1 DEF Count
<1>3. ASSUME NEW s \in Slots PROVE EpochRank(s) \in 0..Cardinality(Slots)
  <2>1. ServedBefore \in SUBSET Slots /\ NewlyUp \in SUBSET Slots /\ ServedBefore \cap NewlyUp = {}
    BY DEF ServedBefore, NewlyUp
  <2>2. CASE s \in NewlyUp
    <3> DEFINE lower == {t \in NewlyUp : t <= s}
    <3>1. lower \in SUBSET Slots /\ ServedBefore \cap lower = {} /\ ServedBefore \cup lower \in SUBSET Slots
      BY <2>1
    <3>2. EpochRank(s) = Cardinality(ServedBefore) + Cardinality(lower)
      BY <2>2 DEF EpochRank
    <3> HIDE DEF lower
    <3>3. Cardinality(ServedBefore \cup lower) = Cardinality(ServedBefore) + Cardinality(lower) - Cardinality({})
      BY <1>1, <2>1, <3>1, FS_Union
    <3>4. Cardinality({}) = 0
      BY FS_EmptySet
    <3>5. /\ Cardinality(ServedBefore) \in Nat /\ Cardinality(lower) \in Nat
          /\ Cardinality(ServedBefore \cup lower) <= Cardinality(Slots)
      BY <1>1, <2>1, <3>1
    <3>6. Cardinality(ServedBefore) + Cardinality(lower) <= Cardinality(Slots)
      BY <3>3, <3>4, <3>5
    <3> QED BY <3>2, <3>5, <3>6, Constants
  <2>3. CASE s \notin NewlyUp
    <3> DEFINE lower == {t \in ServedBefore : epoch[t] <= epoch[s]}
    <3>1. lower \in SUBSET Slots /\ EpochRank(s) = Cardinality(lower)
      BY <2>1, <2>3 DEF EpochRank
    <3> HIDE DEF lower
    <3>2. Cardinality(lower) \in Nat /\ Cardinality(lower) <= Cardinality(Slots)
      BY <1>1, <3>1
    <3> QED BY <3>1, <3>2, Constants
  <2> QED BY <2>2, <2>3
<1>4. epoch' \in [Slots -> 0..Cardinality(Slots)]
  BY <1>3 DEF Count
<1> QED BY <1>2, <1>4 DEF Count

\* What the pass makes of each broker.
LEMMA DrivingOK ==
  ASSUME IInv, NEW s \in Slots
  PROVE  /\ BrokerOK(Driving(s))
         /\ Driving(s).state = "Failed" <=> state[s] = "Failed"
         /\ Driving(s).client # "none" => client[s] # "none"
         /\ Redrivable(s) /\ ~Tls(s) /\ Driving(s).state = "Connecting" =>
              Driving(s).client # "none" /\ state[s] # "Failed"
<1>1. /\ BrokerOK(Broker(s)) /\ Broker(s) \in BrokerType /\ Broker(s).state = state[s]
      /\ Broker(s).client = client[s] /\ config[s] \in Configs /\ clockSane \in BOOLEAN
  BY DEF IInv, TypeOK, BrokerOK, Broker
<1>2. CASE Driven(s) /\ state[s] = "Failed"
  <2>1. Driving(s) = releaseClient(Broker(s), TRUE)
    BY <1>2 DEF Driving
  <2>2. BrokerOK(Driving(s)) /\ Driving(s).client = "none" /\ Driving(s).state = "Failed"
    BY <1>1, <1>2, <2>1, releaseClientOK
  <2> QED BY <1>2, <2>2
<1>3. CASE ~(Driven(s) /\ state[s] = "Failed") /\ Redrivable(s) /\ ~Tls(s)
  <2>1. Driving(s) = tryConnect(Broker(s), config[s], TRUE, TRUE)
    BY <1>3 DEF Driving
  <2>2. state[s] \notin {"Failed", "Connecting"}
    BY <1>3 DEF Redrivable
  <2>3. /\ BrokerOK(Driving(s)) /\ Driving(s).client = client[s] /\ Driving(s).state # "Failed"
        /\ Driving(s).state = "Connecting" => client[s] # "none"
    <3>1. /\ BrokerOK(Driving(s)) /\ Driving(s).client = Broker(s).client
          /\ Broker(s).state # "Failed" => Driving(s).state # "Failed"
          /\ Driving(s).state = "Connecting" =>
               Broker(s).state = "Connecting" \/ (Broker(s).state # "Failed" /\ Broker(s).client # "none")
      <4>1. PICK yes \in BOOLEAN : yes
        OBVIOUS
      <4>2. Driving(s) = tryConnect(Broker(s), config[s], yes, yes)
        BY <2>1, <4>1 DEF tryConnect, Deferred
      <4> QED BY <1>1, <4>2, tryConnectOK
    <3> QED BY <1>1, <2>2, <3>1
  <2> QED BY <2>2, <2>3
<1>4. CASE ~(Driven(s) /\ state[s] = "Failed") /\ ~(Redrivable(s) /\ ~Tls(s))
  <2>1. Driving(s) = Broker(s)
    BY <1>4 DEF Driving
  <2> QED BY <1>1, <1>4, <2>1
<1> QED BY <1>2, <1>3, <1>4

LEMMA PassStep == ASSUME IInv, Pass PROVE IInv'
<1> DEFINE f == [s \in Slots |-> Driving(s)]
<1>1. Count /\ Drive /\ pc' = "start" /\ slot' = 0
      /\ UNCHANGED <<operatorVars, config, cooling, clockSane, history>>
  BY DEF Pass
<1>2. /\ state' = [s \in Slots |-> f[s].state] /\ client' = [s \in Slots |-> f[s].client]
      /\ penalty' = [s \in Slots |-> f[s].penalty] /\ streak' = [s \in Slots |-> f[s].streak]
      /\ windowOpen' = [s \in Slots |-> f[s].windowOpen]
      /\ backoffOver' = [s \in Slots |-> f[s].backoffOver] /\ held' = [s \in Slots |-> f[s].held]
  BY <1>1 DEF Drive, SetBrokers
<1>3. \A s \in Slots : BrokerOK(f[s]) /\ f[s] = Driving(s)
  BY DrivingOK
<1> HIDE DEF f
<1>4. BrokersType' /\ \A t \in Slots : BrokerOK(Broker(t))'
  BY <1>2, <1>3, EveryBroker
<1>5. \A s \in Slots : state'[s] = Driving(s).state /\ client'[s] = Driving(s).client
  BY <1>2, <1>3
<1>6. candidates' \subseteq Slots /\ starting' \subseteq Slots
  BY <1>1 DEF Drive
<1>7. OthersType'
  BY <1>1, <1>6, CountType, TypeParts, Constants DEF IInv, OthersType, operatorVars, history
<1>8. TypeOK'
  BY <1>4, <1>7 DEF TypeOK, BrokersType, OthersType
<1>9. \A s \in starting' : client'[s] # "none" /\ state[s] # "Failed"
  <2> SUFFICES ASSUME NEW s \in starting' PROVE client'[s] # "none" /\ state[s] # "Failed"
    OBVIOUS
  <2>1. s \in Slots /\ Redrivable(s) /\ ~Tls(s) /\ Driving(s).state = "Connecting"
    BY <1>1 DEF Drive
  <2> QED BY <1>5, <2>1, DrivingOK
<1>10. StartingInv'
  BY <1>1, <1>9 DEF StartingInv, hasClient
<1>11. ReloadInv'
  <2>1. \A t \in Slots : Accounted(t)' = Accounted(t)
    BY <1>1 DEF Accounted, operatorVars, history
  <2> SUFFICES ASSUME NEW t \in Slots, state'[t] # "Failed" \/ t \in starting' PROVE Accounted(t)
    BY <1>1, <2>1 DEF ReloadInv
  <2>2. state[t] # "Failed"
    BY <1>5, <1>9, DrivingOK
  <2> QED BY <2>2 DEF IInv, ReloadInv
<1>12. DisabledInv'
  <2> SUFFICES ASSUME NEW t \in Slots, ~Enabled(config[t])
               PROVE  client'[t] = "none" /\ state'[t] # "Failed"
    BY <1>1 DEF DisabledInv
  <2>1. client[t] = "none" /\ state[t] # "Failed"
    BY DEF IInv, DisabledInv
  <2> QED BY <1>5, <2>1, DrivingOK
<1>13. TlsBudget'
  <2>1. \A t \in Slots : client'[t] # "none" => client[t] # "none"
    BY <1>5, DrivingOK
  <2>2. config' = config /\ converted' = converted
    BY <1>1 DEF history
  <2> QED BY <2>1, <2>2, BudgetKept
<1> QED BY <1>4, <1>8, <1>10, <1>11, <1>12, <1>13 DEF IInv

LEMMA StartStep == ASSUME IInv, NEW s \in Slots, Start(s) PROVE IInv'
<1>1. PICK b \in Starts(s) :
        /\ SetBroker(s, b)
        /\ tls_live' = IF Tls(s) /\ b.state = "Connecting" THEN tls_live + 1 ELSE tls_live
  BY DEF Start
<1>2. s \in starting /\ hasClient(s) /\ Accounted(s) /\ BrokerOK(Broker(s))
  BY DEF Start, IInv, StartingInv, ReloadInv
<1>3. BrokerOK(b) /\ b.client # "none"
  BY <1>2, StartsOK
<1>4. starting' \subseteq starting /\ UNCHANGED <<pc, slot, candidates>>
      /\ UNCHANGED <<operatorVars, config, cooling, clockSane, fairVars, history>>
  BY DEF Start
<1>5. tls_live' \in Nat /\ candidates' \subseteq Slots
  BY <1>1, <1>4 DEF IInv, TypeOK
<1>6. b.client # "none" <=> client[s] # "none"
  BY <1>2, <1>3 DEF hasClient
<1> QED BY <1>1, <1>2, <1>3, <1>4, <1>5, <1>6, BrokerStep DEF hasClient

LEMMA PromoteStep == ASSUME IInv, NEW s \in Slots, NEW heapOk \in BOOLEAN, Promote(s, heapOk) PROVE IInv'
<1>1. /\ pc = "start" /\ starting = {} /\ candidates' \subseteq Slots
      /\ UNCHANGED <<operatorVars, cooling, clockSane, fairVars, pc, slot, tls_live>>
  BY DEF Promote, IInv, TypeOK
<1>2. /\ BrokerOK(Broker(s)) /\ Broker(s).state = state[s] /\ Broker(s).client = client[s]
      /\ config[s] \in Configs /\ stored[s] \in Configs /\ clockSane \in BOOLEAN
  BY DEF IInv, TypeOK, Broker
<1>3. state[s] = "Failed" => Enabled(config[s])
  BY DEF IInv, DisabledInv
<1>4. CASE hasClient(s)
  <2> DEFINE next == tryConnect(Broker(s), config[s], TRUE, heapOk)
  <2>1. SetBroker(s, next) /\ UNCHANGED <<config, history>>
        /\ starting' = IF next.state = "Connecting" THEN {s} ELSE {}
    BY <1>4 DEF Promote
  <2>2. /\ BrokerOK(next) /\ next.client = client[s]
        /\ state[s] = "Failed" <=> next.state = "Failed"
        /\ next.state = "Connecting" => state[s] # "Failed"
    <3>1. /\ BrokerOK(next) /\ next.client = Broker(s).client
          /\ Enabled(config[s]) /\ Broker(s).state = "Failed" => next.state = "Failed"
          /\ Broker(s).state # "Failed" => next.state # "Failed"
      BY <1>2, tryConnectOK
    <3> QED BY <1>2, <1>3, <3>1
  <2> HIDE DEF next
  <2>3. \A t \in starting' : t = s /\ Accounted(s) /\ next.client # "none"
    BY <1>4, <2>1, <2>2 DEF IInv, ReloadInv, hasClient
  <2>4. tls_live' \in Nat
    BY <1>1 DEF IInv, TypeOK
  <2> QED BY <1>1, <2>1, <2>2, <2>3, <2>4, BrokerStep
<1>5. CASE ~hasClient(s)
  <2>1. PICK b \in Reconciled(s) :
          LET next == tryConnect(b, Applied(s), TRUE, heapOk)
          IN reconcileSlot(s, next) /\ starting' = IF next.state = "Connecting" THEN {s} ELSE {}
    BY <1>5 DEF Promote
  <2> DEFINE next == tryConnect(b, Applied(s), TRUE, heapOk)
  <2>2. BrokerOK(b) /\ Applied(s) \in Configs
    BY <1>2, <2>1, ReconciledOK DEF Applied
  <2>3. /\ BrokerOK(next) /\ next.client = b.client
        /\ Enabled(Applied(s)) /\ b.state = "Failed" => next.state = "Failed"
        /\ b.state # "Failed" => next.state # "Failed"
        /\ next.state = "Connecting" => b.state = "Connecting" \/ (b.state # "Failed" /\ b.client # "none")
    BY <1>2, <2>2, tryConnectOK
  <2> HIDE DEF next
  <2>4. next.state = "Failed" <=> state[s] = "Failed"
    BY <1>2, <1>3, <2>1, <2>3, ReconciledOK
  <2>5. next.state = "Connecting" => next.client # "none" /\ state[s] # "Failed"
    <3>1. CASE state[s] = "Failed"
      BY <2>4, <3>1
    <3>2. CASE state[s] # "Failed"
      <4>1. b.state \in {"Down", "HeldBudget"}
        BY <2>1, <3>2, ReconciledOK
      <4> QED BY <2>3, <3>2, <4>1
    <3> QED BY <3>1, <3>2
  <2>6. reconcileSlot(s, next) /\ starting' = IF next.state = "Connecting" THEN {s} ELSE {}
    BY <2>1 DEF next
  <2>7. /\ BrokersType' /\ \A t \in Slots : BrokerOK(Broker(t))'
        /\ state'[s] = next.state /\ client'[s] = next.client
        /\ \A t \in Slots \ {s} : state'[t] = state[t] /\ client'[t] = client[t] /\ config'[t] = config[t]
        /\ config' \in [Slots -> Configs] /\ refused' \subseteq Slots /\ converted' \in BOOLEAN
        /\ state[s] # "Failed" => config'[s] = stored[s]
        /\ refused \ {s} \subseteq refused'
        /\ DisabledInv' /\ TlsBudget'
    BY <2>1, <2>3, <2>4, <2>6, ReconcileStep
  <2>8. starting' \subseteq {s} /\ (starting' # {} => next.state = "Connecting")
    BY <2>6
  <2>9. OthersType'
    BY <1>1, <2>7, <2>8, TypeParts DEF IInv, OthersType, operatorVars, fairVars
  <2>10. TypeOK'
    BY <2>7, <2>9 DEF TypeOK, BrokersType, OthersType
  <2>11. StartingInv'
    BY <1>1, <2>5, <2>7, <2>8 DEF StartingInv, hasClient
  <2>12. ReloadInv'
    <3> SUFFICES ASSUME NEW t \in Slots, state'[t] # "Failed" \/ t \in starting'
                 PROVE  config'[t] = stored[t] \/ t \in ToSet(queue) \cup refused'
      BY <1>1 DEF ReloadInv, Accounted, operatorVars
    <3>1. CASE t = s
      BY <2>4, <2>5, <2>7, <2>8, <3>1
    <3>2. CASE t # s
      BY <2>7, <2>8, <3>2 DEF IInv, ReloadInv, Accounted
    <3> QED BY <3>1, <3>2
  <2> QED BY <2>7, <2>10, <2>11, <2>12 DEF IInv
<1> QED BY <1>4, <1>5

LEMMA PassEndsStep == ASSUME IInv, PassEnds PROVE IInv'
<1> DEFINE f == [s \in Slots |-> Deferring(s)]
<1>1. /\ pc = "start" /\ starting = {} /\ pc' = "wait" /\ tls_live' = 0 /\ candidates' = {}
      /\ UNCHANGED <<operatorVars, config, cooling, clockSane, fairVars, slot, starting, history>>
  BY DEF PassEnds
<1>2. /\ state' = [s \in Slots |-> f[s].state] /\ client' = [s \in Slots |-> f[s].client]
      /\ penalty' = [s \in Slots |-> f[s].penalty] /\ streak' = [s \in Slots |-> f[s].streak]
      /\ windowOpen' = [s \in Slots |-> f[s].windowOpen]
      /\ backoffOver' = [s \in Slots |-> f[s].backoffOver] /\ held' = [s \in Slots |-> f[s].held]
  BY DEF PassEnds, DriveLosers, SetBrokers
<1>3. ASSUME NEW s \in Slots
      PROVE  /\ BrokerOK(f[s]) /\ f[s].client = client[s]
             /\ f[s].state = "Failed" <=> state[s] = "Failed"
  <2>1. /\ BrokerOK(Broker(s)) /\ Broker(s).state = state[s] /\ Broker(s).client = client[s]
        /\ config[s] \in Configs /\ clockSane \in BOOLEAN
    BY DEF IInv, TypeOK, Broker
  <2>2. state[s] = "Failed" => Enabled(config[s])
    BY DEF IInv, DisabledInv
  <2>3. CASE s \in candidates
    <3>1. f[s] = tryConnect(Broker(s), config[s], FALSE, TRUE)
      BY <2>3 DEF Deferring
    <3>2. /\ BrokerOK(f[s]) /\ f[s].client = Broker(s).client
          /\ Enabled(config[s]) /\ Broker(s).state = "Failed" => f[s].state = "Failed"
          /\ Broker(s).state # "Failed" => f[s].state # "Failed"
      <4>1. PICK yes \in BOOLEAN, no \in BOOLEAN : yes /\ ~no
        OBVIOUS
      <4>2. f[s] = tryConnect(Broker(s), config[s], no, yes)
        BY <3>1, <4>1 DEF tryConnect, Deferred
      <4> QED BY <2>1, <4>2, tryConnectOK
    <3> QED BY <2>1, <2>2, <3>2
  <2>4. CASE s \notin candidates
    <3>1. f[s] = Broker(s)
      BY <2>4 DEF Deferring
    <3> QED BY <2>1, <3>1
  <2> QED BY <2>3, <2>4
<1> HIDE DEF f
<1>4. BrokersType' /\ \A t \in Slots : BrokerOK(Broker(t))'
  BY <1>2, <1>3, EveryBroker
<1>5. \A s \in Slots : client'[s] = client[s] /\ (state'[s] = "Failed" <=> state[s] = "Failed")
  BY <1>2, <1>3
<1>6. OthersType'
  BY <1>1, TypeParts DEF IInv, OthersType, operatorVars, fairVars, history
<1>7. TypeOK'
  BY <1>4, <1>6 DEF TypeOK, BrokersType, OthersType
<1>8. StartingInv'
  BY <1>1 DEF StartingInv
<1>9. ReloadInv'
  <2>1. \A t \in Slots : Accounted(t)' = Accounted(t)
    BY <1>1 DEF Accounted, operatorVars, history
  <2> QED BY <1>1, <1>5, <2>1 DEF IInv, ReloadInv
<1>10. DisabledInv'
  BY <1>1, <1>5 DEF IInv, DisabledInv
<1>11. TlsBudget'
  BY <1>1, <1>5, BudgetKept DEF history
<1> QED BY <1>4, <1>7, <1>8, <1>9, <1>10, <1>11 DEF IInv

-----------------------------------------------------------------------------
(* Events, timers and the operator. *)

LEMMA EventStep ==
  ASSUME IInv, NEW s \in Slots, NEW b, BrokerOK(b), Event(s, b), b.client = client[s],
         state[s] = "Failed" => b.state = "Failed",
         b.state = "Failed" => state[s] = "Failed" \/ client[s] # "none"
  PROVE  IInv'
<1>1. /\ SetBroker(s, b) /\ UNCHANGED <<pc, slot, tls_live, candidates, starting>>
      /\ UNCHANGED <<operatorVars, config, cooling, clockSane, fairVars, history>>
  BY DEF Event, workerVars
<1>2. tls_live' \in Nat /\ candidates' \subseteq Slots
  BY <1>1 DEF IInv, TypeOK
<1> QED BY <1>1, <1>2, BrokerStep

LEMMA onConnectedStep == ASSUME IInv, NEW s \in Slots, onConnected(s) PROVE IInv'
<1> DEFINE up == In(Broker(s), "Up")
           b == [up EXCEPT !.held = IF @ = "no" THEN "fresh" ELSE @, !.windowOpen = FALSE]
<1>1. client[s] = "started" /\ state[s] # "Failed" /\ Event(s, b)
  BY DEF onConnected
<1>2. up \in BrokerType /\ up.state = "Up" /\ up.client = "started"
  <2>1. Broker(s) \in BrokerType /\ Broker(s).client = client[s] /\ "Up" \in BrokerStates
    BY DEF IInv, BrokerOK, Broker, BrokerStates
  <2> QED BY <1>1, <2>1, InType
<1>3. BrokerOK(b) /\ b.client = "started" /\ b.state = "Up"
  <2> HIDE DEF up
  <2> QED BY <1>2 DEF BrokerOK, BrokerType
<1> HIDE DEF b
<1> QED BY <1>1, <1>3, EventStep

LEMMA onFailureStep == ASSUME IInv, NEW s \in Slots, onFailure(s) PROVE IInv'
<1>1. BrokerOK(Broker(s)) /\ Broker(s).state = state[s] /\ Broker(s).client = client[s]
  BY DEF IInv, Broker
<1>2. client[s] = "started" /\ Event(s, escalateFailureOnce(Broker(s)))
  BY DEF onFailure
<1> QED BY <1>1, <1>2, escalateOK, EventStep

LEMMA ElapseStep == ASSUME IInv, NEW s \in Slots, Elapse(s) PROVE IInv'
<1>1. BrokerOK(Broker(s)) /\ Broker(s).state = state[s] /\ Broker(s).client = client[s]
  BY DEF IInv, Broker
<1>2. CASE WindowCloses(s)
  <2> DEFINE b == [Broker(s) EXCEPT !.windowOpen = FALSE]
  <2>1. BrokerOK(b) /\ b.client = client[s] /\ b.state = state[s]
    BY <1>1 DEF BrokerOK, BrokerType
  <2>2. Event(s, b)
    BY <1>2 DEF WindowCloses
  <2> HIDE DEF b
  <2> QED BY <2>1, <2>2, EventStep
<1>3. CASE BackoffRunsOut(s)
  <2> DEFINE b == [Broker(s) EXCEPT !.backoffOver = TRUE]
  <2>1. BrokerOK(b) /\ b.client = client[s] /\ b.state = state[s]
    BY <1>1 DEF BrokerOK, BrokerType
  <2>2. Event(s, b)
    BY <1>3 DEF BackoffRunsOut
  <2> HIDE DEF b
  <2> QED BY <2>1, <2>2, EventStep
<1>4. CASE DwellPasses(s)
  <2> DEFINE b == [Broker(s) EXCEPT !.held = "dwell"]
  <2>1. BrokerOK(b) /\ b.client = client[s] /\ b.state = state[s]
    BY <1>1 DEF BrokerOK, BrokerType
  <2>2. Event(s, b)
    BY <1>4 DEF DwellPasses
  <2> HIDE DEF b
  <2> QED BY <2>1, <2>2, EventStep
<1> QED BY <1>2, <1>3, <1>4 DEF Elapse

LEMMA clearTerminalFailureOK ==
  ASSUME NEW b, BrokerOK(b)
  PROVE  /\ BrokerOK(clearTerminalFailure(b)) /\ clearTerminalFailure(b).client = b.client
         /\ clearTerminalFailure(b).state # "Failed"
<1>1. CASE b.state # "Failed"
  BY <1>1 DEF clearTerminalFailure
<1>2. CASE b.state = "Failed"
  <2> DEFINE down == In(b, "Down")
  <2>1. "Down" \in BrokerStates /\ b \in BrokerType
    BY DEF BrokerStates, BrokerOK
  <2>2. down \in BrokerType /\ down.state = "Down" /\ down.client = b.client
    BY <2>1, InType
  <2>3. clearTerminalFailure(b) = [down EXCEPT !.penalty = 0, !.streak = 0]
    BY <1>2 DEF clearTerminalFailure
  <2>4. 0 \in 0..TerminalPenalty /\ 0 \in 0..(SuccessBar - 1)
    BY Constants
  <2> HIDE DEF down
  <2> QED BY <2>2, <2>3, <2>4 DEF BrokerOK, BrokerType
<1> QED BY <1>1, <1>2

LEMMA reloadSlotStep == ASSUME IInv, NEW s \in Slots, reloadSlot(s) PROVE IInv'
<1> DEFINE b == clearTerminalFailure(Broker(s))
<1>1. PICK c \in operator[s] : stored' = [stored EXCEPT ![s] = c]
  BY DEF reloadSlot
<1>2. /\ BrokerOK(Broker(s)) /\ Broker(s).client = client[s]
      /\ operator[s] \subseteq Configs /\ stored \in [Slots -> Configs]
      /\ queue \in Seq(Slots) /\ Len(queue) \in Nat /\ Len(queue) <= QueueDepth
  BY DEF IInv, TypeOK, Broker
<1>3. BrokerOK(b) /\ b.client = client[s] /\ b.state # "Failed"
  BY <1>2, clearTerminalFailureOK
<1>4. /\ SetBroker(s, b) /\ reloads > 0 /\ reloads' = reloads - 1
      /\ UNCHANGED <<operator, flaky, config, cooling, clockSane, fairVars, workerVars, converted>>
  BY DEF reloadSlot
<1> HIDE DEF b
<1>5. /\ BrokersType' /\ \A t \in Slots : BrokerOK(Broker(t))'
      /\ state'[s] = b.state /\ client'[s] = b.client
      /\ \A t \in Slots \ {s} : state'[t] = state[t] /\ client'[t] = client[t]
  BY <1>3, <1>4, OneBroker
<1>6. stored' \in [Slots -> Configs] /\ \A t \in Slots \ {s} : stored'[t] = stored[t]
  BY <1>1, <1>2
<1>7. /\ queue' \in Seq(Slots) /\ Len(queue') <= QueueDepth
      /\ reconciling' \in [Slots -> BOOLEAN] /\ refused' \subseteq Slots
      /\ ToSet(queue) \cup refused \cup {s} \subseteq ToSet(queue') \cup refused'
  <2>1. reconciling \in [Slots -> BOOLEAN] /\ refused \subseteq Slots
    BY DEF IInv, TypeOK
  <2>2. CASE Len(queue) < QueueDepth
    <3>1. queue' = Append(queue, s) /\ reconciling' = [reconciling EXCEPT ![s] = TRUE] /\ refused' = refused
      BY <2>2 DEF reloadSlot
    <3>2. /\ Append(queue, s) \in Seq(Slots) /\ Len(Append(queue, s)) = Len(queue) + 1
          /\ ToSet(queue) \cup {s} \subseteq ToSet(Append(queue, s))
      BY <1>2, QueueFacts
    <3>3. Len(queue) + 1 <= QueueDepth
      BY <1>2, <2>2, Constants
    <3> QED BY <2>1, <3>1, <3>2, <3>3
  <2>3. CASE ~(Len(queue) < QueueDepth)
    <3>1. queue' = queue /\ reconciling' = [reconciling EXCEPT ![s] = FALSE] /\ refused' = refused \cup {s}
      BY <2>3 DEF reloadSlot
    <3> QED BY <1>2, <2>1, <3>1
  <2> QED BY <2>2, <2>3
<1>8. reloads' \in Nat
  BY <1>4 DEF IInv, TypeOK
<1>9. OthersType'
  BY <1>4, <1>6, <1>7, <1>8, TypeParts DEF IInv, OthersType, fairVars, workerVars
<1>10. TypeOK'
  BY <1>5, <1>9 DEF TypeOK, BrokersType, OthersType
<1>11. \A t \in Slots : client'[t] = client[t]
  BY <1>3, <1>5
<1>12. StartingInv'
  BY <1>4, <1>11 DEF IInv, TypeOK, StartingInv, hasClient, workerVars
<1>13. ReloadInv'
  <2>1. Accounted(s)'
    BY <1>7 DEF Accounted
  <2>2. \A t \in Slots \ {s} : Accounted(t) => Accounted(t)'
    BY <1>4, <1>6, <1>7 DEF Accounted
  <2> QED BY <1>4, <1>5, <2>1, <2>2 DEF IInv, ReloadInv, workerVars
<1>14. DisabledInv'
  BY <1>3, <1>4, <1>5 DEF IInv, DisabledInv
<1>15. TlsBudget'
  BY <1>4, <1>11, BudgetKept
<1> QED BY <1>5, <1>10, <1>12, <1>13, <1>14, <1>15 DEF IInv

-----------------------------------------------------------------------------
LEMMA InitOK == ASSUME Init PROVE IInv
<1>1. PICK sc \in Scenarios :
        /\ stored = sc.boot /\ operator = sc.operator /\ reloads = sc.reloads
        /\ flaky = sc.flaky /\ clockSane = sc.clockSane
  BY DEF Init
<1>2. /\ stored \in [Slots -> Configs] /\ operator \in [Slots -> SUBSET Configs]
      /\ reloads \in Nat /\ flaky \subseteq Slots /\ clockSane \in BOOLEAN
  BY <1>1, ScenarioAssumption
<1>3. PICK ok \in SUBSET Slots :
        /\ state = [s \in Slots |-> IF Enabled(stored[s]) /\ ~Granted(s, ok)
                                    THEN "HeldBudget" ELSE "Down"]
        /\ client = [s \in Slots |-> IF s \in BootClients(ok) /\ Granted(s, ok)
                                     THEN "idle" ELSE "none"]
  BY DEF Init
<1>4. /\ config = stored /\ queue = <<>> /\ refused = {} /\ converted = FALSE
      /\ penalty = [s \in Slots |-> 0] /\ streak = [s \in Slots |-> 0]
      /\ windowOpen = [s \in Slots |-> FALSE] /\ backoffOver = [s \in Slots |-> FALSE]
      /\ held = [s \in Slots |-> "no"] /\ cooling = kNoSlot
      /\ reconciling = [s \in Slots |-> FALSE] /\ knownUp = [s \in Slots |-> FALSE]
      /\ epoch = [s \in Slots |-> 0]
      /\ pc = "wait" /\ slot = 0 /\ tls_live = 0 /\ candidates = {} /\ starting = {}
  BY DEF Init
<1>5. BrokersType
  <2>1. 0 \in 0..TerminalPenalty /\ 0 \in 0..(SuccessBar - 1)
    BY Constants
  <2> QED BY <1>3, <1>4, <2>1 DEF BrokersType, BrokerStates
<1>6. OthersType
  <2>1. queue \in Seq(Slots) /\ Len(queue) <= QueueDepth
    BY <1>4, Constants
  <2>2. 0 \in 0..Cardinality(Slots)
    BY Constants
  <2> QED BY <1>2, <1>4, <2>1, <2>2, Constants DEF OthersType
<1>7. TypeOK
  BY <1>5, <1>6, TypeParts
<1>8. ASSUME NEW s \in Slots PROVE BrokerOK(Broker(s))
  <2>1. Broker(s) \in BrokerType
    BY <1>5, BrokersRecord
  <2>2. Broker(s).state \notin {"Up", "Failed"}
    BY <1>3 DEF Broker
  <2> QED BY <2>1, <2>2 DEF BrokerOK
<1>9. StartingInv
  BY <1>4 DEF StartingInv
<1>10. ReloadInv
  BY <1>4 DEF ReloadInv, Accounted
<1>11. DisabledInv
  BY <1>3, <1>4 DEF DisabledInv, BootClients
<1>12. TlsBudget
  <2> DEFINE B == {t \in BootClients(ok) : isTlsTransport(stored[t])}
             S == {s \in B : Cardinality({t \in B : t < s}) < MaxLiveTls}
  <2>1. B \in SUBSET Slots
    BY DEF BootClients
  <2>2. Cardinality(S) <= MaxLiveTls /\ S \subseteq Slots
    <3> HIDE DEF B
    <3> QED BY <2>1, Constants, FirstComers
  <2>3. ASSUME NEW s \in tlsClientsAllocated PROVE s \in S
    <3>1. s \in Slots /\ isTlsTransport(stored[s]) /\ client[s] # "none"
      BY <1>4 DEF tlsClientsAllocated, Tls, hasClient
    <3>2. s \in B /\ HasBudget(s, ok)
      BY <1>3, <3>1 DEF Granted
    <3>3. {t \in B : t < s} = {t \in BootClients(ok) : t < s /\ isTlsTransport(stored[t])}
      OBVIOUS
    <3> QED BY <3>2, <3>3 DEF HasBudget
  <2> HIDE DEF S
  <2>4. tlsClientsAllocated \subseteq S /\ IsFiniteSet(S)
    BY <2>2, <2>3, Constants, FS_Subset
  <2>5. Cardinality(tlsClientsAllocated) <= Cardinality(S) /\ Cardinality(S) \in Nat
        /\ Cardinality(tlsClientsAllocated) \in Nat
    BY <2>4, FS_Subset, FS_CardinalityType
  <2>6. Cardinality(tlsClientsAllocated) <= MaxLiveTls
    BY <2>2, <2>5, Constants
  <2> QED BY <2>6 DEF TlsBudget
<1> QED BY <1>7, <1>8, <1>9, <1>10, <1>11, <1>12 DEF IInv

LEMMA NextOK == ASSUME IInv, [Next]_vars PROVE IInv'
<1>1. CASE workerLoop
  BY <1>1, TakeReloadStep, ChooseVictimStep, ReleaseVictimStep, PassStep, StartStep,
     PromoteStep, PassEndsStep DEF workerLoop
<1>2. CASE CooldownEnds \/ ClockIsSet
  <2>1. /\ UNCHANGED <<brokerVars, config, stored, queue, history, pc, slot, starting>>
        /\ UNCHANGED <<operatorVars, fairVars, workerVars>>
        /\ cooling' \in Slots \cup {kNoSlot} /\ clockSane' \in BOOLEAN
    BY <1>2 DEF CooldownEnds, ClockIsSet, operatorVars, workerVars, IInv, TypeOK
  <2>2. OthersType'
    BY <2>1, TypeParts DEF IInv, OthersType, operatorVars, fairVars, workerVars, history
  <2>3. pc' # "start" => starting = {}
    BY <2>1 DEF IInv, StartingInv
  <2> QED BY <2>1, <2>2, <2>3, QuietStep
<1>3. CASE \E s \in Slots : onConnected(s) \/ onFailure(s) \/ reloadSlot(s) \/ Elapse(s)
  BY <1>3, onConnectedStep, onFailureStep, reloadSlotStep, ElapseStep
<1>4. CASE UNCHANGED vars
  <2>1. /\ UNCHANGED <<brokerVars, config, stored, queue, history, pc, slot, starting>>
        /\ UNCHANGED <<operatorVars, fairVars, workerVars, cooling, clockSane>>
    BY <1>4 DEF vars, operatorVars, workerVars
  <2>2. OthersType'
    BY <2>1, TypeParts DEF IInv, OthersType, operatorVars, fairVars, workerVars, history
  <2>3. pc' # "start" => starting = {}
    BY <2>1 DEF IInv, StartingInv
  <2> QED BY <2>1, <2>2, <2>3, QuietStep
<1> QED BY <1>1, <1>2, <1>3, <1>4 DEF Next

LEMMA Invariance == Spec => []IInv
<1>1. Init => IInv
  BY InitOK
<1>2. IInv /\ [Next]_vars => IInv'
  BY NextOK
<1> QED BY <1>1, <1>2, PTL DEF Spec

\* Penalties, streaks, ranks and the queue stay within their bounds, whatever the
\* worker, the clients' tasks and the operator do.
THEOREM TypeCorrect == Spec => []TypeOK
<1>1. IInv => TypeOK
  BY DEF IInv
<1> QED BY <1>1, Invariance, PTL

\* With any number of TLS brokers and any number of contexts, no more TLS clients exist
\* than there are contexts, until a plaintext slot with a client is made TLS.
THEOREM BudgetRespected == Spec => []TlsBudget
<1>1. IInv => TlsBudget
  BY DEF IInv
<1> QED BY <1>1, Invariance, PTL

\* No broker reads as up without a running client that holds its context.
THEOREM UpIsBacked == Spec => []UpHasClient
<1>1. IInv => UpHasClient
  BY DEF IInv, UpHasClient, BrokerOK, Broker
<1> QED BY <1>1, Invariance, PTL

\* A change the operator made is applied, waits in the queue, was refused, or met a
\* broker that has failed for good; rotation and restarts do not lose it.
THEOREM ReloadKept == Spec => []ReloadApplied
<1>1. IInv => ReloadApplied
  BY DEF IInv, ReloadInv, Accounted, ReloadApplied
<1> QED BY <1>1, Invariance, PTL
=============================================================================
