---------------------------- MODULE MCBrokerPool ----------------------------
(***************************************************************************)
(* Configurations of BrokerPool for TLC.                                   *)
(***************************************************************************)
EXTENDS BrokerPool

Nobody == [s \in Slots |-> {}]

First(a, b) == [s \in Slots |-> CASE s = 0 -> a [] s = 1 -> b [] OTHER -> "unset"]

\* Three TLS brokers, one of them unreliable, compete for one context.
Rotation == [boot |-> [s \in Slots |-> "tls"], operator |-> Nobody, reloads |-> 0,
             flaky |-> {0}, clockSane |-> TRUE]

\* The operator makes two changes to a TLS broker and a plaintext one, which work.
Reconfigure ==
  [boot |-> First("tls", "tcp"),
   operator |-> [s \in Slots |-> CASE s = 0 -> {"tls", "unset"}
                                   [] s = 1 -> {"tls", "tls_off"} [] OTHER -> {}],
   reloads |-> 2, flaky |-> {}, clockSane |-> TRUE]

\* The TLS broker fails, for good in the end; the operator makes one change.
Repair == [Reconfigure EXCEPT !.reloads = 1, !.flaky = {0}]

\* The clock is not set yet.
NoClock == [boot |-> First("tls", "tcp"), operator |-> Nobody, reloads |-> 0,
            flaky |-> {0}, clockSane |-> FALSE]

AllScenarios == {Rotation, Reconfigure, Repair, NoClock}
ClockOnly == {NoClock}
=============================================================================
