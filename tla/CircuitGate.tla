----------------------------- MODULE CircuitGate -----------------------------
(***************************************************************************)
(* What a circuit breaker promises its callers, with no clock, counter,    *)
(* epoch or sequence number in sight.  Every route has a phase and a set   *)
(* of live requests: the requests whose outcome may still move the phase.  *)
(* A request that is not live is fenced: whatever it reports is ignored.   *)
(* RouteHealth is shown to implement this module.                          *)
(***************************************************************************)
CONSTANTS Routes, Leases

VARIABLES phase,   \* phase[r]: "closed", "open" or "trial"
          live     \* live[r]: the requests on route r that still count

gateVars == <<phase, live>>

Init ==
  /\ phase = [r \in Routes |-> "closed"]
  /\ live = [r \in Routes |-> {}]

\* An ordinary request enters a closed circuit.
Admit(r, l) ==
  /\ phase[r] = "closed"
  /\ \A q \in Routes : l \notin live[q]
  /\ live' = [live EXCEPT ![r] = @ \cup {l}]
  /\ UNCHANGED phase

\* One request is let through an open circuit, and it is the only one live.
Probe(r, l) ==
  /\ phase[r] = "open"
  /\ \A q \in Routes : l \notin live[q]
  /\ phase' = [phase EXCEPT ![r] = "trial"]
  /\ live' = [live EXCEPT ![r] = {l}]

\* A live request reports and the circuit stays closed, or closes.
Settle(r, l) ==
  /\ l \in live[r]
  /\ phase' = [phase EXCEPT ![r] = "closed"]
  /\ live' = [live EXCEPT ![r] = @ \ {l}]

\* A live request opens the circuit and fences every other one.
Trip(r, l) ==
  /\ l \in live[r]
  /\ phase' = [phase EXCEPT ![r] = "open"]
  /\ live' = [live EXCEPT ![r] = {}]

Next == \E r \in Routes, l \in Leases :
  Admit(r, l) \/ Probe(r, l) \/ Settle(r, l) \/ Trip(r, l)

Spec == Init /\ [][Next]_gateVars
=============================================================================
