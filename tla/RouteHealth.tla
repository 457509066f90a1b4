----------------------------- MODULE RouteHealth -----------------------------
(***************************************************************************)
(* internal/routehealth/health.go: the per-route circuit breaker.          *)
(*                                                                         *)
(* A caller takes a lease (Begin) before it sends a request through a      *)
(* route and reports an outcome (Finish) when the exchange has ended.      *)
(* Manager.mu is held for the whole of either call, so each is one step.   *)
(* The hard part is that outcomes arrive in any order, long after the      *)
(* circuit has opened, been retried and closed again: the epoch of a lease *)
(* says whether its outcome still counts, its sequence whether a success   *)
(* may clear a failure.                                                    *)
(***************************************************************************)
EXTENDS Integers

CONSTANTS
  Routes,        \* route identifiers
  Leases,        \* lease objects the callers hold at one time
  NoLease,       \* a lease variable that was never assigned
  Threshold,     \* Config.Threshold
  Base, Maximum, \* Config.Base and Config.Maximum, in clock units
  Jittered,      \* whether Config.Jitter is set
  MaxSequence,   \* bound: leases issued per route
  MaxTime        \* bound: the clock

ASSUME ThresholdAssumption == Threshold \in Nat \ {0}
ASSUME BackoffAssumption ==
  /\ Base \in Nat \ {0} /\ Maximum \in Nat \ {0} /\ Base <= Maximum
  /\ Jittered \in BOOLEAN
ASSUME BoundAssumption == MaxSequence \in Nat /\ MaxTime \in Nat

States == {"healthy", "suspect", "open", "half_open"}
Outcomes == {"neutral", "success", "failure"}

\* outcome is "pending" until the sync.Once of the lease has run.
Lease ==
  [id : Routes, epoch : Nat, sequence : Nat, trial : BOOLEAN,
   outcome : Outcomes \cup {"pending"}]

ASSUME NoLeaseAssumption == NoLease \notin Lease

\* Manager.routes, a variable per field of record; the totals that only Status
\* publishes (Successes, Errors) are left out.
VARIABLES
  state, failures, openUntil, epoch, sequence, lastFailure, openings,
  lease,    \* the lease objects in the hands of callers
  now       \* Config.Now

record == <<state, failures, openUntil, epoch, sequence, lastFailure, openings>>
vars == <<record, lease, now>>

-----------------------------------------------------------------------------
\* Mutant: a record created without its State, as a bare &record{} would be.
UnnamedInit ==
  /\ state = [r \in Routes |-> ""]
  /\ failures = [r \in Routes |-> 0]
  /\ openUntil = [r \in Routes |-> 0]
  /\ epoch = [r \in Routes |-> 0]
  /\ sequence = [r \in Routes |-> 0]
  /\ lastFailure = [r \in Routes |-> 0]
  /\ openings = [r \in Routes |-> 0]
  /\ lease = [l \in Leases |-> NoLease]
  /\ now = 0

\* A record appears, healthy, with the first call that names its route.
Init ==
  /\ state = [r \in Routes |-> "healthy"]
  /\ failures = [r \in Routes |-> 0]
  /\ openUntil = [r \in Routes |-> 0]
  /\ epoch = [r \in Routes |-> 0]
  /\ sequence = [r \in Routes |-> 0]
  /\ lastFailure = [r \in Routes |-> 0]
  /\ openings = [r \in Routes |-> 0]
  /\ lease = [l \in Leases |-> NoLease]
  /\ now = 0

\* l is held by a caller that has not reported yet.
Pending(l) == lease[l] # NoLease /\ lease[l].outcome = "pending"

\* The outcome of l may still move the state of route r.
Counts(l, r) == Pending(l) /\ lease[l].id = r /\ lease[l].epoch = epoch[r]

\* Mutant: the trial in progress is not looked at.
AvailableDuringTrial(r) == state[r] = "open" => now >= openUntil[r]

Available(r) ==
  /\ state[r] # "half_open"
  /\ state[r] = "open" => now >= openUntil[r]

\* The caller's lease object l is new: no one waits on the one it replaces.
Begin(r, l) ==
  /\ ~Pending(l)
  /\ sequence[r] < MaxSequence
  /\ Available(r)
  /\ LET trial == state[r] = "open" IN
     /\ state' = IF trial THEN [state EXCEPT ![r] = "half_open"] ELSE state
     /\ epoch' = IF trial THEN [epoch EXCEPT ![r] = @ + 1] ELSE epoch
     /\ sequence' = [sequence EXCEPT ![r] = @ + 1]
     /\ lease' = [lease EXCEPT ![l] =
          [id |-> r, epoch |-> epoch'[r], sequence |-> sequence'[r],
           trial |-> trial, outcome |-> "pending"]]
  /\ UNCHANGED <<failures, openUntil, lastFailure, openings, now>>

MinOf(a, b) == IF a <= b THEN a ELSE b
MaxOf(a, b) == IF a >= b THEN a ELSE b

\* Base, doubled once per opening after the first, up to Maximum.
Backoff[n \in Nat] ==
  IF n <= 1 THEN Base ELSE MinOf(2 * Backoff[n - 1], Maximum)

\* Config.Jitter may return anything; the clamp keeps it within 1..Maximum.
Delays(n) ==
  IF Jittered THEN 1..Maximum
  ELSE {d \in 1..Maximum : d = MinOf(Backoff[n], Maximum)}

\* Mutant: opening leaves the epoch, and so every earlier lease, in force.
OpenUnfenced(r, n) ==
  /\ state' = [state EXCEPT ![r] = "open"]
  /\ openings' = [openings EXCEPT ![r] = n]
  /\ \E d \in Delays(n) : openUntil' = [openUntil EXCEPT ![r] = now + d]
  /\ UNCHANGED epoch

\* Manager.open; n is openings[r], increased by the caller's wish.
Open(r, n) ==
  /\ state' = [state EXCEPT ![r] = "open"]
  /\ openings' = [openings EXCEPT ![r] = n]
  /\ \E d \in Delays(n) : openUntil' = [openUntil EXCEPT ![r] = now + d]
  /\ epoch' = [epoch EXCEPT ![r] = @ + 1]

Report(l, o) == lease' = [lease EXCEPT ![l].outcome = o]

\* An outcome of an older epoch is dropped.
FinishStale(l, o) ==
  /\ Pending(l)
  /\ lease[l].epoch # epoch[lease[l].id]
  /\ Report(l, o)
  /\ UNCHANGED <<record, now>>

Recover(r) ==
  /\ state' = [state EXCEPT ![r] = "healthy"]
  /\ failures' = [failures EXCEPT ![r] = 0]
  /\ openings' = [openings EXCEPT ![r] = 0]
  /\ openUntil' = [openUntil EXCEPT ![r] = 0]
  /\ UNCHANGED <<epoch, sequence, lastFailure>>

\* Mutant: any success of the epoch clears the failures.
FinishSuccessUnordered(r, l) ==
  /\ Counts(l, r)
  /\ Recover(r)
  /\ Report(l, "success")
  /\ UNCHANGED now

\* A response older than the newest failure clears nothing.
FinishSuccess(r, l) ==
  /\ Counts(l, r)
  /\ \/ lease[l].sequence < lastFailure[r] /\ UNCHANGED record
     \/ lease[l].sequence >= lastFailure[r] /\ Recover(r)
  /\ Report(l, "success")
  /\ UNCHANGED now

FinishFailure(r, l) ==
  /\ Counts(l, r)
  /\ failures' = [failures EXCEPT ![r] = @ + 1]
  /\ lastFailure' = [lastFailure EXCEPT ![r] = MaxOf(@, lease[l].sequence)]
  /\ \/ /\ lease[l].trial \/ failures[r] + 1 >= Threshold
        /\ Open(r, openings[r] + 1)
     \/ /\ ~lease[l].trial /\ failures[r] + 1 < Threshold
        /\ state' = [state EXCEPT ![r] = "suspect"]
        /\ UNCHANGED <<openUntil, epoch, openings>>
  /\ Report(l, "failure")
  /\ UNCHANGED <<sequence, now>>

\* Mutant: a cancelled trial says nothing either.
FinishNeutralIgnored(r, l) ==
  /\ Counts(l, r)
  /\ Report(l, "neutral")
  /\ UNCHANGED <<record, now>>

\* Cancellation: an ordinary lease says nothing, a trial reopens the circuit.
FinishNeutral(r, l) ==
  /\ Counts(l, r)
  /\ \/ /\ lease[l].trial
        /\ Open(r, openings[r])
        /\ UNCHANGED <<failures, sequence, lastFailure>>
     \/ ~lease[l].trial /\ UNCHANGED record
  /\ Report(l, "neutral")
  /\ UNCHANGED now

Finish(l) ==
  \/ \E o \in Outcomes : FinishStale(l, o)
  \/ \E r \in Routes :
       FinishSuccess(r, l) \/ FinishFailure(r, l) \/ FinishNeutral(r, l)

Tick ==
  /\ now < MaxTime
  /\ now' = now + 1
  /\ UNCHANGED <<record, lease>>

Next ==
  \/ \E r \in Routes, l \in Leases : Begin(r, l)
  \/ \E l \in Leases : Finish(l)
  \/ Tick

Spec == Init /\ [][Next]_vars

\* Every caller defers Finish to the end of its response body, and a body ends:
\* by EOF, by Close or by an idle timer.  Nobody has to send a request.
FairSpec == Spec /\ \A l \in Leases : WF_vars(Finish(l))

-----------------------------------------------------------------------------
(* Properties *)

\* The variables have the types of the Go declarations.
TypeOK ==
  /\ state \in [Routes -> States]
  /\ failures \in [Routes -> Nat]
  /\ openUntil \in [Routes -> Nat]
  /\ epoch \in [Routes -> Nat]
  /\ sequence \in [Routes -> Nat]
  /\ lastFailure \in [Routes -> Nat]
  /\ openings \in [Routes -> Nat]
  /\ lease \in [Leases -> Lease \cup {NoLease}]
  /\ now \in Nat

\* "A lease fences late responses and permits exactly one half-open trial":
\* while a route is half open exactly one request counts and it is the trial,
\* while it is open none does, otherwise none that counts is a trial.
SingleTrial ==
  \A r \in Routes :
    /\ state[r] = "half_open" =>
         \E l \in Leases :
           /\ Counts(l, r) /\ lease[l].trial
           /\ \A k \in Leases : Counts(k, r) => k = l
    /\ state[r] = "open" => \A l \in Leases : ~Counts(l, r)
    /\ state[r] \in {"healthy", "suspect"} =>
         \A l \in Leases : Counts(l, r) => ~lease[l].trial

\* Until its back-off has passed an open circuit does not move at all, however
\* many answers to earlier requests arrive.
BackoffHonoured ==
  [][\A r \in Routes :
       state[r] = "open" /\ now < openUntil[r]
         => state'[r] = "open" /\ openUntil'[r] = openUntil[r]]_vars

\* "A response started before a newer failure cannot erase that failure": the
\* lease whose success clears the failures is newer than every lease that
\* reported a failure in the same epoch.
NewerFailureStands ==
  [][\A r \in Routes, l, k \in Leases :
       /\ Counts(l, r) /\ lease'[l].outcome = "success"
       /\ failures[r] > 0 /\ failures'[r] = 0
       /\ lease[k] # NoLease /\ lease[k].id = r
       /\ lease[k].epoch = epoch[r] /\ lease[k].outcome = "failure"
       => lease[k].sequence < lease[l].sequence]_vars

\* README.hardened.md: the result of an old request cannot override a newer
\* health state.  Read for both outcomes: an older lease moves no route that a
\* newer lease of the same epoch has already reported healthy.
OldResultKeepsNewerHealth ==
  [][\A r \in Routes, l, k \in Leases :
       /\ Counts(l, r) /\ lease'[l].outcome # "pending"
       /\ state[r] = "healthy"
       /\ lease[k] # NoLease /\ lease[k].id = r
       /\ lease[k].epoch = epoch[r] /\ lease[k].outcome = "success"
       /\ lease[k].sequence > lease[l].sequence
       => state'[r] = "healthy"]_vars

\* A half-open route is decided: its trial reports, or is cancelled, and the
\* route closes or opens again.
TrialResolves ==
  \A r \in Routes :
    state[r] = "half_open" ~> state[r] # "half_open"

-----------------------------------------------------------------------------
(* Refinement of the abstract gate *)

Phase(s) == CASE s = "open" -> "open"
              [] s = "half_open" -> "trial"
              [] OTHER -> "closed"

phaseBar == [r \in Routes |-> Phase(state[r])]
liveBar == [r \in Routes |-> {l \in Leases : Counts(l, r)}]

Gate == INSTANCE CircuitGate WITH phase <- phaseBar, live <- liveBar

\* Epoch numbers implement the abstract set of live requests.
ImplementsGate == Gate!Spec
=============================================================================
