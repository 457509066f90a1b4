-------------------------- MODULE RouteHealthProofs --------------------------
(***************************************************************************)
(* The circuit breaker of RouteHealth, for any number of routes, callers,  *)
(* failures and any back-off: types, the single trial, the back-off, the   *)
(* order of results, and the refinement of CircuitGate.                    *)
(***************************************************************************)
EXTENDS RouteHealth, TLAPS

\* No lease is ahead of its route, and two leases of a route differ in age.
LeasesOrdered ==
  \A l \in Leases : lease[l] # NoLease =>
    /\ lease[l].epoch <= epoch[lease[l].id]
    /\ lease[l].sequence <= sequence[lease[l].id]
    /\ \A k \in Leases \ {l} :
         lease[k] # NoLease /\ lease[k].id = lease[l].id
           => lease[k].sequence # lease[l].sequence

\* lastFailure is the newest failure of the epoch, and a trial is newer still:
\* the sequence test of Finish can never leave a route half open.
FailuresOrdered ==
  /\ \A r \in Routes : lastFailure[r] <= sequence[r]
  /\ \A l \in Leases : lease[l] # NoLease =>
       /\ lease[l].outcome = "failure" /\ lease[l].epoch = epoch[lease[l].id]
            => lease[l].sequence <= lastFailure[lease[l].id]
       /\ Counts(l, lease[l].id) /\ lease[l].trial
            => lease[l].sequence > lastFailure[lease[l].id]

IInv == TypeOK /\ SingleTrial /\ LeasesOrdered /\ FailuresOrdered

-----------------------------------------------------------------------------
(* Types *)

\* Whatever the jitter, a delay is between the 1 ms floor and Maximum.
LEMMA DelaysType ==
  ASSUME NEW n, NEW d \in Delays(n) PROVE d \in Nat /\ 1 <= d /\ d <= Maximum
BY BackoffAssumption DEF Delays

\* A lease in someone's hands is a Lease, and its route is a route.
LEMMA LeaseType ==
  ASSUME TypeOK, NEW l \in Leases, lease[l] # NoLease
  PROVE  /\ lease[l] \in Lease
         /\ lease[l].id \in Routes
         /\ lease[l].epoch \in Nat
         /\ lease[l].sequence \in Nat
         /\ lease[l].trial \in BOOLEAN
BY DEF TypeOK, Lease

\* Reporting changes the outcome of one lease and nothing else about it.
LEMMA ReportEffect ==
  ASSUME TypeOK, NEW l \in Leases, Pending(l), NEW o \in Outcomes, Report(l, o)
  PROVE  /\ lease' \in [Leases -> Lease \cup {NoLease}]
         /\ lease'[l] # NoLease
         /\ lease'[l].id = lease[l].id
         /\ lease'[l].epoch = lease[l].epoch
         /\ lease'[l].sequence = lease[l].sequence
         /\ lease'[l].trial = lease[l].trial
         /\ lease'[l].outcome = o
         /\ \A k \in Leases \ {l} : lease'[k] = lease[k]
<1>1. lease[l] \in Lease
  BY LeaseType DEF Pending
<1>2. [lease[l] EXCEPT !.outcome = o] \in Lease
  BY <1>1 DEF Lease
<1>3. lease' = [lease EXCEPT ![l] = [lease[l] EXCEPT !.outcome = o]]
  BY DEF Report
<1> QED BY <1>1, <1>2, <1>3, NoLeaseAssumption DEF TypeOK, Lease

\* Opening a route keeps the types.
LEMMA OpenType ==
  ASSUME TypeOK, NEW r \in Routes, NEW n \in Nat, Open(r, n)
  PROVE  /\ state' \in [Routes -> States]
         /\ openUntil' \in [Routes -> Nat]
         /\ epoch' \in [Routes -> Nat]
         /\ openings' \in [Routes -> Nat]
<1>1. \A d \in Delays(n) : now + d \in Nat
  BY DelaysType DEF TypeOK
<1>2. openUntil' \in [Routes -> Nat]
  BY <1>1 DEF Open, TypeOK
<1> QED BY <1>2 DEF Open, TypeOK, States

\* The types hold initially and every action keeps them.
LEMMA TypeInit == Init => TypeOK
BY DEF Init, TypeOK, States

LEMMA TypeStep == TypeOK /\ [Next]_vars => TypeOK'
<1> SUFFICES ASSUME TypeOK, [Next]_vars PROVE TypeOK'
  OBVIOUS
<1>1. ASSUME NEW r \in Routes, NEW l \in Leases, Begin(r, l) PROVE TypeOK'
  <2>1. /\ state' \in [Routes -> States]
        /\ epoch' \in [Routes -> Nat]
        /\ sequence' \in [Routes -> Nat]
    BY <1>1 DEF Begin, TypeOK, States
  <2>2. lease' \in [Leases -> Lease \cup {NoLease}]
    BY <1>1, <2>1 DEF Begin, TypeOK, Lease
  <2> QED BY <1>1, <2>1, <2>2 DEF Begin, TypeOK
<1>2. ASSUME NEW l \in Leases, NEW o \in Outcomes, FinishStale(l, o) PROVE TypeOK'
  BY <1>2, ReportEffect DEF FinishStale, TypeOK, record
<1>3. ASSUME NEW r \in Routes, NEW l \in Leases, FinishSuccess(r, l) PROVE TypeOK'
  <2>1. lease' \in [Leases -> Lease \cup {NoLease}]
    BY <1>3, ReportEffect DEF FinishSuccess, Counts, Outcomes
  <2> QED BY <1>3, <2>1 DEF FinishSuccess, Recover, TypeOK, record, States
<1>4. ASSUME NEW r \in Routes, NEW l \in Leases, FinishFailure(r, l) PROVE TypeOK'
  <2>1. lease' \in [Leases -> Lease \cup {NoLease}]
    BY <1>4, ReportEffect DEF FinishFailure, Counts, Outcomes
  <2>2. failures' \in [Routes -> Nat] /\ lastFailure' \in [Routes -> Nat]
    BY <1>4, LeaseType DEF FinishFailure, Counts, Pending, TypeOK, MaxOf
  <2>3. CASE Open(r, openings[r] + 1)
    <3>1. openings[r] + 1 \in Nat
      BY DEF TypeOK
    <3> QED BY <1>4, <2>1, <2>2, <2>3, <3>1, OpenType DEF FinishFailure, TypeOK
  <2>4. CASE /\ state' = [state EXCEPT ![r] = "suspect"]
             /\ UNCHANGED <<openUntil, epoch, openings>>
    BY <1>4, <2>1, <2>2, <2>4 DEF FinishFailure, TypeOK, States
  <2> QED BY <1>4, <2>3, <2>4 DEF FinishFailure
<1>5. ASSUME NEW r \in Routes, NEW l \in Leases, FinishNeutral(r, l) PROVE TypeOK'
  <2>1. lease' \in [Leases -> Lease \cup {NoLease}]
    BY <1>5, ReportEffect DEF FinishNeutral, Counts, Outcomes
  <2>2. CASE Open(r, openings[r]) /\ UNCHANGED <<failures, sequence, lastFailure>>
    <3>1. openings[r] \in Nat
      BY DEF TypeOK
    <3> QED BY <1>5, <2>1, <2>2, <3>1, OpenType DEF FinishNeutral, TypeOK
  <2>3. CASE UNCHANGED record
    BY <1>5, <2>1, <2>3 DEF FinishNeutral, TypeOK, record
  <2> QED BY <1>5, <2>2, <2>3 DEF FinishNeutral
<1>6. CASE Tick
  BY <1>6 DEF Tick, TypeOK, record
<1>7. CASE UNCHANGED vars
  BY <1>7 DEF vars, record, TypeOK
<1> QED BY <1>1, <1>2, <1>3, <1>4, <1>5, <1>6, <1>7 DEF Next, Finish

\* Every variable keeps the type of its Go declaration.
THEOREM TypeCorrect == Spec => []TypeOK
BY TypeInit, TypeStep, PTL DEF Spec

-----------------------------------------------------------------------------
(* The inductive invariant *)

LEMMA IInvInit == Init => IInv
<1> SUFFICES ASSUME Init PROVE IInv
  OBVIOUS
<1>1. TypeOK
  BY TypeInit
<1> QED BY <1>1 DEF Init, IInv, SingleTrial, LeasesOrdered, FailuresOrdered, Counts, Pending

\* A new lease is the youngest of its route; if it is a trial, the epoch it
\* opens holds no other lease.
LEMMA BeginStep ==
  ASSUME IInv, TypeOK', NEW r \in Routes, NEW l \in Leases, Begin(r, l)
  PROVE  IInv'
<1> USE DEF IInv
<1>1. /\ lease'[l] # NoLease
      /\ lease'[l].id = r
      /\ lease'[l].epoch = epoch'[r]
      /\ lease'[l].sequence = sequence[r] + 1
      /\ lease'[l].trial = (state[r] = "open")
      /\ lease'[l].outcome = "pending"
      /\ \A k \in Leases \ {l} : lease'[k] = lease[k]
  <2> DEFINE new == [id |-> r, epoch |-> epoch'[r], sequence |-> sequence'[r],
                     trial |-> state[r] = "open", outcome |-> "pending"]
  <2>1. sequence'[r] = sequence[r] + 1 /\ epoch'[r] \in Nat /\ sequence'[r] \in Nat
    BY DEF Begin, TypeOK
  <2>2. new \in Lease
    BY <2>1 DEF Lease
  <2>3. lease' = [lease EXCEPT ![l] = new] /\ lease \in [Leases -> Lease \cup {NoLease}]
    BY DEF Begin, TypeOK
  <2> QED BY <2>1, <2>2, <2>3, NoLeaseAssumption
<1>2. /\ sequence' = [sequence EXCEPT ![r] = @ + 1]
      /\ sequence \in [Routes -> Nat] /\ epoch \in [Routes -> Nat]
      /\ lastFailure \in [Routes -> Nat]
      /\ lastFailure' = lastFailure
      /\ \A q \in Routes \ {r} : epoch'[q] = epoch[q] /\ state'[q] = state[q]
      /\ epoch'[r] = IF state[r] = "open" THEN epoch[r] + 1 ELSE epoch[r]
      /\ state'[r] = IF state[r] = "open" THEN "half_open" ELSE state[r]
      /\ state[r] # "half_open"
  BY DEF Begin, TypeOK, Available
<1>3. \A k \in Leases : lease[k] # NoLease =>
        lease[k].id \in Routes /\ lease[k].sequence \in Nat /\ lease[k].epoch \in Nat
  BY LeaseType
<1>4. LeasesOrdered'
  BY <1>1, <1>2, <1>3 DEF LeasesOrdered
<1>5. SingleTrial'
  <2> SUFFICES ASSUME NEW q \in Routes
               PROVE  /\ state'[q] = "half_open" =>
                           \E j \in Leases :
                             /\ Counts(j, q)' /\ lease'[j].trial
                             /\ \A k \in Leases : Counts(k, q)' => k = j
                      /\ state'[q] = "open" => \A j \in Leases : ~Counts(j, q)'
                      /\ state'[q] \in {"healthy", "suspect"} =>
                           \A j \in Leases : Counts(j, q)' => ~lease'[j].trial
    BY DEF SingleTrial
  <2>1. CASE q # r
    <3>1. \A k \in Leases : Counts(k, q)' <=> Counts(k, q)
      BY <1>1, <1>2, <2>1 DEF Counts, Pending, Begin
    <3>2. \A k \in Leases : Counts(k, q) => k # l
      BY DEF Counts, Begin
    <3> QED BY <1>1, <1>2, <2>1, <3>1, <3>2 DEF SingleTrial
  <2>2. CASE q = r /\ state[r] = "open"
    <3>1. \A k \in Leases \ {l} : ~Counts(k, r)'
      BY <1>1, <1>2, <1>3, <2>2 DEF Counts, Pending, LeasesOrdered
    <3>2. Counts(l, r)' /\ lease'[l].trial
      BY <1>1, <2>2 DEF Counts, Pending
    <3> QED BY <1>2, <2>2, <3>1, <3>2
  <2>3. CASE q = r /\ state[r] # "open"
    <3>1. \A k \in Leases \ {l} : Counts(k, r)' <=> Counts(k, r)
      BY <1>1, <1>2, <2>3 DEF Counts, Pending
    <3> QED BY <1>1, <1>2, <2>3, <3>1 DEF SingleTrial, TypeOK, States
  <2> QED BY <2>1, <2>2, <2>3
<1>6. FailuresOrdered'
  <2>1. \A q \in Routes : lastFailure'[q] <= sequence'[q]
    BY <1>2 DEF FailuresOrdered
  <2>2. ASSUME NEW k \in Leases \ {l}, lease'[k] # NoLease
        PROVE  /\ /\ lease'[k].outcome = "failure"
                  /\ lease'[k].epoch = epoch'[lease'[k].id]
                  => lease'[k].sequence <= lastFailure'[lease'[k].id]
               /\ (Counts(k, lease[k].id))' /\ lease'[k].trial
                  => lease'[k].sequence > lastFailure'[lease'[k].id]
    BY <1>1, <1>2, <1>3, <2>2 DEF FailuresOrdered, LeasesOrdered, Counts, Pending
  <2>3. lease'[l].sequence > lastFailure'[lease'[l].id]
    BY <1>1, <1>2 DEF FailuresOrdered
  <2> QED BY <1>1, <2>1, <2>2, <2>3 DEF FailuresOrdered
<1> QED BY <1>4, <1>5, <1>6

\* A report takes its lease out of the count; an epoch that stays put keeps the
\* others in it, and an epoch that moves keeps none.
LEMMA ReportCounts ==
  ASSUME TypeOK, LeasesOrdered, NEW l \in Leases, Pending(l), NEW o \in Outcomes,
         Report(l, o)
  PROVE  /\ \A q \in Routes : ~Counts(l, q)'
         /\ \A q \in Routes : epoch'[q] = epoch[q] =>
              \A k \in Leases \ {l} : Counts(k, q)' <=> Counts(k, q)
         /\ \A q \in Routes : epoch'[q] = epoch[q] + 1 =>
              \A k \in Leases : ~Counts(k, q)'
         /\ \A k \in Leases : lease'[k] # NoLease <=> lease[k] # NoLease
         /\ \A k \in Leases : lease[k] # NoLease =>
              /\ lease'[k].id = lease[k].id
              /\ lease'[k].epoch = lease[k].epoch
              /\ lease'[k].sequence = lease[k].sequence
              /\ lease'[k].trial = lease[k].trial
<1>1. \A k \in Leases : lease[k] # NoLease =>
        lease[k].epoch \in Nat /\ lease[k].id \in Routes
  BY LeaseType
<1>2. o # "pending"
  BY DEF Outcomes
<1>3. \A q \in Routes : epoch[q] \in Nat
  BY DEF TypeOK
<1> QED BY <1>1, <1>2, <1>3, ReportEffect DEF Counts, Pending, LeasesOrdered

\* Nothing a report does disturbs the order of leases: epochs only grow.
LEMMA ReportOrder ==
  ASSUME IInv, NEW l \in Leases, Pending(l), NEW o \in Outcomes, Report(l, o),
         sequence' = sequence,
         \A q \in Routes : epoch'[q] = epoch[q] \/ epoch'[q] = epoch[q] + 1
  PROVE  LeasesOrdered'
<1>1. \A k \in Leases : lease[k] # NoLease =>
        lease[k].epoch \in Nat /\ lease[k].id \in Routes
  BY LeaseType DEF IInv
<1>2. \A q \in Routes : epoch[q] \in Nat
  BY DEF IInv, TypeOK
<1> QED BY <1>1, <1>2, ReportCounts DEF LeasesOrdered, IInv

LEMMA FinishStaleStep ==
  ASSUME IInv, TypeOK', NEW l \in Leases, NEW o \in Outcomes, FinishStale(l, o)
  PROVE  IInv'
<1> USE DEF IInv
<1>0. /\ Pending(l) /\ Report(l, o) /\ lease[l].epoch # epoch[lease[l].id]
      /\ state' = state /\ epoch' = epoch /\ sequence' = sequence
      /\ lastFailure' = lastFailure
  BY DEF FinishStale, record
<1>1. \A k \in Leases, q \in Routes : Counts(k, q)' <=> Counts(k, q)
  BY <1>0, ReportCounts DEF Counts
<1>2. LeasesOrdered'
  BY <1>0, ReportOrder
<1>3. SingleTrial'
  BY <1>0, <1>1, ReportCounts DEF SingleTrial, Counts, Pending
<1>4. FailuresOrdered'
  BY <1>0, <1>1, ReportCounts, ReportEffect, LeaseType DEF FailuresOrdered
<1> QED BY <1>2, <1>3, <1>4

LEMMA FinishSuccessStep ==
  ASSUME IInv, TypeOK', NEW r \in Routes, NEW l \in Leases, FinishSuccess(r, l)
  PROVE  IInv'
<1> USE DEF IInv
<1>0. /\ Pending(l) /\ Counts(l, r) /\ Report(l, "success") /\ "success" \in Outcomes
      /\ epoch' = epoch /\ sequence' = sequence /\ lastFailure' = lastFailure
      /\ \/ state' = state /\ lease[l].sequence < lastFailure[r]
         \/ state' = [state EXCEPT ![r] = "healthy"]
  BY DEF FinishSuccess, Recover, record, Counts, Outcomes
<1>1. /\ \A q \in Routes : ~Counts(l, q)'
      /\ \A q \in Routes, k \in Leases \ {l} : Counts(k, q)' <=> Counts(k, q)
  BY <1>0, ReportCounts
<1>2. LeasesOrdered'
  BY <1>0, ReportOrder
<1>3. SingleTrial'
  <2>1. state[r] = "half_open" => lease[l].trial /\ lease[l].sequence > lastFailure[r]
    <3>1. lease[l] # NoLease /\ lease[l].id = r
      BY <1>0 DEF Counts, Pending
    <3>2. state[r] = "half_open" => lease[l].trial
      BY <1>0 DEF SingleTrial
    <3> QED BY <1>0, <3>1, <3>2 DEF FailuresOrdered
  <2>2. lease[l].sequence \in Nat /\ lastFailure[r] \in Nat
    BY <1>0, LeaseType DEF Pending, TypeOK
  <2>3. state'[r] \in {"healthy", "suspect"}
    BY <1>0, <2>1, <2>2 DEF SingleTrial, TypeOK, States
  <2>4. \A k \in Leases \ {l} : Counts(k, r) => ~lease[k].trial
    BY <1>0 DEF SingleTrial, TypeOK, States
  <2>5. \A k \in Leases \ {l} : lease'[k] = lease[k]
    BY <1>0, ReportEffect
  <2>6. \A q \in Routes \ {r} : state'[q] = state[q] /\ ~Counts(l, q)
    BY <1>0 DEF TypeOK, Counts
  <2> QED BY <1>1, <2>3, <2>4, <2>5, <2>6 DEF SingleTrial
<1>4. FailuresOrdered'
  BY <1>0, <1>1, ReportCounts, ReportEffect, LeaseType DEF FailuresOrdered
<1> QED BY <1>2, <1>3, <1>4

\* The step shared by a tripped route and a cancelled trial.
LEMMA OpenStep ==
  ASSUME IInv, TypeOK', NEW r \in Routes, NEW l \in Leases, Counts(l, r),
         NEW o \in Outcomes, Report(l, o), NEW n \in Nat, Open(r, n),
         sequence' = sequence,
         \A q \in Routes \ {r} : lastFailure'[q] = lastFailure[q],
         lastFailure'[r] \in {lastFailure[r], MaxOf(lastFailure[r], lease[l].sequence)}
  PROVE  IInv'
<1> USE DEF IInv
<1>0. /\ Pending(l) /\ lease[l].id = r
      /\ \A q \in Routes \ {r} : epoch'[q] = epoch[q] /\ state'[q] = state[q]
      /\ epoch'[r] = epoch[r] + 1 /\ state'[r] = "open"
  BY DEF Counts, Open, TypeOK
<1>1. LeasesOrdered'
  BY <1>0, ReportOrder
<1>2. SingleTrial'
  <2>1. \A k \in Leases : ~Counts(k, r)'
    BY <1>0, ReportCounts
  <2>2. \A q \in Routes \ {r}, k \in Leases : Counts(k, q)' <=> Counts(k, q)
    BY <1>0, ReportCounts DEF Counts
  <2>3. \A k \in Leases : lease[k] # NoLease => lease'[k].trial = lease[k].trial
    BY <1>0, ReportCounts
  <2> QED BY <1>0, <2>1, <2>2, <2>3 DEF SingleTrial, Counts, Pending
<1>3. FailuresOrdered'
  <2>1. \A k \in Leases : lease[k] # NoLease =>
          lease[k].id \in Routes /\ lease[k].epoch \in Nat /\ lease[k].sequence \in Nat
    BY LeaseType
  <2>2. \A q \in Routes : lastFailure'[q] <= sequence'[q]
    BY <1>0, <2>1 DEF FailuresOrdered, LeasesOrdered, MaxOf, TypeOK, Pending
  <2>3. ASSUME NEW k \in Leases, lease'[k] # NoLease, lease[k].id = r
        PROVE  lease'[k].epoch # epoch'[lease'[k].id]
    BY <1>0, <2>1, <2>3, ReportCounts DEF LeasesOrdered, TypeOK
  <2>4. \A k \in Leases \ {l} : lease'[k] = lease[k]
    BY <1>0, ReportEffect
  <2> QED BY <1>0, <2>1, <2>2, <2>3, <2>4, ReportCounts DEF FailuresOrdered, Counts, Pending
<1> QED BY <1>1, <1>2, <1>3

LEMMA FinishFailureStep ==
  ASSUME IInv, TypeOK', NEW r \in Routes, NEW l \in Leases, FinishFailure(r, l)
  PROVE  IInv'
<1> USE DEF IInv
<1>0. /\ Counts(l, r) /\ Pending(l) /\ lease[l].id = r
      /\ Report(l, "failure") /\ "failure" \in Outcomes
      /\ sequence' = sequence
      /\ lastFailure'[r] = MaxOf(lastFailure[r], lease[l].sequence)
      /\ \A q \in Routes \ {r} : lastFailure'[q] = lastFailure[q]
  BY DEF FinishFailure, Counts, Outcomes, TypeOK
<1>1. CASE Open(r, openings[r] + 1)
  <2>1. openings[r] + 1 \in Nat
    BY DEF TypeOK
  <2> QED BY <1>0, <1>1, <2>1, OpenStep
<1>2. CASE /\ ~lease[l].trial
           /\ state' = [state EXCEPT ![r] = "suspect"]
           /\ UNCHANGED <<openUntil, epoch, openings>>
  <2>1. LeasesOrdered'
    BY <1>0, <1>2, ReportOrder
  <2>2. /\ \A q \in Routes : ~Counts(l, q)'
        /\ \A q \in Routes, k \in Leases \ {l} : Counts(k, q)' <=> Counts(k, q)
    <3>1. \A q \in Routes : epoch'[q] = epoch[q]
      BY <1>2
    <3> QED BY <1>0, <3>1, ReportCounts
  <2>3. \A k \in Leases \ {l} : lease'[k] = lease[k]
    BY <1>0, ReportEffect
  <2>4. /\ state'[r] = "suspect"
        /\ \A q \in Routes \ {r} : state'[q] = state[q] /\ ~Counts(l, q)
    <3>1. \A q \in Routes \ {r} : ~Counts(l, q)
      BY <1>0 DEF Counts
    <3> QED BY <1>2, <3>1 DEF TypeOK
  <2>5. \A k \in Leases : Counts(k, r) => ~lease[k].trial
    BY <1>0, <1>2 DEF SingleTrial, TypeOK, States
  <2>6. SingleTrial'
    BY <2>2, <2>3, <2>4, <2>5 DEF SingleTrial
  <2>7. FailuresOrdered'
    <3>1. \A k \in Leases : lease[k] # NoLease =>
            lease[k].id \in Routes /\ lease[k].sequence \in Nat
      BY LeaseType
    <3>2. lastFailure'[r] >= lastFailure[r] /\ lastFailure'[r] >= lease[l].sequence
          /\ lastFailure'[r] <= sequence[r] /\ lastFailure'[r] \in Nat
      BY <1>0, <3>1 DEF MaxOf, TypeOK, FailuresOrdered, LeasesOrdered, Pending
    <3>3. \A q \in Routes : lastFailure[q] \in Nat /\ sequence[q] \in Nat
      BY DEF TypeOK
    <3>4. \A q \in Routes : lastFailure'[q] <= sequence'[q]
      BY <1>0, <3>2 DEF FailuresOrdered
    <3>5. \A k \in Leases \ {l} : lease[k] # NoLease =>
            /\ lease[k].outcome = "failure" /\ lease[k].epoch = epoch'[lease[k].id]
                 => lease[k].sequence <= lastFailure'[lease[k].id]
            /\ (Counts(k, lease[k].id))' /\ lease[k].trial
                 => lease[k].sequence > lastFailure'[lease[k].id]
      BY <1>0, <1>2, <2>2, <2>3, <2>5, <3>1, <3>2, <3>3 DEF FailuresOrdered
    <3>6. /\ lease'[l].sequence <= lastFailure'[lease'[l].id]
          /\ ~(Counts(l, lease[l].id))'
      BY <1>0, <2>2, <3>2, ReportEffect, ReportCounts DEF TypeOK
    <3> QED BY <3>4, <3>5, <3>6, <2>3 DEF FailuresOrdered
  <2> QED BY <2>1, <2>6, <2>7
<1> QED BY <1>1, <1>2 DEF FinishFailure

LEMMA FinishNeutralStep ==
  ASSUME IInv, TypeOK', NEW r \in Routes, NEW l \in Leases, FinishNeutral(r, l)
  PROVE  IInv'
<1> USE DEF IInv
<1>0. /\ Counts(l, r) /\ Pending(l) /\ lease[l].id = r
      /\ Report(l, "neutral") /\ "neutral" \in Outcomes
  BY DEF FinishNeutral, Counts, Outcomes
<1>1. CASE Open(r, openings[r]) /\ UNCHANGED <<failures, sequence, lastFailure>>
  <2>1. openings[r] \in Nat
    BY DEF TypeOK
  <2> QED BY <1>0, <1>1, <2>1, OpenStep
<1>2. CASE ~lease[l].trial /\ UNCHANGED record
  <2>0. /\ state' = state /\ epoch' = epoch /\ sequence' = sequence
        /\ lastFailure' = lastFailure
    BY <1>2 DEF record
  <2>1. LeasesOrdered'
    BY <1>0, <2>0, ReportOrder
  <2>2. /\ \A q \in Routes : ~Counts(l, q)'
        /\ \A q \in Routes, k \in Leases \ {l} : Counts(k, q)' <=> Counts(k, q)
        /\ \A k \in Leases \ {l} : lease'[k] = lease[k]
    BY <1>0, <2>0, ReportCounts, ReportEffect
  <2>3. SingleTrial'
    BY <1>0, <1>2, <2>0, <2>2 DEF SingleTrial
  <2>4. FailuresOrdered'
    BY <1>0, <2>0, <2>2, ReportCounts, ReportEffect, LeaseType DEF FailuresOrdered
  <2> QED BY <2>1, <2>3, <2>4
<1> QED BY <1>1, <1>2 DEF FinishNeutral

LEMMA IInvStep == IInv /\ [Next]_vars => IInv'
<1> SUFFICES ASSUME IInv, [Next]_vars PROVE IInv'
  OBVIOUS
<1>0. TypeOK'
  BY TypeStep DEF IInv
<1>1. ASSUME NEW r \in Routes, NEW l \in Leases, Begin(r, l) PROVE IInv'
  BY <1>0, <1>1, BeginStep
<1>2. ASSUME NEW l \in Leases, Finish(l) PROVE IInv'
  BY <1>0, <1>2, FinishStaleStep, FinishSuccessStep, FinishFailureStep,
     FinishNeutralStep DEF Finish
<1>3. CASE Tick \/ UNCHANGED vars
  <2>1. UNCHANGED <<record, lease>>
    BY <1>3 DEF Tick, vars
  <2> QED BY <1>0, <2>1 DEF IInv, SingleTrial, LeasesOrdered, FailuresOrdered,
                         Counts, Pending, record
<1> QED BY <1>1, <1>2, <1>3 DEF Next

LEMMA Invariance == Spec => []IInv
BY IInvInit, IInvStep, PTL DEF Spec

\* However late and in whatever order results arrive, a half-open route admits
\* one trial, and an open one listens to nobody.
THEOREM SingleTrialAlways == Spec => []SingleTrial
<1>1. IInv => SingleTrial
  BY DEF IInv
<1> QED BY <1>1, Invariance, PTL

-----------------------------------------------------------------------------
(* What a step may never do *)

\* An open route whose back-off is running neither closes nor moves its
\* deadline, whatever outcomes arrive meanwhile.
THEOREM BackoffAlwaysHonoured == Spec => BackoffHonoured
<1>1. ASSUME IInv, [Next]_vars, NEW r \in Routes, state[r] = "open", now < openUntil[r]
      PROVE  state'[r] = "open" /\ openUntil'[r] = openUntil[r]
  <2> USE <1>1 DEF IInv
  <2>0. \A l \in Leases : ~Counts(l, r)
    BY DEF SingleTrial
  <2>1. ASSUME NEW q \in Routes, NEW l \in Leases, Begin(q, l)
        PROVE  state'[r] = state[r] /\ openUntil'[r] = openUntil[r]
    <3>1. q # r
      BY <2>1 DEF Begin, Available, TypeOK
    <3> QED BY <2>1, <3>1 DEF Begin, TypeOK
  <2>2. ASSUME NEW q \in Routes, NEW n, Open(q, n), q # r
        PROVE  state'[r] = state[r] /\ openUntil'[r] = openUntil[r]
    BY <2>2 DEF Open, TypeOK
  <2>3. ASSUME NEW l \in Leases, Finish(l)
        PROVE  state'[r] = state[r] /\ openUntil'[r] = openUntil[r]
    <3>1. ASSUME NEW o \in Outcomes, FinishStale(l, o)
          PROVE  state'[r] = state[r] /\ openUntil'[r] = openUntil[r]
      BY <3>1 DEF FinishStale, record
    <3>2. ASSUME NEW q \in Routes, FinishSuccess(q, l)
          PROVE  state'[r] = state[r] /\ openUntil'[r] = openUntil[r]
      <4>1. q # r
        BY <2>0, <3>2 DEF FinishSuccess
      <4> QED BY <3>2, <4>1 DEF FinishSuccess, Recover, record, TypeOK
    <3>3. ASSUME NEW q \in Routes, FinishFailure(q, l)
          PROVE  state'[r] = state[r] /\ openUntil'[r] = openUntil[r]
      <4>1. q # r
        BY <2>0, <3>3 DEF FinishFailure
      <4>2. CASE Open(q, openings[q] + 1)
        BY <2>2, <4>1, <4>2
      <4>3. CASE state' = [state EXCEPT ![q] = "suspect"] /\ UNCHANGED openUntil
        BY <4>1, <4>3 DEF TypeOK
      <4> QED BY <3>3, <4>2, <4>3 DEF FinishFailure
    <3>4. ASSUME NEW q \in Routes, FinishNeutral(q, l)
          PROVE  state'[r] = state[r] /\ openUntil'[r] = openUntil[r]
      <4>1. q # r
        BY <2>0, <3>4 DEF FinishNeutral
      <4>2. CASE Open(q, openings[q])
        BY <2>2, <4>1, <4>2
      <4> QED BY <3>4, <4>2 DEF FinishNeutral, record
    <3> QED BY <2>3, <3>1, <3>2, <3>3, <3>4 DEF Finish
  <2>4. CASE Tick \/ UNCHANGED vars
    BY <2>4 DEF Tick, vars, record
  <2> QED BY <2>1, <2>3, <2>4 DEF Next
<1>2. IInv /\ [Next]_vars =>
        [\A r \in Routes : state[r] = "open" /\ now < openUntil[r]
           => state'[r] = "open" /\ openUntil'[r] = openUntil[r]]_vars
  BY <1>1
<1> QED BY <1>2, Invariance, PTL DEF Spec, BackoffHonoured

\* The lease whose success clears a route's failures is younger than every
\* lease whose failure is on record in the same epoch.
THEOREM NewerFailureAlwaysStands == Spec => NewerFailureStands
<1> DEFINE Clears(r, l, k) ==
      /\ Counts(l, r) /\ lease'[l].outcome = "success"
      /\ failures[r] > 0 /\ failures'[r] = 0
      /\ lease[k] # NoLease /\ lease[k].id = r
      /\ lease[k].epoch = epoch[r] /\ lease[k].outcome = "failure"
<1>1. ASSUME IInv, [Next]_vars, NEW r \in Routes, NEW l \in Leases, NEW k \in Leases,
             Clears(r, l, k)
      PROVE  lease[k].sequence < lease[l].sequence
  <2> USE <1>1 DEF IInv
  <2>1. /\ lease[l] # NoLease /\ lease[k] # NoLease /\ lease[l].id = r /\ lease[k].id = r
        /\ lease[l].outcome = "pending" /\ k # l
        /\ lease[l].sequence \in Nat /\ lease[k].sequence \in Nat
        /\ lastFailure[r] \in Nat /\ failures[r] \in Nat
    BY LeaseType DEF Counts, Pending, TypeOK
  <2>2. lease[k].sequence <= lastFailure[r] /\ lease[k].sequence # lease[l].sequence
    BY <2>1 DEF FailuresOrdered, LeasesOrdered
  <2>3. FinishSuccess(r, l)
    <3>1. ASSUME NEW q \in Routes, NEW j \in Leases, Begin(q, j) PROVE FALSE
      BY <3>1 DEF Begin
    <3>2. ASSUME NEW j \in Leases, NEW o \in Outcomes, FinishStale(j, o) PROVE FALSE
      BY <3>2 DEF FinishStale, record
    <3>3. ASSUME NEW q \in Routes, NEW j \in Leases, FinishFailure(q, j) PROVE FALSE
      <4>1. failures' = [failures EXCEPT ![q] = @ + 1] /\ failures \in [Routes -> Nat]
        BY <3>3 DEF FinishFailure, TypeOK
      <4> QED BY <2>1, <4>1
    <3>4. ASSUME NEW q \in Routes, NEW j \in Leases, FinishNeutral(q, j) PROVE FALSE
      BY <3>4 DEF FinishNeutral, record
    <3>5. ASSUME NEW q \in Routes, NEW j \in Leases, FinishSuccess(q, j)
          PROVE  q = r /\ j = l
      <4>1. q = r
        BY <2>1, <3>5 DEF FinishSuccess, Recover, record, TypeOK
      <4>2. Pending(j) /\ Report(j, "success") /\ "success" \in Outcomes
        BY <3>5 DEF FinishSuccess, Counts, Outcomes
      <4>3. lease'[l] # lease[l]
        BY <2>1
      <4> QED BY <4>1, <4>2, <4>3, ReportEffect
    <3>6. ~(Tick \/ UNCHANGED vars)
      BY DEF Tick, vars, record
    <3> QED BY <3>1, <3>2, <3>3, <3>4, <3>5, <3>6 DEF Next, Finish
  <2>4. lease[l].sequence >= lastFailure[r]
    BY <2>1, <2>3 DEF FinishSuccess, record
  <2> QED BY <2>1, <2>2, <2>4
<1>2. IInv /\ [Next]_vars =>
        [\A r \in Routes, l, k \in Leases :
           Clears(r, l, k) => lease[k].sequence < lease[l].sequence]_vars
  BY <1>1
<1> QED BY <1>2, Invariance, PTL DEF Spec, NewerFailureStands

-----------------------------------------------------------------------------
(* The refinement: epochs implement the gate's set of live requests *)

\* A report takes its lease off the live set of its route; an opening empties it.
LEMMA LiveAfterReport ==
  ASSUME IInv, NEW r \in Routes, NEW l \in Leases, Counts(l, r), NEW o \in Outcomes,
         Report(l, o), \A q \in Routes \ {r} : epoch'[q] = epoch[q]
  PROVE  /\ epoch'[r] = epoch[r] => liveBar' = [liveBar EXCEPT ![r] = @ \ {l}]
         /\ epoch'[r] = epoch[r] + 1 => liveBar' = [liveBar EXCEPT ![r] = {}]
<1> USE DEF IInv
<1>1. Pending(l) /\ \A q \in Routes \ {r} : ~Counts(l, q)
  BY DEF Counts
<1>2. \A q \in Routes \ {r}, k \in Leases : Counts(k, q)' <=> Counts(k, q)
  BY <1>1, ReportCounts
<1>3. \A q \in Routes \ {r} :
        {k \in Leases : Counts(k, q)'} = {k \in Leases : Counts(k, q)}
  BY <1>2
<1>4. epoch'[r] # epoch[r] + 1 \/ epoch'[r] # epoch[r]
  BY DEF TypeOK
<1>5. CASE epoch'[r] = epoch[r]
  <2>1. \A k \in Leases : Counts(k, r)' <=> Counts(k, r) /\ k # l
    BY <1>1, <1>5, ReportCounts
  <2>2. {k \in Leases : Counts(k, r)'} = {k \in Leases : Counts(k, r)} \ {l}
    BY <2>1
  <2> QED BY <1>3, <1>5, <1>4, <2>2, Zenon DEF liveBar
<1>6. CASE epoch'[r] = epoch[r] + 1
  <2>1. \A k \in Leases : ~Counts(k, r)'
    BY <1>1, <1>6, ReportCounts
  <2>2. {k \in Leases : Counts(k, r)'} = {}
    BY <2>1
  <2> QED BY <1>3, <1>6, <1>4, <2>2, Zenon DEF liveBar
<1> QED BY <1>5, <1>6

LEMMA BeginRefines ==
  ASSUME IInv, TypeOK', NEW r \in Routes, NEW l \in Leases, Begin(r, l)
  PROVE  Gate!Admit(r, l) \/ Gate!Probe(r, l)
<1> USE DEF IInv
<1>1. /\ lease'[l] # NoLease /\ lease'[l].id = r /\ lease'[l].epoch = epoch'[r]
      /\ lease'[l].outcome = "pending"
      /\ \A k \in Leases \ {l} : lease'[k] = lease[k]
  <2> DEFINE new == [id |-> r, epoch |-> epoch'[r], sequence |-> sequence'[r],
                     trial |-> state[r] = "open", outcome |-> "pending"]
  <2>1. new \in Lease
    BY DEF Lease, TypeOK
  <2>2. lease' = [lease EXCEPT ![l] = new] /\ lease \in [Leases -> Lease \cup {NoLease}]
    BY DEF Begin, TypeOK
  <2> QED BY <2>1, <2>2, NoLeaseAssumption
<1>2. \A k \in Leases, q \in Routes : Counts(k, q) => k # l
  BY DEF Begin, Counts
<1>3. \A q \in Routes : l \notin liveBar[q]
  BY <1>2 DEF liveBar
<1>4. \A q \in Routes \ {r} : epoch'[q] = epoch[q] /\ state'[q] = state[q]
  BY DEF Begin, TypeOK
<1>5. \A q \in Routes \ {r}, k \in Leases : Counts(k, q)' <=> Counts(k, q)
  BY <1>1, <1>2, <1>4 DEF Counts, Pending
<1>6. Counts(l, r)'
  BY <1>1 DEF Counts, Pending
<1>7. CASE state[r] = "open"
  <2>1. epoch'[r] = epoch[r] + 1 /\ state'[r] = "half_open"
    BY <1>7 DEF Begin, TypeOK
  <2>2. \A k \in Leases \ {l} : ~Counts(k, r)'
    BY <1>1, <2>1, LeaseType DEF Counts, Pending, LeasesOrdered, TypeOK
  <2>3. liveBar' = [liveBar EXCEPT ![r] = {l}]
    BY <1>5, <1>6, <2>2 DEF liveBar
  <2>4. phaseBar' = [phaseBar EXCEPT ![r] = "trial"] /\ phaseBar[r] = "open"
    BY <1>4, <1>7, <2>1 DEF phaseBar, Phase
  <2> QED BY <1>3, <2>3, <2>4 DEF Gate!Probe
<1>8. CASE state[r] # "open"
  <2>1. epoch' = epoch /\ state' = state /\ state[r] # "half_open"
    BY <1>8 DEF Begin, Available
  <2>2. \A k \in Leases \ {l} : Counts(k, r)' <=> Counts(k, r)
    BY <1>1, <2>1 DEF Counts, Pending
  <2>3. liveBar' = [liveBar EXCEPT ![r] = @ \cup {l}]
    BY <1>5, <1>6, <2>2 DEF liveBar
  <2>4. UNCHANGED phaseBar /\ phaseBar[r] = "closed"
    BY <1>8, <2>1 DEF phaseBar, Phase
  <2> QED BY <1>3, <2>3, <2>4 DEF Gate!Admit
<1> QED BY <1>7, <1>8

\* Opening a route trips the gate.
LEMMA OpenRefines ==
  ASSUME IInv, NEW r \in Routes, NEW l \in Leases, Counts(l, r), NEW o \in Outcomes,
         Report(l, o), NEW n, Open(r, n)
  PROVE  Gate!Trip(r, l)
<1> USE DEF IInv
<1>1. /\ epoch'[r] = epoch[r] + 1 /\ state'[r] = "open"
      /\ \A q \in Routes \ {r} : epoch'[q] = epoch[q] /\ state'[q] = state[q]
  BY DEF Open, TypeOK
<1>2. liveBar' = [liveBar EXCEPT ![r] = {}] /\ l \in liveBar[r]
  BY <1>1, LiveAfterReport DEF liveBar
<1>3. phaseBar' = [phaseBar EXCEPT ![r] = "open"]
  BY <1>1 DEF phaseBar, Phase
<1> QED BY <1>2, <1>3 DEF Gate!Trip

\* A report that leaves its route closed settles the gate.
LEMMA ClosedRefines ==
  ASSUME IInv, NEW r \in Routes, NEW l \in Leases, Counts(l, r), NEW o \in Outcomes,
         Report(l, o), epoch' = epoch, state'[r] \in {"healthy", "suspect"},
         \A q \in Routes \ {r} : state'[q] = state[q]
  PROVE  Gate!Settle(r, l)
<1> USE DEF IInv
<1>1. liveBar' = [liveBar EXCEPT ![r] = @ \ {l}] /\ l \in liveBar[r]
  BY LiveAfterReport DEF liveBar
<1>2. phaseBar' = [phaseBar EXCEPT ![r] = "closed"]
  BY DEF phaseBar, Phase
<1> QED BY <1>1, <1>2 DEF Gate!Settle

LEMMA StepRefines ==
  ASSUME IInv, [Next]_vars PROVE [Gate!Next]_(Gate!gateVars)
<1> USE DEF IInv
<1>0. TypeOK'
  BY TypeStep
<1>1. ASSUME NEW r \in Routes, NEW l \in Leases, Begin(r, l) PROVE Gate!Next
  BY <1>0, <1>1, BeginRefines DEF Gate!Next
<1>2. ASSUME NEW l \in Leases, NEW o \in Outcomes, FinishStale(l, o)
      PROVE  UNCHANGED Gate!gateVars
  <2>1. Pending(l) /\ Report(l, o) /\ UNCHANGED <<state, epoch>>
    BY <1>2 DEF FinishStale, record
  <2>2. \A k \in Leases, q \in Routes : Counts(k, q)' <=> Counts(k, q)
    BY <1>2, <2>1, ReportCounts DEF FinishStale, Counts
  <2> QED BY <2>1, <2>2 DEF Gate!gateVars, phaseBar, liveBar
<1>3. ASSUME NEW r \in Routes, NEW l \in Leases, FinishSuccess(r, l) PROVE Gate!Next
  <2>1. Counts(l, r) /\ Report(l, "success") /\ "success" \in Outcomes /\ epoch' = epoch
    BY <1>3 DEF FinishSuccess, Recover, record, Outcomes
  <2>2. CASE lease[l].sequence < lastFailure[r] /\ UNCHANGED record
    <3>1. lease[l] # NoLease /\ lease[l].id = r
      BY <2>1 DEF Counts, Pending
    <3>2. lease[l].sequence \in Nat /\ lastFailure[r] \in Nat
      BY <3>1, LeaseType DEF TypeOK
    <3>3. state[r] # "half_open"
      <4>1. ~lease[l].trial
        BY <2>1, <2>2, <3>1, <3>2 DEF FailuresOrdered
      <4> QED BY <2>1, <4>1 DEF SingleTrial
    <3>4. state[r] # "open"
      BY <2>1 DEF SingleTrial
    <3>5. state' = state
      BY <2>2 DEF record
    <3>6. state'[r] \in {"healthy", "suspect"}
      BY <3>3, <3>4, <3>5 DEF TypeOK, States
    <3> QED BY <2>1, <3>5, <3>6, ClosedRefines DEF Gate!Next
  <2>3. CASE Recover(r)
    BY <2>1, <2>3, ClosedRefines DEF Recover, TypeOK, Gate!Next
  <2> QED BY <1>3, <2>2, <2>3 DEF FinishSuccess
<1>4. ASSUME NEW r \in Routes, NEW l \in Leases, FinishFailure(r, l) PROVE Gate!Next
  <2>1. Counts(l, r) /\ Report(l, "failure") /\ "failure" \in Outcomes
    BY <1>4 DEF FinishFailure, Outcomes
  <2>2. CASE Open(r, openings[r] + 1)
    BY <2>1, <2>2, OpenRefines DEF Gate!Next
  <2>3. CASE state' = [state EXCEPT ![r] = "suspect"] /\ UNCHANGED epoch
    BY <2>1, <2>3, ClosedRefines DEF TypeOK, Gate!Next
  <2> QED BY <1>4, <2>2, <2>3 DEF FinishFailure
<1>5. ASSUME NEW r \in Routes, NEW l \in Leases, FinishNeutral(r, l) PROVE Gate!Next
  <2>1. Counts(l, r) /\ Report(l, "neutral") /\ "neutral" \in Outcomes
    BY <1>5 DEF FinishNeutral, Outcomes
  <2>2. CASE Open(r, openings[r])
    BY <2>1, <2>2, OpenRefines DEF Gate!Next
  <2>3. CASE ~lease[l].trial /\ UNCHANGED record
    <3>1. state[r] \in {"healthy", "suspect"}
      BY <2>1, <2>3 DEF SingleTrial, TypeOK, States
    <3> QED BY <2>1, <2>3, <3>1, ClosedRefines DEF record, Gate!Next
  <2> QED BY <1>5, <2>2, <2>3 DEF FinishNeutral
<1>6. CASE Tick \/ UNCHANGED vars
  <2>1. UNCHANGED <<state, epoch, lease>>
    BY <1>6 DEF Tick, vars, record
  <2> QED BY <2>1 DEF Gate!gateVars, phaseBar, liveBar, Counts, Pending
<1> QED BY <1>1, <1>2, <1>3, <1>4, <1>5, <1>6 DEF Next, Finish

\* The breaker implements the abstract gate: comparing epochs is as good as
\* keeping the set of requests that still count.
THEOREM GateImplemented == Spec => ImplementsGate
<1>1. Init => Gate!Init
  BY DEF Init, Gate!Init, phaseBar, liveBar, Phase, Counts, Pending
<1>2. IInv /\ [Next]_vars => [Gate!Next]_(Gate!gateVars)
  BY StepRefines
<1> QED BY <1>1, <1>2, Invariance, PTL DEF Spec, ImplementsGate, Gate!Spec
=============================================================================
