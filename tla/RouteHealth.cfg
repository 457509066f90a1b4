\* One route, three callers, Config as reliableproxy sets it: threshold 2,
\* a maximum of two doublings of the base, jitter anywhere in the window.
SPECIFICATION FairSpec
CONSTANTS
  Routes = {r1}
  Leases = {l1, l2, l3}
  NoLease = NoLease
  Threshold = 2
  Base = 1
  Maximum = 3
  Jittered = FALSE
  MaxSequence = 5
  MaxTime = 4
INVARIANTS TypeOK SingleTrial
PROPERTIES BackoffHonoured NewerFailureStands TrialResolves ImplementsGate
CHECK_DEADLOCK FALSE
