\* The same breaker, asked whether an old result can override newer health.
SPECIFICATION Spec
CONSTANTS
  Routes = {r1}
  Leases = {l1, l2, l3}
  NoLease = NoLease
  Threshold = 2
  Base = 1
  Maximum = 2
  Jittered = FALSE
  MaxSequence = 4
  MaxTime = 2
PROPERTY OldResultKeepsNewerHealth
CHECK_DEADLOCK FALSE
