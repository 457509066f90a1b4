\* Random egress over two nodes; two requests, the worker and the panel; two models of
\* one account, and room for one session.
SPECIFICATION Spec
CONSTANTS
  Clients = {c1, c2}
  Run = Run
  Panel = Panel
  k1 = k1
  k2 = k2
  a1 = a1
  Keys = {k1, k2}
  Accounts = {a1}
  Account <- OneAccount
  None = None
  Nodes = {n1, n2}
  Egress = "random"
  FixedNode = None
  First = None
  Asks = {"turn", "compact"}
  Passthrough = TRUE
  OnDemand = FALSE
  MaxProbes = 2
  MaxSessions = 1
  MaxLimits = 1
  MaxEpoch = 0
SYMMETRY Alike
INVARIANTS TypeOK PinsHeld RoundsExclusive NodeOnce DisabledRests
PROPERTIES RejectionsKept
