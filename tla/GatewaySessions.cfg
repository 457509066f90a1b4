\* Two models of one account and room for both sessions: one request, the worker and
\* the panel contend for the probe slot; fixed egress over the only node.
SPECIFICATION FairSpec
CONSTANTS
  Clients = {c1}
  Run = Run
  Panel = Panel
  k1 = k1
  k2 = k2
  a1 = a1
  Keys = {k1, k2}
  Accounts = {a1}
  Account <- OneAccount
  None = None
  Nodes = {n1}
  Egress = "fixed"
  FixedNode = n1
  First = n1
  Asks = {"turn"}
  Passthrough = FALSE
  OnDemand = TRUE
  MaxProbes = 1
  MaxSessions = 2
  MaxLimits = 1
  MaxEpoch = 1
PROPERTIES RefreshesReturn
