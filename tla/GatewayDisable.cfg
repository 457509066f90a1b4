\* A probe of the worker under way while the panel switches the injection off.
SPECIFICATION Spec
CONSTANTS
  Clients = {c1}
  Run = Run
  Panel = Panel
  k1 = k1
  k2 = k2
  a1 = a1
  Keys = {k1}
  Accounts = {a1}
  Account <- OneAccount
  None = None
  Nodes = {n1}
  Egress = "fixed"
  FixedNode = n1
  First = n1
  Asks = {"turn", "plain"}
  Passthrough = TRUE
  OnDemand = TRUE
  MaxProbes = 1
  MaxSessions = 1
  MaxLimits = 1
  MaxEpoch = 1
PROPERTY OffPublishesNothing
