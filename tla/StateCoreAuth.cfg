\* A 429 that was in flight when the account was stopped for good.
SPECIFICATION Spec
CONSTANTS
  Clients = {c1, c2}
  Scopes = {a1}
  Models = {m1}
  Copies = {k1}
  Routes = {r1}
  None = None
  MaxProbes = 1
  HourlyBudget = 1
  MaxGuards = 1
  MaxSessions = 1
  MaxEpoch = 1
PROPERTIES AuthIsFinal
