\* Two requests on two models of one account, one route.
SPECIFICATION Spec
CONSTANTS
  Clients = {c1, c2}
  Scopes = {a1}
  Models = {m1, m2}
  Copies = {k1}
  Routes = {r1}
  None = None
  MaxProbes = 1
  HourlyBudget = 1
  MaxGuards = 1
  MaxSessions = 2
  MaxEpoch = 2
SYMMETRY Symmetry
INVARIANTS TypeOK RoundOwnership PermitsReturned CurrentCandidates
PROPERTIES RoundsSpaced
