\* Two requests of three scopes, one state each, two routes, room for two guards and one binding.
SPECIFICATION Spec
CONSTANTS
  Clients = {c1, c2}
  Scopes = {a1, a2, a3}
  States = {s1}
  Routes = {r1, r2}
  None = None
  MaxRequests = 2
  MaxAccounts = 2
  MaxBindings = 1
SYMMETRY Symmetry
INVARIANTS TypeOK BusyCounts TurnsStay PermitsReturned
PROPERTIES BindingsKept AuthIsFinal
