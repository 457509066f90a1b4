\* Three requests; states issued over four seconds that are usable for two.
SPECIFICATION Spec
CONSTANTS
  Clients = {c1, c2, c3}
  Values = {v1}
  None = None
  TTL = 4
  Refresh = 2
  Margin = 1
  MaxTime = 4
  MaxVersion = 4
INVARIANTS TypeOK VersionsName StrikesPending
PROPERTIES HeldUntilSuspected
