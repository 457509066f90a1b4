\* Two starts, one operation of the panel, one edit and one failed access or crash; a
\* login, a relay that wants it, a relay without an address, and a profile.
SPECIFICATION SSpec
CONSTANTS
  Names <- MCNames
  Absent = Absent
  Missing = Missing
  Garbage = Garbage
  Refused = Refused
  MaxEdits = 1
  MaxFaults = 1
  MaxStarts = 2
  MaxOps = 1
  Originals <- MCOriginals
  Logins <- MCLogins
INVARIANTS TypeOK SettingsAgree
PROPERTIES KeepsPromise ForwardsToCurrent NoLoginToRelay KnownSettings Stops

