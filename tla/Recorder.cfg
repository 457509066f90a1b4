\* Two requests that may overlap, room for one record in the queue and on the disk, two
\* starts, two operations of the panel, one edit and one failed access or crash.
SPECIFICATION RSpec
CONSTANTS
  Names <- MCNames
  Absent = Absent
  Missing = Missing
  Garbage = Garbage
  Refused = Refused
  MaxRequests = 2
  QueueSize = 1
  MaxRecords = 1
  DiskQuota = 1
  MaxConcurrent = 2
  MaxEdits = 1
  MaxFaults = 1
  MaxStarts = 2
  MaxOps = 2
  Homes <- MCHomes
INVARIANTS TypeOK RecordsAccounted
PROPERTIES ForwardsToCurrent EndsRestored
