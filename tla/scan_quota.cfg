\* Asynchronous tasks, one request at a time, a limit of two scans.
CONSTANTS
  c1 = c1  c2 = c2  p1 = p1
  NoAccount = NoAccount
  Accounts = {a1}
  Checks = {c1, c2}
  NativeBatches <- OneCheck
  IngestBatches <- NoBatch
  Workers = {w1}
  Requests = {u1}
  EagerTasks = FALSE
  ScanLimit = 2
  Events <- NoEvents
  MaxScans = 3
  MaxMonth = 1
  MaxCopies = 1
SPECIFICATION Spec
INVARIANTS ScansWithinPlan
CHECK_DEADLOCK FALSE
