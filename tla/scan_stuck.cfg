\* Two workers audit one account at once; no fault of any kind.
CONSTANTS
  c1 = c1  c2 = c2  p1 = p1
  NoAccount = NoAccount
  Accounts = {a1}
  Checks = {c1, c2}
  NativeBatches <- LiveBatches
  IngestBatches <- NoBatch
  Workers = {w1, w2}
  Requests = {u1}
  EagerTasks = FALSE
  ScanLimit = 3
  Events <- NoEvents
  MaxScans = 2
  MaxMonth = 1
  MaxCopies = 1
SPECIFICATION FairSpec
PROPERTIES QueuedScanFinishes
CHECK_DEADLOCK FALSE
