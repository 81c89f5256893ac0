\* One worker beside an API request that triggers or ingests; duplicate
\* deliveries, triage and disconnects, no crash.
CONSTANTS
  c1 = c1  c2 = c2  p1 = p1
  NoAccount = NoAccount
  Accounts = {a1}
  Checks = {c1, p1}
  NativeBatches <- TwiceSeen
  IngestBatches <- UploadBatches
  Workers = {w1}
  Requests = {u1}
  EagerTasks = FALSE
  ScanLimit = 3
  Events <- LiveEvents
  MaxScans = 2
  MaxMonth = 1
  MaxCopies = 2
SPECIFICATION FairSpec
PROPERTIES QueuedScanFinishes CompletedScanIsSnapshotted
CHECK_DEADLOCK FALSE
