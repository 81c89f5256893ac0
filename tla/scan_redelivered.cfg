\* One worker, one account; the broker may deliver a message twice.
CONSTANTS
  c1 = c1  c2 = c2  p1 = p1
  NoAccount = NoAccount
  Accounts = {a1}
  Checks = {c1, c2}
  NativeBatches <- OneCheck
  IngestBatches <- NoBatch
  Workers = {w1}
  Requests = {u1}
  EagerTasks = FALSE
  ScanLimit = 3
  Events <- RedeliveryOnly
  MaxScans = 2
  MaxMonth = 1
  MaxCopies = 2
SPECIFICATION Spec
INVARIANTS StoredMatchesCount
CHECK_DEADLOCK FALSE
