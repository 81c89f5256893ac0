\* Eager tasks: two concurrent requests against a limit of one scan a
\* month, two accounts, two months.
CONSTANTS
  c1 = c1  c2 = c2  p1 = p1
  NoAccount = NoAccount
  Accounts = {a1, a2}
  Checks = {c1, c2}
  NativeBatches <- EagerBatches
  IngestBatches <- NoBatch
  Workers = {}
  Requests = {u1, u2}
  EagerTasks = TRUE
  ScanLimit = 1
  Events <- EagerEvents
  MaxScans = 3
  MaxMonth = 2
  MaxCopies = 1
SPECIFICATION Spec
INVARIANTS QuotaOverrunBounded StoredMatchesCount
PROPERTIES RecordsWhatItFound
CHECK_DEADLOCK FALSE
