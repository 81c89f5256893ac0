\* Two workers and one API request on two accounts; crashes, a broker
\* outage, purges, triage and disconnects, each message delivered once.
CONSTANTS
  c1 = c1  c2 = c2  p1 = p1
  NoAccount = NoAccount
  Accounts = {a1, a2}
  Checks = {c1, c2}
  NativeBatches <- AsyncBatches
  IngestBatches <- NoBatch
  Workers = {w1, w2}
  Requests = {u1}
  EagerTasks = FALSE
  ScanLimit = 3
  Events <- AsyncEvents
  MaxScans = 2
  MaxMonth = 1
  MaxCopies = 1
SPECIFICATION Spec
INVARIANTS TypeOK Anchored StoredMatchesCount
PROPERTIES TerminalIsFinal ImplementsBook
CHECK_DEADLOCK FALSE
