\* Two sessions in each billing mode; the acknowledgements of checkouts and
\* activations may be lost.
CONSTANTS
  Sessions = {s1, s2}
  Modes <- AllModes
  Requests <- SomeRequests
  Repeated = {"checkout", "activated"}
  TrialPlans = {"pro"}
  Offered = {"starter", "business"}
  NoRow = NoRow
  MaxClock = 1
  MaxEvents = 4
  MaxRows = 2
  MaxBought = 1
SPECIFICATION FairSpec
INVARIANTS TypeOK InSync PaidIsServed TrialsBounded LimitsBounded PaidForCause
PROPERTIES PurchaseTakesEffect
CHECK_DEADLOCK FALSE
