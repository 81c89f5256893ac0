\* Stripe alone, one session: the webhooks that follow a purchase carry no
\* organisation and are dropped.
CONSTANTS
  Sessions = {s1}
  Modes <- StripeMode
  Requests <- CheckoutsOnly
  Repeated = {}
  TrialPlans = {"pro"}
  Offered = {"starter"}
  NoRow = NoRow
  MaxClock = 1
  MaxEvents = 3
  MaxRows = 1
  MaxBought = 1
SPECIFICATION Spec
INVARIANT Synced
CHECK_DEADLOCK FALSE
