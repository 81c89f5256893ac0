\* Stripe alone, two sessions, no lost acknowledgement: a plan check that has
\* read a lapsed trial commits after the webhook of a purchase.
CONSTANTS
  Sessions = {s1, s2}
  Modes <- StripeMode
  Requests <- SomeRequests
  Repeated = {}
  TrialPlans = {"pro"}
  Offered = {"starter"}
  NoRow = NoRow
  MaxClock = 1
  MaxEvents = 2
  MaxRows = 1
  MaxBought = 1
SPECIFICATION Spec
INVARIANT PaidIsServedAnyway
CHECK_DEADLOCK FALSE
