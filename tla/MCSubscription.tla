--------------------------- MODULE MCSubscription ---------------------------
(* Small instances of Subscription for TLC.                                  *)
EXTENDS Subscription

AllModes   == {"manual", "stripe", "razorpay"}
StripeMode == {"stripe"}
(* Limited rows are asked for where the plan is simplest to change, trials   *)
(* and plan checks where a trial can outlive a purchase.                     *)
SomeRequests ==
  [manual |-> {"accounts", "gcp", "keys", "remove", "checkout"},
   stripe |-> {"access", "trial", "checkout"},
   razorpay |-> {"access", "trial", "checkout"}]
CheckoutsOnly == [m \in AllModes |-> {"checkout"}]
=============================================================================
