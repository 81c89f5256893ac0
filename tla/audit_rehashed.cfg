\* One writer at a time, and an operator who computes hashes anew.
CONSTANTS
  Orgs = {o1}
  Writers = {w1}
  Contents = {x, y}
  Events <- EditsOnly
  Retention = 1
  MaxEntries = 2
  MaxEdits = 2
  MaxTime = 0
SPECIFICATION Spec
INVARIANTS TypeOK VerifiedAncestry EditsShow
CHECK_DEADLOCK FALSE
