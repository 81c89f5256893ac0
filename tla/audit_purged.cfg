\* One writer at a time and the nightly retention purge.
CONSTANTS
  Orgs = {o1}
  Writers = {w1}
  Contents = {x}
  Events <- PurgeOnly
  Retention = 0
  MaxEntries = 3
  MaxEdits = 0
  MaxTime = 1
SPECIFICATION Spec
INVARIANT ChainsVerify
CHECK_DEADLOCK FALSE
