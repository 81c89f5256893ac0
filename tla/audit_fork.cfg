\* Two concurrent requests of one organisation; nothing touches the rows.
CONSTANTS
  Orgs = {o1}
  Writers = {w1, w2}
  Contents = {x}
  Events <- NoEvents
  Retention = 1
  MaxEntries = 2
  MaxEdits = 0
  MaxTime = 0
SPECIFICATION Spec
INVARIANT ChainsVerify
CHECK_DEADLOCK FALSE
