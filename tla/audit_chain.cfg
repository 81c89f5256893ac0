\* Two organisations, two concurrent writers, at most three entries and two
\* days; rows are purged, edited and deleted at any point.
CONSTANTS
  Orgs = {o1, o2}
  Writers = {w1, w2}
  Contents = {x, y}
  Events <- AllEvents
  Retention = 0
  MaxEntries = 3
  MaxEdits = 1
  MaxTime = 1
SPECIFICATION Spec
INVARIANTS TypeOK VerifiedAncestry IntactVerifies
SYMMETRY Symmetry
CHECK_DEADLOCK FALSE
