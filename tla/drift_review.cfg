\* Two checks and two reviewers, concurrently.
CONSTANTS
  Absent = Absent
  Resources = {r1}
  Configs = {c1, c2}
  Workers = {w1, w2}
  Reviewers = {u1, u2}
  MaxTxn = 3
SPECIFICATION Spec
SYMMETRY Symmetry
INVARIANTS TypeOK ViolationHasFinding
PROPERTIES BaselineFollowsReview DriftIsExact
CHECK_DEADLOCK FALSE
