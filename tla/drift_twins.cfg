\* Two first checks at once.
CONSTANTS
  Absent = Absent
  Resources = {r1}
  Configs = {c1, c2}
  Workers = {w1, w2}
  Reviewers = {u1}
  MaxTxn = 2
SPECIFICATION Spec
SYMMETRY Symmetry
INVARIANTS OneBaselinePerResource
CHECK_DEADLOCK FALSE
