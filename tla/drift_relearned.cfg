\* One check and one reviewer: the last resource of the baseline goes.
CONSTANTS
  Absent = Absent
  Resources = {r1}
  Configs = {c1, c2}
  Workers = {w1}
  Reviewers = {u1}
  MaxTxn = 3
SPECIFICATION Spec
SYMMETRY Symmetry
PROPERTIES EstablishedOnce
CHECK_DEADLOCK FALSE
