\* Two requests at once, four in all, a plan of one account.
CONSTANTS
  Sessions = {s1, s2}
  Limit = 1
  MaxRequests = 4
SPECIFICATION Spec
SYMMETRY SessionSymmetry
INVARIANTS TypeOK AssetsNeverVanish CopiesBounded AccountsBounded
PROPERTY LoneRegenerationReplaces
CHECK_DEADLOCK FALSE
