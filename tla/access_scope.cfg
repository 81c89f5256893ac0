\* Two requests under the row policies.
CONSTANTS
  Orgs = {orgA, orgB}
  Users = {u1}
  Sessions = {s1, s2}
  Conns = {c1, c2}
  KeyPrefixes = {p1}
  Clients = {client}
  Limit = 2
  Window = 1
  Enforcement = {TRUE}
  MaxKeys = 2
  MaxRequests = 2
  MaxClock = 2
  ClaimRoles = {"viewer", "admin"}
SPECIFICATION Spec
SYMMETRY Interchangeable
INVARIANT ScopeLastsRequest
CHECK_DEADLOCK FALSE
