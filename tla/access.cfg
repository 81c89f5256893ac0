\* Two sessions on two pooled connections, two organisations, the row
\* policies in force or not, three requests of one client in three ticks.
CONSTANTS
  Orgs = {orgA, orgB}
  Users = {u1}
  Sessions = {s1, s2}
  Conns = {c1, c2}
  KeyPrefixes = {p1}
  Clients = {client}
  Limit = 2
  Window = 1
  Enforcement = {TRUE, FALSE}
  MaxKeys = 2
  MaxRequests = 3
  MaxClock = 2
  ClaimRoles = {"viewer", "admin"}
SPECIFICATION Spec
SYMMETRY Interchangeable
INVARIANTS TypeOK RateBounded OwnRowsOnly
PROPERTY RevocationSticks
CHECK_DEADLOCK FALSE
