\* Two runs of one account and profile.
CONSTANTS
  r1 = r1
  r2 = r2
  r3 = r3
  a1 = a1
  a2 = a2
  p1 = p1
  p2 = p2
  Runs = {r1, r2}
  Accounts = {a1}
  Profiles = {p1}
  Anyone = Anyone
  Routings <- SameRoute
  NoLease = NoLease
  TTL = 2
  Cover = 1
  Closable <- NoScopes
  MaxTime = 1
SPECIFICATION Spec
PROPERTIES
  BlockOutlivesOlderEvidence
\* Every run ends and the clock stops: the system may come to rest.
CHECK_DEADLOCK FALSE
