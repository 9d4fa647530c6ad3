\* Two runs that share an account, a profile, both or neither, while the operator
\* closes the breaker of the shared account; or three of one account, and nobody
\* closes any.
CONSTANTS
  r1 = r1
  r2 = r2
  r3 = r3
  a1 = a1
  a2 = a2
  p1 = p1
  p2 = p2
  Runs = {r1, r2, r3}
  Accounts = {a1, a2}
  Profiles = {p1, p2}
  Anyone = Anyone
  Routings <- Routes
  NoLease = NoLease
  TTL = 1
  Cover = 1
  Closable <- SharedScopes
  MaxTime = 1
SPECIFICATION Spec
SYMMETRY Interchangeable
CONSTRAINT ThirdRunOnlyThere
INVARIANTS
  OneWorkerPerScope
PROPERTIES
  NoDispatchPastUnknown
  NoDispatchAfterLimit
  NoFalseAlarm
\* Every run ends and the clock stops: the system may come to rest.
CHECK_DEADLOCK FALSE
