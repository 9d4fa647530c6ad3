\* Two schedules that share a resource, which a process may also lease by itself.
SPECIFICATION Spec
CONSTANTS
  lint = lint
  types = types
  repo = repo
  runner = runner
  Schedules = {lint, types}
  Procs = {s1, s2}
  Resources = {repo}
  Needs <- SharedNeeds
  Anchor <- Anchors
  Interval <- Intervals
  Grace <- Graces
  Timeout <- Timeouts
  TTL = 2
  Lent = {repo}
  NoLease = NoLease
  MaxTime = 6
  MaxClaims = 2
SYMMETRY Symmetric
INVARIANTS OneClaimPerSlot ClaimsCurrentSlot LiveClaimKeepsKeys
PROPERTIES OvertakenOnlyAfterRelease
CHECK_DEADLOCK FALSE
