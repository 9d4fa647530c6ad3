\* Two flows contend for one resource under stale stamps.
CONSTANTS
  f1 = f1
  f2 = f2
  r1 = r1
  Flows = {f1, f2}
  Attempts = {a1, a2}
  Resources = {r1}
  Instances = {i1}
  Operators = {o1}
  Consumers = {}
  Outcomes = {"succeeded"}
  SpecOf <- ContendingSpecs
  ClaimTTL = 2
  ForegroundTTL = 9
  NoAttempt = NoAttempt
  NoLease = NoLease
  NoDeadline = NoDeadline
  NoPlan = NoPlan
  NoOperation = NoOperation
  MaxTime = 4
  MaxLag = 1
  LastClaim = 4
  MaxControl = 1
  Foreman = Foreman
  MaxLapses = 1
  MaxLosses = 1
  Recording = {FALSE}
  EvidenceStart = 2
  EvidenceTime = 4
  EvidenceLag = 1
  EvidenceOutcomes = {"succeeded", "waiting"}
SPECIFICATION StartedSpec
SYMMETRY AttemptSymmetry
INVARIANTS
  ActiveAttemptAgreement
  GrantedClaimKept
PROPERTIES
  ReconcilesOnlyDeadClaims
  NeverClaimedTwice
