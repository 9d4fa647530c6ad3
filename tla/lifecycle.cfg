\* One flow through every outcome, cancellation, replay, delivery and repair.
CONSTANTS
  f1 = f1
  f2 = f2
  r1 = r1
  Flows = {f1}
  Attempts = {a1, a2}
  Resources = {r1}
  Instances = {i1}
  Operators = {o1}
  Consumers = {c1, c2}
  Outcomes = {"succeeded", "failed", "blocked", "timed_out",
              "cancelled", "lost", "waiting"}
  SpecOf <- LoneSpec
  ClaimTTL = 2
  ForegroundTTL = 9
  NoAttempt = NoAttempt
  NoLease = NoLease
  NoDeadline = NoDeadline
  NoPlan = NoPlan
  NoOperation = NoOperation
  MaxTime = 5
  MaxLag = 2
  LastClaim = 5
  MaxControl = 2
  Foreman = Foreman
  MaxLapses = 1
  MaxLosses = 1
  Recording = {FALSE, TRUE}
  EvidenceStart = 2
  EvidenceTime = 4
  EvidenceLag = 1
  EvidenceOutcomes = {"succeeded", "waiting"}
SPECIFICATION StartedSpec
SYMMETRY LifecycleSymmetry
INVARIANTS
  CancellationWins
  RecordsAgree
  EvidenceIsExact
PROPERTIES
  NoStartAfterCancel
  HistoryIsLawful
  KeepsContractUntilDamage
