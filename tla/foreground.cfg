\* Two foreground processes over one flow: ticks interleave with control
\* commands, a claim and each other.
CONSTANTS
  Flows = {f1}
  Attempts = {a1}
  Resources = {}
  Instances = {i1, i2}
  Operators = {}
  Consumers = {}
  Outcomes = {"succeeded"}
  SpecOf <- PlainSpec
  ClaimTTL = 1
  ForegroundTTL = 1
  NoAttempt = NoAttempt
  NoLease = NoLease
  NoDeadline = NoDeadline
  NoPlan = NoPlan
  NoOperation = NoOperation
  MaxTime = 2
  MaxLag = 0
  LastClaim = 1
  MaxControl = 5
SPECIFICATION LoopSpec
SYMMETRY InstanceSymmetry
INVARIANTS
  StoppedMeansDrained
  OneForeground
\* The store is quiescent once every process is gone and the bounds are met.
CHECK_DEADLOCK FALSE
