\* A drain next to an operator who reconciles the claims that lapse.
CONSTANTS
  Flows = {f1}
  Attempts = {a1}
  Resources = {}
  Instances = {i1}
  Operators = {o1}
  Consumers = {}
  Outcomes = {"succeeded"}
  SpecOf <- PlainSpec
  ClaimTTL = 1
  ForegroundTTL = 1
  NoAttempt = NoAttempt
  NoLease = NoLease
  NoDeadline = NoDeadline
  NoPlan = NoPlan
  NoOperation = NoOperation
  MaxTime = 2
  MaxLag = 0
  LastClaim = 1
  MaxControl = 2
SPECIFICATION DiligentSpec
PROPERTIES
  DrainRecovers
