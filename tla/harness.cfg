\* Two callers of cancel, a child with two descendants.
SPECIFICATION FairSpec
CONSTANTS
  Cancellers = {c1, c2}
  MaxKids = 2
INVARIANTS ReportedGoneIsGone InterruptionIsDeferred
PROPERTIES EveryWaitEnds
\* The execution ends, and nobody acts once every cancel is answered.
CHECK_DEADLOCK FALSE
