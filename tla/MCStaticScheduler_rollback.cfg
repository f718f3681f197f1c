SPECIFICATION Spec
CONSTANTS
  d1 = d1
  d2 = d2
  d3 = d3
  a1 = a1
  a2 = a2
  s1 = s1
  s2 = s2
  Declarations <- Pair
  Kind <- PairKind
  Artifact <- PairArtifact
  Schedulers <- TwoSchedulers
  MaximumAttempts = 2
  StaleAfter = 1
  RetryAfter = 1
  BatchSize = 1
  TimeBudget = FALSE
  MaxFaults = 1
  MaxRestores = 1
  MaxMishaps = 1
SYMMETRY SchedulerSymmetry
INVARIANTS
  ClaimIsExclusive
  OneRunPerArtifact
  CompletedIsBacked
CHECK_DEADLOCK FALSE
