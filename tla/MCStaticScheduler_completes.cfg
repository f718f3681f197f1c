SPECIFICATION Spec
CONSTANTS
  d1 = d1
  d2 = d2
  d3 = d3
  a1 = a1
  a2 = a2
  s1 = s1
  s2 = s2
  Declarations <- Mixed
  Kind <- MixedKind
  Artifact <- MixedArtifact
  Schedulers <- OneScheduler
  MaximumAttempts = 3
  StaleAfter = 1
  RetryAfter = 1
  BatchSize = 2
  TimeBudget = TRUE
  MaxFaults = 1
  MaxRestores = 0
  MaxMishaps = 1
INVARIANTS
  TypeOK
  CompletedIsOwn
PROPERTIES
  EveryPackageSettles
  AnalysableCompletes
CHECK_DEADLOCK FALSE
