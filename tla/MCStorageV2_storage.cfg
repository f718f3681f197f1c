SPECIFICATION Spec
CONSTANTS
  f1 = f1
  p1 = p1
  p2 = p2
  Findings <- OneFinding
  Packages <- TwoPackages
  Legacy = 1
  BackfillBatch = 1
  MaxRuns = 2
  MaxReviews = 1
  MaxKills = 1
INVARIANTS
  TypeOK
  SummariesAreExact
PROPERTIES
  HotCatchesUp
CHECK_DEADLOCK FALSE
