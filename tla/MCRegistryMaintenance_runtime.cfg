SPECIFICATION FairSpec
CONSTANTS
  s1 = s1
  s2 = s2
  r1 = r1
  o1 = o1
  b1 = b1
  Servers <- OneServer
  Refreshers <- OneRefresher
  Operators <- OneOperator
  Observers <- OneObserver
  Tasks <- AllTasks
  Retention = 2
  MaxNow = 3
  MaxUpdates = 1
  MaxAttempts <- Once
  MaxFaults = 1
INVARIANT
  VerifiedObservationsSurvive
PROPERTY
  AttemptsEnd
CHECK_DEADLOCK FALSE
