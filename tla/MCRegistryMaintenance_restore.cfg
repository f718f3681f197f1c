SPECIFICATION Spec
CONSTANTS
  s1 = s1
  s2 = s2
  r1 = r1
  o1 = o1
  b1 = b1
  Servers <- TwoServers
  Refreshers <- OneRefresher
  Operators <- OneOperator
  Observers <- NoProcs
  Tasks <- RestoreOrIndex
  Retention = 1
  MaxNow = 4
  MaxUpdates = 1
  MaxAttempts <- Thrice
  MaxFaults = 1
SYMMETRY ServerSymmetry
INVARIANTS
  TypeOK
  AcknowledgedImportsSurvive
  MissedOnlyDuringCollection
  PublicationIsReversible
PROPERTY
  ImplementsPublishedCatalog
CHECK_DEADLOCK FALSE
