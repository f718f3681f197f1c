SPECIFICATION Spec
CONSTANTS
  s1 = s1
  s2 = s2
  r1 = r1
  o1 = o1
  b1 = b1
  Servers <- OneServer
  Refreshers <- OneRefresher
  Operators <- NoProcs
  Observers <- NoProcs
  Tasks <- NoTasks
  Retention = 2
  MaxNow = 5
  MaxUpdates = 1
  MaxAttempts <- Thrice
  MaxFaults = 0
INVARIANT
  ZeroRecordRefreshSucceeds
CHECK_DEADLOCK FALSE
