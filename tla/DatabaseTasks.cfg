\* The thread exits, faults or sleeps for good: the system may stop.
CHECK_DEADLOCK FALSE
SPECIFICATION FairSpec
CONSTANTS
  disp = disp
  other = other
  Callers <- MCCallers
  MaxTasks = 5
  WithCallback = {2, 3}
INVARIANTS
  AtMostOnce
  NoneLost
PROPERTIES
  EveryQueryRuns
  ShutdownExits
