\* The scheduler thread exits or sleeps for good: the system may stop.
CHECK_DEADLOCK FALSE
SPECIFICATION FairSpec
CONSTANTS
  disp = disp
  net = net
  Callers <- MCCallers
  MaxEvents = 3
  MaxTime = 2
  IdMod = 3
INVARIANTS
  NoOversleep
  StopIsFinal
PROPERTIES
  EventFires
  ShutdownExits
