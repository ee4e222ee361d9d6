\* The dispatcher exits, or is stuck in its flush: the system may stop.
CHECK_DEADLOCK FALSE
SPECIFICATION FairSpec
CONSTANTS
  net = net
  sched = sched
  Producers <- MCProducers
  MaxTasks = 3
INVARIANTS
  BackOrder
PROPERTIES
  ImplementsService
  EverySettled
