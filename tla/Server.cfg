SPECIFICATION FairSpec
CONSTANTS
  p1 = p1
  p2 = p2
  Port <- MCPort
\* The server ends; and main() sleeps for good if the loader was faster.
CHECK_DEADLOCK FALSE
INVARIANTS
  ExclusiveAcceptor
  Listens
PROPERTIES
  PortReopens
  MainEnds
