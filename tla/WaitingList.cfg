SPECIFICATION WaitingSpec
CONSTANTS
  p1 = p1
  p2 = p2
  p3 = p3
  f1 = f1
  f2 = f2
  f3 = f3
  gm = gm
  Client <- MCClient
  Premium <- MCPremium
  Exempt <- MCExempt
  MaxPlayers = 2
  MaxSlips = 2
SYMMETRY Symmetry
INVARIANTS
  NeverOverfull
  TimeoutOutlivesRetry
PROPERTIES
  NoOvertaking
