SPECIFICATION FairSpec
CONSTANTS
  p1 = p1
  p2 = p2
  p3 = p3
  Person <- MCPerson
  ToStart = 2
  MaxLogins = 3
  MaxJoins = 3
  MaxQueue = 5
\* Everybody has left and nobody may log in again: the bound on logins.
CHECK_DEADLOCK FALSE
INVARIANTS
  RowsOfPresent
  OneSurvivor
PROPERTIES
  NobodyFightsAlone
  LastOneWins
