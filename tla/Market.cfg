SPECIFICATION FairMarketSpec
CONSTANTS
  p1 = p1
  p2 = p2
  Player <- MCPlayer
  Offered <- MCOffered
  Accepted <- MCAccepted
  Prices <- MCPrices
  MinFee = 2
  MaxFee = 10
  MaxAtATime = 2
  StartGold = 152
  StartItems = 2
  MaxCreated = 2
  MaxQueries = 2
INVARIANTS
  NothingLost
  NothingMade
PROPERTIES
  DueOffersLeave
