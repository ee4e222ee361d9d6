SPECIFICATION Spec
CONSTANTS
  p1 = p1
  p2 = p2
  p3 = p3
  bag1 = bag1
  bag2 = bag2
  gold = gold
  coin = coin
  house = house
  Ground = Ground
  Gone = Gone
  None = None
  Player <- MCPlayer
  Item <- MCItem
  Bag <- MCBag
  Stack <- MCStack
  House <- MCHouse
  Slots = 1
  BagSize = 1
SYMMETRY Symmetry
INVARIANTS
  TradeIsMutual
  OfferIsAtHand
PROPERTIES
  OfferUnchanged
  AllOrNothing
