SPECIFICATION Spec
CONSTANTS
  Markets <- MCMarkets
  SubTicks = 2
  BaseSpread = 0
  LotSize = 1
  InventoryLimit = 1
  CmdRingSize = 2
  MaxFills = 2
  MaxFeed = 3
PROPERTY
  BreachTrips
