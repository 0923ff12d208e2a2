SPECIFICATION Spec
CONSTANTS
  Prices <- MCPrices
  Qtys <- MCQtys
  MaxId = 2
  MaxEvents = 3
  MaxLosses = 2
  RingSize = 1
  Delayed = {0, 1}
INVARIANTS
  TypeOK
  SyncedExact
  KnowsItsQuotes
  PositionConserved
  ShadowIsLive
  NeverLooksCrossed
PROPERTY
  RebuildNeverRollsBack
