SPECIFICATION Spec
CONSTANTS
  Prices <- MCPrices
  Qtys <- MCQtys
  Mids <- MCMids
  QuotePrices <- MCQuotePrices
  NumLevels = 1
  BackgroundQty = 3
  LotSize = 2
  NoiseQty = 1
  MaxId = 6
INVARIANTS
  TypeOK
  OrdersAreTracked
  NoSelfTrade
  ReplayFaithful
  ResyncRoundTrip
  OneLegTrades
PROPERTY
  ImplementsFeed
