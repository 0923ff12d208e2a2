SPECIFICATION FairSpec
CONSTANTS
  Prices <- MCPrices
  Qtys <- MCQtys
  MaxId = 3
INVARIANTS
  TypeOK
  Uncrossed
  LevelsAreLive
  TimePriority
  NoTradeThrough
PROPERTIES
  ImplementsPriceTime
  CallsReturn
