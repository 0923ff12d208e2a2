SPECIFICATION Spec
CONSTANTS
  Prices <- MCPrices
  Qtys <- MCQtys
  MaxId = 2
  MaxEvents = 3
  MaxLosses = 1
  RingSize = 4
  Delayed = {}
INVARIANT
  CorrectAfterTheCheck
