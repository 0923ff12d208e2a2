SPECIFICATION Spec
CONSTANTS
  PipeSize = 1
  MaxRestarts = 1
  Sockets = {w1}
INVARIANTS
  TypeOK
  OneConnection
  KillHasReader
PROPERTIES
  StrategyNeverWaits
  EngineStops
  KillTakesEffect
  ScreenCatchesUp
CHECK_DEADLOCK FALSE
