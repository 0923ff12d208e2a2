SPECIFICATION BenchSpec
CONSTANTS
  Values = {v1, v2}
  Empty = Empty
  Capacity = 4
  CounterMod = 8
  MaxPushes = 10
  MaxDropped = 1
INVARIANTS
  TypeOK
  NoDataRace
PROPERTIES
  ImplementsQueue
  EverythingArrives
