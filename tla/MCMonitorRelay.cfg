SPECIFICATION Spec
CONSTANTS
  PipeSize = 1
  MaxRestarts = 1
  Sockets = {w1}
PROPERTY
  Reconnects
CHECK_DEADLOCK FALSE
