CONSTANTS
  RawModes = {TRUE}
  Timeout1 = 1
  Timeout2 = 1
  BufferSize = 2
  Servers = {1}
  EofSets = {{1, 2}}
  Errors = FALSE
  Signals = FALSE
  MaxItems = 1
  MaxReopens = 0
SPECIFICATION LiveSpec
PROPERTY CloseEndsForward
CHECK_DEADLOCK FALSE
