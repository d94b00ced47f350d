CONSTANTS
  RawModes = {TRUE, FALSE}
  Timeout1 = 1
  Timeout2 = 1
  BufferSize = 2
  Servers = {}
  EofSets = {{1, 2}, {1}, {2}}
  Errors = TRUE
  Signals = TRUE
  MaxItems = 3
  MaxReopens = 1
SPECIFICATION LiveSpec
PROPERTIES
  ImplementsChannels
  CloseEndsForward
  BothSidesServed
CHECK_DEADLOCK FALSE
