CONSTANTS
  Sizes = {1, 3}
  Timeouts = {0, 3, 5}
  Capacity = 2
  NoBufs = TRUE
  WriteErrors = TRUE
  Signals = TRUE
  Thousand = 2
  IntLimit = 3
  MaxPackets = 2
  MaxCalls = 2
SPECIFICATION LiveSpec
INVARIANTS
  TrueMeansSent
  TxCountsWholePackets
  ListenersSeeTheWire
  WriteTimeoutsAreLate
PROPERTY CallsReturn
