CONSTANTS
  MAX = 2
  Sizes = {1, 3}
  Timeouts = {0, 1, 3}
  InterBytes = {0, 1, 2}
  MayClose = TRUE
  Signals = TRUE
  ReadErrors = TRUE
  MaxInput = 4
SPECIFICATION LiveSpec
INVARIANTS
  BytesInOrder
  ShortMeansLate
  ReturnsInTime
PROPERTY CallsReturn
