CONSTANTS
  Clients = 2
  MaxBytes = 3
  Capacity = 2
  Sizes = {0, 1, 2}
SPECIFICATION LiveSpec
INVARIANTS
  OnlyTheFirstClient
  EofAfterLastByte
PROPERTY FirstClientIsServed
