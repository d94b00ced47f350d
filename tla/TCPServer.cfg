CONSTANTS
  Fds = {3, 4, 5, 6}
  Clients = 3
  PacketSize = 2
  MaxBytes = 2
  MaxInits = 2
SPECIFICATION Spec
INVARIANTS
  ClosesItsOwnOnly
  OnlyTheNewestClient
CHECK_DEADLOCK FALSE
