CONSTANTS
  Hosts = {h1, h2}
  Peer = h1
  LongAddresses = {h2}
  Unnamed = {h2}
  Elsewhere = elsewhere
  Lens = {0, 2}
  Sizes = {0, 2}
  Timeouts = {0, 1}
  BadChecksums = TRUE
  FullBuffers = TRUE
  MaxDatagrams = 2
SPECIFICATION LiveSpec
INVARIANTS
  DatagramsInOrder
  AnswersGoToTheLastSender
  WaitFalseIsLate
PROPERTIES
  ErrorsAreNotLost
  WaitReturns
CHECK_DEADLOCK FALSE
