CONSTANTS
  Threads = {t1, t2}
  Parsers = {"short", "long", "other"}
  Handlers = {"short"}
  NoThread = nobody
  NoParser = none
  Byte <- Bytes
  Extract <- BusExtract
  MaxInput = 3
  MaxDispatches = 2
SPECIFICATION Spec
INVARIANT PacketsForReader
CHECK_DEADLOCK FALSE
