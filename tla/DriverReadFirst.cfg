CONSTANTS
  Byte = {0, 1}
  MAX = 6
  ExtractPacket <- TestExtract
  Timeouts = {0, 2}
  Modes = {FALSE}
  UserOps = {"hasPacket", "reset"}
  HasEof = TRUE
  Signals = FALSE
  ReadErrors = TRUE
  MaxInput = 6
  MaxCounted = 6
SPECIFICATION Spec
INVARIANTS
  BufferIsUnconsumedTail
  EveryByteCountedOnce
  TimeoutsAreLate
  NoPacketLeftBehind
  CutsDoNotDependOnChunks
