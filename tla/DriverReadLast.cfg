CONSTANTS
  Byte = {0, 1}
  MAX = 4
  ExtractPacket <- HeaderExtract
  Timeouts = {1}
  Modes = {TRUE, FALSE}
  UserOps = {"hasPacket", "clear", "stream"}
  HasEof = TRUE
  Signals = TRUE
  ReadErrors = FALSE
  MaxInput = 5
  MaxCounted = 5
SPECIFICATION LiveSpec
INVARIANTS
  TypeOK
  NoByteUncounted
  FindMatchesRecursion
  LastMeansLatest
PROPERTIES
  DeliversPacketStream
  CallsReturn
