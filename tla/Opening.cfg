CONSTANTS
  Numerals <- MCNumerals
  BaudBase = 115200
  IoctlFails = TRUE
  Fds = {3, 4, 5}
  Texts <- MCTexts
  Descriptions <- MCDescriptions
  Rates = {38400, 14400}
  StreamFails = TRUE
  HandsTwice = FALSE
  MaxTries = 2
  MaxText = 6
SPECIFICATION Spec
INVARIANTS
  StreamIsOpen
  LineIsAsAsked
  OpensAsWritten
PROPERTIES
  NoDescriptorLost
  UsersStayOpen
