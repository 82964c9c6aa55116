CONSTANTS
  Byte <- MCByte
  Header <- MCHeaders
  MaxCommandBytes = 8
  MaxResponseBytes = 4
  AllowExtended = FALSE
  MaxTotalResponseBytes = 8
  MaxExchanges = 12
  MaxInputBytes = 8
  None = None
  MachineCommand <- MCCommands
  Response = {}
  ExposesProgress = FALSE
  Scripts <- MCScripts
  Replies <- MCReplies
  Dialects <- MCDialects
SPECIFICATION CESpec
INVARIANTS ExecutedInOrder ExactReplies
PROPERTY Completes
CHECK_DEADLOCK FALSE
