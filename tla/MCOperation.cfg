CONSTANTS
  Byte <- MCByte
  Header <- MCHeader
  MaxCommandBytes = 8
  MaxResponseBytes = 4
  AllowExtended = TRUE
  MaxTotalResponseBytes = 5
  MaxExchanges = 7
  MaxInputBytes = 6
  None = None
  MachineCommand <- MCMachineCommand
  Response <- MCResponse
  ExposesProgress = TRUE
SPECIFICATION FairSpec
INVARIANTS WorkingState WithinLimits
PROPERTIES Terminates ImplementsLifecycle
CHECK_DEADLOCK FALSE
