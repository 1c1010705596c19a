CONSTANTS
  PageSize = 4
  FlashSize = 8
  EepromSize = 2
  DevType = 67
  WaitValue = 2
  Blocks <- MCBlocks
  Addresses = {0, 1, 2, 3, 257}
  Asks <- MCAsks
  MaxCommands = 7
  MaxLosses = 1
  MaxResets = 1
SPECIFICATION Spec
INVARIANTS
  SerialTypeOK
  AckedIsKept
  EscapesSuffice
  CleanLineWorks
PROPERTY EventuallyApp
CHECK_DEADLOCK FALSE
