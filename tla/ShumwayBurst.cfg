CONSTANTS
  PageSize = 2
  FlashSize = 4
  EepromSize = 4
  Data = {1, 2}
  Blank = 255
  Garbage = 99
  Segments = 3
  MaxSignals = 3
  BufferSize = 2
  HeaderSize = 1
  Window = 3
  MaxRequests = 4
  Requests <- BurstRequests
SPECIFICATION Spec
INVARIANTS
  ShumwayTypeOK
PROPERTIES
  NodeSettles
CHECK_DEADLOCK FALSE
