CONSTANTS
  PageSize = 2
  FlashSize = 4
  EepromSize = 4
  Data = {1, 2}
  Blank = 255
  Garbage = 99
  Segments = 4
  MaxSignals = 4
  BufferSize = 3
  HeaderSize = 1
  Window = 1
  MaxRequests = 6
  Requests <- MCRequests
SPECIFICATION Spec
INVARIANTS
  SegmentsOwned
  ServedInSilence
  AnswersFit
  ReadAsWritten
  WrittenAsOrdered
  AppStartsIdle
PROPERTIES
  EventuallyAnswered
CHECK_DEADLOCK FALSE
