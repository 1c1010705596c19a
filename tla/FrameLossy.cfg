SPECIFICATION Spec
CONSTANTS
  A = A
  Empty = Empty
  NoFrame = NoFrame
  Station = {A}
  Peer <- Loopback
  Byte <- MCByte
  Esc = 1
  Sofr = 2
  Eofr = 3
  Stuffed <- MCStuffed
  Skipped = {}
  Payload = 7
  Frames <- MCShort
  MaxSends = 3
  AppSize = 7
  ReadInCallback = FALSE
  AwaitReady = FALSE
  Lossy = TRUE
INVARIANTS
  OnlyDamageCorrupts
PROPERTIES
  FinishedUntilRead
CHECK_DEADLOCK FALSE
