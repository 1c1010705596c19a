SPECIFICATION FairSpec
CONSTANTS
  A = A
  Empty = Empty
  NoFrame = NoFrame
  Station = {A}
  Peer <- Loopback
  Byte <- MCByte
  Esc = 1
  Sofr = 2
  Eofr = 3
  Stuffed <- MCStuffed
  Skipped = {}
  Payload = 7
  Frames <- MCFrames
  MaxSends = 5
  AppSize = 7
  ReadInCallback = TRUE
  AwaitReady = TRUE
  Lossy = FALSE
INVARIANTS
  SendingHasInterrupt
  AcceptedIsSent
PROPERTIES
  RecvWithinPayload
  ImplementsChannel
  EventuallyDelivered
CHECK_DEADLOCK FALSE
