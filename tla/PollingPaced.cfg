SPECIFICATION FairSpec
CONSTANTS
  Sender = Sender
  Receiver = Receiver
  Empty = Empty
  Station = {Sender, Receiver}
  Peer <- OneWay
  Byte <- MCByte
  Esc = 1
  Sofr = 2
  Eofr = 3
  Stuffed <- MCStuffed
  Skipped = {}
  Frames <- MCFrames
  RecvSize = 2
  MaxSends = 3
  Paced = TRUE
INVARIANTS
  SentIsReceived
PROPERTIES
  EventuallyReceived
CHECK_DEADLOCK FALSE
