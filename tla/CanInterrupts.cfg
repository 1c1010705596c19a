SPECIFICATION FairSpec
CONSTANTS
  NumMobs = 4
  MaxMsgs = 3
  SendMsgs = {s1}
  RecvMsgs = {r1}
  ReplyMsgs = {a1}
  CyclicMsgs = {r1}
  InvalidMsgs = {s1}
  UseInterrupts = TRUE
  UseError = TRUE
  CallbackOps = {"stopCyclic"}
  RearmRace = FALSE
  Errors = {}
  MaxFrames = 2
  MaxRestarts = 0
  NoMsg = NoMsg
INVARIANTS
  CanTypeOK
  NoMessageStranded
  EveryFrameAccounted
  PreparedMobIsFree
  SlotsStayInside
PROPERTIES
  EventuallyTold
CHECK_DEADLOCK FALSE
