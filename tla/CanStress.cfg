SPECIFICATION Spec
CONSTANTS
  NumMobs = 3
  MaxMsgs = 2
  SendMsgs = {s1}
  RecvMsgs = {r1}
  ReplyMsgs = {}
  CyclicMsgs = {r1}
  InvalidMsgs = {s1}
  UseInterrupts = TRUE
  UseError = TRUE
  CallbackOps = {"send", "recv", "stopCyclic", "startCyclic"}
  RearmRace = TRUE
  Errors = {"ackError"}
  MaxFrames = 2
  MaxRestarts = 1
  NoMsg = NoMsg
INVARIANTS
  MainKeepsPage
CHECK_DEADLOCK FALSE
