CONSTANTS
  Size = 2
  MaxMessages = 4
SPECIFICATION Spec
INVARIANTS
  PaysAttention
CHECK_DEADLOCK FALSE
