SPECIFICATION Spec
CONSTANTS
  MaxLength = 3
  Byte <- Chars
  Mixed <- MCMixed
  Configs <- MCConfigs
INVARIANTS
  RoundTrip
  Transparent
CHECK_DEADLOCK FALSE
