CONSTANTS
  Configs <- MCConfigs
  pageSize = 4
  flashEnd = 7
  OffsetMod = 16
  Values = {a}
  Blank = Blank
  Garbage = Garbage
  Unset = Unset
SPECIFICATION Spec
INVARIANTS
  ReadableBetweenCalls
PROPERTIES
  StoreImplemented
