CONSTANTS
  CounterMod = 16
  MicroTickMax = 11
  TickMod = 3
  Factor = 3
  Units <- MCUnits
  OnTick <- MCOnTick
  OnMatch <- MCOnMatch
  MainCalls <- MCMainCalls
  Latency = 2
SPECIFICATION Spec
INVARIANTS
  TimersTypeOK
  EveryTickCounted
  ReadingNearTheTime
PROPERTIES
  OnTime
  EventuallyFires
