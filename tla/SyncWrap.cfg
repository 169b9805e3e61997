SPECIFICATION Spec
CONSTANTS
  Inputs <- OneInput
  PlayerLimit = 2
  MinStream = 3
  MaxStream = 4
  Uint16 = 8
  SizeT = 64
  NotGiven = NotGiven
  TickMod = 12
  MaxLag = 1
  MaxDelay = 2
INVARIANTS
  SyncEveryInterval
CHECK_DEADLOCK FALSE
