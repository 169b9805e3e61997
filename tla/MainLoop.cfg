SPECIFICATION FairSpec
CONSTANTS
  Inputs <- SomeInputs
  PlayerLimit = 2
  MinStream = 3
  MaxStream = 4
  Uint16 = 8
  SizeT = 64
  NotGiven = NotGiven
  TickMod = 12
  MaxLag = 1
  MaxDelay = 2
INVARIANTS
  TypeOK
  ConfigChecked
  OnTime
PROPERTIES
  ExitStops
CHECK_DEADLOCK FALSE
