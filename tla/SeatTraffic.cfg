SPECIFICATION TrafficSpec
CONSTANTS
  p1 = p1
  p2 = p2
  c1 = c1
  v1 = v1
  Peds <- BothPeds
  Civilians <- OneCivilian
  Vehicles <- OneVehicle
  Clients <- OneClient
  SeatCount = 2
  Doors <- AllDoors
  Authority = 3
  TickMod = 5
  INVALID = INVALID
  NoPed = NoPed
  NoClient = NoClient
  Down = 1
  Up = 1
  MaxAnswers = 2
  MaxSyncs = 1
PROPERTIES
  EntryThrowsOut
