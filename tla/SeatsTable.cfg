SPECIFICATION SeatsSpec
CONSTANTS
  p1 = p1
  p2 = p2
  c1 = c1
  v1 = v1
  v2 = v2
  Peds <- BothPeds
  Civilians <- OneCivilian
  Vehicles <- TwoVehicles
  Clients <- OneClient
  SeatCount = 2
  Doors <- DoorsOfTwoSeats
  Authority = 2
  TickMod = 3
  INVALID = INVALID
  NoPed = NoPed
  NoClient = NoClient
INVARIANTS
  SeatsTypeOK
  SlotsAlive
PROPERTIES
  AuthorityStands
  EvictionIsLocal
SYMMETRY VehicleSymmetry
