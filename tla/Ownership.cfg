SPECIFICATION Spec
CONSTANTS
  o1 = o1
  o2 = o2
  o3 = o3
  a1 = a1
  r1 = r1
  Clients <- TwoClients
  Ids <- ThreeIds
  ActorNames <- OneActor
  Resources <- OneResource
  NoResource = NoResource
  NoClient = NoClient
  NoObject = NoObject
  MaxThings = 2
  MaxEntering = 1
INVARIANTS
  TypeOK
  OwnersHere
  ActorsUnique
  TrafficHeld
  PlayersOwned
SYMMETRY IdSymmetry
