SPECIFICATION FairSpec
CONSTANTS
  p1 = p1
  p2 = p2
  p3 = p3
  n1 = n1
  n2 = n2
  Peers <- ThreePeers
  Names <- AllNames
  ConsoleName = ConsoleName
  MaxMachines = 4
  MaxClients = 2
  DuplicateNames = FALSE
  Nobody = Nobody
  Console = Console
  NoName = NoName
  MaxInbox = 3
INVARIANTS
  TypeOK
  CountExact
  MachinesLive
  NamesDistinct
  RosterAgrees
PROPERTIES
  ImplementsMachines
  ImplementsRosters
  EventuallyKnown
