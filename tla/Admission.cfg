SPECIFICATION AdmissionSpec
CONSTANTS
  p1 = p1
  p2 = p2
  h1 = h1
  h2 = h2
  n1 = n1
  Peers <- TwoPeers
  Names <- TwoNames
  ConsoleName = ConsoleName
  MaxMachines = 3
  MaxClients = 2
  DuplicateNames = FALSE
  Nobody = Nobody
  Console = Console
  NoName = NoName
  MaxInbox = 2
  Hosts <- TwoHosts
  HostOf <- OneHost
  TickMod = 4
  Durations = {0, 1, 2, 3}
  NoEntry = NoEntry
  Forever = Forever
  Unclear = Unclear
  Relapsed = Relapsed
  MinClientVersion <- Oldest
  Versions <- SomeVersions
  OtherFaults <- SomeFaults
INVARIANTS
  AdmissionTypeOK
  BansExact
PROPERTIES
  BannedStayOut
