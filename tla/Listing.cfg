SPECIFICATION FairQuerySpec
CONSTANTS
  p1 = p1
  p2 = p2
  t1 = t1
  t2 = t2
  Peers <- TwoPeers
  Titles <- TwoTitles
  MaxMachines = 3
  MaxClients = 2
  Nobody = Nobody
  Console = Console
  Retry = 1
  LongRetry = 3
  MaxDelta = 2
  MaxSent = 2
  NotListed = NotListed
  MaxShown = 1
  Byte = 3
  NoAnswer = NoAnswer
INVARIANTS
  TypeOK
  ListingAgrees
PROPERTIES
  Patient
  ImplementsRoster
  Relisted
  QueryTruthful
