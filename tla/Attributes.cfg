SPECIFICATION FairSpec
CONSTANTS
  c1 = c1
  c2 = c2
  x1 = x1
  x2 = x2
  Clients <- TwoClients
  Values <- TwoValues
  NoClient = NoClient
  NoCopy = NoCopy
  Unset = Unset
  MaxChanges = 4
INVARIANTS
  TypeOK
  AllTold
PROPERTIES
  Converges
  SetStands
CHECK_DEADLOCK FALSE
