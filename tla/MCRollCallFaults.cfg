SPECIFICATION FaultSpec
CONSTANTS
  m1 = m1
  g1 = g1
  Members <- OneMember
  Guests <- MCGuests
  Limits <- OneCap
  NoLimit = NoLimit
  Admin = Admin
  Web = Web
  NoOwner = NoOwner
  NoRow = NoRow
  MaxPos = 3
  MaxFaults = 1
  n1 = n1
  Names <- TwoNames
  Username <- OneUsername
  FirstName <- SameName
INVARIANTS FaultsOK
PROPERTIES OthersKept
