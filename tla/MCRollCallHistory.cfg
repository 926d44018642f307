SPECIFICATION HistorySpec
CONSTANTS
  m1 = m1
  m2 = m2
  g1 = g1
  Members <- MCMembers
  Guests <- MCGuests
  Limits <- MCLimits
  NoLimit = NoLimit
  Admin = Admin
  Web = Web
  NoOwner = NoOwner
  NoRow = NoRow
  MaxPos = 4
  Names <- MCGuests
  Username <- NoUsername
  FirstName <- SameName
SYMMETRY Symmetry
VIEW Rollcall
INVARIANTS ListsOK StoreOK
PROPERTIES FairLine ImplementsLists NoUnaskedDemotion CountersFollowLists
