SPECIFICATION MCSpec
CONSTANTS
  m1 = m1
  x1 = x1
  a1 = a1
  web = web
  Member <- MCMember
  Guest <- MCGuest
  Admin <- MCAdmin
  Web = web
  MaxAsks = 2
  MaxActs = 1
  MaxRollCalls = 2
  MaxIds = 2
  MaxMessages = 2
  MaxCalls = 2
CHECK_DEADLOCK FALSE
INVARIANTS ChatOK
PROPERTIES AskedFirst
