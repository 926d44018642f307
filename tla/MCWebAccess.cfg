SPECIFICATION MCSpec
CONSTANTS
  p1 = p1
  p2 = p2
  c1 = c1
  l1 = l1
  nobody = nobody
  Person <- MCPerson
  Clients <- MCClients
  Code <- MCCode
  WebLink <- MCLink
  NoOne = nobody
  MaxIssued = 2
  Ttl = 1
  MaxNow = 1
  MaxTurns = 2
VIEW Seen
INVARIANTS SignInsOK AdminsOK
PROPERTIES OwnersKept
CHECK_DEADLOCK FALSE
