SPECIFICATION FairSpec
CONSTANTS
  g1 = g1
  m1 = m1
  x1 = x1
  Game <- MCGame
  Member <- MCMember
  Proxy <- MCProxy
  Lineups <- MCLineups
  After = 1
  Lookback = 2
  NoChoice = NoChoice
  MaxMarks = 2
  MaxLapses = 1
INVARIANTS GhostsOK
PROPERTIES SweepForgivesOnce EndsReviewed
CHECK_DEADLOCK FALSE
