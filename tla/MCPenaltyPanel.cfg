SPECIFICATION PanelSpec
CONSTANTS
  g1 = g1
  m1 = m1
  late = late
  ditch = ditch
  panel1 = panel1
  Game <- MCGame
  Member <- MCMember
  Proxy <- MCProxy
  Lineups <- MCLineups
  Tier <- MCTier
  Ditch <- MCDitch
  Panel <- MCPanel
  After = 1
  Lookback = 1
  NoChoice = NoChoice
  NoTier = NoTier
  MaxMarks = 1
  MaxLapses = 1
  MaxWaiting = 2
INVARIANTS PenaltiesOK
PROPERTIES LateTapsAreSafe
CHECK_DEADLOCK FALSE
