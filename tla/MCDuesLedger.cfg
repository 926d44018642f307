SPECIFICATION Spec
CHECK_DEADLOCK FALSE
CONSTANTS
  Game <- MCGame
  User <- MCUser
  Proxy <- MCProxy
  Lineups <- MCLineups
  Fee <- MCFee
  Subsidies <- MCSubsidies
  Steps <- MCSteps
  Amount <- MCAmount
  MaxClock = 2
  MaxMoves = 5
  MaxEntries = 1
INVARIANTS BooksOK ReopenedIsClean
PROPERTIES ClosingSparesFund OldSeasonKept
