SPECIFICATION RefreshSpec
CONSTANTS
  MaxVotes = 3
  MaxMessages = 3
  PanelRetries = 1
  MaxRow = 3
  Asides <- BothSides
  MaxAsides = 1
CHECK_DEADLOCK FALSE
INVARIANTS PanelOK
PROPERTIES PanelSettles
