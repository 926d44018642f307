SPECIFICATION MCSpec
CONSTANTS
  p1 = p1
  p2 = p2
  Schedules <- MCSchedules
  Schedulers <- MCSchedulers
  MonthEnds <- MCMonthEnds
  WeekLength = 3
  SlotsPerDay = 3
  Window = 1
  CatchupDays = 2
  LastTime = 18
  MaxEdits = 3
  MaxHold = 1
  Sqlite = FALSE
  Saves <- MCSaves
CHECK_DEADLOCK FALSE
SYMMETRY Alike
INVARIANTS OncePerDay
PROPERTIES DeskKept
