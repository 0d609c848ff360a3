SPECIFICATION MCSpec
CONSTANTS
  Absent = Absent
  Feature = {f1, f2}
  Spike = {}
  Code = {}
  MaxTasks = 2
  DefaultTier = "production"
  SecondLength = 1
  MaxClock = 5
  DayLength = 1
  ObeysGuard = TRUE
  Evaluable = TRUE
  FreeEdits = FALSE
CHECK_DEADLOCK FALSE
INVARIANTS CleanBlockIsDrift
PROPERTIES BlockSurvivesCommit BookkeepingNeverBlocks StopsAgain
