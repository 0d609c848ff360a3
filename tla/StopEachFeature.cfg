SPECIFICATION MCSpec
CONSTANTS
  Absent = Absent
  Feature = {f1, f2}
  Spike = {}
  Code = {}
  MaxTasks = 1
  DefaultTier = "production"
  SecondLength = 1
  MaxClock = 4
  DayLength = 1
  ObeysGuard = TRUE
  Evaluable = TRUE
  FreeEdits = FALSE
CHECK_DEADLOCK FALSE
PROPERTIES StopLeavesNoDrift
