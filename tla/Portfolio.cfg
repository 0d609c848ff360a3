SPECIFICATION Spec
CONSTANTS
  Absent = Absent
  Feature = {f1, s1}
  Spike = {s1}
  Code = {}
  MaxTasks = 1
  DefaultTier = "production"
  SecondLength = 1
  MaxClock = 5
  DayLength = 1
  ObeysGuard = TRUE
  Evaluable = TRUE
  FreeEdits = FALSE
  Started = {}
  StartStatus = {}
  StartRigor = {}
  StartChecked = {}
CHECK_DEADLOCK FALSE
PROPERTIES RecordImplemented
