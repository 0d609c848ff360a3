SPECIFICATION StartedSpec
CONSTANTS
  Absent = Absent
  Feature = {f1}
  Spike = {}
  Code = {}
  MaxTasks = 1
  DefaultTier = "production"
  SecondLength = 1
  MaxClock = 5
  DayLength = 1
  ObeysGuard = TRUE
  Evaluable = TRUE
  FreeEdits = FALSE
  Started = {f1}
  StartStatus = {"in-progress"}
  StartRigor = {"mvp"}
  StartChecked = {1}
CHECK_DEADLOCK FALSE
PROPERTIES LifecycleIsNeverDrift
