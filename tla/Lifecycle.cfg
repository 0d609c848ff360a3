SPECIFICATION StartedSpec
CONSTANTS
  Absent = Absent
  Feature = {f1}
  Spike = {}
  Code = {}
  MaxTasks = 1
  DefaultTier = "production"
  SecondLength = 1
  MaxClock = 4
  DayLength = 1
  ObeysGuard = TRUE
  Evaluable = TRUE
  FreeEdits = TRUE
  Started = {f1}
  StartStatus = {"in-progress", "done", "archived"}
  StartRigor = {"mvp", "none"}
  StartChecked = {0, 1}
CHECK_DEADLOCK FALSE
INVARIANTS TypeOK GuardHolds
PROPERTIES RecordImplemented
