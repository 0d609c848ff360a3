SPECIFICATION Spec
CONSTANTS
  Screen = {m1, m2}
  MaxPushes = 3
  MaxClicks = 2
  MaxStops = 2
  MaxDrops = 1
CHECK_DEADLOCK FALSE
INVARIANTS TypeOK ClicksInOrder 
PROPERTIES UpdateKeepsClicks ScreensReachTheTab ReloadsAreKept
