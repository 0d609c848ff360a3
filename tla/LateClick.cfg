SPECIFICATION Spec
CONSTANTS
  Screen = {m1, m2}
  MaxPushes = 2
  MaxClicks = 2
  MaxStops = 0
  MaxDrops = 0
CHECK_DEADLOCK FALSE
INVARIANTS EventsAreOfTheNewScreen
