SPECIFICATION Spec
CONSTANTS
  Ceilings = {0, 1}
  None = None
  Start = 2
  MaxRuns = 3
  MaxMallocs = 7
  MaxClock = 5
INVARIANTS TypeOK PassBoundsAllocs AlarmIsReal LatencyIsOfBodies
CHECK_DEADLOCK FALSE
