SPECIFICATION Spec
CONSTANTS
  Temps = {39, 40, 45, 80}
  TripTemp = 45
INVARIANTS TypeOK WorkersHold
PROPERTIES HeadlessSafe WorkersRun
CHECK_DEADLOCK FALSE
