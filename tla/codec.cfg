CONSTANTS
  BYTE = 4
  Setups <- SomeSetups
  Multiplicities = {0, 3, 5}
  GRAIN = 2
  MAX_EVENTS = 2
  MAX_RUNS = 2
SPECIFICATION CSpec
INVARIANTS HitsStayHome NoHitOutsideTheList HeaderTellsSetup HeaderIsNoEvent HeaderWouldTell
CHECK_DEADLOCK FALSE
