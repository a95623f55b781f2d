SPECIFICATION Spec
CONSTANTS
  c1 = c1
  j1 = j1
  Reports = Reports
  Cleanup = Cleanup
  Calls = {c1}
  Jobs = {j1}
  Window = 1
  Asked = {1}
  Configured = {{Reports, Cleanup}, {}}
  MaxClock = 2
  MaxRows = 2
  MaxFaults = 1
CHECK_DEADLOCK FALSE
INVARIANTS
  TypeOK
  YoungRowsStay
  CountedOnce
  SomePurgeGoesOn
  QuietWhenDown
PROPERTIES
  AllOrNothing
  StopEnds
  ExpiredGo
