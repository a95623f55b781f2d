SPECIFICATION FairSpec
CONSTANTS
  Models = {A, B, C}
  Requests = {r1, r2}
  Lockings = {"database", "rows"}
  MaxClients = 2
  MaxFaults = 1
  MaxStops = 1
  Default = Default
  Null = Null
INVARIANTS TypeOK OneActiveWhenSerialised SerialServesActive
PROPERTY EveryActivationEnds
CHECK_DEADLOCK FALSE
