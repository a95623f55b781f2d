SPECIFICATION Spec
CONSTANTS
  Models = {A, B, C}
  Requests = {r1, r2}
  Lockings = {"database"}
  MaxClients = 2
  MaxFaults = 0
  MaxStops = 0
  Default = Default
  Null = Null
CHECK_DEADLOCK FALSE
INVARIANT RecordsServed
