SPECIFICATION Spec
CONSTANTS
  r1 = r1
  r2 = r2
  Requests = {r1, r2}
  Arrivals <- ArrivalsValue
  Deployments <- DeploymentsValue
  Workers = {r1, r2}
  Api = Api
  Script = Script
  Missing = Missing
  Damaged = Damaged
  Fallback = Fallback
  None = None
  MaxTrainings = 1
  MaxFaults = 0
  MaxBatch = 2
  MaxSwaps = 1
INVARIANT ExplainerFollowsModel
CHECK_DEADLOCK FALSE
