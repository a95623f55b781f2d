SPECIFICATION Spec
CONSTANTS
  r1 = r1
  r2 = r2
  Requests = {r1, r2}
  Arrivals <- ArrivalsValue
  Deployments <- DeploymentsValue
  Workers = {r1, r2}
  Api = Api
  Script = Script
  Missing = Missing
  Damaged = Damaged
  Fallback = Fallback
  None = None
  MaxTrainings = 2
  MaxFaults = 1
  MaxBatch = 2
  MaxSwaps = 2
SYMMETRY Symmetry
INVARIANTS
  TypeOK
  LabelsMatch
  OneFreshModel
  ExplainsServedModel
  AnswerTellsRows
  BackendsAgree
CHECK_DEADLOCK FALSE
