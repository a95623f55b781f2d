SPECIFICATION Spec
CONSTANTS
  s1 = s1
  s2 = s2
  s3 = s3
  amount = amount
  night = night
  Samples = {s1, s2, s3}
  Scale = 4
  Costs = {0, 1, 3}
  Grids = {2, 3}
  Decline <- DeclineValue
  Bins = 2
  MaxReports = 2
  Features = {amount, night}
  Baseline <- BaselineValue
  Values <- ValuesValue
  Quantiles = 2
  Limit = 4
  Ln <- LnValue
  LnMillion = 13816
  MaxLogged = 4
  MaxRecords = 2
  MaxItems = 3
SYMMETRY Symmetry
INVARIANTS
  RecommendationsHold
  CalibrationHolds
  DriftTells
  IngestedWhole
CHECK_DEADLOCK FALSE
