SPECIFICATION Spec
CONSTANTS
  p1 = p1
  p2 = p2
  boot = boot
  ann = ann
  key = key
  none = none
  foreign = foreign
  Replicas = {p1, p2}
  MaxRequests = 4
  Names = {boot, ann}
  Boot = boot
  ApiKeys = {key, none, foreign}
  EmptyKey = none
  ForeignKeys = {foreign}
  ValidKey = key
  Lifetime = 2
  None = None
  Window = 1
  PerSecond = 2
  MaxClock = 4
  Demand <- DemandValue
CHECK_DEADLOCK FALSE
INVARIANTS
  TypeOK
  TwoWindowsAtMost
  RetryAfterTells
  RolesHold
  TokensLast
  AccountsStand
PROPERTIES
  ReplicasComeUp
