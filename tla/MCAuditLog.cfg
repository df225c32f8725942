SPECIFICATION FairSpec
CONSTANTS
  NTenants = 2
  Events <- EventSet
  TenantOf <- TwoTenants
  Malformed = {3}
  MaxCalls = 3
  Recorders = {"a"}
  RecorderOf <- OneProcess
  QueueSize = 1
  BatchSize = 2
  MaxFailures = 1
INVARIANTS NoFalseAlarm SomeoneGoesOn Accounted NoOvertaking
PROPERTIES TrailExtends Delivered
CHECK_DEADLOCK FALSE
