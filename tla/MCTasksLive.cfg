SPECIFICATION FairSpec
CONSTANTS
  Tasks = {t1}
  Workers = {w1, w2}
  ReadCalls = {}
  ActionCalls = {a1}
  DeviceCalls = {d1}
  ConfIds = {k1}
  ApprIds = {p1}
  Submitters = {s1, s2}
  NoWorker = NoWorker
  NoTask = NoTask
  NoCall = NoCall
  NoApprId = NoApprId
  TaskMaxSteps = 2
  MaxTransientErrors = 2
  MaxCallsPerStep = 2
  MaxStalls = 1
  LossKinds = {"worker", "handler", "device"}
  MaxLosses = 0
INVARIANTS WaitEnds
PROPERTIES TasksEnd
CHECK_DEADLOCK FALSE
