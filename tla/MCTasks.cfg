SPECIFICATION Spec
CONSTANTS
  Tasks = {t1}
  Workers = {w1, w2}
  ReadCalls = {r1}
  ActionCalls = {a1}
  DeviceCalls = {d1}
  ConfIds = {k1, k2}
  ApprIds = {p1, p2}
  Submitters = {s1}
  NoWorker = NoWorker
  NoTask = NoTask
  NoCall = NoCall
  NoApprId = NoApprId
  TaskMaxSteps = 2
  MaxTransientErrors = 1
  MaxCallsPerStep = 2
  MaxStalls = 2
  LossKinds = {"worker", "handler", "device"}
  MaxLosses = 1
SYMMETRY Symmetry
INVARIANTS TypeOK HistoryPaired AskedOnce ActionResultTrue CommandResultTrue
PROPERTIES TerminalFinal HistoryGrows
CHECK_DEADLOCK FALSE
