SPECIFICATION FairSpec
CONSTANTS
  NNotes = 1
  Notifiers = {n1, n2}
  Phones = {p1, p2}
  NotificationAttempts = 3
  ClaimMax = 1
  Convs = {c1}
  Turns = {t1, t2}
  MemoryWorkers = {w1, w2}
  NoConv = NoConv
  MaxMemoryAttempts = 2
  MaxStalls = 2
INVARIANTS DoneMeansTold SharedOnlyLate 
PROPERTIES NoteHandled JobSettles
CHECK_DEADLOCK FALSE
