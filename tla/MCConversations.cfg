SPECIFICATION Spec
CONSTANTS
  Questions = {q1}
  Results = {r1}
  MaxConvs = 2
  MaxTurns = 1
  MaxAnswers = 1
  MaxLosses = 1
INVARIANTS TypeOK QuestionFollowsEvent AskedInOwnTurns
PROPERTIES SettledWhereAsked ToldOnce
CHECK_DEADLOCK FALSE
