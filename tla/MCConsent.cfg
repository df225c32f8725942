SPECIFICATION Spec
CONSTANTS
  ToolQuestions = {q1}
  TaskQuestions = {q2}
  MaxCallsInFlight = 1
  MaxCreateRetries = 0
  MaxTurns = 1
  MaxResponses = 3
  MaxCallsPerResponse = 1
  MaxErrors = 1
  MaxFailures = 1
  NoQuestion = NoQuestion
  NoTurn = NoTurn
INVARIANTS  AskedWhenSpoken AcksFirst
CHECK_DEADLOCK FALSE
