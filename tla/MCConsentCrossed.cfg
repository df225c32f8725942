SPECIFICATION Spec
CONSTANTS
  ToolQuestions = {}
  TaskQuestions = {q2}
  MaxCallsInFlight = 1
  MaxCreateRetries = 1
  MaxTurns = 2
  MaxResponses = 3
  MaxCallsPerResponse = 1
  MaxErrors = 0
  MaxFailures = 0
  NoQuestion = NoQuestion
  NoTurn = NoTurn
INVARIANTS ConfirmedAfterSpoken
CHECK_DEADLOCK FALSE
