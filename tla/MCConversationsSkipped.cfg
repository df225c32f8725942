SPECIFICATION Spec
CONSTANTS
  Questions = {}
  Results = {r1, r2}
  MaxConvs = 1
  MaxTurns = 0
  MaxAnswers = 0
  MaxLosses = 0
SYMMETRY Symmetry
INVARIANT NoneSkipped
CHECK_DEADLOCK FALSE
