SPECIFICATION Spec
CONSTANTS
  r1 = r1
  r2 = r2
  Requests = {r1, r2}
  Consents = {c1}
  None = None
  MaxFaults = 2
  MaxTokens = 3
SYMMETRY Symmetry
INVARIANTS SpentOnce NotOlderThanRead RefusalReported
