SPECIFICATION Spec
CONSTANTS
  Phones = {p1, p2}
  Codes = {c1, c2}
  Sessions = {s1, s2}
  NoPhone = NoPhone
  NoCode = NoCode
  NoSession = NoSession
  MaxTokens = 3
  MaxWire = 2
SYMMETRY Symmetry
INVARIANTS PairedOnce TokenUsable SignOutEnds PushFollowsSession
CHECK_DEADLOCK FALSE
