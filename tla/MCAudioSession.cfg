SPECIFICATION FairSpec
CONSTANTS
  Capacity = 2
  EventBuffer = 1
  MaxResponses = 2
  MaxChunks = 2
  MaxSpeech = 1
  MaxTaps = 1
INVARIANTS TruncateTrue
PROPERTIES SilentOnceTold FlowsAndStops
CHECK_DEADLOCK FALSE
