SPECIFICATION Spec
CONSTANTS
  Jobs <- MCReframed
  K = 2
  Mod = 4
  kMaxErrors = 6
  kFallbackErrors = 3
  kCrcPolls = 2
  kStartPolls = 4
  BlockTime = 4
  PollTime = 3
  SenderWait = 9
  Latency = 1
INVARIANT WrittenIsAPrefix
CHECK_DEADLOCK FALSE
