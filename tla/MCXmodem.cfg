SPECIFICATION FairSpec
CONSTANTS
  Jobs <- MCJobs
  K = 2
  Mod = 4
  kMaxErrors = 6
  kFallbackErrors = 3
  kCrcPolls = 2
  kStartPolls = 4
  BlockTime = 4
  PollTime = 3
  SenderWait = 9
  Latency = 1
INVARIANTS WrittenIsAPrefix DoneIsWhole NeverAhead
PROPERTIES TransferEnds FileArrives
CHECK_DEADLOCK FALSE
