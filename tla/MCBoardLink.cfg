SPECIFICATION FairSpec
CONSTANTS
  Jobs <- MCJobs
  MaxBoots = 3
  kStreamWin = 2
  kTries = 1
  kPingMisses = 1
  kHelloMisses = 1
  kSessions = 1
  kTombs = 1
INVARIANTS InOrderOnce AckedIsTaken KeysAreFresh UpAgrees
PROPERTIES LinkComesUp MessagesSettle
CHECK_DEADLOCK FALSE
