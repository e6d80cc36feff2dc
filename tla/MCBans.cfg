SPECIFICATION Spec
CONSTANTS
  Addrs = {a1, a2, a3}
  Calls = {c1}
  NoAddr = NoAddr
  kSlots = 2
  kTries = 2
  kWindow = 1
  kBan = 1
  kClock = 6
  kAhead = 2
  kLag = 1
  kQuiet = 1
  kStart = 3
  kTimeMax = 8
  kAnswers = 4
  kHeld = 1
SYMMETRY Symmetry
INVARIANTS BansStandTheirTime
PROPERTIES BanIsKept BanIsEarned
CHECK_DEADLOCK FALSE
