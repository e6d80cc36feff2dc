SPECIFICATION FairSpec
CONSTANTS
  Nodes = 1
  kPerCall = 2
  kRing = 1
  kGap = 2
  MaxSeq = 2
  BusDepth = 2
  Local = {}
  Places = {"room", "other", "Form", "Watch", "Snoop"}
INVARIANT AllowanceIsTheCallers
PROPERTY RingingEnds
