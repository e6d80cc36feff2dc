SPECIFICATION Spec
CONSTANTS
  Nodes = 2
  kPerCall = 1
  kRing = 1
  kGap = 0
  MaxSeq = 1
  BusDepth = 2
  Local = {1}
  Places = {}
INVARIANTS NothingLeftBehind RingIsDelivered QuestionIsItsRing RingsAreSettled
