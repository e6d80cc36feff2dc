SPECIFICATION Spec
CONSTANTS
  kMax = 1
  Peers = {p}
  kPerPeer = 1
  kAsksMax = 1
  kRing = 1
  Askers = {1}
PROPERTY EndIsBehindTheKeys
