SPECIFICATION FairSpec
CONSTANTS
  kMax = 2
  Peers = {p}
  kPerPeer = 2
  kAsksMax = 1
  kRing = 1
  Askers = {1}
INVARIANTS HeldIsNotFree AdmittedByItsOwnAnswer SleepMissesNothing LoopIsWoken
PROPERTIES ClaimIsServed LetGoComesBack
