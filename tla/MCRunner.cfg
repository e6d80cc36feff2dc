SPECIFICATION FairSpec
CONSTANTS
  Jobs = {j1, j2, j3}
  Tasks = {t1, t2}
  kQueue = 2
  Boards = {TRUE, FALSE}
  NoJob = NoJob
INVARIANTS OneTask BusyCoversWork LoopOwnsItsJobs WakeFindsTask
PROPERTIES AcceptedIsFinished ServiceSpec
