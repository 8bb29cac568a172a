SPECIFICATION Spec
CONSTANTS
  Worker = {w1, w2, w3}
  Job = {j1, j2, j3}
  NoJob = NoJob
  NoWorker = NoWorker
  INIT_SIZE = 1
  MAX_SIZE = 2
INVARIANTS StackedIsFree OneWorkerPerJob IdleBound
PROPERTY TargetKept
CHECK_DEADLOCK FALSE
