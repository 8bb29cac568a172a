SPECIFICATION Spec
CONSTANTS
  Worker = {w1, w2}
  Job = {j1, j2}
  NoJob = NoJob
  NoWorker = NoWorker
  INIT_SIZE = 1
  MAX_SIZE = 2
PROPERTY FilledRuns
CHECK_DEADLOCK FALSE
