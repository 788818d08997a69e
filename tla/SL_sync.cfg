CONSTANTS
  Graph = "hop"
  NumVertices = 4
  NumCores = 1
  SLICE_COUNT = 2
  Out <- MCOut
  Owner <- MCOwner
  Source = 0
  MaxDist = 12
  TASK_QUEUE_SIZE = 3
  HIGH_PRIO_RESERVE = 1
  SLICE_ITER = 0
  Builds <- SyncBuilds
SPECIFICATION Spec
INVARIANTS CorrectAnswer
CHECK_DEADLOCK FALSE
