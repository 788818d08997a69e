CONSTANTS
  NumVertices = 4
  Vertices <- MCVertices
  Degree <- MCDegree
  MaxDist = 2
  NUM_TQ_PER_CORE = 1
  TASK_QUEUE_SIZE = 4
  HIGH_PRIO_RESERVE = 3
  FIFO = FALSE
  ABORT = TRUE
  ENTRY_ABORT = TRUE
  NoTask = NoTask
SPECIFICATION Spec
INVARIANTS Occupancy NoLostUpdate SingleInstance
PROPERTY EventuallyQuiet
CHECK_DEADLOCK FALSE
