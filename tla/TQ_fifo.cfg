CONSTANTS
  NumVertices = 3
  Vertices <- MCVertices
  Degree <- MCDegree
  MaxDist = 2
  NUM_TQ_PER_CORE = 2
  TASK_QUEUE_SIZE = 2
  HIGH_PRIO_RESERVE = 1
  FIFO = TRUE
  ABORT = FALSE
  ENTRY_ABORT = TRUE
  NoTask = NoTask
SPECIFICATION Spec
INVARIANTS Occupancy PresentIsQueued NoLostUpdate
PROPERTY EdgeServiceSpec
CHECK_DEADLOCK FALSE
