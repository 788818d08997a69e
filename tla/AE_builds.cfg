CONSTANTS
  NumVertices = 5
  NumCores = 2
  Vertices <- MCVertices
  Builds <- MCBuilds
  Source = 1
  MaxDist = 5
  PROCESS_THR = 2
  COMPLETION_BUFFER_SIZE = 3
  MAX_ELEM_DISPATCH = 4
  BUS_VEC_WIDTH = 2
  NoTask = NoTask
SPECIFICATION Spec
INVARIANTS RelaxationCovered NothingLeft OneValuePerSource
PROPERTY RelaxationSpec
CHECK_DEADLOCK FALSE
