SPECIFICATION Spec
CONSTANTS
  NumVertices = 8
  NumRows = 2
  Stride = 1
  LowDegree = 1
  MediumDegree = 2
  Infinity = 99
  Files <- MCFiles
  Sources = {0, 4}
  Metis <- MCMetis
  Builds <- MCBuilds
INVARIANTS SameGraph SlicesKept EvenLoad BoundaryCurrent AnswerExact
CHECK_DEADLOCK FALSE
