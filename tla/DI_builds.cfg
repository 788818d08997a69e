SPECIFICATION Spec
CONSTANTS
  Vertices = {1, 2, 3}
  NumCores = 2
  GroupSize = 2
  Owner <- MCOwner
  Source = 1
  MaxDist = 3
  Epsilon = 2
  MaxResidual = 4
  TASK_QUEUE_SIZE = 1
  HIGH_PRIO_RESERVE = 0
  Builds <- MCBuilds
INVARIANTS BitsOfOwnQueue NoValueLost ResidualConserved
PROPERTY EventuallyQuiet
CHECK_DEADLOCK FALSE
