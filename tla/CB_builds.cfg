CONSTANTS
  c1 = c1
  c2 = c2
  e1 = e1
  e2 = e2
  v1 = v1
  l1 = l1
  l2 = l2
  Dummy = Dummy
  Stray = Stray
  NoCore = NoCore
  Cores <- MCCores
  Edges <- MCEdges
  VertexLines <- MCVertexLines
  EdgeLines <- MCEdgeLines
  COMPLETION_BUFFER_SIZE = 4
  FIFO_DEP_LEN = 1
  AGG_FIFO_DEP_LEN = 1
  Builds <- Sound
SPECIFICATION Spec
INVARIANTS RingExact WaitingExact Ordered
PROPERTY OrderedReadsSpec
