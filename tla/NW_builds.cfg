CONSTANTS
  process_thr = 1
  bus_vec_width = 2
  MAX_LABEL = 4
  FIFO_DEP_LEN = 2
  MAX_NET_LATENCY = 2
  Builds <- MCBuilds
SPECIFICATION Spec
INVARIANTS InBounds Prompt
PROPERTY DeliverySpec
CHECK_DEADLOCK FALSE
