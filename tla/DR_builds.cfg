CONSTANTS
  Builds <- MCBuilds
  TRANS_QUEUE_DEPTH = 1
  CMD_QUEUE_DEPTH = 3
  TOTAL_ROW_ACCESSES = 1
  Window = 2
SPECIFICATION Spec
INVARIANTS DataBusFree Conserved RefreshOnTime Prompt
