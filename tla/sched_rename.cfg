SPECIFICATION HSpec
CONSTANTS
  rs = "F"
  rs_size = 0
  rs_sizes <- OneEach
  num_regs = 2
  Latency <- ShortLatency
  Instructions <- Mixed
  MaxInsts = 4
  MaxCycle = 40
  NULL = NULL
INVARIANT MarkedSourcesAreReady
CHECK_DEADLOCK FALSE
