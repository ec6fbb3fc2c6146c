SPECIFICATION SeparateSpec
CONSTANTS
  rs = "F"
  rs_size = 0
  rs_sizes <- SmallTables
  num_regs = 4
  Latency <- ShortLatency
  Instructions <- Wide
  MaxInsts = 6
  MaxCycle = 60
  NULL = NULL
PROPERTY ImplementsDataflow
CHECK_DEADLOCK FALSE
