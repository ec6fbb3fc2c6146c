SPECIFICATION HFairSpec
CONSTANTS
  rs = "U"
  rs_size = 3
  rs_sizes <- SmallTables
  num_regs = 2
  Latency <- ShortLatency
  Instructions <- Faulty
  MaxInsts = 4
  MaxCycle = 26
  NULL = NULL
INVARIANTS AliasIsYoungest SourceIsProducer ReadyMeansProduced UnitsArePipelines NeverIdle RunTimeIsBounded
PROPERTY RunEndsUnlessNoUnit
CHECK_DEADLOCK FALSE
