SPECIFICATION HFairSpec
CONSTANTS
  rs = "F"
  rs_size = 0
  rs_sizes <- SmallTables
  num_regs = 2
  Latency <- ShortLatency
  Instructions <- Faulty
  MaxInsts = 4
  MaxCycle = 26
  NULL = NULL
INVARIANTS TypeOK AliasIsYoungest SourceIsProducer ReadyMeansProduced UnitsArePipelines CyclesAreAccounted NeverIdle RunTimeIsBounded
PROPERTY RunEndsUnlessNoUnit
CHECK_DEADLOCK FALSE
