\* Four entries of two-bit counters, histories of two bits.
SPECIFICATION HFairSpec
CONSTANTS
  Predictors <- All
  num_entries = 4
  counter_bits = 2
  history_bits = 2
  register_bits = 3
  Branches <- Four
  Unreadable = TRUE
  MaxBranches = 5
  GARBLED = GARBLED
  NULL = NULL
INVARIANTS
  TypeOK
  CountersReplayTheTrace
  CountersAreSharedByKey
  StatisticsReplayTheTrace
PROPERTIES
  RunEndsUnlessUnreadable
\* A run ends.
CHECK_DEADLOCK FALSE
