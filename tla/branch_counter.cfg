\* The three-bit counters of the README.
SPECIFICATION HSpec
CONSTANTS
  Predictors <- OnlyBimodal
  num_entries = 2
  counter_bits = 3
  history_bits = 1
  register_bits = 3
  Branches <- Two
  Unreadable = FALSE
  MaxBranches = 6
  GARBLED = GARBLED
  NULL = NULL
INVARIANTS
  CountersFitTheirBits
\* A run ends.
CHECK_DEADLOCK FALSE
