CONSTANTS
  num_nodes = 2
  Lines = {l1, l2}
  hit_time = 5
  Protocols = {"MI", "MSI", "MESI", "MOSI"}
  UninitOutstanding = {FALSE}
  NULL = NULL
SPECIFICATION Spec
INVARIANT SharedLineMeansShared
