CONSTANTS
  num_nodes = 3
  Lines = {l1}
  hit_time = 5
  Protocols = {"MOESI"}
  UninitOutstanding = {FALSE}
  NULL = NULL
SPECIFICATION Spec
INVARIANT SingleWriter
