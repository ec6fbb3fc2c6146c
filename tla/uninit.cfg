CONSTANTS
  num_nodes = 2
  Lines = {l1}
  hit_time = 5
  Protocols = {"MI"}
  UninitOutstanding = {TRUE, FALSE}
  NULL = NULL
SPECIFICATION FairSpec
PROPERTY TraceIsRead
