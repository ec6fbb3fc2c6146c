CONSTANTS
  num_nodes = 2
  Lines = {l1}
  hit_time = 5
  Protocols = {"MOESI"}
  UninitOutstanding = {FALSE}
  NULL = NULL
SPECIFICATION FairSpec
INVARIANT EveryWaiterHasOneRequest
INVARIANT IInv
PROPERTY OwnershipConserved
PROPERTY ImplementsCoherentMemory
PROPERTY EveryAccessCompletes
PROPERTY WaitIsBounded
