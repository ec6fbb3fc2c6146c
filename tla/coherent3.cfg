CONSTANTS
  num_nodes = 3
  Lines = {l1}
  hit_time = 5
  Protocols = {"MI", "MSI", "MESI", "MOSI"}
  UninitOutstanding = {FALSE}
  NULL = NULL
SPECIFICATION FairSpec
INVARIANT SingleWriter
INVARIANT NeverAborts
INVARIANT EveryWaiterHasOneRequest
INVARIANT MemoryAnswersUnowned
INVARIANT IInv
INVARIANT MemoryInv
PROPERTY CompletesWithPermission
PROPERTY OwnershipConserved
PROPERTY ImplementsCoherentMemory
PROPERTY EveryAccessCompletes
PROPERTY WaitIsBounded
