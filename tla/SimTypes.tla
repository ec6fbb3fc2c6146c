------------------------------- MODULE SimTypes -------------------------------
(***************************************************************************)
(* Constants and message types of the cache-coherence simulator            *)
(* (Project3/sim): what sim/enums.h, sim/types.h and sim/mreq.cpp declare. *)
(***************************************************************************)
EXTENDS Integers

CONSTANTS
  num_nodes,          \* settings.num_nodes: processors, each with its cache
  Lines,              \* cache-line addresses the traces touch
  hit_time,           \* cycles the memory controller takes (100 in node.cpp)
  Protocols,          \* protocols a run may be started with (main.cpp, -p)
  UninitOutstanding,  \* what Processor::outstanding_request, which the
                      \* constructor leaves unset, may hold at the start
  NULL                \* the null pointer

Nodes == 0 .. num_nodes - 1

\* The memory controller is the module of node num_nodes.
MC == num_nodes

\* A trace entry: the line of the trace file a processor is working on, its
\* address rounded down to a cache line.
Access == [op: {"LOAD", "STORE"}, addr: Lines]

\* What travels on the bus.  A request has no destination; DATA always has.
Request == [msg: {"GETS", "GETM"}, addr: Lines, src: Nodes]
Data    == [msg: {"DATA"}, addr: Lines, src: Nodes \cup {MC}, dest: Nodes]
Mreq    == Request \cup Data

\* What memory is looking up, and for whom.
Lookup == [addr: Lines, target: Nodes]

ASSUME NodesAssumption == num_nodes \in Nat \ {0}
ASSUME HitTimeAssumption == hit_time \in Nat \ {0}
ASSUME ProtocolsAssumption ==
  Protocols \subseteq {"MI", "MSI", "MESI", "MOSI", "MOESI"}
ASSUME UninitAssumption == UninitOutstanding \subseteq BOOLEAN
ASSUME NullAssumption == NULL \notin Access \cup Mreq \cup Lookup \cup Lines

===============================================================================
