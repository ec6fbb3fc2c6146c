----------------------------- MODULE CoherenceInv -----------------------------
(***************************************************************************)
(* The inductive invariant behind the safety properties of Coherence, for  *)
(* the protocols that keep them.  It says who waits for what at every      *)
(* point of a bus transaction, and how far the transaction's effect on the *)
(* other caches has come.                                                  *)
(***************************************************************************)
EXTENDS Coherence

\* The protocols that keep the invariant with any number of caches, and those
\* that keep it with the number there is: MOESI does with at most two.
Clean == {"MI", "MSI", "MESI", "MOSI"}
Sound == IF num_nodes <= 2 THEN Clean \cup {"MOESI"} ELSE Clean

StatesOf(p) == CASE p = "MI"    -> MI!States
                 [] p = "MSI"   -> MSI!States
                 [] p = "MESI"  -> MESI!States
                 [] p = "MOSI"  -> MOSI!States
                 [] p = "MOESI" -> MOESI!States

\* The loop between two bus ticks: before and after memory has seen the bus.
BeforeMemory == phase \in {"cache_request", "cache_snoop", "tick_pr", "tick_mc"}
AfterMemory  == phase \in {"tock", "bus_tick", "finished"}

ControlInv ==
  /\ BeforeMemory \/ AfterMemory
  /\ phase \notin {"cache_request", "cache_snoop", "tick_pr"} => turn = 0

ProtocolInv ==
  /\ protocol \in Sound
  /\ \A i \in Nodes, a \in Lines : state[i][a] \in StatesOf(protocol)

\* An outstanding access is in one place: with the cache, waiting for the bus,
\* or answered and on its way to the processor.
ProcessorInv ==
  \A i \in Nodes :
    /\ proc_request[i] # NULL =>
         /\ outstanding_request[i]
         /\ inbound_request_buf[i] = NULL
         /\ inbound_request[i] = NULL
         /\ \A a \in Lines : state[i][a] \notin Waiting
    /\ \A a \in Lines : state[i][a] \in Waiting =>
         /\ outstanding_request[i]
         /\ inbound_request_buf[i] = NULL
         /\ inbound_request[i] = NULL
         /\ \A b \in Lines \ {a} : state[i][b] \notin Waiting
    /\ inbound_request_buf[i] # NULL =>
         outstanding_request[i] /\ inbound_request[i] = NULL
    /\ inbound_request[i] # NULL => outstanding_request[i]

\* A message asks for what its sender's line waits for.
AsksFor(m) ==
  state[m.src][m.addr] \in (IF m.msg = "GETM" THEN WaitWrite ELSE WaitRead)

QueueInv ==
  /\ \A k \in 1 .. Len(pending_requests) :
       /\ AsksFor(pending_requests[k])
       /\ \A a \in Lines : ~Transaction(pending_requests[k].src, a)
  /\ \A k, l \in 1 .. Len(pending_requests) :
       k # l => pending_requests[k].src # pending_requests[l].src

\* Where the one transaction on the bus stands.
BusInv ==
  /\ RequestOnBus => request_in_progress /\ AsksFor(current_request)
  /\ DataOnBus => ~request_in_progress
  /\ ~request_in_progress =>
       /\ data_reply = NULL
       /\ lookup # NULL => DataOnBus /\ BeforeMemory
  /\ request_in_progress /\ BeforeMemory =>
       IF RequestOnBus THEN lookup = NULL ELSE lookup # NULL /\ data_reply = NULL
  /\ request_in_progress /\ AfterMemory => lookup # NULL \/ data_reply # NULL
  /\ RequestOnBus /\ AfterMemory => lookup # NULL

TransactionInv ==
  /\ \A i \in Nodes, a \in Lines : Transaction(i, a) => state[i][a] \in Waiting
  /\ \A i, j \in Nodes : \A a, b \in Lines :
       Transaction(i, a) /\ Transaction(j, b) => i = j /\ a = b

\* Cache j has dealt with the request of the transaction under way.
Served(j) == RequestOnBus => Snooped(j)

CoherenceInvariant ==
  /\ SingleWriter
  /\ \A i, j \in Nodes, a \in Lines :
       i # j /\ Transaction(i, a) /\ Served(j) =>
         /\ state[i][a] \in WaitWrite => state[j][a] \notin Copy
         /\ state[i][a] \in WaitRead => state[j][a] \notin Exclusive
         /\ state[i][a] = "ISE" /\ ~shared_line => state[j][a] \notin Copy
  /\ RequestOnBus /\ data_reply # NULL =>
       \A j \in Nodes :
         ~Snooped(j) => state[j][current_request.addr] \notin Owning

\* What two caches of MOESI make of an owned line.  The other cache does not
\* read past the owner (O): it has a copy already, waits for one to write, or
\* waits for the DATA the owner has sent.  It is rid of its copy of a line the
\* owner is about to write (OM) only once it has snooped the owner's GETM.
Reading(i, a, j) == Transaction(i, a) /\ Served(j)
PairInv ==
  protocol = "MOESI" =>
    \A i, j \in Nodes, a \in Lines : i # j =>
      /\ state[i][a] = "O" =>
           /\ state[j][a] # "I"
           /\ state[j][a] = "ISE" => Reading(j, a, i)
      /\ state[i][a] = "OM" =>
           /\ state[j][a] = "I" => Reading(i, a, j)
           /\ state[j][a] = "ISE" => Reading(j, a, i) \/ Reading(i, a, j)

IInv ==
  /\ TypeOK
  /\ ControlInv
  /\ ProtocolInv
  /\ ProcessorInv
  /\ QueueInv
  /\ BusInv
  /\ TransactionInv
  /\ CoherenceInvariant
  /\ PairInv

\* What memory relies on: the caches that have dealt with a request and left it
\* without DATA do not own its line, and none does while memory looks it up.
MemoryInv ==
  /\ RequestOnBus /\ data_reply = NULL =>
       \A j \in Nodes :
         Snooped(j) => state[j][current_request.addr] \notin Owning
  /\ request_in_progress /\ ~RequestOnBus /\ data_reply = NULL =>
       \A j \in Nodes : state[j][lookup.addr] \notin Owning
  /\ MemoryAnswersUnowned

-------------------------------------------------------------------------------
(* Three more, inductive relative to IInv: what becomes of the requests.   *)

\* A request for node i and line a waits for the bus.
Queued(i, a) ==
  \E k \in 1 .. Len(pending_requests) :
    pending_requests[k].src = i /\ pending_requests[k].addr = a

\* No line waits without a request.
WaiterInv ==
  \A i \in Nodes, a \in Lines :
    state[i][a] \in Waiting => Queued(i, a) \/ Transaction(i, a)

\* While a reader waits that will ask for the shared line, the line is set only
\* if somebody shares.
SharedInv ==
  \A i \in Nodes, a \in Lines :
    Transaction(i, a) /\ state[i][a] = "ISE" /\ shared_line =>
      \E j \in Nodes \ {i} : state[j][a] \in Copy \cup {"SM"}

\* The access a processor is on is the one its cache is to serve, or the one a
\* line waits for: a store waits for the line to itself.
AccessInv ==
  \A i \in Nodes :
    /\ proc_request[i] # NULL => infile[i] = proc_request[i]
    /\ \A a \in Lines : state[i][a] \in Waiting =>
         /\ infile[i] # NULL
         /\ infile[i].addr = a
         /\ infile[i].op = "STORE" => state[i][a] \in WaitWrite

\* A processor's access is with the cache from one of its ticks to the next, and
\* a lookup that a cycle leaves unanswered has time left.
CycleInv ==
  /\ \A i \in Nodes : proc_request[i] # NULL =>
       /\ phase = "cache_request" => turn <= i
       /\ phase = "cache_snoop" => turn < i
       /\ phase = "tick_pr" => i < turn
  /\ phase = "tock" /\ request_in_progress /\ data_reply = NULL => data_time > 0

\* What CyclesLeft counts is in range.
CyclesInv ==
  \A i \in Nodes :
    /\ CyclesLeft(i) \in 0 .. num_nodes * Service + 1
    /\ proc_request[i] = NULL => CyclesLeft(i) <= num_nodes * Service

===============================================================================
