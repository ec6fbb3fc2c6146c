------------------------------ MODULE Coherence ------------------------------
(***************************************************************************)
(* What makes the simulator's caches coherent: the properties checked of   *)
(* Simulator, and the abstract memory it implements.                       *)
(***************************************************************************)
EXTENDS Simulator, FiniteSets

-------------------------------------------------------------------------------
(* Line states by what they allow and what they wait for.                  *)

Exclusive == {"E", "M"}
Owning    == {"E", "O", "M", "OM"}
Dirty     == {"O", "M", "OM"}
Copy      == Owning \cup {"S"}
WaitRead  == {"IS", "ISE"}
WaitWrite == {"IM", "SM", "OM"}
Waiting   == WaitRead \cup WaitWrite

\* Cache i has dealt with the message that is on the bus.
Snooped(i) == phase \in {"cache_request", "cache_snoop"} => i < turn

\* Node i's request for line a has been broadcast, and i has not had its DATA:
\* the request is on the bus, or its answer is being looked up, or is about to
\* be broadcast, or is on the bus and i's tick is still to come.
Transaction(i, a) ==
  \/ RequestOnBus /\ current_request.src = i /\ current_request.addr = a
  \/ data_reply # NULL /\ data_reply.dest = i /\ data_reply.addr = a
  \/ /\ request_in_progress /\ lookup # NULL
     /\ lookup.target = i /\ lookup.addr = a
  \/ /\ DataOnBus /\ current_request.dest = i /\ current_request.addr = a
     /\ ~Snooped(i)

\* Node i waits for its DATA: it is neither in its processor's buffer nor about
\* to be consumed.
UnderWay(i) == /\ outstanding_request[i]
               /\ inbound_request_buf[i] = NULL
               /\ inbound_request[i] = NULL

-------------------------------------------------------------------------------
(* Safety.                                                                 *)

\* A line that one cache holds exclusively (E, M) is held by no other, and no
\* two caches answer for the same line (E, O, M, OM): the single-writer rule
\* that do_snoop_* keeps by giving up a copy before the writer has its DATA.
SingleWriter ==
  \A a \in Lines : \A i, j \in Nodes : i # j =>
    /\ state[i][a] \in Exclusive => state[j][a] \notin Copy
    /\ state[i][a] \in Owning => state[j][a] \notin Owning

\* No handler reaches its fatal_error and no assertion fails: no access meets
\* a line that waits, no DATA a line that is held, and neither the reply slot
\* of the bus nor the buffer of a processor is ever filled twice.
NeverAborts == phase # "aborted"

\* A line waits if and only if exactly one request for it is queued or being
\* served, and the request asks for what the line waits for: none is lost, left
\* over or sent twice, although handlers change a waiting line's state.
EveryWaiterHasOneRequest ==
  \A i \in Nodes, a \in Lines :
    LET queued == {k \in DOMAIN pending_requests :
                     pending_requests[k].src = i /\ pending_requests[k].addr = a}
    IN /\ Cardinality(queued) + (IF Transaction(i, a) THEN 1 ELSE 0)
            = (IF state[i][a] \in Waiting THEN 1 ELSE 0)
       /\ \A k \in queued : pending_requests[k].msg =
            IF state[i][a] \in WaitWrite THEN "GETM" ELSE "GETS"

\* Memory, which is never told of a store, answers only for a line no cache
\* owns: an owner's DATA always reaches the bus, and cancels the lookup, first.
MemoryAnswersUnowned ==
  data_reply # NULL /\ data_reply.src = MC =>
    \A i \in Nodes : state[i][data_reply.addr] \notin Owning

\* A reader that finds the shared line set, and so settles for S, does share
\* the line: the bus's one shared line is not left over from other traffic.
SharedLineMeansShared ==
  \A i \in Nodes :
    /\ phase = "cache_snoop" /\ turn = i /\ DataOnBus /\ MustSnoop(i)
    /\ state[i][current_request.addr] = "ISE" /\ shared_line
    => \E j \in Nodes \ {i} :
         state[j][current_request.addr] \in Copy \cup {"SM"}

-------------------------------------------------------------------------------
(* What a step may never do.                                               *)

\* A cache sends its processor DATA only for the access the processor is on,
\* and with the permission that access takes: a store with the line in M, a
\* load with a copy.
CompletesWithPermission ==
  [][\A i \in Nodes :
       inbound_request_buf[i] = NULL /\ inbound_request_buf'[i] # NULL =>
         /\ infile[i] # NULL
         /\ inbound_request_buf'[i] = infile[i].addr
         /\ state'[i][infile[i].addr] \in
              (IF infile[i].op = "STORE" THEN {"M"} ELSE Copy)]_vars

\* Some cache is responsible for the line's modified data, or DATA a cache has
\* sent for a writer is under way.
Owned(a) ==
  \/ \E i \in Nodes : state[i][a] \in Dirty
  \/ \E m \in {data_reply, current_request} :
       /\ m # NULL /\ m.msg = "DATA" /\ m.addr = a /\ m.src # MC
       /\ Transaction(m.dest, a) /\ state[m.dest][a] \in WaitWrite

\* In a protocol whose owner keeps a modified line to itself (MI, MOSI, MOESI)
\* responsibility for it passes from cache to cache and is never dropped.
OwnershipConserved ==
  [][protocol \notin {"MSI", "MESI"} /\ phase' # "aborted" =>
       \A a \in Lines : Owned(a) => Owned(a)']_vars

-------------------------------------------------------------------------------
(* Bounded waiting.                                                        *)

\* Node i's access is with its cache, or waits for the bus or for DATA.
Waits(i) == proc_request[i] # NULL \/ \E a \in Lines : state[i][a] \in Waiting

\* At most as many cycles are left until the DATA of the request in progress
\* is on the bus: memory answers hit_time cycles after it has seen the request.
DataLeft ==
  IF data_reply # NULL THEN IF phase = "bus_tick" THEN 0 ELSE 1
  ELSE IF RequestOnBus /\ lookup = NULL THEN hit_time + 1
  ELSE data_time + 1

\* The bus has a request every Service cycles, at the least.
Service == hit_time + 2

\* Where node i's request is in the queue.
Places(i) == {k \in DOMAIN pending_requests : pending_requests[k].src = i}
Place(i)  == CHOOSE k \in Places(i) : TRUE

\* At most as many cycles are left until node i, which waits, has its DATA. A
\* request in the queue waits for those ahead of it, one that is not there yet
\* for all, and for what is left of the cycle in which it was handed over; the
\* bus is free for a request in the cycle after DATA was on it.
CyclesLeft(i) ==
  IF proc_request[i] # NULL
    THEN num_nodes * Service
           + IF phase \in {"tick_pr", "tick_mc", "tock"} THEN 1 ELSE 0
  ELSE IF Places(i) # {}
    THEN Place(i) * Service
           + IF request_in_progress THEN DataLeft
             ELSE IF phase = "bus_tick" THEN -1 ELSE 0
  ELSE IF request_in_progress THEN DataLeft ELSE 0

\* No step sets back a node that waits, and every cycle brings it one nearer to
\* its DATA: none waits for more than num_nodes * Service + 1 cycles, whatever
\* the others ask for meanwhile and however often they are answered.
WaitIsBounded ==
  [][\A i \in Nodes : Waits(i)' =>
       /\ CyclesLeft(i)' \in 0 .. num_nodes * Service + 1
       /\ Waits(i) =>
            CyclesLeft(i)' + (IF phase = "tock" THEN 1 ELSE 0) <= CyclesLeft(i)]_vars

-------------------------------------------------------------------------------
(* Liveness, of FairSpec.                                                  *)

\* Every access a processor issues is completed, whatever the others do: no
\* request starves in the bus's queue, and each is answered.
EveryAccessCompletes ==
  \A i \in Nodes : UnderWay(i) ~> ~UnderWay(i)

\* A processor reads the first line of its trace, or finds that there is none:
\* nothing holds it up that no access of its own has asked for.
TraceIsRead == \A i \in Nodes : <>(infile[i] # NULL \/ end_of_trace[i])

-------------------------------------------------------------------------------
(* The abstract memory.  A line state is mapped to the permission it gives;*)
(* SM gives none, for the copy may be out of date.                         *)

PermissionOf(s) ==
  CASE s \in Exclusive        -> "write"
    [] s \in Copy \ Exclusive -> "read"
    [] OTHER                  -> "none"

Memory == INSTANCE CoherentMemory WITH
  perm   <- [i \in Nodes |-> [a \in Lines |-> PermissionOf(state[i][a])]],
  access <- [i \in Nodes |-> IF UnderWay(i) THEN infile[i] ELSE NULL]

\* Every step of the simulator is a step of the coherent memory, or none.
ImplementsCoherentMemory == Memory!Spec

===============================================================================
