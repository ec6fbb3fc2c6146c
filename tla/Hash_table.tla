------------------------------ MODULE Hash_table ------------------------------
(***************************************************************************)
(* Project3/sim/hash_table.cpp: the caches.  An entry, created in state I  *)
(* when its line is first touched and never evicted, runs the protocol the *)
(* simulator was started with; state[i][a] is the state of line a in cache *)
(* i, "I" too while there is no entry.                                     *)
(***************************************************************************)
EXTENDS Bus, Processor, Protocol

MI    == INSTANCE MI_protocol
MSI   == INSTANCE MSI_protocol
MESI  == INSTANCE MESI_protocol
MOSI  == INSTANCE MOSI_protocol
MOESI == INSTANCE MOESI_protocol

VARIABLES
  protocol,  \* settings.protocol, fixed at the start
  state

cacheVars == <<protocol, state>>

CacheTypeOK ==
  /\ protocol \in Protocols
  /\ state \in [Nodes -> [Lines -> LineStates]]

CacheInit ==
  /\ protocol \in Protocols
  /\ state = [i \in Nodes |-> [a \in Lines |-> "I"]]

\* Hash_entry's constructor picks the protocol, its two methods call it.
process_request_processor(p, s, msg) ==
  CASE p = "MI"    -> MI!process_cache_request(s, msg)
    [] p = "MSI"   -> MSI!process_cache_request(s, msg)
    [] p = "MESI"  -> MESI!process_cache_request(s, msg)
    [] p = "MOSI"  -> MOSI!process_cache_request(s, msg)
    [] p = "MOESI" -> MOESI!process_cache_request(s, msg)

process_request_snoop(p, s, msg, own, shared) ==
  CASE p = "MI"    -> MI!process_snoop_request(s, msg)
    [] p = "MSI"   -> MSI!process_snoop_request(s, msg)
    [] p = "MESI"  -> MESI!process_snoop_request(s, msg, shared)
    [] p = "MOSI"  -> MOSI!process_snoop_request(s, msg, own)
    [] p = "MOESI" -> MOESI!process_snoop_request(s, msg, own, shared)

\* The process ends inside a handler: by the handler's own fatal_error, by the
\* bus's assertion on a second DATA, or by write_to_proc's assertion on a
\* second message to the processor.
Dies(i, does) ==
  \/ "fatal_error" \in does
  \/ "send_DATA_on_bus" \in does /\ ~ReplySlotFree
  \/ "send_DATA_to_proc" \in does /\ inbound_request_buf[i] # NULL

\* What the helpers a handler called do.  dest is the sender of the snooped
\* request: DATA on the bus always goes there.
Perform(i, a, out, dest) ==
  /\ state' = [state EXCEPT ![i][a] = out.state]
  /\ shared_line' = (shared_line \/ "set_shared_line" \in out.does)
  /\ IF "send_GETS" \in out.does
       THEN Enqueue([msg |-> "GETS", addr |-> a, src |-> i])
       ELSE IF "send_GETM" \in out.does
              THEN Enqueue([msg |-> "GETM", addr |-> a, src |-> i])
              ELSE UNCHANGED pending_requests
  /\ IF "send_DATA_on_bus" \in out.does
       THEN SendData([msg |-> "DATA", addr |-> a, src |-> i, dest |-> dest])
       ELSE UNCHANGED data_reply
  /\ inbound_request_buf' =
       IF "send_DATA_to_proc" \in out.does
         THEN [inbound_request_buf EXCEPT ![i] = a] ELSE inbound_request_buf

\* Hash_table::tick, first half: the access the processor has handed over.
ProcOutcome(i) == process_request_processor(protocol,
                    state[i][proc_request[i].addr], proc_request[i].op)

ServeProcessor(i) ==
  /\ Perform(i, proc_request[i].addr, ProcOutcome(i), i)
  /\ proc_request' = [proc_request EXCEPT ![i] = NULL]
  /\ UNCHANGED <<protocol, current_request, request_in_progress, infile,
                 end_of_trace, outstanding_request, inbound_request>>

\* Second half: the message on the bus, unless it is DATA for another cache.
MustSnoop(i) ==
  current_request # NULL /\ (DataOnBus => current_request.dest = i)

SnoopOutcome(i) ==
  process_request_snoop(protocol, state[i][current_request.addr],
    current_request.msg, current_request.src = i, shared_line)

Snoop(i) ==
  /\ Perform(i, current_request.addr, SnoopOutcome(i), current_request.src)
  /\ UNCHANGED <<protocol, current_request, request_in_progress, infile,
                 end_of_trace, outstanding_request, inbound_request,
                 proc_request>>

===============================================================================
