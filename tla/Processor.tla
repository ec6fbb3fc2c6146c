------------------------------ MODULE Processor ------------------------------
(***************************************************************************)
(* Project3/sim/processor.cpp: a trace reader with at most one access      *)
(* outstanding.  infile[i] is the trace entry node i read last, NULL       *)
(* before the first and after the last; what the trace holds is left open, *)
(* so a run of the model is a run on some trace files with well-formed     *)
(* entries: an operation other than r and w, for which tick calls          *)
(* fatal_error, is left out.  A DATA message to a processor is represented *)
(* by its address.                                                         *)
(***************************************************************************)
EXTENDS SimTypes

VARIABLES
  infile,               \* per node: the trace entry last read
  end_of_trace,         \* per node: the trace is exhausted
  outstanding_request,  \* per node: an access has been issued, not completed
  inbound_request,      \* per node: DATA to consume in this cycle
  inbound_request_buf,  \* per node: DATA the cache has sent in this cycle
  proc_request          \* per cache: the access its processor hands it

prVars == <<infile, end_of_trace, outstanding_request, inbound_request,
            inbound_request_buf, proc_request>>

PrTypeOK ==
  /\ infile \in [Nodes -> Access \cup {NULL}]
  /\ end_of_trace \in [Nodes -> BOOLEAN]
  /\ outstanding_request \in [Nodes -> BOOLEAN]
  /\ inbound_request \in [Nodes -> Lines \cup {NULL}]
  /\ inbound_request_buf \in [Nodes -> Lines \cup {NULL}]
  /\ proc_request \in [Nodes -> Access \cup {NULL}]

\* The constructors set end_of_trace and the two inbound pointers only.
PrInit ==
  /\ infile = [i \in Nodes |-> NULL]
  /\ end_of_trace = [i \in Nodes |-> FALSE]
  /\ outstanding_request \in [Nodes -> UninitOutstanding]
  /\ inbound_request = [i \in Nodes |-> NULL]
  /\ inbound_request_buf = [i \in Nodes |-> NULL]
  /\ proc_request = [i \in Nodes |-> NULL]

done(i) == end_of_trace[i] /\ ~outstanding_request[i]

\* Processor::tick.  Busy(i): still waiting after consuming what has arrived.
\* Mutant: the next access does not wait for the answer to the last.
Busy_Never(i) == FALSE
Busy(i) == outstanding_request[i] /\ inbound_request[i] = NULL

Consume(i) == inbound_request' = [inbound_request EXCEPT ![i] = NULL]

\* Nothing to fetch, or not yet.
Rest(i) ==
  /\ end_of_trace[i] \/ Busy(i)
  /\ outstanding_request' = [outstanding_request EXCEPT ![i] = Busy(i)]
  /\ UNCHANGED <<infile, end_of_trace, proc_request>>

Fetch(i, access) ==
  /\ ~end_of_trace[i]
  /\ ~Busy(i)
  /\ infile' = [infile EXCEPT ![i] = access]
  /\ proc_request' = [proc_request EXCEPT ![i] = access]
  /\ outstanding_request' = [outstanding_request EXCEPT ![i] = TRUE]
  /\ UNCHANGED end_of_trace

ReachEnd(i) ==
  /\ ~end_of_trace[i]
  /\ ~Busy(i)
  /\ infile' = [infile EXCEPT ![i] = NULL]
  /\ end_of_trace' = [end_of_trace EXCEPT ![i] = TRUE]
  /\ outstanding_request' = [outstanding_request EXCEPT ![i] = FALSE]
  /\ UNCHANGED proc_request

PrTick(i) ==
  /\ Consume(i)
  /\ \/ Rest(i)
     \/ \E access \in Access : Fetch(i, access)
     \/ ReachEnd(i)
  /\ UNCHANGED inbound_request_buf

\* Mutant: the buffer is emptied but not handed over.
PrTock_Drops ==
  /\ inbound_request_buf' = [i \in Nodes |-> NULL]
  /\ UNCHANGED inbound_request

\* Processor::tock of every node.
PrTock ==
  /\ inbound_request' =
       [i \in Nodes |-> IF inbound_request_buf[i] # NULL
                          THEN inbound_request_buf[i] ELSE inbound_request[i]]
  /\ inbound_request_buf' = [i \in Nodes |-> NULL]

===============================================================================
