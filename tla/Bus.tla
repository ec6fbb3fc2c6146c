--------------------------------- MODULE Bus ---------------------------------
(***************************************************************************)
(* Project3/sim/bus.cpp: the atomic snooping bus.  Requests wait in one    *)
(* queue; after a request is broadcast nothing but DATA is, until DATA     *)
(* has been.                                                               *)
(***************************************************************************)
EXTENDS SimTypes, Sequences

VARIABLES
  current_request,      \* the message every module can snoop this cycle
  pending_requests,     \* requests that wait for the bus
  data_reply,           \* DATA to broadcast in the next cycle
  request_in_progress,  \* a request has been broadcast, its DATA has not
  shared_line           \* wired-or line, cleared when a request is broadcast

busVars == <<current_request, pending_requests, data_reply,
             request_in_progress, shared_line>>

BusTypeOK ==
  /\ current_request \in Mreq \cup {NULL}
  /\ pending_requests \in Seq(Request)
  /\ data_reply \in Data \cup {NULL}
  /\ request_in_progress \in BOOLEAN
  /\ shared_line \in BOOLEAN

BusInit ==
  /\ current_request = NULL
  /\ pending_requests = <<>>
  /\ data_reply = NULL
  /\ request_in_progress = FALSE
  /\ shared_line = FALSE

\* Bus::tick, its four outcomes: broadcast the DATA, wait for it, broadcast the
\* oldest request, stay idle.
BroadcastData ==
  /\ request_in_progress
  /\ data_reply # NULL
  /\ current_request' = data_reply
  /\ data_reply' = NULL
  /\ request_in_progress' = FALSE
  /\ UNCHANGED <<pending_requests, shared_line>>

AwaitData ==
  /\ request_in_progress
  /\ data_reply = NULL
  /\ current_request' = NULL
  /\ UNCHANGED <<pending_requests, data_reply, request_in_progress, shared_line>>

\* Mutant: the shared line is not cleared.
BroadcastRequest_KeepShared ==
  /\ ~request_in_progress
  /\ pending_requests # <<>>
  /\ current_request' = Head(pending_requests)
  /\ pending_requests' = Tail(pending_requests)
  /\ request_in_progress' = TRUE
  /\ UNCHANGED <<data_reply, shared_line>>

BroadcastRequest ==
  /\ ~request_in_progress
  /\ pending_requests # <<>>
  /\ shared_line' = FALSE
  /\ current_request' = Head(pending_requests)
  /\ pending_requests' = Tail(pending_requests)
  /\ request_in_progress' = TRUE
  /\ UNCHANGED data_reply

StayIdle ==
  /\ ~request_in_progress
  /\ pending_requests = <<>>
  /\ current_request' = NULL
  /\ UNCHANGED <<pending_requests, data_reply, request_in_progress, shared_line>>

BusTick == BroadcastData \/ AwaitData \/ BroadcastRequest \/ StayIdle

\* Bus::bus_request, called by the modules: DATA goes to the reply slot, which
\* an assertion requires to be free, a request to the back of the queue.
ReplySlotFree == data_reply = NULL
SendData(m) == data_reply' = m
\* Mutant: the newest request is broadcast first.
Enqueue_Front(m) == pending_requests' = <<m>> \o pending_requests
Enqueue(m) == pending_requests' = Append(pending_requests, m)

\* A message of the given kind is on the bus.
RequestOnBus == current_request # NULL /\ current_request.msg # "DATA"
DataOnBus    == current_request # NULL /\ current_request.msg = "DATA"

===============================================================================
