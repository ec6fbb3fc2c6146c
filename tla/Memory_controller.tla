-------------------------- MODULE Memory_controller --------------------------
(***************************************************************************)
(* Project3/sim/memory.cpp: memory starts a lookup for every request it    *)
(* snoops, drops it when some cache has answered first, and otherwise      *)
(* answers when hit_time cycles have passed.  data_time is the number of   *)
(* cycles left (data_time - Global_Clock in the code, at least 0); the     *)
(* fields data_addr and data_target, which mean nothing while no lookup    *)
(* is in progress, are together the variable lookup.                       *)
(***************************************************************************)
EXTENDS Bus

VARIABLES lookup, data_time

mcVars == <<lookup, data_time>>

McTypeOK ==
  /\ lookup \in Lookup \cup {NULL}
  /\ data_time \in 0 .. hit_time

McInit == lookup = NULL /\ data_time = 0

\* Memory_controller::tick, the first half: the lookup after the message on
\* the bus has been seen, and the cycles it has left.
\* Mutant: DATA on the bus does not cancel the lookup.
LookupNow_NoCancel ==
  IF RequestOnBus
    THEN [addr |-> current_request.addr, target |-> current_request.src]
    ELSE lookup

LookupNow ==
  IF RequestOnBus
    THEN [addr |-> current_request.addr, target |-> current_request.src]
    ELSE IF DataOnBus THEN NULL ELSE lookup

DataTimeNow == IF RequestOnBus THEN hit_time ELSE data_time

AnswerDue == LookupNow # NULL /\ DataTimeNow = 0

\* assert (!request_in_progress), and the bus's own assertion on the reply.
McAssertions == /\ RequestOnBus => lookup = NULL
                /\ AnswerDue => ReplySlotFree

\* Memory_controller::tick, all of it.
Answer ==
  /\ AnswerDue
  /\ SendData([msg |-> "DATA", addr |-> LookupNow.addr, src |-> MC,
               dest |-> LookupNow.target])
  /\ lookup' = NULL
  /\ data_time' = DataTimeNow

KeepLooking ==
  /\ ~AnswerDue
  /\ lookup' = LookupNow
  /\ data_time' = DataTimeNow
  /\ UNCHANGED data_reply

McTick == Answer \/ KeepLooking

\* Global_Clock++ as memory sees it.
McClock == data_time' = IF data_time = 0 THEN 0 ELSE data_time - 1

===============================================================================
