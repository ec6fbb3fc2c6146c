------------------------------ MODULE Simulator ------------------------------
(***************************************************************************)
(* Project3/sim/sim.cpp: the simulator's main loop, which ticks the bus,   *)
(* the caches, the processors and the memory controller in a fixed order   *)
(* every cycle, then moves what was sent to the processors on.             *)
(*                                                                         *)
(* The loop is sequential: phase and turn are its program counter.  A      *)
(* cache's tick handles up to two messages, the processor's and then the   *)
(* bus's; it is two steps, each the whole of one protocol handler, in that *)
(* order and with nothing between them.  The ticks of node num_nodes       *)
(* (the memory controller's node, which has no cache and no processor) and *)
(* the memory controllers the other nodes lack do nothing and have no step.*)
(***************************************************************************)
EXTENDS Memory_controller, Hash_table

VARIABLES
  phase,  \* the tick the loop is about to make
  turn    \* the node it makes it for

vars == <<busVars, mcVars, prVars, cacheVars, phase, turn>>

Phases == {"bus_tick", "cache_request", "cache_snoop", "tick_pr", "tick_mc",
           "tock", "finished", "aborted"}

TypeOK ==
  /\ BusTypeOK
  /\ McTypeOK
  /\ PrTypeOK
  /\ CacheTypeOK
  /\ phase \in Phases
  /\ turn \in Nodes

Init ==
  /\ BusInit
  /\ McInit
  /\ PrInit
  /\ CacheInit
  /\ phase = "bus_tick"
  /\ turn = 0

\* for (i = 0; i <= num_nodes; i++): the next node in phase again, or the first
\* step of the phase after it.
NextTurn(again, after) ==
  IF turn = num_nodes - 1
    THEN phase' = after /\ turn' = 0
    ELSE phase' = again /\ turn' = turn + 1

\* fatal_error or a failed assertion: the process is gone, its state with it.
Abort ==
  /\ phase' = "aborted"
  /\ UNCHANGED <<busVars, mcVars, prVars, cacheVars, turn>>

TickBus ==
  /\ phase = "bus_tick"
  /\ BusTick
  /\ phase' = "cache_request"
  /\ UNCHANGED <<mcVars, prVars, cacheVars, turn>>

\* Hash_table::tick of cache i, first half: no request, or one to serve.
CacheIdle(i) ==
  /\ phase = "cache_request" /\ turn = i
  /\ proc_request[i] = NULL
  /\ phase' = "cache_snoop"
  /\ UNCHANGED <<busVars, mcVars, prVars, cacheVars, turn>>

CacheServe(i) ==
  /\ phase = "cache_request" /\ turn = i
  /\ proc_request[i] # NULL
  /\ IF Dies(i, ProcOutcome(i).does)
       THEN Abort
       ELSE /\ ServeProcessor(i)
            /\ phase' = "cache_snoop"
            /\ UNCHANGED <<mcVars, turn>>

\* Hash_table::tick of cache i, second half: no message for it, or one.
CachePass(i) ==
  /\ phase = "cache_snoop" /\ turn = i
  /\ ~MustSnoop(i)
  /\ NextTurn("cache_request", "tick_pr")
  /\ UNCHANGED <<busVars, mcVars, prVars, cacheVars>>

CacheSnoop(i) ==
  /\ phase = "cache_snoop" /\ turn = i
  /\ MustSnoop(i)
  /\ IF Dies(i, SnoopOutcome(i).does)
       THEN Abort
       ELSE /\ Snoop(i)
            /\ NextTurn("cache_request", "tick_pr")
            /\ UNCHANGED mcVars

TickProcessor(i) ==
  /\ phase = "tick_pr" /\ turn = i
  /\ PrTick(i)
  /\ NextTurn("tick_pr", "tick_mc")
  /\ UNCHANGED <<busVars, mcVars, cacheVars>>

TickMemory ==
  /\ phase = "tick_mc"
  /\ IF McAssertions
       THEN /\ McTick
            /\ phase' = "tock"
            /\ UNCHANGED <<prVars, cacheVars, turn, current_request,
                           pending_requests, request_in_progress, shared_line>>
       ELSE Abort

\* The tocks, the clock and the loop's test, which sees no change that a tock
\* makes.
Tock ==
  /\ phase = "tock"
  /\ PrTock
  /\ McClock
  /\ phase' = IF \A i \in Nodes : done(i) THEN "finished" ELSE "bus_tick"
  /\ UNCHANGED <<busVars, cacheVars, turn, lookup, infile, end_of_trace,
                 outstanding_request, proc_request>>

\* The process has ended, normally or not.
Ended ==
  /\ phase \in {"finished", "aborted"}
  /\ UNCHANGED vars

Next ==
  \/ TickBus
  \/ \E i \in Nodes : \/ CacheIdle(i)
                       \/ CacheServe(i)
                       \/ CachePass(i)
                       \/ CacheSnoop(i)
                       \/ TickProcessor(i)
  \/ TickMemory
  \/ Tock
  \/ Ended

\* The loop runs: nothing in it blocks.
Fairness == WF_vars(Next)

Spec == Init /\ [][Next]_vars
FairSpec == Spec /\ Fairness

===============================================================================
