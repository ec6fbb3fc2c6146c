-------------------------- MODULE SchedulerHistory --------------------------
(***************************************************************************)
(* Scheduler with two history variables: the program order of what has     *)
(* been issued, which the code forgets when it renames registers.  The     *)
(* properties relate the tags in the tables to that order.                 *)
(***************************************************************************)
EXTENDS Scheduler

VARIABLES
  writer,  \* register -> number of the last instruction issued that writes it
  origin   \* station -> the instruction it was last given: its number, the
           \* numbers of the producers of its operands (0: none), and whether
           \* another writer of its destination was in flight

hvars == <<rat, table, current_cycle, stats, pc, inst, success, writer, origin>>

Producer(src) == IF src = -1 THEN 0 ELSE writer[src]

HInit ==
  /\ Init
  /\ writer = [r \in Regs |-> 0]
  /\ origin = [s \in Stations |->
                 [number |-> 0, first |-> 0, second |-> 0, overlaps |-> FALSE]]

InFlight(r) == \E s \in Valid : table[s].dest = r

IssueTo(s) ==
  LET n == stats.num_insts + 1 IN
  /\ writer' = [writer EXCEPT ![inst.dest] = n]
  /\ origin' = [origin EXCEPT ![s] =
                  [number |-> n,
                   first  |-> Producer(inst.src1),
                   second |-> Producer(inst.src2),
                   overlaps |-> InFlight(inst.dest)]]

HTryIssue ==
  /\ TryIssue
  /\ \/ Free(inst.op) # {} /\ IssueTo(Least(Free(inst.op)))
     \/ Free(inst.op) = {} /\ UNCHANGED <<writer, origin>>

HNext ==
  \/ HTryIssue
  \/ /\ ReadTrace \/ EndOfTrace \/ ClearCompleted \/ StartReady \/ Drain \/ Complete
     /\ UNCHANGED <<writer, origin>>

HSpec     == HInit /\ [][HNext]_hvars
HFairSpec == HSpec /\ WF_hvars(HNext)

\* Traces that never write a register while an instruction that writes it is
\* still in flight.
SeparateNext ==
  /\ HNext
  /\ pc = "read" /\ inst' # NULL => ~InFlight(inst'.dest)

SeparateSpec == HInit /\ [][SeparateNext]_hvars

-------------------------------------------------------------------------------
(* Safety.                                                                 *)

\* add_entry, complete_insts: a register's alias is never the tag of a dead or
\* reused station, nor of a writer that a younger one has superseded, although
\* complete_insts clears aliases without comparing tags.
AliasIsYoungest ==
  \A r \in Regs : rat[r] # -1 =>
    /\ rat[r] \in Valid
    /\ table[rat[r]].dest = r
    /\ origin[rat[r]].number = writer[r]

\* update_sources: an operand that waits for a tag waits for the instruction
\* that is its producer in program order, which still holds that station and is
\* older, so no tag outlives its instruction and no instructions wait in a cycle.
SourceIsProducer ==
  \A s \in Valid :
    /\ origin[s].first < origin[s].number
    /\ origin[s].second < origin[s].number
    /\ table[s].src1 # -1 =>
         table[s].src1 \in Valid /\ origin[table[s].src1].number = origin[s].first
    /\ table[s].src2 # -1 =>
         table[s].src2 \in Valid /\ origin[table[s].src2].number = origin[s].second

\* Operand number n of an entry is marked ready with -1 by rename or broadcast.
MarkedReady(s, n) ==
  \/ table[s].src1 = -1 /\ origin[s].first = n
  \/ table[s].src2 = -1 /\ origin[s].second = n

\* fire_ready: an operand is marked ready before its producer has completed in
\* one case only, that another writer of the producer's register was in flight
\* when the producer was issued: complete_insts then drops the younger alias.
ReadyMeansProduced ==
  \A s, p \in Valid : MarkedReady(s, origin[p].number) => origin[p].overlaps

\* What the comment in fire_ready says of every entry it fires: "start executing
\* (fire) any valid instruction in the table with ready sources / note: we marked
\* the ready sources with -1": a source marked -1 has been produced.
MarkedSourcesAreReady ==
  \A s, p \in Valid : ~MarkedReady(s, origin[p].number)

\* A functional unit is a pipeline: it never holds two instructions in the same
\* stage, none stays longer than its latency, and so no more than one per unit
\* completes in a cycle and no more than its latency are active.
UnitsArePipelines ==
  /\ \A s, t \in Executing :
       s # t /\ table[s].op = table[t].op =>
         table[s].start_cycle # table[t].start_cycle
  /\ \A s \in Executing :
       current_cycle < table[s].start_cycle + Latency[table[s].op]
  /\ stats.max_completed <= Cardinality(Ops)
  /\ \A op \in Ops : stats.max_active[op] <= Latency[op]

\* The driver loop charges a cycle to each instruction and to each stall: until
\* the trace ends the clock is the sum of the two counters, an operation without
\* a unit excepted, whose refusals nothing counts.
CyclesAreAccounted ==
  pc \in {"read", "issue"} /\ (inst # NULL => inst.op \in Ops) =>
    current_cycle = 1 + stats.num_insts + stats.issue_stall

-------------------------------------------------------------------------------
(* Progress.                                                               *)

\* An instruction no unit executes: refused for ever by per-unit tables, kept
\* for ever by a unified one.
NoUnit == \/ inst # NULL /\ Table(inst.op) = {}
          \/ \E s \in Valid : table[s].op = OP_INVALID

\* The run of a finite trace ends, with every station empty, if and only if no
\* line of it names an operation without a unit: no instruction is lost by a
\* broadcast, kept from firing for ever by lower-numbered stations, or refused
\* for ever by a table that drains.
RunEndsUnlessNoUnit ==
  /\ <>(pc = "finished" \/ NoUnit)
  /\ [](NoUnit => [](pc # "finished"))

\* scheduler_step leaves no cycle idle: what is in flight between two cycles
\* never only waits, for operands that nobody produces or for each other. The
\* oldest instruction at least executes, as long as all have a unit.
NeverIdle ==
  pc \in {"read", "issue", "drain"} /\ Valid # {} /\ ~NoUnit => Executing # {}

LongestLatency == Most(Latency["ADD"], Most(Latency["DIV"], Latency["MEM"]))

\* main: for no trace does the clock run on longer than the instructions take
\* one after the other, each its latency and a cycle to make room for the next.
\* So the loops that retry and that drain end, however often tables are full.
RunTimeIsBounded ==
  ~NoUnit => current_cycle <= 1 + stats.num_insts * (LongestLatency + 1)

-------------------------------------------------------------------------------
(* The abstract scheduler: what a station holds, in program order.         *)

DF == INSTANCE Dataflow WITH
  Operations <- Ops \cup {OP_INVALID},
  Registers  <- Regs,
  issued     <- stats.num_insts,
  window     <- {[number  |-> origin[s].number,
                  op      |-> table[s].op,
                  stage   |-> IF table[s].start_cycle = 0 THEN "waiting" ELSE "started",
                  needs   |-> {origin[s].first, origin[s].second} \ {0}] :
                 s \in Valid}

\* On traces without overlapping writers the scheduler implements Dataflow.
ImplementsDataflow == DF!Spec
===============================================================================
