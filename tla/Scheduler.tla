------------------------------ MODULE Scheduler ------------------------------
(***************************************************************************)
(* The instruction scheduler of Project2 and the driver loop that runs it: *)
(* a register alias table, reservation stations that wait for operands by  *)
(* the tag of the station producing them, pipelined functional units, and  *)
(* one global clock.  The trace is any sequence of Instructions.           *)
(***************************************************************************)
EXTENDS Integers, FiniteSets

CONSTANTS
  rs,            \* "U": one table of stations; "F": one per functional unit
  rs_size,       \* the entries of the unified table
  rs_sizes,      \* the entries of each unit's table, by operation
  num_regs,      \* registers are 1 .. num_regs
  Latency,       \* cycles each operation executes
  Instructions,  \* the lines a trace may hold
  MaxInsts,      \* bound: no line is read once this many were issued
  MaxCycle,      \* bound: the clock stops here, for runs that do not end
  NULL           \* no line

Ops        == {"ADD", "DIV", "MEM"}
OP_INVALID == "INVALID"
Regs       == 1 .. num_regs

ASSUME SchedulerAssumption ==
  /\ rs \in {"U", "F"}
  /\ rs_size \in Nat
  /\ rs_sizes \in [Ops -> Nat]
  /\ num_regs \in Nat
  /\ Latency \in [Ops -> Nat \ {0}]
  /\ Instructions \subseteq
       [op : Ops \cup {OP_INVALID}, dest : Regs,
        src1 : Regs \cup {-1}, src2 : Regs \cup {-1}]
  /\ NULL \notin Instructions
  /\ MaxInsts \in Nat /\ MaxCycle \in Nat

\* The stations an operation may occupy. A station's number is its rat_index,
\* the tag of its result: the tables are numbered one after the other.
Table(op) ==
  LET a == rs_sizes["ADD"]  d == rs_sizes["DIV"]  m == rs_sizes["MEM"] IN
  IF rs = "U" THEN 1 .. rs_size
  ELSE CASE op = "ADD" -> 1 .. a
         [] op = "DIV" -> a + 1 .. a + d
         [] op = "MEM" -> a + d + 1 .. a + d + m
         [] OTHER      -> {}

Stations == UNION {Table(op) : op \in Ops}

VARIABLES
  rat,            \* register -> station that will produce it, or -1
  table,          \* station -> its REST_Entry
  current_cycle,
  stats,          \* scheduler_stats_t
  pc,             \* where the driver is
  inst,           \* the line being issued, NULL once the trace has ended
  success         \* the last scheduler_try_issue succeeded

vars == <<rat, table, current_cycle, stats, pc, inst, success>>

\* calloc: an entry that was never used.
Unused == [valid |-> FALSE, op |-> "ADD", dest |-> 0, src1 |-> 0, src2 |-> 0,
           start_cycle |-> 0]

Init ==
  /\ rat = [r \in Regs |-> -1]
  /\ table = [s \in Stations |-> Unused]
  /\ current_cycle = 1
  /\ stats = [num_insts |-> 0, num_cycles |-> 0, issue_stall |-> 0,
              max_fired |-> 0, max_completed |-> 0,
              max_active |-> [op \in Ops |-> 0]]
  /\ pc = "read"
  /\ inst = NULL
  /\ success = FALSE

\* Mutant: entries are counted from zero.
Least_FromZero(S) == (CHOOSE s \in S : \A t \in S : s <= t) - 1
Least(S)  == CHOOSE s \in S : \A t \in S : s <= t
Most(m, n) == IF m < n THEN n ELSE m

Valid    == {s \in Stations : table[s].valid}
Free(op) == Table(op) \ Valid

-------------------------------------------------------------------------------
(* The driver reads the next line of the trace, or meets its end.          *)

ReadTrace ==
  /\ pc = "read"
  /\ stats.num_insts < MaxInsts
  /\ inst' \in Instructions
  /\ success' = FALSE
  /\ pc' = "issue"
  /\ UNCHANGED <<rat, table, current_cycle, stats>>

EndOfTrace ==
  /\ pc = "read"
  /\ inst' = NULL
  /\ pc' = "drain"
  /\ UNCHANGED <<rat, table, current_cycle, stats, success>>

-------------------------------------------------------------------------------
(* scheduler_try_issue: the first free entry takes the instruction, with   *)
(* its sources renamed before its destination is.                          *)

\* Mutants: the destination is renamed before the sources; an operand whose
\* producer executes already counts as ready.
Alias_AfterRename(src) ==
  IF src = -1 THEN -1 ELSE IF src = inst.dest THEN Least(Free(inst.op)) ELSE rat[src]
Alias_OfStarted(src) ==
  IF src = -1 \/ (rat[src] # -1 /\ table[rat[src]].start_cycle # 0) THEN -1 ELSE rat[src]
Alias(src) == IF src = -1 THEN -1 ELSE rat[src]

\* Mutant: a reused entry keeps the start of its last instruction.
AddEntry_KeepsStart(s) ==
  /\ table' = [table EXCEPT ![s] =
                 [valid |-> TRUE, op |-> inst.op, dest |-> inst.dest,
                  src1 |-> Alias(inst.src1), src2 |-> Alias(inst.src2),
                  start_cycle |-> table[s].start_cycle]]
  /\ rat' = [rat EXCEPT ![inst.dest] = s]
  /\ stats' = [stats EXCEPT !.num_insts = @ + 1]
  /\ success' = TRUE
AddEntry(s) ==
  /\ table' = [table EXCEPT ![s] =
                 [valid |-> TRUE, op |-> inst.op, dest |-> inst.dest,
                  src1 |-> Alias(inst.src1), src2 |-> Alias(inst.src2),
                  start_cycle |-> 0]]
  /\ rat' = [rat EXCEPT ![inst.dest] = s]
  /\ stats' = [stats EXCEPT !.num_insts = @ + 1]
  /\ success' = TRUE

\* Every entry is taken: the stall is counted. An operation without a unit
\* has no table to be full and is refused silently.
\* Mutant: the stall is not counted.
Refuse_Silently == success' = FALSE /\ UNCHANGED <<rat, table, stats>>
Refuse ==
  /\ stats' = IF rs = "U" \/ inst.op \in Ops
              THEN [stats EXCEPT !.issue_stall = @ + 1] ELSE stats
  /\ success' = FALSE
  /\ UNCHANGED <<rat, table>>

TryIssue ==
  /\ pc = "issue"
  /\ \/ Free(inst.op) # {} /\ AddEntry(Least(Free(inst.op)))
     \/ Free(inst.op) = {} /\ Refuse
  /\ pc' = "clear"
  /\ UNCHANGED <<current_cycle, inst>>

-------------------------------------------------------------------------------
(* scheduler_step: the clock advances; what has executed for its latency   *)
(* completes; then what is ready starts.                                   *)

Executing == {s \in Valid : table[s].start_cycle # 0}

\* Mutant: an instruction stays a cycle too long.
Finishing_Late(now) ==
  {s \in Executing : now - Latency[table[s].op] > table[s].start_cycle}
Finishing(now) ==
  {s \in Executing : now - Latency[table[s].op] = table[s].start_cycle}

\* Mutants: tags are not broadcast; they are broadcast and not compared.
Produced_Never(done, src) == src
Produced_Any(done, src)   == IF done # {} THEN -1 ELSE src
Produced(done, src) == IF src \in done THEN -1 ELSE src

\* The alias of a completing instruction's destination is dropped, whichever
\* station it names. Mutant: it is kept.
Released_Never(done) == rat
Released(done) ==
  [r \in Regs |-> IF \E s \in done : table[s].dest = r THEN -1 ELSE rat[r]]

ClearCompleted ==
  LET now == current_cycle + 1  done == Finishing(now) IN
  /\ pc = "clear"
  /\ current_cycle < MaxCycle
  /\ current_cycle' = now
  /\ rat' = Released(done)
  /\ table' = [s \in Stations |->
                 IF s \in done THEN [table[s] EXCEPT !.valid = FALSE]
                 ELSE IF s \in Valid
                 THEN [table[s] EXCEPT !.src1 = Produced(done, @),
                                       !.src2 = Produced(done, @)]
                 ELSE table[s]]
  /\ stats' = [stats EXCEPT !.max_completed = Most(@, Cardinality(done))]
  /\ pc' = "start"
  /\ UNCHANGED <<inst, success>>

\* Mutant: the second operand is not waited for.
Ready_First(op) == {s \in Valid : table[s].op = op /\ table[s].src1 = -1
                                   /\ table[s].start_cycle = 0}
Ready(op) == {s \in Valid : /\ table[s].op = op
                            /\ table[s].src1 = -1 /\ table[s].src2 = -1
                            /\ table[s].start_cycle = 0}

\* Each functional unit accepts one instruction in a cycle: the first ready one.
\* Mutant: all of them.
Fired_All == UNION {Ready(op) : op \in Ops}
Fired == {Least(Ready(op)) : op \in {o \in Ops : Ready(o) # {}}}

StartReady ==
  /\ pc = "start"
  /\ table' = [s \in Stations |->
                 IF s \in Fired
                 THEN [table[s] EXCEPT !.start_cycle = current_cycle]
                 ELSE table[s]]
  /\ stats' =
       LET Active(op) == {s \in Executing \cup Fired : table[s].op = op} IN
       [stats EXCEPT
          !.max_fired = Most(@, Cardinality(Fired)),
          !.max_active = [op \in Ops |-> Most(@[op], Cardinality(Active(op)))]]
  /\ pc' = IF inst = NULL THEN "drain" ELSE IF success THEN "read" ELSE "issue"
  /\ UNCHANGED <<rat, current_cycle, inst, success>>

-------------------------------------------------------------------------------
(* After the trace: steps until every table is empty, then the statistics. *)

Drain ==
  /\ pc = "drain"
  /\ Valid # {}
  /\ pc' = "clear"
  /\ UNCHANGED <<rat, table, current_cycle, stats, inst, success>>

Complete ==
  /\ pc = "drain"
  /\ Valid = {}
  /\ stats' = [stats EXCEPT !.num_cycles = current_cycle]
  /\ pc' = "finished"
  /\ UNCHANGED <<rat, table, current_cycle, inst, success>>

Next == \/ ReadTrace \/ EndOfTrace \/ TryIssue
        \/ ClearCompleted \/ StartReady \/ Drain \/ Complete

Spec == Init /\ [][Next]_vars

\* The driver is one sequential program that never waits for anything.
FairSpec == Spec /\ WF_vars(Next)

-------------------------------------------------------------------------------
Entry == [valid : BOOLEAN, op : Ops \cup {OP_INVALID}, dest : {0} \cup Regs,
          src1 : {-1, 0} \cup Stations, src2 : {-1, 0} \cup Stations,
          start_cycle : Nat]

Counters == [num_insts : Nat, num_cycles : Nat, issue_stall : Nat,
             max_fired : Nat, max_completed : Nat, max_active : [Ops -> Nat]]

\* The variables hold values of their C++ types, and the current line is one
\* of the trace while it is being issued.
TypeOK ==
  /\ rat \in [Regs -> {-1} \cup Stations]
  /\ table \in [Stations -> Entry]
  /\ current_cycle \in Nat \ {0}
  /\ stats \in Counters
  /\ pc \in {"read", "issue", "clear", "start", "drain", "finished"}
  /\ inst \in Instructions \cup {NULL}
  /\ pc = "issue" => inst # NULL
  /\ success \in BOOLEAN
===============================================================================
