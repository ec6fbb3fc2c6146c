---------------------------- MODULE SchedulerInv ----------------------------
(***************************************************************************)
(* The inductive invariant of the scheduler: what keeps the tags in the    *)
(* tables and the program order in agreement.                              *)
(***************************************************************************)
EXTENDS SchedulerHistory

HTypeOK ==
  /\ TypeOK
  /\ writer \in [Regs -> Nat]
  /\ origin \in [Stations -> [number : Nat, first : Nat, second : Nat,
                              overlaps : BOOLEAN]]

\* Instructions in flight have distinct numbers, and write a register.
Numbered ==
  \A s \in Valid :
    /\ table[s].dest \in Regs
    /\ origin[s].number \in 1 .. stats.num_insts
    /\ \A t \in Valid : origin[s].number = origin[t].number => s = t

\* writer is the last of the instructions that write a register.
WriterIsLast ==
  /\ \A r \in Regs : writer[r] <= stats.num_insts
  /\ \A s \in Valid : origin[s].number <= writer[table[s].dest]
  /\ \A s \in Valid, r \in Regs : origin[s].number = writer[r] => table[s].dest = r

\* The younger of two writers of a register in flight is known to overlap.
OverlapsRecorded ==
  \A s, t \in Valid :
    table[s].dest = table[t].dest /\ origin[s].number < origin[t].number
      => origin[t].overlaps

\* The alias of a register names its last writer until that completes, unless
\* the writer overlapped another.
YoungestIsAliased ==
  \A s \in Valid :
    origin[s].number = writer[table[s].dest] /\ ~origin[s].overlaps
      => rat[table[s].dest] = s

TagsAgree ==
  /\ Numbered
  /\ WriterIsLast
  /\ OverlapsRecorded
  /\ YoungestIsAliased
  /\ AliasIsYoungest
  /\ SourceIsProducer
  /\ ReadyMeansProduced

IInv == HTypeOK /\ TagsAgree

\* On traces whose writers do not overlap: none has, and the line that is being
\* issued, at once or after stalls, does not.
NoOverlap ==
  /\ \A s \in Valid : ~origin[s].overlaps
  /\ pc = "issue" \/ (pc \in {"clear", "start"} /\ inst # NULL /\ ~success)
       => ~InFlight(inst.dest)
  /\ pc = "drain" => inst = NULL

-------------------------------------------------------------------------------
(* Pipelines and cycles.                                                   *)

PipelineInv ==
  /\ UnitsArePipelines
  /\ \A s \in Executing :
       /\ table[s].op \in Ops
       /\ table[s].start_cycle <= current_cycle
       /\ pc = "start" => table[s].start_cycle < current_cycle

\* The line that per-unit tables refuse without counting it.
Uncounted == inst # NULL /\ inst.op \notin Ops /\ rs = "F"

CycleInv ==
  /\ Uncounted => /\ pc \in {"issue", "clear", "start"}
                  /\ pc # "issue" => ~success
  /\ pc = "drain" => inst = NULL
  /\ pc \in {"read", "issue"} /\ ~Uncounted =>
       current_cycle = 1 + stats.num_insts + stats.issue_stall
  /\ pc = "clear" /\ inst # NULL /\ ~Uncounted =>
       current_cycle = stats.num_insts + stats.issue_stall
  /\ pc = "start" /\ inst # NULL /\ ~Uncounted =>
       current_cycle = 1 + stats.num_insts + stats.issue_stall

-------------------------------------------------------------------------------
(* Progress, as far as it is safety.                                       *)

\* The driver retries a line without a table for ever, and finishes empty.
RetryInv ==
  /\ inst # NULL /\ Table(inst.op) = {} =>
       /\ pc \in {"issue", "clear", "start"}
       /\ pc # "issue" => ~success
  /\ pc = "finished" => Valid = {}

\* The cycles that the started instructions may take.
NotStarted == Valid \ Executing
Started    == stats.num_insts - Cardinality(NotStarted)
Span(n)    == n * (LongestLatency + 1)

\* An instruction starts in time to complete within the span of what has
\* started; and only a cycle that completes all there is may come after that.
TimeInv ==
  ~NoUnit =>
    /\ \A s \in Executing :
         table[s].start_cycle + LongestLatency <= 1 + Span(Started)
    /\ pc # "start" => current_cycle <= 1 + Span(Started)
    /\ pc = "start" => current_cycle <= 2 + Span(Started)
    /\ pc = "start" /\ Valid = {} => current_cycle <= 1 + Span(Started)
    /\ pc = "clear" => Valid # {}
    /\ NeverIdle
===============================================================================
