---------------------------- MODULE MCScheduler ----------------------------
(* Instances of the scheduler for TLC. *)
EXTENDS SchedulerInv

I(o, d, a, b) == [op |-> o, dest |-> d, src1 |-> a, src2 |-> b]

\* Two registers; short and long operations that write either, chains through
\* one or both registers, and an instruction that overwrites its own operand.
ShortLatency == [ADD |-> 2, DIV |-> 3, MEM |-> 4]
Mixed == {I("ADD", 1, -1, -1), I("ADD", 1, 2, -1), I("ADD", 2, 1, -1),
          I("ADD", 2, 2, 1), I("DIV", 1, 1, 2), I("DIV", 2, 1, 1),
          I("MEM", 1, -1, -1), I("MEM", 2, -1, -1), I("MEM", 2, 1, 2)}
\* The same and an operation that no unit executes.
Faulty == Mixed \cup {I(OP_INVALID, 1, -1, 2)}
SmallTables == [ADD |-> 2, DIV |-> 1, MEM |-> 2]

\* Enough registers for writers that do not overlap.
Wide == {I("ADD", 1, 2, 4), I("ADD", 2, 1, -1), I("ADD", 3, 1, 2),
         I("DIV", 1, -1, -1), I("DIV", 4, 1, 3), I("MEM", 2, -1, -1),
         I("MEM", 3, 2, 2), I("MEM", 4, 3, -1)}

OneEach == [ADD |-> 1, DIV |-> 1, MEM |-> 1]
===============================================================================
