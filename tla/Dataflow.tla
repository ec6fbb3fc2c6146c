------------------------------ MODULE Dataflow ------------------------------
(***************************************************************************)
(* What an out-of-order scheduler promises: instructions enter a window in *)
(* program order, one starts only after the instructions that produce its  *)
(* operands have completed, no functional unit accepts two in one step,    *)
(* and what has started may complete.  The producer of an operand is the   *)
(* last instruction before the consumer that writes the register.          *)
(***************************************************************************)
EXTENDS Naturals

CONSTANTS Operations, Registers

VARIABLES
  issued,  \* instructions issued; they are numbered from 1
  writer,  \* register -> number of the last one to write it, 0 if none has
  window   \* those that have not completed

vars == <<issued, writer, window>>

Init ==
  /\ issued = 0
  /\ writer = [r \in Registers |-> 0]
  /\ window = {}

Issue(op, dest, srcs) ==
  /\ issued' = issued + 1
  /\ writer' = [writer EXCEPT ![dest] = issued + 1]
  /\ window' = window \cup
       {[number |-> issued + 1, op |-> op, stage |-> "waiting",
         needs |-> {writer[r] : r \in srcs} \ {0}]}

Completed(n) == \A w \in window : w.number # n

MayStart == {w \in window : w.stage = "waiting" /\ \A n \in w.needs : Completed(n)}

Start(S) ==
  /\ \A v, w \in S : v.op = w.op => v = w
  /\ window' = (window \ S) \cup {[w EXCEPT !.stage = "started"] : w \in S}
  /\ UNCHANGED <<issued, writer>>

Finish(S) ==
  /\ window' = window \ S
  /\ UNCHANGED <<issued, writer>>

Next ==
  \/ \E op \in Operations, dest \in Registers, srcs \in SUBSET Registers :
       Issue(op, dest, srcs)
  \/ \E S \in SUBSET MayStart : Start(S)
  \/ \E S \in SUBSET {w \in window : w.stage = "started"} : Finish(S)

Spec == Init /\ [][Next]_vars
===============================================================================
