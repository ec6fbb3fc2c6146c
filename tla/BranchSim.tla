------------------------------ MODULE BranchSim ------------------------------
(***************************************************************************)
(* The branch predictors of Project1 and the driver loop that feeds them a *)
(* trace: a table of saturating counters, indexed by the branch's address, *)
(* by the outcomes its table entry has seen, by both, or by the address    *)
(* xor the outcomes of all branches.                                       *)
(***************************************************************************)
EXTENDS Integers, Bits

CONSTANTS
  Predictors,    \* the kinds a run may ask for
  num_entries, counter_bits, history_bits,
  register_bits, \* width of addresses and of history registers: 64 in the code
  Branches,      \* the lines a trace may hold: address and outcome
  Unreadable,    \* whether a trace may hold a line fscanf cannot parse
  MaxBranches,   \* bound: no line is read once this many were
  GARBLED, NULL

BIMODAL  == "B"
GSHARE   == "G"
LOCAL_HISTORY      == "L"
TWO_LEVEL_ADAPTIVE == "T"

TAKEN     == "T"
NOT_TAKEN == "N"

\* Counters of one to five bits: the shift that makes their limit (ctr_limit
\* below) is an int's, and undefined for more. A predictor of no known type,
\* which main would pass on and get_index send to counter 0, is left out.
ASSUME BranchSimAssumption ==
  /\ Predictors \subseteq {BIMODAL, GSHARE, LOCAL_HISTORY, TWO_LEVEL_ADAPTIVE}
  /\ num_entries \in Nat \ {0} /\ num_entries <= 2^register_bits
  /\ counter_bits \in 1 .. 5
  /\ history_bits \in 0 .. register_bits
  /\ register_bits \in Nat
  /\ \A b \in Branches : b.pc \in 0 .. 2^register_bits - 1
  /\ Unreadable \in BOOLEAN
  /\ MaxBranches \in Nat
  /\ GARBLED # NULL /\ {GARBLED, NULL} \cap Branches = {}

VARIABLES
  pred_type, pht, ghr, hist_table,
  stats,      \* branch_stats_t, its rate as mispredictions out of branches
  allocated,  \* the arrays on the heap
  pc,         \* where the driver is
  line,       \* the line it is at
  predicted

vars == <<pred_type, pht, ghr, hist_table, stats, allocated, pc, line, predicted>>

ctr_weakly_taken == 2^(counter_bits - 1)
index_mask       == num_entries - 1
history_mask     == 2^history_bits - 1

HasHistories(type) == type \in {LOCAL_HISTORY, TWO_LEVEL_ADAPTIVE}

pht_size(type) ==
  CASE type = BIMODAL            -> num_entries
    [] type = TWO_LEVEL_ADAPTIVE -> 2^history_bits * counter_bits
    [] type = LOCAL_HISTORY      -> 2^history_bits * counter_bits * num_entries
    [] type = GSHARE             -> num_entries * counter_bits

\* The parameters for which setup_predictor's arithmetic is that of numbers:
\* 1 << history_bits and the products of pht_size are of type int.
INT_MAX == 2147483647

ASSUME WidthAssumption ==
  /\ num_entries <= INT_MAX
  /\ history_bits <= 30
  /\ \A type \in Predictors : pht_size(type) <= INT_MAX

storage_overhead(type) ==
  CASE type = BIMODAL -> pht_size(type) * counter_bits
    [] type = GSHARE  -> pht_size(type) + history_bits
    [] OTHER          -> history_bits * num_entries + pht_size(type)

Init ==
  /\ pred_type \in Predictors
  /\ pht = [i \in 0 .. pht_size(pred_type) - 1 |-> ctr_weakly_taken]
  /\ ghr = 0
  /\ hist_table = [i \in 0 .. index_mask |-> 0]
  /\ stats = [num_branches |-> 0, pred_taken |-> 0, pred_not_taken |-> 0, correct |-> 0,
              mispredictions |-> <<0, 0>>, storage |-> storage_overhead(pred_type)]
  /\ allocated = {"pht"} \cup (IF HasHistories(pred_type) THEN {"hist_table"} ELSE {})
  /\ pc = "read"
  /\ line = NULL
  /\ predicted = NULL

Entry(addr)   == And(register_bits, addr, index_mask)
History(addr) == And(register_bits, hist_table[Entry(addr)], history_mask)

\* Mutant: the counters of two entries overlap.
get_index_Overlaps(addr) ==
  CASE pred_type = BIMODAL            -> Entry(addr)
    [] pred_type = TWO_LEVEL_ADAPTIVE -> History(addr)
    [] pred_type = LOCAL_HISTORY      -> Entry(addr) + History(addr)
    [] pred_type = GSHARE             -> Xor(register_bits, Entry(addr), And(register_bits, ghr, index_mask))
get_index(addr) ==
  CASE pred_type = BIMODAL            -> Entry(addr)
    [] pred_type = TWO_LEVEL_ADAPTIVE -> History(addr)
    [] pred_type = LOCAL_HISTORY      -> Entry(addr) * 2^history_bits + History(addr)
    [] pred_type = GSHARE             -> Xor(register_bits, Entry(addr), And(register_bits, ghr, index_mask))

-------------------------------------------------------------------------------
(* The driver: fscanf leaves a line it cannot parse where it is, and the   *)
(* loop meets it again.                                                    *)

\* Mutant: the line is skipped.
ReadUnreadable_Skips ==
  /\ pc = "read" /\ Unreadable
  /\ line' = GARBLED
  /\ pc' = "complete"
  /\ UNCHANGED <<pred_type, pht, ghr, hist_table, stats, allocated, predicted>>
ReadUnreadable ==
  /\ pc = "read" /\ Unreadable
  /\ line' = GARBLED
  /\ UNCHANGED <<pred_type, pht, ghr, hist_table, stats, allocated, pc, predicted>>

ReadBranch ==
  /\ pc = "read" /\ line # GARBLED
  /\ stats.num_branches < MaxBranches
  /\ line' \in Branches
  /\ pc' = "predict"
  /\ UNCHANGED <<pred_type, pht, ghr, hist_table, stats, allocated, predicted>>

EndOfTrace ==
  /\ pc = "read" /\ line # GARBLED
  /\ line' = NULL
  /\ pc' = "complete"
  /\ UNCHANGED <<pred_type, pht, ghr, hist_table, stats, allocated, predicted>>

-------------------------------------------------------------------------------
(* predict_branch, update_predictor, complete_predictor.                   *)

\* Mutant: a weakly taken counter predicts not taken.
Predicts_Strongly(counter) == IF counter > ctr_weakly_taken THEN TAKEN ELSE NOT_TAKEN
Predicts(counter) == IF counter >= ctr_weakly_taken THEN TAKEN ELSE NOT_TAKEN

Predict ==
  /\ pc = "predict"
  /\ predicted' = Predicts(pht[get_index(line.pc)])
  /\ stats' = [stats EXCEPT !.num_branches = @ + 1,
                            !.pred_taken = IF predicted' = TAKEN THEN @ + 1 ELSE @,
                            !.pred_not_taken = IF predicted' = TAKEN THEN @ ELSE @ + 1]
  /\ pc' = "update"
  /\ UNCHANGED <<pred_type, pht, ghr, hist_table, allocated, line>>

\* The limit is computed from the weakly-taken value, not from ctr_max: it is
\* the largest value of the counter only if that has one bit or two.
ctr_limit == 2^ctr_weakly_taken - 1

\* Mutants: a counter wraps; a counter goes below zero.
Trained_Wraps(counter, taken) == (counter + (IF taken THEN 1 ELSE -1)) % 2^counter_bits
Trained_Below(counter, taken) ==
  IF taken THEN IF counter < ctr_limit THEN counter + 1 ELSE counter ELSE counter - 1
Trained(counter, taken) ==
  IF taken THEN IF counter < ctr_limit THEN counter + 1 ELSE counter
  ELSE IF counter > 0 THEN counter - 1 ELSE counter

\* Mutant: the outcomes of a register are not shifted.
Shift_Or(register, taken) == IF taken THEN 2 * (register \div 2) + 1 ELSE register
Shift(register, taken) ==
  (2 * register + (IF taken THEN 1 ELSE 0)) % 2^register_bits

\* An outcome that is neither T nor N trains nothing.
Update ==
  LET taken == line.actual = TAKEN
      known == line.actual \in {TAKEN, NOT_TAKEN}
  IN
  /\ pc = "update"
  /\ stats' = [stats EXCEPT !.correct = IF line.actual = predicted THEN @ + 1 ELSE @]
  /\ IF known
     THEN /\ pht' = [pht EXCEPT ![get_index(line.pc)] = Trained(@, taken)]
          /\ ghr' = Shift(ghr, taken)
          /\ hist_table' = IF HasHistories(pred_type)
                           THEN [hist_table EXCEPT ![Entry(line.pc)] = Shift(@, taken)]
                           ELSE hist_table
     ELSE UNCHANGED <<pht, ghr, hist_table>>
  /\ pc' = "read"
  /\ UNCHANGED <<pred_type, allocated, line, predicted>>

Complete ==
  /\ pc = "complete"
  /\ stats' = [stats EXCEPT !.mispredictions =
                 <<stats.num_branches - stats.correct, stats.num_branches>>]
  /\ allocated' = allocated \
       ({"pht"} \cup (IF pred_type = LOCAL_HISTORY THEN {"hist_table"} ELSE {}))
  /\ pc' = "finished"
  /\ UNCHANGED <<pred_type, pht, ghr, hist_table, line, predicted>>

Next == \/ ReadUnreadable \/ ReadBranch \/ EndOfTrace
        \/ Predict \/ Update \/ Complete

-------------------------------------------------------------------------------
\* The variables hold values of their C++ types, and the counters of the
\* predictor stay below the limit the code computes.
TypeOK ==
  /\ pred_type \in Predictors
  /\ pht \in [0 .. pht_size(pred_type) - 1 -> 0 .. ctr_limit]
  /\ ghr \in 0 .. 2^register_bits - 1
  /\ hist_table \in [0 .. index_mask -> 0 .. 2^register_bits - 1]
  /\ stats \in [num_branches : 0 .. MaxBranches, pred_taken : 0 .. MaxBranches,
                pred_not_taken : 0 .. MaxBranches, correct : 0 .. MaxBranches,
                mispredictions : (0 .. MaxBranches) \X (0 .. MaxBranches),
                storage : Nat]
  /\ allocated \subseteq {"pht", "hist_table"}
  /\ pc \in {"read", "predict", "update", "complete", "finished"}
  /\ line \in Branches \cup {GARBLED, NULL}
  /\ predicted \in {TAKEN, NOT_TAKEN, NULL}
===============================================================================
