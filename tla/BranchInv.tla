------------------------------ MODULE BranchInv ------------------------------
(***************************************************************************)
(* The inductive invariant behind the properties of BranchHistory.  The    *)
(* keys of a predictor are everything that may select a counter, Slot is   *)
(* where the counter of a key lies.                                        *)
(***************************************************************************)
EXTENDS BranchHistory

\* The number of entries that the lower bits of an address can select.
EntriesArePowerOfTwo == num_entries \in {2^n : n \in 0 .. register_bits}

Histories == [1 .. history_bits -> BOOLEAN]

Keys(type) ==
  CASE type = BIMODAL            -> 0 .. index_mask
    [] type = TWO_LEVEL_ADAPTIVE -> Histories
    [] type = LOCAL_HISTORY      -> (0 .. index_mask) \X Histories
    [] type = GSHARE             -> [1 .. IndexBits -> BOOLEAN]

Slot(type, key) ==
  CASE type = BIMODAL            -> key
    [] type = TWO_LEVEL_ADAPTIVE -> Number(history_bits, key)
    [] type = LOCAL_HISTORY      -> key[1] * 2^history_bits + Number(history_bits, key[2])
    [] type = GSHARE             -> Number(IndexBits, key)

\* What the driver knows of the line it is at, and how far the counts may be.
DriverInv ==
  /\ trace \in Seq(Branches)
  /\ pc \in {"predict", "update"} => line \in Branches
  /\ pc = "predict" => stats.num_branches < MaxBranches
  /\ pc = "update" => stats.correct < stats.num_branches
  /\ stats.correct <= stats.num_branches
  /\ stats.pred_taken + stats.pred_not_taken = stats.num_branches

\* The bits of a register are the outcomes it has seen, the latest first.
Holds(t, register, P) ==
  \A k \in 1 .. register_bits :
    Bit(register, k) <=> Recent(t, P, register_bits)[k]

RegistersInv ==
  LET n == Len(trace) IN
  /\ Holds(trace, ghr, Known(trace, n))
  /\ HasHistories(pred_type) =>
       \A e \in 0 .. index_mask : Holds(trace, hist_table[e], Local(trace, n, e))

CountersInv ==
  \A key \in Keys(pred_type) :
    pht[Slot(pred_type, key)] = Counter(pred_type, trace, Len(trace), key)

\* Of the branch that has been predicted and not yet trained with, the
\* statistics count the prediction only.
StatisticsInv ==
  LET n    == Len(trace)
      more == IF pc = "update" THEN 1 ELSE 0
      up   == IF pc = "update" /\ predicted = TAKEN THEN 1 ELSE 0
  IN
  /\ stats.num_branches = n + more
  /\ stats.pred_taken = Cardinality(GuessedTaken(pred_type, trace)) + up
  /\ stats.pred_not_taken = n - Cardinality(GuessedTaken(pred_type, trace)) + more - up
  /\ stats.correct = Cardinality(GuessedRight(pred_type, trace))
  /\ pc = "update" => predicted = Guess(pred_type, trace, n, line.pc)

BInv == /\ TypeOK
        /\ DriverInv
        /\ RegistersInv
        /\ CountersInv
        /\ StatisticsInv
===============================================================================
