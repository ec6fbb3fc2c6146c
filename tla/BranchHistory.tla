---------------------------- MODULE BranchHistory ----------------------------
(***************************************************************************)
(* BranchSim with the trace it has been fed as a history variable, and a   *)
(* definition of the four predictors that looks only at that trace: which  *)
(* earlier branches share the counter of a branch, and what replaying      *)
(* their outcomes makes of it.  The tables must agree with it.             *)
(***************************************************************************)
EXTENDS BranchSim, Sequences, FiniteSets

VARIABLE trace  \* the branches predicted and trained with

hvars == <<pred_type, pht, ghr, hist_table, stats, allocated, pc, line, predicted, trace>>

HInit == Init /\ trace = <<>>
HNext == \/ Update /\ trace' = Append(trace, line)
         \/ /\ ReadUnreadable \/ ReadBranch \/ EndOfTrace \/ Predict \/ Complete
            /\ UNCHANGED trace

HSpec     == HInit /\ [][HNext]_hvars
\* The driver is one sequential program.
HFairSpec == HSpec /\ WF_hvars(HNext)

-------------------------------------------------------------------------------
(* The predictors, as functions of the first n branches of a trace t.      *)

\* The branches that train: an outcome that is neither T nor N does not.
Known(t, n) == {i \in 1 .. n : t[i].actual \in {TAKEN, NOT_TAKEN}}

\* "We use the lower bits of an address as the hash to the table."
SameEntry(p, q) == p % num_entries = q % num_entries

Local(t, n, addr) == {i \in Known(t, n) : SameEntry(t[i].pc, addr)}

\* The outcomes of the last m branches of P, the latest first; before the trace
\* nothing was taken.
Recent(t, P, m) ==
  [k \in 1 .. m |-> \E i \in P : Cardinality({j \in P : j >= i}) = k /\ t[i].actual = TAKEN]

IndexBits == CHOOSE n \in 0 .. register_bits : 2^n = num_entries

\* What selects the counter of a branch at addr.
Key(type, t, n, addr) ==
  CASE type = BIMODAL            -> addr % num_entries
    [] type = TWO_LEVEL_ADAPTIVE -> Recent(t, Local(t, n, addr), history_bits)
    [] type = LOCAL_HISTORY ->
         <<addr % num_entries, Recent(t, Local(t, n, addr), history_bits)>>
    [] type = GSHARE ->
         [k \in 1 .. IndexBits |-> Bit(addr, k) # Recent(t, Known(t, n), IndexBits)[k]]

CounterMax == 2^counter_bits - 1

Saturating(c, outcome) ==
  IF outcome = TAKEN THEN IF c = CounterMax THEN c ELSE c + 1
  ELSE IF c = 0 THEN c ELSE c - 1

\* Whether the n-th branch trains the counter selected by key.
Trains(type, t, n, key) == n \in Known(t, n) /\ Key(type, t, n - 1, t[n].pc) = key

\* The counter selected by key: the branches that train it, replayed.
Counter(type, t, n, key) ==
  LET c[i \in 0 .. n] ==
        IF i = 0 THEN 2^(counter_bits - 1)
        ELSE IF Trains(type, t, i, key) THEN Saturating(c[i - 1], t[i].actual)
        ELSE c[i - 1]
  IN c[n]

Guess(type, t, n, addr) ==
  IF 2 * Counter(type, t, n, Key(type, t, n, addr)) > CounterMax THEN TAKEN ELSE NOT_TAKEN

\* The branches whose guess, made from what came before them, is taken or right.
GuessedTaken(type, t) ==
  {i \in 1 .. Len(t) : Guess(type, t, i - 1, t[i].pc) = TAKEN}
GuessedRight(type, t) ==
  {i \in 1 .. Len(t) : Guess(type, t, i - 1, t[i].pc) = t[i].actual}

Addresses == {b.pc : b \in Branches}

-------------------------------------------------------------------------------
(* Properties.                                                             *)

\* update_predictor, get_index: the counter a branch would use is the replay of
\* the earlier branches that share it: the branch that is predicted is the one
\* that is trained, although the index is computed twice and the histories it
\* is made from are shifted in between.
CountersReplayTheTrace ==
  LET n == Len(trace) IN
  pc = "read" => \A a \in Addresses :
    pht[get_index(a)] = Counter(pred_type, trace, n, Key(pred_type, trace, n, a))

\* get_index: two branches meet in one counter exactly if the predictor's
\* definition lets them, and every index is inside the table that
\* setup_predictor allocated.
CountersAreSharedByKey ==
  LET n == Len(trace) IN
  /\ \A a \in Addresses : get_index(a) \in DOMAIN pht
  /\ pc = "read" => \A a, b \in Addresses :
       get_index(a) = get_index(b)
         <=> Key(pred_type, trace, n, a) = Key(pred_type, trace, n, b)

\* predict_branch, update_predictor: the counts of predictions and of correct
\* ones are those of predicting every branch from the trace before it.
StatisticsReplayTheTrace ==
  pc = "read" =>
    /\ stats.num_branches = Len(trace)
    /\ stats.pred_taken = Cardinality(GuessedTaken(pred_type, trace))
    /\ stats.pred_not_taken = Len(trace) - Cardinality(GuessedTaken(pred_type, trace))
    /\ stats.correct = Cardinality(GuessedRight(pred_type, trace))

\* The README says of the counters "for a 3-bit counter, the counter value is
\* 0-7": no counter exceeds what its bits can hold.
CountersFitTheirBits == \A i \in DOMAIN pht : pht[i] <= CounterMax

\* The run ends exactly if every line can be read: fscanf leaves a line that it
\* cannot parse in the input, and the loop, which asks only for the end of the
\* input, reads it for ever.
RunEndsUnlessUnreadable ==
  /\ <>(pc = "finished" \/ line = GARBLED)
  /\ [](line = GARBLED => [](pc # "finished"))
===============================================================================
