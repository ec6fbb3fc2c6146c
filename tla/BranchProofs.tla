---------------------------- MODULE BranchProofs ----------------------------
(***************************************************************************)
(* Proofs about the branch predictors, for every trace and all parameters  *)
(* that BranchSimAssumption allows. They speak of the code where its int   *)
(* arithmetic is that of numbers, which is what WidthAssumption says.      *)
(***************************************************************************)
EXTENDS BranchInv, BitsProofs, SequenceTheorems

-------------------------------------------------------------------------------
(* The constants.                                                          *)

LEMMA Sizes ==
  /\ ctr_weakly_taken \in Nat \ {0} /\ 2^counter_bits = 2 * ctr_weakly_taken
  /\ ctr_limit \in Nat /\ ctr_weakly_taken <= ctr_limit
  /\ index_mask \in Nat /\ index_mask \in 0 .. 2^register_bits - 1
  /\ 2^history_bits \in Nat \ {0} /\ history_mask \in Nat
  /\ 2^register_bits \in Nat \ {0}
<1>1. counter_bits - 1 \in Nat /\ (counter_bits - 1) + 1 = counter_bits
  BY BranchSimAssumption
<1>2. ctr_weakly_taken \in Nat \ {0} /\ 2^counter_bits = 2 * ctr_weakly_taken
  BY <1>1, PowerPositive, PowerNext DEF ctr_weakly_taken
<1>3. ctr_weakly_taken < 2^ctr_weakly_taken /\ 2^ctr_weakly_taken \in Nat
  BY <1>2, PowerExceeds, PowerPositive
<1>4. 2^register_bits \in Nat \ {0} /\ 2^history_bits \in Nat \ {0}
  BY BranchSimAssumption, PowerPositive
<1>5. index_mask \in Nat /\ index_mask \in 0 .. 2^register_bits - 1
  BY <1>4, BranchSimAssumption DEF index_mask
<1>6. QED BY <1>2, <1>3, <1>4, <1>5 DEF ctr_limit, history_mask

LEMMA TableSizes ==
  ASSUME NEW type \in Predictors
  PROVE  pht_size(type) \in Nat /\ storage_overhead(type) \in Nat
<1>1. counter_bits \in Nat /\ num_entries \in Nat /\ history_bits \in Nat
  BY BranchSimAssumption
<1>2. /\ 2^history_bits * counter_bits \in Nat
      /\ 2^history_bits * counter_bits * num_entries \in Nat
      /\ num_entries * counter_bits \in Nat
      /\ history_bits * num_entries \in Nat
  BY <1>1, Sizes
<1>3. type \in {BIMODAL, GSHARE, LOCAL_HISTORY, TWO_LEVEL_ADAPTIVE}
  BY BranchSimAssumption
<1>4. pht_size(type) \in Nat
  BY <1>1, <1>2, <1>3
     DEF pht_size, BIMODAL, GSHARE, LOCAL_HISTORY, TWO_LEVEL_ADAPTIVE
<1>5. pht_size(type) * counter_bits \in Nat
  BY <1>1, <1>4
<1>6. QED
  BY <1>1, <1>2, <1>3, <1>4, <1>5 DEF storage_overhead

-------------------------------------------------------------------------------
(* Types.                                                                  *)

StatsType ==
  [num_branches : 0 .. MaxBranches, pred_taken : 0 .. MaxBranches,
   pred_not_taken : 0 .. MaxBranches, correct : 0 .. MaxBranches,
   mispredictions : (0 .. MaxBranches) \X (0 .. MaxBranches), storage : Nat]

\* A register that has shifted in an outcome is a register.
LEMMA ShiftTyped ==
  ASSUME NEW r \in 0 .. 2^register_bits - 1, NEW taken \in BOOLEAN
  PROVE  /\ Shift(r, taken) \in 0 .. 2^register_bits - 1
         /\ \A k \in 1 .. register_bits :
              Bit(Shift(r, taken), k) <=> IF k = 1 THEN taken ELSE Bit(r, k - 1)
<1> DEFINE b == IF taken THEN 1 ELSE 0
<1>1. b \in 0 .. 1 /\ (b = 1 <=> taken) /\ register_bits \in Nat
  BY BranchSimAssumption
<1>2. Shift(r, taken) = (2 * r + b) % 2^register_bits
  BY DEF Shift
<1> HIDE DEF b
<1>3. /\ (2 * r + b) % 2^register_bits \in 0 .. 2^register_bits - 1
      /\ \A k \in 1 .. register_bits :
           Bit((2 * r + b) % 2^register_bits, k) <=> IF k = 1 THEN b = 1 ELSE Bit(r, k - 1)
  BY <1>1, BitsOfShift, Zenon
<1>4. QED BY <1>1, <1>2, <1>3, Zenon

LEMMA TrainedTyped ==
  ASSUME NEW c \in 0 .. ctr_limit, NEW taken \in BOOLEAN
  PROVE  Trained(c, taken) \in 0 .. ctr_limit
BY Sizes DEF Trained

\* One branch more, predicted one way or the other.
LEMMA OneMore ==
  ASSUME NEW n \in Nat, NEW t \in Nat, NEW u \in Nat, NEW m \in Nat, t + u = n, n < m
  PROVE  /\ n + 1 \in 0 .. m /\ {t, t + 1, u, u + 1} \subseteq 0 .. m
         /\ (t + 1) + u = n + 1 /\ t + (u + 1) = n + 1
OBVIOUS

LEMMA InitTyped == HInit => TypeOK /\ DriverInv
<1> SUFFICES ASSUME HInit PROVE TypeOK /\ DriverInv
  OBVIOUS
<1> USE DEF HInit, Init
<1>1. pred_type \in Predictors /\ storage_overhead(pred_type) \in Nat
  BY TableSizes
<1>2. pht \in [0 .. pht_size(pred_type) - 1 -> 0 .. ctr_limit]
  BY Sizes
<1>3. ghr \in 0 .. 2^register_bits - 1
  BY Sizes
<1>4. hist_table \in [0 .. index_mask -> 0 .. 2^register_bits - 1]
  BY Sizes
<1>5. /\ stats \in [num_branches : 0 .. MaxBranches, pred_taken : 0 .. MaxBranches,
                    pred_not_taken : 0 .. MaxBranches, correct : 0 .. MaxBranches,
                    mispredictions : (0 .. MaxBranches) \X (0 .. MaxBranches),
                    storage : Nat]
      /\ stats.correct = stats.num_branches
      /\ stats.pred_taken + stats.pred_not_taken = stats.num_branches
  BY <1>1, BranchSimAssumption
<1>6. TypeOK
  BY <1>1, <1>2, <1>3, <1>4, <1>5 DEF TypeOK, HasHistories
<1>7. DriverInv
  BY <1>5, BranchSimAssumption DEF DriverInv
<1>8. QED BY <1>6, <1>7

LEMMA StepTyped ==
  ASSUME TypeOK, DriverInv, [HNext]_hvars
  PROVE  TypeOK' /\ DriverInv'
<1> USE DEF DriverInv
<1>1. CASE ReadUnreadable /\ UNCHANGED trace
  BY <1>1 DEF ReadUnreadable, TypeOK
<1>2. CASE ReadBranch /\ UNCHANGED trace
  BY <1>2 DEF ReadBranch, TypeOK
<1>3. CASE EndOfTrace /\ UNCHANGED trace
  BY <1>3 DEF EndOfTrace, TypeOK
<1>4. CASE Predict /\ UNCHANGED trace
  <2>1. pc = "predict" /\ line \in Branches /\ stats.num_branches < MaxBranches
    BY <1>4 DEF Predict
  <2>2. predicted' \in {TAKEN, NOT_TAKEN}
    BY <1>4 DEF Predict, Predicts
  <2>3. /\ stats' \in StatsType
        /\ stats'.num_branches = stats.num_branches + 1 /\ stats'.correct = stats.correct
        /\ stats'.pred_taken + stats'.pred_not_taken = stats'.num_branches
    <3>1. /\ stats \in StatsType /\ MaxBranches \in Nat
          /\ stats.pred_taken + stats.pred_not_taken = stats.num_branches
      BY BranchSimAssumption DEF TypeOK, StatsType
    <3>2. stats' = [stats EXCEPT !.num_branches = @ + 1,
                                 !.pred_taken = IF predicted' = TAKEN THEN @ + 1 ELSE @,
                                 !.pred_not_taken = IF predicted' = TAKEN THEN @ ELSE @ + 1]
      BY <1>4 DEF Predict
    <3>3. /\ stats.num_branches \in Nat /\ stats.pred_taken \in Nat
          /\ stats.pred_not_taken \in Nat /\ stats.correct \in Nat
      BY <3>1 DEF StatsType
    <3>4. /\ stats'.num_branches = stats.num_branches + 1
          /\ stats'.correct = stats.correct /\ stats.correct \in 0 .. MaxBranches
          /\ \/ /\ stats'.pred_taken = stats.pred_taken + 1
                /\ stats'.pred_not_taken = stats.pred_not_taken
             \/ /\ stats'.pred_taken = stats.pred_taken
                /\ stats'.pred_not_taken = stats.pred_not_taken + 1
      BY <3>1, <3>2 DEF StatsType
    <3>5. /\ stats'.num_branches \in 0 .. MaxBranches
          /\ stats'.pred_taken \in 0 .. MaxBranches
          /\ stats'.pred_not_taken \in 0 .. MaxBranches
          /\ stats'.pred_taken + stats'.pred_not_taken = stats'.num_branches
      <4>1. /\ stats.num_branches + 1 \in 0 .. MaxBranches
            /\ {stats.pred_taken, stats.pred_taken + 1,
                stats.pred_not_taken, stats.pred_not_taken + 1} \subseteq 0 .. MaxBranches
            /\ (stats.pred_taken + 1) + stats.pred_not_taken = stats.num_branches + 1
            /\ stats.pred_taken + (stats.pred_not_taken + 1) = stats.num_branches + 1
        BY <2>1, <3>1, <3>3, OneMore
      <4>2. CASE /\ stats'.pred_taken = stats.pred_taken + 1
                 /\ stats'.pred_not_taken = stats.pred_not_taken
        BY <4>1, <4>2, <3>4, Zenon
      <4>3. CASE /\ stats'.pred_taken = stats.pred_taken
                 /\ stats'.pred_not_taken = stats.pred_not_taken + 1
        BY <4>1, <4>3, <3>4, Zenon
      <4>4. QED BY <4>2, <4>3, <3>4, Zenon
    <3>6. stats' \in StatsType
      <4>1. stats' = [stats EXCEPT !.num_branches = stats'.num_branches,
                                   !.pred_taken = stats'.pred_taken,
                                   !.pred_not_taken = stats'.pred_not_taken]
        BY <3>1, <3>2 DEF StatsType
      <4>2. QED BY <3>1, <4>1, <3>5 DEF StatsType
    <3>7. QED BY <3>4, <3>5, <3>6
  <2>4. TypeOK'
    BY <1>4, <2>1, <2>2, <2>3 DEF Predict, TypeOK, StatsType
  <2>5. stats'.correct < stats'.num_branches /\ stats'.correct <= stats'.num_branches
    <3>1. stats.correct <= stats.num_branches /\ stats.correct \in Nat /\ stats.num_branches \in Nat
      BY BranchSimAssumption DEF TypeOK
    <3>2. QED BY <2>3, <3>1
  <2>6. QED BY <1>4, <2>1, <2>3, <2>4, <2>5 DEF Predict
<1>5. CASE Update /\ trace' = Append(trace, line)
  <2> DEFINE taken == line.actual = TAKEN
  <2>1. line \in Branches /\ taken \in BOOLEAN
    BY <1>5 DEF Update
  <2>2. pht' \in [0 .. pht_size(pred_type) - 1 -> 0 .. ctr_limit]
    <3>1. \A i \in DOMAIN pht : Trained(pht[i], taken) \in 0 .. ctr_limit
      BY TrainedTyped DEF TypeOK
    <3>2. pht' = pht \/ pht' = [pht EXCEPT ![get_index(line.pc)] = Trained(@, taken)]
      BY <1>5 DEF Update
    <3>3. pht \in [0 .. pht_size(pred_type) - 1 -> 0 .. ctr_limit]
      BY DEF TypeOK
    <3> HIDE DEF taken
    <3>4. QED BY <3>1, <3>2, <3>3
  <2>3. ghr' \in 0 .. 2^register_bits - 1
    BY <1>5, <2>1, ShiftTyped DEF Update, TypeOK
  <2>4. hist_table' \in [0 .. index_mask -> 0 .. 2^register_bits - 1]
    <3>1. \A e \in DOMAIN hist_table : Shift(hist_table[e], taken) \in 0 .. 2^register_bits - 1
      BY <2>1, ShiftTyped DEF TypeOK
    <3>2. \/ hist_table' = hist_table
          \/ hist_table' = [hist_table EXCEPT ![Entry(line.pc)] = Shift(@, taken)]
      BY <1>5 DEF Update
    <3>3. hist_table \in [0 .. index_mask -> 0 .. 2^register_bits - 1]
      BY DEF TypeOK
    <3> HIDE DEF taken
    <3>4. QED BY <3>1, <3>2, <3>3
  <2>5. /\ stats' \in StatsType /\ stats'.num_branches = stats.num_branches
        /\ stats'.correct <= stats'.num_branches
        /\ stats'.pred_taken + stats'.pred_not_taken = stats'.num_branches
    <3>1. /\ stats \in StatsType /\ MaxBranches \in Nat /\ stats.correct < stats.num_branches
          /\ stats.pred_taken + stats.pred_not_taken = stats.num_branches
      BY <1>5, BranchSimAssumption DEF Update, TypeOK, StatsType
    <3>2. stats' = [stats EXCEPT !.correct = IF line.actual = predicted THEN @ + 1 ELSE @]
      BY <1>5 DEF Update
    <3>3. /\ stats'.num_branches = stats.num_branches
          /\ stats'.pred_taken = stats.pred_taken
          /\ stats'.pred_not_taken = stats.pred_not_taken
          /\ stats'.correct \in {stats.correct, stats.correct + 1}
          /\ stats' = [stats EXCEPT !.correct = stats'.correct]
      BY <3>1, <3>2 DEF StatsType
    <3>4. stats.correct \in 0 .. MaxBranches /\ stats.num_branches \in 0 .. MaxBranches
      BY <3>1 DEF StatsType
    <3>5. stats'.correct \in 0 .. MaxBranches /\ stats'.correct <= stats'.num_branches
      BY <3>1, <3>3, <3>4
    <3>6. stats' \in StatsType
      BY <3>1, <3>3, <3>5 DEF StatsType
    <3>7. QED BY <3>1, <3>3, <3>5, <3>6
  <2>6. TypeOK'
    BY <1>5, <2>2, <2>3, <2>4, <2>5 DEF Update, TypeOK, StatsType
  <2>7. trace' \in Seq(Branches)
    BY <1>5, <2>1
  <2>8. QED BY <1>5, <2>1, <2>5, <2>6, <2>7 DEF Update
<1>6. CASE Complete /\ UNCHANGED trace
  <2>1. stats' = [stats EXCEPT !.mispredictions =
                    <<stats.num_branches - stats.correct, stats.num_branches>>]
    BY <1>6 DEF Complete
  <2>2. /\ stats \in StatsType /\ stats.correct <= stats.num_branches /\ MaxBranches \in Nat
        /\ stats.pred_taken + stats.pred_not_taken = stats.num_branches
    BY BranchSimAssumption DEF TypeOK, StatsType
  <2>3. /\ stats' \in StatsType
        /\ stats'.num_branches = stats.num_branches /\ stats'.correct = stats.correct
        /\ stats'.pred_taken + stats'.pred_not_taken = stats'.num_branches
    <3>1. /\ stats'.num_branches = stats.num_branches /\ stats'.correct = stats.correct
          /\ stats'.pred_taken = stats.pred_taken
          /\ stats'.pred_not_taken = stats.pred_not_taken
      BY <2>1, <2>2 DEF StatsType
    <3>2. stats.num_branches \in 0 .. MaxBranches /\ stats.correct \in 0 .. MaxBranches
      BY <2>2 DEF StatsType
    <3>3. <<stats.num_branches - stats.correct, stats.num_branches>>
            \in (0 .. MaxBranches) \X (0 .. MaxBranches)
      BY <2>2, <3>2
    <3>4. stats' \in StatsType
      BY <2>1, <2>2, <3>3 DEF StatsType
    <3>5. QED BY <2>2, <3>1, <3>4
  <2>4. TypeOK'
    BY <1>6, <2>3 DEF Complete, TypeOK, StatsType
  <2>5. QED BY <1>6, <2>3, <2>4 DEF Complete
<1>7. CASE UNCHANGED hvars
  BY <1>7 DEF hvars, TypeOK
<1>8. QED BY <1>1, <1>2, <1>3, <1>4, <1>5, <1>6, <1>7 DEF HNext

\* setup_predictor, predict_branch, update_predictor, complete_predictor: the
\* tables keep their sizes, registers their width and counters the limit that
\* the code computes, and no statistic exceeds the number of branches.
THEOREM TypeCorrect == HSpec => []TypeOK
<1>1. TypeOK /\ DriverInv /\ [HNext]_hvars => (TypeOK /\ DriverInv)'
  BY StepTyped
<1>2. QED BY InitTyped, <1>1, PTL DEF HSpec

-------------------------------------------------------------------------------
(* The predictors as functions of the trace.                               *)

\* A branch appended to a trace leaves the first ones as they were.
Agree(s, t, n) == \A i \in 1 .. n : s[i] = t[i]

LEMMA KnownAgree ==
  ASSUME NEW n \in Nat, NEW s, NEW t, Agree(s, t, n), NEW a
  PROVE  Known(s, n) = Known(t, n) /\ Local(s, n, a) = Local(t, n, a)
BY DEF Agree, Known, Local

LEMMA RecentAgree ==
  ASSUME NEW n \in Nat, NEW s, NEW t, Agree(s, t, n), NEW P \in SUBSET (1 .. n), NEW m
  PROVE  Recent(s, P, m) = Recent(t, P, m)
BY DEF Agree, Recent

LEMMA KeyAgree ==
  ASSUME NEW n \in Nat, NEW s, NEW t, Agree(s, t, n), NEW type, NEW a
  PROVE  Key(type, s, n, a) = Key(type, t, n, a)
<1>1. Known(s, n) = Known(t, n) /\ Local(s, n, a) = Local(t, n, a)
  BY KnownAgree
<1>2. Known(t, n) \in SUBSET (1 .. n) /\ Local(t, n, a) \in SUBSET (1 .. n)
  BY DEF Known, Local
<1>3. \A m : /\ Recent(s, Known(t, n), m) = Recent(t, Known(t, n), m)
             /\ Recent(s, Local(t, n, a), m) = Recent(t, Local(t, n, a), m)
  BY <1>2, RecentAgree
<1>4. QED BY <1>1, <1>3 DEF Key

\* The latest outcome comes first and the others move back.
LEMMA RecentNext ==
  ASSUME NEW n \in Nat, NEW s, NEW t, Agree(s, t, n), NEW P \in SUBSET (1 .. n),
         NEW m \in Nat, NEW k \in 1 .. m
  PROVE  Recent(t, P \cup {n + 1}, m)[k] <=>
           IF k = 1 THEN t[n + 1].actual = TAKEN ELSE Recent(s, P, m)[k - 1]
<1> DEFINE Q == P \cup {n + 1}
           From(R, i) == {j \in R : j >= i}
<1>1. \A i \in P : IsFiniteSet(From(P, i)) /\ n + 1 \notin From(P, i)
  <2>1. IsFiniteSet(1 .. n)
    BY FS_Interval
  <2>2. ASSUME NEW i \in P PROVE IsFiniteSet(From(P, i))
    <3>1. From(P, i) \in SUBSET (1 .. n)
      OBVIOUS
    <3>2. QED BY <2>1, <3>1, FS_Subset
  <2>3. QED BY <2>2
<1>2. Cardinality(From(Q, n + 1)) = 1
  <2>1. From(Q, n + 1) = {n + 1}
    <3>1. \A j \in P : ~ (j >= n + 1)
      OBVIOUS
    <3>2. n + 1 \in Q /\ n + 1 >= n + 1 /\ \A j \in Q : j \in P \/ j = n + 1
      OBVIOUS
    <3> HIDE DEF Q
    <3>3. QED BY <3>1, <3>2
  <2>2. QED BY <2>1, FS_Singleton
<1>3. ASSUME NEW i \in P
      PROVE  /\ Cardinality(From(P, i)) \in Nat /\ Cardinality(From(P, i)) # 0
             /\ Cardinality(From(Q, i)) = Cardinality(From(P, i)) + 1
  <2>1. From(Q, i) = From(P, i) \cup {n + 1}
    OBVIOUS
  <2>2. From(P, i) # {}
    OBVIOUS
  <2>3. /\ IsFiniteSet(From(P, i)) /\ n + 1 \notin From(P, i)
        /\ Cardinality(From(P, i)) \in Nat
    BY <1>1, FS_CardinalityType
  <2> HIDE DEF From, Q
  <2>4. Cardinality(From(P, i)) # 0
    BY <2>2, <2>3, FS_EmptySet
  <2>5. Cardinality(From(P, i) \cup {n + 1}) = Cardinality(From(P, i)) + 1
    BY <2>3, FS_AddElement
  <2>6. QED BY <2>1, <2>3, <2>4, <2>5
<1>4. Recent(t, Q, m)[k] <=> \E i \in Q : Cardinality(From(Q, i)) = k /\ t[i].actual = TAKEN
  BY DEF Recent
<1>5. CASE k = 1
  <2>1. \A i \in P : Cardinality(From(Q, i)) # 1
    <3> HIDE DEF From, Q
    <3> QED BY <1>3
  <2> HIDE DEF From
  <2>2. QED BY <2>1, <1>2, <1>4, <1>5
<1>6. CASE k # 1
  <2>1. k - 1 \in 1 .. m
    BY <1>6
  <2>2. Recent(s, P, m)[k - 1] <=>
          \E i \in P : Cardinality(From(P, i)) = k - 1 /\ s[i].actual = TAKEN
    BY <2>1 DEF Recent
  <2>3. \A i \in P : Cardinality(From(Q, i)) = k <=> Cardinality(From(P, i)) = k - 1
    <3> HIDE DEF From, Q
    <3> QED BY <1>3
  <2>4. \A i \in P : s[i] = t[i]
    BY DEF Agree
  <2>5. n + 1 \in Q /\ P \subseteq Q /\ \A i \in Q : i \in P \/ i = n + 1
    OBVIOUS
  <2> HIDE DEF From, Q
  <2>6. QED BY <2>2, <2>3, <2>4, <2>5, <1>2, <1>4, <1>6
<1>7. QED BY <1>5, <1>6

-------------------------------------------------------------------------------
(* Replayed counters.                                                      *)

LEMMA SaturatingTyped ==
  ASSUME NEW c \in 0 .. CounterMax, NEW outcome
  PROVE  Saturating(c, outcome) \in 0 .. CounterMax
BY Sizes DEF Saturating, CounterMax

\* The function that Counter evaluates at n.
Replay(type, t, n, key) ==
  LET c[i \in 0 .. n] ==
        IF i = 0 THEN 2^(counter_bits - 1)
        ELSE IF Trains(type, t, i, key) THEN Saturating(c[i - 1], t[i].actual)
        ELSE c[i - 1]
  IN c

LEMMA ReplayDefined ==
  ASSUME NEW n \in Nat, NEW t, NEW type, NEW key
  PROVE  LET c == Replay(type, t, n, key) IN
         /\ c = [i \in 0 .. n |->
                   IF i = 0 THEN 2^(counter_bits - 1)
                   ELSE IF Trains(type, t, i, key) THEN Saturating(c[i - 1], t[i].actual)
                   ELSE c[i - 1]]
         /\ c[0] = ctr_weakly_taken
         /\ \A i \in 1 .. n :
              c[i] = IF Trains(type, t, i, key) THEN Saturating(c[i - 1], t[i].actual)
                     ELSE c[i - 1]
<1> DEFINE V == 0 .. CounterMax
           step == [i \in 1 .. n |-> [v \in V |->
                     IF Trains(type, t, i, key) THEN Saturating(v, t[i].actual) ELSE v]]
           Rec(c) == [i \in 0 .. n |->
                       IF i = 0 THEN 2^(counter_bits - 1)
                       ELSE IF Trains(type, t, i, key) THEN Saturating(c[i - 1], t[i].actual)
                       ELSE c[i - 1]]
<1>1. step \in [1 .. n -> [V -> V]]
  BY SaturatingTyped
<1>2. ctr_weakly_taken \in V
  BY Sizes DEF CounterMax
<1>3. PICK c : Iterates(c, n, V, ctr_weakly_taken, step)
  <2> HIDE DEF V, step
  <2> QED BY <1>1, <1>2, RecursionExists
<1>4. c = Rec(c)
  <2>0. /\ c \in [0 .. n -> V] /\ c[0] = ctr_weakly_taken
        /\ \A i \in 1 .. n : c[i] = step[i][c[i - 1]]
    BY <1>3 DEF Iterates
  <2>1. ASSUME NEW i \in 0 .. n PROVE c[i] = Rec(c)[i]
    <3>1. CASE i = 0
      BY <3>1, <2>0 DEF ctr_weakly_taken
    <3>2. CASE i # 0
      <4>1. i \in 1 .. n /\ c[i - 1] \in V
        BY <3>2, <2>0
      <4>2. c[i] = step[i][c[i - 1]]
        BY <4>1, <2>0
      <4>3. step[i][c[i - 1]] = IF Trains(type, t, i, key)
                                THEN Saturating(c[i - 1], t[i].actual) ELSE c[i - 1]
        BY <4>1
      <4> HIDE DEF step
      <4>4. QED BY <3>2, <4>2, <4>3
    <3>3. QED BY <3>1, <3>2
  <2>2. QED BY <2>0, <2>1
<1>5. Replay(type, t, n, key) = Rec(Replay(type, t, n, key))
  BY <1>4 DEF Replay
<1>6. QED BY <1>5 DEF ctr_weakly_taken

LEMMA CounterIs ==
  ASSUME NEW n \in Nat, NEW t, NEW type, NEW key
  PROVE  Counter(type, t, n, key) = Replay(type, t, n, key)[n]
BY DEF Counter, Replay

\* Two traces that agree on their first branches have the same counters there.
LEMMA ReplayAgree ==
  ASSUME NEW n \in Nat, NEW s, NEW t, Agree(s, t, n), NEW m \in Nat, NEW l \in Nat,
         n <= m, n <= l, NEW type, NEW key
  PROVE  Replay(type, s, m, key)[n] = Replay(type, t, l, key)[n]
<1> DEFINE c == Replay(type, s, m, key)
           d == Replay(type, t, l, key)
<1>1. c[0] = d[0]
  BY ReplayDefined
<1>2. ASSUME NEW i \in 1 .. n, c[i - 1] = d[i - 1] PROVE c[i] = d[i]
  <2>1. i \in 1 .. m /\ i \in 1 .. l /\ s[i] = t[i] /\ i \in Nat /\ i - 1 \in Nat
    BY DEF Agree
  <2>2. Agree(s, t, i) /\ Agree(s, t, i - 1)
    BY DEF Agree
  <2>3. Trains(type, s, i, key) <=> Trains(type, t, i, key)
    BY <2>1, <2>2, KnownAgree, KeyAgree DEF Trains
  <2>4. /\ c[i] = IF Trains(type, s, i, key) THEN Saturating(c[i - 1], s[i].actual)
                  ELSE c[i - 1]
        /\ d[i] = IF Trains(type, t, i, key) THEN Saturating(d[i - 1], t[i].actual)
                  ELSE d[i - 1]
    BY <2>1, ReplayDefined
  <2> HIDE DEF c, d
  <2>5. QED BY <1>2, <2>1, <2>3, <2>4
<1>3. n \in 0 .. n
  OBVIOUS
<1> HIDE DEF c, d
<1>4. c[n] = d[n]
  BY <1>1, <1>2, <1>3, RecursionUnique
<1>5. QED BY <1>4 DEF c, d

LEMMA CounterAgree ==
  ASSUME NEW n \in Nat, NEW s, NEW t, Agree(s, t, n), NEW type, NEW key
  PROVE  Counter(type, s, n, key) = Counter(type, t, n, key)
<1>1. n <= n
  OBVIOUS
<1>2. QED BY <1>1, ReplayAgree, CounterIs

\* One branch more trains the counter of its key and no other.
LEMMA CounterNext ==
  ASSUME NEW n \in Nat, NEW t, NEW type, NEW key
  PROVE  /\ Counter(type, t, 0, key) = ctr_weakly_taken
         /\ Counter(type, t, n + 1, key) =
              IF Trains(type, t, n + 1, key)
              THEN Saturating(Counter(type, t, n, key), t[n + 1].actual)
              ELSE Counter(type, t, n, key)
<1>1. Counter(type, t, 0, key) = ctr_weakly_taken
  BY CounterIs, ReplayDefined
<1>2. n + 1 \in Nat /\ n + 1 \in 1 .. n + 1 /\ (n + 1) - 1 = n /\ n <= n + 1 /\ n <= n
  OBVIOUS
<1>3. Replay(type, t, n + 1, key)[n] = Counter(type, t, n, key)
  <2>1. Agree(t, t, n)
    BY DEF Agree
  <2>2. QED BY <1>2, <2>1, ReplayAgree, CounterIs
<1>4. Replay(type, t, n + 1, key)[n + 1] =
        IF Trains(type, t, n + 1, key)
        THEN Saturating(Replay(type, t, n + 1, key)[n], t[n + 1].actual)
        ELSE Replay(type, t, n + 1, key)[n]
  BY <1>2, ReplayDefined
<1>5. Counter(type, t, n + 1, key) = Replay(type, t, n + 1, key)[n + 1]
  BY <1>2, CounterIs
<1>6. QED BY <1>1, <1>3, <1>4, <1>5

LEMMA CounterTyped ==
  ASSUME NEW n \in Nat, NEW t, NEW type, NEW key
  PROVE  Counter(type, t, n, key) \in 0 .. CounterMax
<1> DEFINE S == {i \in Nat : Counter(type, t, i, key) \in 0 .. CounterMax}
<1>1. 0 \in S
  BY CounterNext, Sizes DEF CounterMax
<1>2. ASSUME NEW i \in Nat, i \in S PROVE i + 1 \in S
  BY <1>2, CounterNext, SaturatingTyped
<1>3. n \in S
  <2> HIDE DEF S
  <2> QED BY <1>1, <1>2, Induction
<1>4. QED BY <1>3

-------------------------------------------------------------------------------
(* Indices.                                                                *)

LEMMA IndexBitsIs ==
  ASSUME EntriesArePowerOfTwo
  PROVE  /\ IndexBits \in Nat /\ IndexBits \in 0 .. register_bits
         /\ 2^IndexBits = num_entries /\ index_mask = 2^IndexBits - 1
<1>1. \E n \in 0 .. register_bits : 2^n = num_entries
  BY DEF EntriesArePowerOfTwo
<1>2. IndexBits \in 0 .. register_bits /\ 2^IndexBits = num_entries
  BY <1>1 DEF IndexBits
<1>3. QED BY <1>2, BranchSimAssumption DEF index_mask

\* The masks of get_index keep the low bits.
LEMMA Masked ==
  ASSUME EntriesArePowerOfTwo, NEW x \in 0 .. 2^register_bits - 1
  PROVE  /\ And(register_bits, x, index_mask) = x % num_entries
         /\ x % num_entries \in 0 .. index_mask /\ (x % num_entries) % num_entries = x % num_entries
         /\ And(register_bits, x, history_mask) = x % 2^history_bits
         /\ x \in Nat
<1>1. register_bits \in Nat /\ history_bits \in 0 .. register_bits
  BY BranchSimAssumption
<1>2. x \in Nat
  BY Sizes
<1>3. num_entries \in Nat \ {0}
  BY BranchSimAssumption
<1>4. x % num_entries \in 0 .. num_entries - 1
  BY <1>2, <1>3
<1>5. (x % num_entries) % num_entries = x % num_entries
  <2> DEFINE r == x % num_entries
  <2>1. r = num_entries * 0 + r /\ r \in 0 .. num_entries - 1 /\ r \in Nat
    BY <1>3, <1>4
  <2> HIDE DEF r
  <2>2. r % num_entries = r
    BY <2>1, <1>3, Division
  <2>3. QED BY <2>2 DEF r
<1>6. And(register_bits, x, index_mask) = x % num_entries
  BY <1>1, IndexBitsIs, AndMask
<1>7. And(register_bits, x, history_mask) = x % 2^history_bits
  BY <1>1, AndMask DEF history_mask
<1>8. QED BY <1>2, <1>4, <1>5, <1>6, <1>7 DEF index_mask

\* Keys, slots and tables of each kind of predictor.
LEMMA KindsDiffer ==
  /\ BIMODAL # TWO_LEVEL_ADAPTIVE /\ BIMODAL # LOCAL_HISTORY /\ BIMODAL # GSHARE
  /\ TWO_LEVEL_ADAPTIVE # LOCAL_HISTORY /\ TWO_LEVEL_ADAPTIVE # GSHARE
  /\ LOCAL_HISTORY # GSHARE
BY DEF BIMODAL, TWO_LEVEL_ADAPTIVE, LOCAL_HISTORY, GSHARE

LEMMA Bimodal ==
  /\ Keys(BIMODAL) = 0 .. index_mask /\ pht_size(BIMODAL) = num_entries
  /\ \A key : Slot(BIMODAL, key) = key
BY KindsDiffer, Zenon DEF Keys, Slot, pht_size

LEMMA TwoLevel ==
  /\ Keys(TWO_LEVEL_ADAPTIVE) = Histories
  /\ pht_size(TWO_LEVEL_ADAPTIVE) = 2^history_bits * counter_bits
  /\ \A key : Slot(TWO_LEVEL_ADAPTIVE, key) = Number(history_bits, key)
BY KindsDiffer, Zenon DEF Keys, Slot, pht_size

LEMMA LocalHistory ==
  /\ Keys(LOCAL_HISTORY) = (0 .. index_mask) \X Histories
  /\ pht_size(LOCAL_HISTORY) = 2^history_bits * counter_bits * num_entries
  /\ \A key : Slot(LOCAL_HISTORY, key) = key[1] * 2^history_bits + Number(history_bits, key[2])
BY KindsDiffer, Zenon DEF Keys, Slot, pht_size

LEMMA Gshare ==
  /\ Keys(GSHARE) = [1 .. IndexBits -> BOOLEAN] /\ pht_size(GSHARE) = num_entries * counter_bits
  /\ \A key : Slot(GSHARE, key) = Number(IndexBits, key)
BY KindsDiffer, Zenon DEF Keys, Slot, pht_size

\* Every key has a slot of its own in the table.
LEMMA SlotInTable ==
  ASSUME EntriesArePowerOfTwo, NEW type \in Predictors, NEW key \in Keys(type)
  PROVE  Slot(type, key) \in 0 .. pht_size(type) - 1
<1> DEFINE H == 2^history_bits
<1>1. /\ H \in Nat \ {0} /\ num_entries \in Nat \ {0} /\ counter_bits \in Nat \ {0}
      /\ index_mask = num_entries - 1 /\ history_bits \in Nat
  BY Sizes, BranchSimAssumption DEF index_mask
<1> HIDE DEF H
<1>2. \A f \in Histories : Number(history_bits, f) \in 0 .. H - 1
  BY <1>1, NumberBits DEF Histories, H
<1>3. CASE type = BIMODAL
  BY <1>1, <1>3, Bimodal
<1>4. CASE type = TWO_LEVEL_ADAPTIVE
  <2>1. Slot(type, key) \in 0 .. H - 1 /\ pht_size(type) = H * counter_bits
    BY <1>2, <1>4, TwoLevel DEF H
  <2>2. H <= H * counter_bits
    BY <1>1
  <2>3. QED BY <2>1, <2>2, <1>1
<1>5. CASE type = LOCAL_HISTORY
  <2> DEFINE e == key[1]  v == Number(history_bits, key[2])
  <2>1. /\ e \in 0 .. index_mask /\ v \in 0 .. H - 1
        /\ Slot(type, key) = e * H + v /\ pht_size(type) = H * counter_bits * num_entries
    BY <1>2, <1>5, LocalHistory DEF H
  <2> HIDE DEF e, v
  <2>2. e \in Nat /\ e <= num_entries - 1 /\ v \in Nat /\ v <= H - 1
    BY <2>1, <1>1
  <2>3. e * H <= (num_entries - 1) * H /\ e * H \in Nat
    BY <2>2, <1>1
  <2>4. (num_entries - 1) * H = num_entries * H - H
    BY <1>1
  <2>5. num_entries * H <= H * counter_bits * num_entries
    <3>1. num_entries * H \in Nat /\ num_entries * H <= (num_entries * H) * counter_bits
      BY <1>1
    <3>2. (num_entries * H) * counter_bits = H * counter_bits * num_entries
      BY <1>1
    <3>3. QED BY <3>1, <3>2
  <2>6. num_entries * H \in Nat /\ H * counter_bits * num_entries \in Nat
    BY <1>1
  <2>7. QED BY <2>1, <2>2, <2>3, <2>4, <2>5, <2>6, <1>1
<1>6. CASE type = GSHARE
  <2>1. key \in [1 .. IndexBits -> BOOLEAN] /\ Slot(type, key) = Number(IndexBits, key)
        /\ pht_size(type) = num_entries * counter_bits
    BY <1>6, Gshare
  <2>2. Slot(type, key) \in 0 .. num_entries - 1
    BY <2>1, IndexBitsIs, NumberBits
  <2>3. num_entries <= num_entries * counter_bits
    BY <1>1
  <2>4. QED BY <2>1, <2>2, <2>3, <1>1
<1>7. QED BY <1>3, <1>4, <1>5, <1>6, BranchSimAssumption

LEMMA NumberInjective ==
  ASSUME NEW n \in Nat, NEW f \in [1 .. n -> BOOLEAN], NEW g \in [1 .. n -> BOOLEAN],
         Number(n, f) = Number(n, g)
  PROVE  f = g
<1>1. \A k \in 1 .. n : f[k] = g[k]
  BY NumberBits
<1>2. QED BY <1>1

LEMMA SlotInjective ==
  ASSUME EntriesArePowerOfTwo, NEW type \in Predictors,
         NEW key \in Keys(type), NEW other \in Keys(type),
         Slot(type, key) = Slot(type, other)
  PROVE  key = other
<1> DEFINE H == 2^history_bits
<1>1. H \in Nat \ {0} /\ index_mask \in Nat /\ history_bits \in Nat
  BY Sizes, BranchSimAssumption
<1> HIDE DEF H
<1>2. \A f \in Histories : Number(history_bits, f) \in 0 .. H - 1
  BY <1>1, NumberBits DEF Histories, H
<1>3. \A f, g \in Histories : Number(history_bits, f) = Number(history_bits, g) => f = g
  BY <1>1, NumberInjective DEF Histories
<1>4. CASE type = BIMODAL
  BY <1>4, Bimodal
<1>5. CASE type = TWO_LEVEL_ADAPTIVE
  BY <1>3, <1>5, TwoLevel
<1>6. CASE type = LOCAL_HISTORY
  <2>1. ASSUME NEW k \in Keys(type)
        PROVE  /\ k \in (0 .. index_mask) \X Histories
               /\ Slot(type, k) \div H = k[1] /\ Slot(type, k) % H = Number(history_bits, k[2])
    <3>1. k \in (0 .. index_mask) \X Histories
      BY <1>6, LocalHistory
    <3>2. Slot(type, k) = k[1] * H + Number(history_bits, k[2])
      BY <1>6, LocalHistory DEF H
    <3>3. k[1] \in Nat /\ Number(history_bits, k[2]) \in 0 .. H - 1
      BY <3>1, <1>1, <1>2
    <3>4. Slot(type, k) \in Nat /\ Slot(type, k) = H * k[1] + Number(history_bits, k[2])
      BY <3>2, <3>3, <1>1
    <3> DEFINE q == k[1]  r == Number(history_bits, k[2])  x == Slot(type, k)
    <3>5. x \in Nat /\ H \in Nat \ {0} /\ q \in Nat /\ r \in 0 .. H - 1 /\ x = H * q + r
      BY <3>3, <3>4, <1>1
    <3> HIDE DEF q, r, x
    <3>6. x \div H = q /\ x % H = r
      BY <3>5, Division
    <3>7. QED BY <3>1, <3>6 DEF q, r, x
  <2>2. key[1] = other[1] /\ key[2] = other[2]
    <3>1. Number(history_bits, key[2]) = Number(history_bits, other[2]) /\ key[1] = other[1]
      BY <2>1
    <3>2. key[2] \in Histories /\ other[2] \in Histories
      BY <2>1
    <3>3. QED BY <3>1, <3>2, <1>3
  <2>3. QED BY <2>1, <2>2
<1>7. CASE type = GSHARE
  <2>1. \A k \in Keys(type) :
          k \in [1 .. IndexBits -> BOOLEAN] /\ Slot(type, k) = Number(IndexBits, k)
    BY <1>7, Gshare
  <2>2. QED BY <2>1, IndexBitsIs, NumberInjective
<1>8. QED BY <1>4, <1>5, <1>6, <1>7, BranchSimAssumption

\* Keys of each kind of predictor, and its index.
LEMMA KeyCases ==
  ASSUME NEW t, NEW n, NEW a
  PROVE  /\ Key(BIMODAL, t, n, a) = a % num_entries
         /\ Key(TWO_LEVEL_ADAPTIVE, t, n, a) = Recent(t, Local(t, n, a), history_bits)
         /\ Key(LOCAL_HISTORY, t, n, a) =
              <<a % num_entries, Recent(t, Local(t, n, a), history_bits)>>
         /\ Key(GSHARE, t, n, a) =
              [k \in 1 .. IndexBits |-> Bit(a, k) # Recent(t, Known(t, n), IndexBits)[k]]
BY KindsDiffer, Zenon DEF Key

LEMMA IndexCases ==
  ASSUME NEW a
  PROVE  /\ pred_type = BIMODAL => get_index(a) = Entry(a)
         /\ pred_type = TWO_LEVEL_ADAPTIVE => get_index(a) = History(a)
         /\ pred_type = LOCAL_HISTORY =>
              get_index(a) = Entry(a) * 2^history_bits + History(a)
         /\ pred_type = GSHARE =>
              get_index(a) = Xor(register_bits, Entry(a), And(register_bits, ghr, index_mask))
BY KindsDiffer, Zenon DEF get_index

\* A short history is the latest part of a long one.
LEMMA RecentPart ==
  ASSUME NEW t, NEW P, NEW m \in Nat, NEW l \in Nat, m <= l
  PROVE  /\ Recent(t, P, m) \in [1 .. m -> BOOLEAN]
         /\ \A k \in 1 .. m : Recent(t, P, m)[k] = Recent(t, P, l)[k]
<1> DEFINE Nth(k) == \E i \in P : Cardinality({j \in P : j >= i}) = k /\ t[i].actual = TAKEN
<1>1. \A k : Nth(k) \in BOOLEAN
  OBVIOUS
<1>2. Recent(t, P, m) = [k \in 1 .. m |-> Nth(k)] /\ Recent(t, P, l) = [k \in 1 .. l |-> Nth(k)]
  BY DEF Recent
<1>3. \A k \in 1 .. m : k \in 1 .. l
  OBVIOUS
<1> HIDE DEF Nth
<1>4. QED BY <1>1, <1>2, <1>3

\* The low bits of a register, as a number, are the latest of its outcomes.
LEMMA LowBits ==
  ASSUME NEW r \in 0 .. 2^register_bits - 1, NEW P, NEW m \in 0 .. register_bits,
         NEW t, Holds(t, r, P)
  PROVE  Number(m, Recent(t, P, m)) = r % 2^m
<1>1. register_bits \in Nat /\ m \in Nat /\ m <= register_bits /\ r \in Nat
  BY BranchSimAssumption, Sizes
<1>2. r % 2^m \in 0 .. 2^m - 1
  BY <1>1, PowerPositive
<1>3. \A k \in 1 .. m : Bit(r % 2^m, k) <=> Recent(t, P, m)[k]
  <2>1. TAKE k \in 1 .. m
  <2>2. k \in 1 .. register_bits /\ k \in Nat \ {0} /\ k <= m
    BY <1>1
  <2>3. Bit(r % 2^m, k) <=> Bit(r, k)
    BY <1>1, <2>2, BitsOfRemainder
  <2>4. Bit(r, k) <=> Recent(t, P, register_bits)[k]
    BY <2>2 DEF Holds
  <2>5. Recent(t, P, m)[k] = Recent(t, P, register_bits)[k]
    BY <1>1, RecentPart
  <2>6. QED BY <2>3, <2>4, <2>5
<1>4. Recent(t, P, m) \in [1 .. m -> BOOLEAN]
  BY <1>1, RecentPart
<1>5. QED BY <1>1, <1>2, <1>3, <1>4, NumberIs

\* get_index computes the slot of the branch's key.
LEMMA IndexIsSlot ==
  ASSUME EntriesArePowerOfTwo, TypeOK, RegistersInv, NEW a \in 0 .. 2^register_bits - 1
  PROVE  LET key == Key(pred_type, trace, Len(trace), a) IN
         key \in Keys(pred_type) /\ get_index(a) = Slot(pred_type, key)
<1> DEFINE n == Len(trace)
           e == a % num_entries
           P == Local(trace, n, a)
<1>1. Entry(a) = e /\ e \in 0 .. index_mask
  BY Masked DEF Entry
<1>2. history_bits \in 0 .. register_bits /\ history_bits \in Nat /\ register_bits \in Nat
  BY BranchSimAssumption
<1>3. Local(trace, n, e) = P
  BY Masked DEF Local, SameEntry
<1>4. ASSUME HasHistories(pred_type)
      PROVE  /\ Recent(trace, P, history_bits) \in Histories
             /\ History(a) = Number(history_bits, Recent(trace, P, history_bits))
  <2>1. hist_table[e] \in 0 .. 2^register_bits - 1
    BY <1>1 DEF TypeOK
  <2>2. Holds(trace, hist_table[e], P)
    BY <1>1, <1>3, <1>4 DEF RegistersInv
  <2>3. History(a) = hist_table[e] % 2^history_bits
    BY <1>1, <2>1, Masked DEF History
  <2>4. Recent(trace, P, history_bits) \in Histories
    BY <1>2, RecentPart DEF Histories
  <2> HIDE DEF P
  <2>5. QED BY <1>2, <2>1, <2>2, <2>3, <2>4, LowBits
<1>5. CASE pred_type = BIMODAL
  BY <1>1, <1>5, Bimodal, KeyCases, IndexCases
<1>6. CASE pred_type = TWO_LEVEL_ADAPTIVE
  <2>1. HasHistories(pred_type)
    BY <1>6 DEF HasHistories
  <2>2. QED BY <1>4, <1>6, <2>1, TwoLevel, KeyCases, IndexCases
<1>7. CASE pred_type = LOCAL_HISTORY
  <2>1. HasHistories(pred_type)
    BY <1>7 DEF HasHistories
  <2>2. Key(pred_type, trace, n, a) = <<e, Recent(trace, P, history_bits)>>
    BY <1>7, KeyCases
  <2>3. get_index(a) = e * 2^history_bits + History(a)
    BY <1>1, <1>7, IndexCases
  <2> HIDE DEF e, P
  <2>4. QED BY <1>1, <1>4, <1>7, <2>1, <2>2, <2>3, LocalHistory
<1>8. CASE pred_type = GSHARE
  <2> DEFINE g == ghr % num_entries
             key == [k \in 1 .. IndexBits |->
                       Bit(a, k) # Recent(trace, Known(trace, n), IndexBits)[k]]
  <2>1. ghr \in 0 .. 2^register_bits - 1 /\ ghr \in Nat /\ a \in Nat
    BY Masked DEF TypeOK
  <2>2. /\ And(register_bits, ghr, index_mask) = g
        /\ g \in 0 .. 2^IndexBits - 1 /\ e \in 0 .. 2^IndexBits - 1
    BY <2>1, <1>1, Masked, IndexBitsIs
  <2>3. /\ Xor(register_bits, e, g) \in 0 .. 2^IndexBits - 1
        /\ \A k \in 1 .. IndexBits : Bit(Xor(register_bits, e, g), k) <=> (Bit(e, k) # Bit(g, k))
    <3> HIDE DEF e, g
    <3> QED BY <2>2, <1>2, IndexBitsIs, XorBits
  <2>4. ASSUME NEW k \in 1 .. IndexBits
        PROVE  Bit(Xor(register_bits, e, g), k) <=> key[k]
    <3>1. k \in Nat \ {0} /\ k <= IndexBits /\ k \in 1 .. register_bits
      BY IndexBitsIs, <1>2
    <3>2. (Bit(e, k) <=> Bit(a, k)) /\ (Bit(g, k) <=> Bit(ghr, k))
      BY <2>1, <3>1, IndexBitsIs, BitsOfRemainder
    <3>3. Bit(ghr, k) <=> Recent(trace, Known(trace, n), register_bits)[k]
      BY <3>1 DEF RegistersInv, Holds
    <3>4. Recent(trace, Known(trace, n), IndexBits)[k]
            = Recent(trace, Known(trace, n), register_bits)[k]
      BY <1>2, IndexBitsIs, RecentPart
    <3>5. Recent(trace, Known(trace, n), IndexBits)[k] \in BOOLEAN
      BY DEF Recent
    <3>6. Bit(e, k) \in BOOLEAN /\ Bit(g, k) \in BOOLEAN /\ Bit(a, k) \in BOOLEAN
      BY DEF Bit
    <3>7. key[k] = (Bit(a, k) # Recent(trace, Known(trace, n), IndexBits)[k])
      OBVIOUS
    <3> HIDE DEF e, g, key
    <3>8. QED BY <2>3, <3>2, <3>3, <3>4, <3>5, <3>6, <3>7
  <2>5. key \in [1 .. IndexBits -> BOOLEAN]
    OBVIOUS
  <2>6. Key(pred_type, trace, n, a) = key
    BY <1>8, KeyCases
  <2>7. get_index(a) = Xor(register_bits, e, g)
    BY <1>1, <1>8, <2>2, IndexCases
  <2> HIDE DEF e, g, key
  <2>8. Number(IndexBits, key) = Xor(register_bits, e, g)
    BY <2>3, <2>4, <2>5, IndexBitsIs, NumberIs
  <2>9. QED BY <1>8, <2>5, <2>6, <2>7, <2>8, Gshare
<1>9. pred_type \in {BIMODAL, GSHARE, LOCAL_HISTORY, TWO_LEVEL_ADAPTIVE}
  BY BranchSimAssumption DEF TypeOK
<1>10. QED BY <1>5, <1>6, <1>7, <1>8, <1>9

-------------------------------------------------------------------------------
(* The registers hold the outcomes.                                        *)

LEMMA Appended ==
  ASSUME DriverInv, Update, trace' = Append(trace, line)
  PROVE  /\ Len(trace) \in Nat /\ Len(trace') = Len(trace) + 1
         /\ Agree(trace, trace', Len(trace)) /\ trace'[Len(trace) + 1] = line
         /\ line \in Branches /\ line.pc \in 0 .. 2^register_bits - 1
<1>1. trace \in Seq(Branches) /\ line \in Branches
  BY DEF DriverInv, Update
<1>2. QED BY <1>1, BranchSimAssumption DEF Agree

LEMMA KnownNext ==
  ASSUME NEW n \in Nat, NEW s, NEW t, Agree(s, t, n), NEW a
  PROVE  /\ Known(t, n + 1) = IF t[n + 1].actual \in {TAKEN, NOT_TAKEN}
                               THEN Known(s, n) \cup {n + 1} ELSE Known(s, n)
         /\ Local(t, n + 1, a) = IF /\ t[n + 1].actual \in {TAKEN, NOT_TAKEN}
                                     /\ SameEntry(t[n + 1].pc, a)
                                  THEN Local(s, n, a) \cup {n + 1} ELSE Local(s, n, a)
         /\ Known(s, n) \in SUBSET (1 .. n) /\ Local(s, n, a) \in SUBSET (1 .. n)
<1>1. \A i : i \in 1 .. n + 1 <=> i \in 1 .. n \/ i = n + 1
  OBVIOUS
<1>2. \A i \in 1 .. n : s[i] = t[i]
  BY DEF Agree
<1>3. n + 1 \notin 1 .. n
  OBVIOUS
<1>4. Known(t, n + 1) = IF t[n + 1].actual \in {TAKEN, NOT_TAKEN}
                        THEN Known(s, n) \cup {n + 1} ELSE Known(s, n)
  BY <1>1, <1>2 DEF Known
<1>5. Known(s, n) \in SUBSET (1 .. n) /\ Local(s, n, a) \in SUBSET (1 .. n)
  BY DEF Known, Local
<1>6. n + 1 \notin Known(s, n)
  BY <1>3, <1>5
<1>7. \A i \in Known(s, n) : s[i] = t[i]
  BY <1>2, <1>5
<1>8. QED BY <1>4, <1>5, <1>6, <1>7 DEF Local

LEMMA ShiftHolds ==
  ASSUME NEW n \in Nat, NEW s, NEW t, Agree(s, t, n), NEW P \in SUBSET (1 .. n),
         NEW r \in 0 .. 2^register_bits - 1, Holds(s, r, P)
  PROVE  Holds(t, Shift(r, t[n + 1].actual = TAKEN), P \cup {n + 1})
<1> DEFINE taken == t[n + 1].actual = TAKEN
           Q == P \cup {n + 1}
<1>1. register_bits \in Nat /\ taken \in BOOLEAN
  BY BranchSimAssumption
<1>2. ASSUME NEW k \in 1 .. register_bits
      PROVE  Bit(Shift(r, taken), k) <=> Recent(t, Q, register_bits)[k]
  <2>1. Recent(t, Q, register_bits)[k] <=>
          IF k = 1 THEN taken ELSE Recent(s, P, register_bits)[k - 1]
    BY <1>1, RecentNext
  <2>2. Bit(Shift(r, taken), k) <=> IF k = 1 THEN taken ELSE Bit(r, k - 1)
    <3> HIDE DEF taken
    <3> QED BY <1>1, ShiftTyped
  <2>3. k # 1 => (Bit(r, k - 1) <=> Recent(s, P, register_bits)[k - 1])
    BY <1>1 DEF Holds
  <2> HIDE DEF taken, Q
  <2>4. QED BY <2>1, <2>2, <2>3, Zenon
<1>3. QED BY <1>2 DEF Holds

LEMMA UntrainedHolds ==
  ASSUME NEW n \in Nat, NEW s, NEW t, Agree(s, t, n), NEW P \in SUBSET (1 .. n),
         NEW r, Holds(s, r, P)
  PROVE  Holds(t, r, P)
BY RecentAgree DEF Holds

LEMMA EntryOfEntry ==
  ASSUME NEW e \in 0 .. index_mask
  PROVE  e % num_entries = e
<1>1. num_entries \in Nat \ {0} /\ e \in 0 .. num_entries - 1 /\ e \in Nat
  BY BranchSimAssumption DEF index_mask
<1>2. e = num_entries * 0 + e
  BY <1>1
<1>3. QED BY <1>1, <1>2, Division

LEMMA RegistersInit == HInit => RegistersInv
<1> SUFFICES ASSUME HInit PROVE RegistersInv
  OBVIOUS
<1>1. Len(trace) = 0 /\ trace = <<>>
  BY DEF HInit
<1>2. Holds(trace, 0, {})
  <2>1. ASSUME NEW k \in 1 .. register_bits
        PROVE  ~ Bit(0, k) /\ ~ Recent(trace, {}, register_bits)[k]
    <3>1. 0 \in Nat /\ 0 \in 0 .. 2^0 - 1 /\ k \in Nat \ {0} /\ 0 < k
      BY PowerZero, BranchSimAssumption
    <3>2. ~ Bit(0, k)
      BY <3>1, NoHigherBits
    <3>3. ~ Recent(trace, {}, register_bits)[k]
      BY DEF Recent
    <3>4. QED BY <3>2, <3>3
  <2>2. QED BY <2>1 DEF Holds
<1>3. Known(trace, 0) = {} /\ \A e : Local(trace, 0, e) = {}
  BY DEF Known, Local
<1>4. ghr = 0 /\ \A e \in 0 .. index_mask : hist_table[e] = 0
  BY DEF HInit, Init
<1>5. QED BY <1>1, <1>2, <1>3, <1>4 DEF RegistersInv

LEMMA RegistersStep ==
  ASSUME EntriesArePowerOfTwo, TypeOK, DriverInv, RegistersInv, [HNext]_hvars
  PROVE  RegistersInv'
<1>1. CASE Update /\ trace' = Append(trace, line)
  <2> DEFINE n == Len(trace)
             taken == line.actual = TAKEN
  <2>1. /\ n \in Nat /\ Len(trace') = n + 1 /\ Agree(trace, trace', n)
        /\ trace'[n + 1] = line /\ line.pc \in 0 .. 2^register_bits - 1
    BY <1>1, Appended
  <2>2. pred_type' = pred_type
    BY <1>1 DEF Update
  <2> HIDE DEF n
  <2>3. ASSUME NEW a
        PROVE  /\ Known(trace', n + 1) =
                    IF trace'[n + 1].actual \in {TAKEN, NOT_TAKEN}
                    THEN Known(trace, n) \cup {n + 1} ELSE Known(trace, n)
               /\ Local(trace', n + 1, a) =
                    IF trace'[n + 1].actual \in {TAKEN, NOT_TAKEN} /\ SameEntry(trace'[n + 1].pc, a)
                    THEN Local(trace, n, a) \cup {n + 1} ELSE Local(trace, n, a)
               /\ Known(trace, n) \in SUBSET (1 .. n) /\ Local(trace, n, a) \in SUBSET (1 .. n)
    BY <2>1, KnownNext
  <2>4. CASE line.actual \in {TAKEN, NOT_TAKEN}
    <3>1. Holds(trace', ghr', Known(trace', n + 1))
      <4>1. ghr' = Shift(ghr, taken) /\ ghr \in 0 .. 2^register_bits - 1
        BY <1>1, <2>4 DEF Update, TypeOK
      <4>2. Known(trace', n + 1) = Known(trace, n) \cup {n + 1}
            /\ Known(trace, n) \in SUBSET (1 .. n)
        BY <2>1, <2>4, KnownNext
      <4>3. Holds(trace, ghr, Known(trace, n))
        BY DEF RegistersInv, n
      <4>4. Holds(trace', Shift(ghr, trace'[n + 1].actual = TAKEN), Known(trace, n) \cup {n + 1})
        BY <2>1, <4>1, <4>2, <4>3, ShiftHolds
      <4>5. QED BY <2>1, <4>1, <4>2, <4>4
    <3>2. ASSUME HasHistories(pred_type), NEW e \in 0 .. index_mask
          PROVE  Holds(trace', hist_table'[e], Local(trace', n + 1, e))
      <4>1. /\ hist_table' = [hist_table EXCEPT ![Entry(line.pc)] = Shift(@, taken)]
            /\ hist_table \in [0 .. index_mask -> 0 .. 2^register_bits - 1]
        BY <1>1, <2>4, <3>2 DEF Update, TypeOK
      <4>2. Entry(line.pc) = line.pc % num_entries /\ e % num_entries = e
        BY <2>1, Masked, EntryOfEntry DEF Entry
      <4>3. Local(trace, n, e) \in SUBSET (1 .. n) /\ Holds(trace, hist_table[e], Local(trace, n, e))
        BY <2>1, <3>2, KnownNext DEF RegistersInv, n
      <4>4. CASE Entry(line.pc) = e
        <5>1. hist_table'[e] = Shift(hist_table[e], taken)
          BY <4>1, <4>4
        <5>2. Local(trace', n + 1, e) = Local(trace, n, e) \cup {n + 1}
          <6>1. SameEntry(trace'[n + 1].pc, e)
            BY <2>1, <4>2, <4>4 DEF SameEntry
          <6>2. QED BY <2>1, <2>4, <6>1, KnownNext
        <5>3. hist_table[e] \in 0 .. 2^register_bits - 1
          BY <4>1
        <5>4. Holds(trace', Shift(hist_table[e], trace'[n + 1].actual = TAKEN),
                    Local(trace, n, e) \cup {n + 1})
          BY <2>1, <4>3, <5>3, ShiftHolds
        <5>5. QED BY <2>1, <5>1, <5>2, <5>4
      <4>5. CASE Entry(line.pc) # e
        <5>1. hist_table'[e] = hist_table[e]
          BY <4>1, <4>5
        <5>2. Local(trace', n + 1, e) = Local(trace, n, e)
          <6>1. ~ SameEntry(trace'[n + 1].pc, e)
            BY <2>1, <4>2, <4>5 DEF SameEntry
          <6>2. QED BY <6>1, <2>3, Zenon
        <5>3. QED BY <2>1, <4>3, <5>1, <5>2, UntrainedHolds
      <4>6. QED BY <4>4, <4>5
    <3>3. QED BY <2>1, <2>2, <3>1, <3>2 DEF RegistersInv, HasHistories
  <2>5. CASE line.actual \notin {TAKEN, NOT_TAKEN}
    <3>1. ghr' = ghr /\ hist_table' = hist_table
      BY <1>1, <2>5 DEF Update
    <3>2. \A a : /\ Known(trace', n + 1) = Known(trace, n)
                 /\ Local(trace', n + 1, a) = Local(trace, n, a)
                 /\ Known(trace, n) \in SUBSET (1 .. n) /\ Local(trace, n, a) \in SUBSET (1 .. n)
      <4>1. TAKE a
      <4>2. trace'[n + 1].actual \notin {TAKEN, NOT_TAKEN}
        BY <2>1, <2>5
      <4>3. QED BY <4>2, <2>3, Zenon
    <3>3. \A P \in SUBSET (1 .. n) : \A r : Holds(trace, r, P) => Holds(trace', r, P)
      BY <2>1, UntrainedHolds
    <3>4. QED BY <2>1, <2>2, <3>1, <3>2, <3>3 DEF RegistersInv, HasHistories, n
  <2>6. QED BY <2>4, <2>5
<1>2. CASE UNCHANGED <<pred_type, ghr, hist_table, trace>>
  BY <1>2 DEF RegistersInv, HasHistories, Holds
<1>3. QED BY <1>1, <1>2 DEF HNext, hvars, ReadUnreadable, ReadBranch, EndOfTrace, Predict, Complete

-------------------------------------------------------------------------------
(* The counters are replayed.                                              *)

\* The limit that the code computes is the largest value of a counter of one
\* bit or two.
LEMMA SmallCounters ==
  ASSUME counter_bits \in 1 .. 2
  PROVE  ctr_limit = CounterMax
<1>1. 2^1 = 2 /\ 2^2 = 4
  BY PowerZero, PowerNext
<1>2. CASE counter_bits = 1
  <2>1. ctr_weakly_taken = 1
    BY <1>2, PowerZero DEF ctr_weakly_taken
  <2>2. QED BY <1>1, <1>2, <2>1 DEF ctr_limit, CounterMax
<1>3. CASE counter_bits = 2
  <2>1. counter_bits - 1 = 1
    BY <1>3
  <2>2. ctr_weakly_taken = 2
    BY <1>1, <2>1 DEF ctr_weakly_taken
  <2>3. QED BY <1>1, <1>3, <2>2 DEF ctr_limit, CounterMax
<1>4. QED BY <1>2, <1>3

LEMMA TrainedSaturates ==
  ASSUME counter_bits \in 1 .. 2, NEW c \in 0 .. CounterMax,
         NEW outcome \in {TAKEN, NOT_TAKEN}
  PROVE  Trained(c, outcome = TAKEN) = Saturating(c, outcome)
<1>1. ctr_limit = CounterMax /\ CounterMax \in Nat
  BY SmallCounters, Sizes
<1>2. QED BY <1>1 DEF Trained, Saturating

\* A counter of the upper half predicts that the branch is taken.
LEMMA PredictsUpperHalf ==
  ASSUME NEW c \in Nat
  PROVE  Predicts(c) = IF 2 * c > CounterMax THEN TAKEN ELSE NOT_TAKEN
<1>1. CounterMax = 2 * ctr_weakly_taken - 1 /\ ctr_weakly_taken \in Nat
  BY Sizes DEF CounterMax
<1>2. c >= ctr_weakly_taken <=> 2 * c > CounterMax
  BY <1>1
<1>3. QED BY <1>2 DEF Predicts

\* A branch appended to a trace trains the counter of its key.
LEMMA CounterAppend ==
  ASSUME NEW n \in Nat, NEW s, NEW t, Agree(s, t, n), NEW type, NEW key
  PROVE  Counter(type, t, n + 1, key) =
           IF t[n + 1].actual \in {TAKEN, NOT_TAKEN} /\ Key(type, s, n, t[n + 1].pc) = key
           THEN Saturating(Counter(type, s, n, key), t[n + 1].actual)
           ELSE Counter(type, s, n, key)
<1>1. Trains(type, t, n + 1, key) <=>
        t[n + 1].actual \in {TAKEN, NOT_TAKEN} /\ Key(type, s, n, t[n + 1].pc) = key
  <2>1. n + 1 \in Known(t, n + 1) <=> t[n + 1].actual \in {TAKEN, NOT_TAKEN}
    BY DEF Known
  <2>2. Key(type, t, (n + 1) - 1, t[n + 1].pc) = Key(type, s, n, t[n + 1].pc)
    <3>1. (n + 1) - 1 = n
      OBVIOUS
    <3>2. QED BY <3>1, KeyAgree
  <2>3. QED BY <2>1, <2>2 DEF Trains
<1>2. Counter(type, t, n, key) = Counter(type, s, n, key)
  BY CounterAgree
<1>3. Counter(type, t, n + 1, key) =
        IF Trains(type, t, n + 1, key)
        THEN Saturating(Counter(type, t, n, key), t[n + 1].actual)
        ELSE Counter(type, t, n, key)
  BY CounterNext
<1>4. QED BY <1>1, <1>2, <1>3, Zenon

LEMMA CountersInit ==
  ASSUME EntriesArePowerOfTwo
  PROVE  HInit => CountersInv
<1> SUFFICES ASSUME HInit, NEW key \in Keys(pred_type)
             PROVE  pht[Slot(pred_type, key)] = Counter(pred_type, trace, Len(trace), key)
  BY DEF CountersInv
<1>1. pred_type \in Predictors /\ Len(trace) = 0
  BY DEF HInit, Init
<1>2. Slot(pred_type, key) \in 0 .. pht_size(pred_type) - 1
  BY <1>1, SlotInTable
<1>3. pht[Slot(pred_type, key)] = ctr_weakly_taken
  BY <1>2 DEF HInit, Init
<1>4. Counter(pred_type, trace, 0, key) = ctr_weakly_taken
  <2>1. 0 \in Nat
    OBVIOUS
  <2>2. QED BY <2>1, CounterNext
<1>5. QED BY <1>1, <1>3, <1>4

LEMMA CountersStep ==
  ASSUME EntriesArePowerOfTwo, counter_bits \in 1 .. 2,
         TypeOK, DriverInv, RegistersInv, CountersInv, [HNext]_hvars
  PROVE  CountersInv'
<1>1. CASE Update /\ trace' = Append(trace, line)
  <2> DEFINE n == Len(trace)
             old == Key(pred_type, trace, n, line.pc)
  <2>1. /\ n \in Nat /\ Len(trace') = n + 1 /\ Agree(trace, trace', n)
        /\ trace'[n + 1] = line /\ line.pc \in 0 .. 2^register_bits - 1
    BY <1>1, Appended
  <2>2. pred_type' = pred_type /\ pred_type \in Predictors
    BY <1>1 DEF Update, TypeOK
  <2>3. old \in Keys(pred_type) /\ get_index(line.pc) = Slot(pred_type, old)
    BY <2>1, IndexIsSlot
  <2>4. ASSUME NEW key \in Keys(pred_type)
        PROVE  pht'[Slot(pred_type, key)] = Counter(pred_type, trace', n + 1, key)
    <3> DEFINE c == Counter(pred_type, trace, n, key)
               slot == Slot(pred_type, key)
    <3>1. pht[slot] = c /\ slot \in 0 .. pht_size(pred_type) - 1 /\ c \in 0 .. CounterMax
      BY <2>1, <2>2, SlotInTable, CounterTyped DEF CountersInv
    <3>2. Counter(pred_type, trace', n + 1, key) =
            IF line.actual \in {TAKEN, NOT_TAKEN} /\ old = key
            THEN Saturating(c, line.actual) ELSE c
      <4>1. Counter(pred_type, trace', n + 1, key) =
              IF /\ trace'[n + 1].actual \in {TAKEN, NOT_TAKEN}
                 /\ Key(pred_type, trace, n, trace'[n + 1].pc) = key
              THEN Saturating(Counter(pred_type, trace, n, key), trace'[n + 1].actual)
              ELSE Counter(pred_type, trace, n, key)
        BY <2>1, CounterAppend
      <4>2. QED BY <2>1, <4>1
    <3>3. pht \in [0 .. pht_size(pred_type) - 1 -> 0 .. ctr_limit]
      BY DEF TypeOK
    <3>4. /\ line.actual \in {TAKEN, NOT_TAKEN} =>
               pht' = [pht EXCEPT ![Slot(pred_type, old)] = Trained(@, line.actual = TAKEN)]
          /\ line.actual \notin {TAKEN, NOT_TAKEN} => pht' = pht
      BY <1>1, <2>3 DEF Update
    <3> HIDE DEF n, old, c, slot
    <3>5. CASE line.actual \in {TAKEN, NOT_TAKEN} /\ old = key
      <4>1. Slot(pred_type, old) = slot
        BY <3>5 DEF slot
      <4>2. pht'[slot] = Trained(c, line.actual = TAKEN)
        BY <3>1, <3>3, <3>4, <3>5, <4>1
      <4>3. Trained(c, line.actual = TAKEN) = Saturating(c, line.actual)
        BY <3>1, <3>5, TrainedSaturates
      <4>4. QED BY <3>2, <3>5, <4>2, <4>3 DEF slot
    <3>6. CASE line.actual \in {TAKEN, NOT_TAKEN} /\ old # key
      <4>1. Slot(pred_type, old) # slot
        BY <2>2, <2>3, <3>6, SlotInjective DEF slot
      <4>2. pht'[slot] = c
        BY <3>1, <3>3, <3>4, <3>6, <4>1
      <4>3. QED BY <3>2, <3>6, <4>2 DEF slot
    <3>7. CASE line.actual \notin {TAKEN, NOT_TAKEN}
      BY <3>1, <3>2, <3>4, <3>7, Zenon DEF slot
    <3>8. QED BY <3>5, <3>6, <3>7
  <2>5. QED BY <2>1, <2>2, <2>4 DEF CountersInv
<1>2. CASE UNCHANGED <<pred_type, pht, trace>>
  BY <1>2 DEF CountersInv
<1>3. QED BY <1>1, <1>2 DEF HNext, hvars, ReadUnreadable, ReadBranch, EndOfTrace, Predict, Complete

-------------------------------------------------------------------------------
(* The statistics are those of the replay.                                 *)

LEMMA GuessAgree ==
  ASSUME NEW n \in Nat, NEW s, NEW t, Agree(s, t, n), NEW type, NEW a
  PROVE  Guess(type, s, n, a) = Guess(type, t, n, a)
<1>1. Key(type, s, n, a) = Key(type, t, n, a)
  BY KeyAgree
<1>2. \A key : Counter(type, s, n, key) = Counter(type, t, n, key)
  BY CounterAgree
<1>3. QED BY <1>1, <1>2, Zenon DEF Guess

LEMMA CountNext ==
  ASSUME NEW n \in Nat, NEW A \in SUBSET (1 .. n), NEW more \in BOOLEAN
  PROVE  /\ Cardinality(A) \in Nat
         /\ Cardinality(IF more THEN A \cup {n + 1} ELSE A)
              = Cardinality(A) + (IF more THEN 1 ELSE 0)
<1>1. IsFiniteSet(A)
  <2>1. IsFiniteSet(1 .. n)
    BY FS_Interval
  <2>2. QED BY <2>1, FS_Subset
<1>2. n + 1 \notin A
  OBVIOUS
<1>3. Cardinality(A) \in Nat /\ Cardinality(A \cup {n + 1}) = Cardinality(A) + 1
  BY <1>1, <1>2, FS_CardinalityType, FS_AddElement
<1>4. QED BY <1>3

\* A branch appended to a trace is guessed from the branches before it, and
\* they are guessed as before.
LEMMA GuessedAppend ==
  ASSUME NEW n \in Nat, NEW s, NEW t, Len(s) = n, Len(t) = n + 1, Agree(s, t, n), NEW type
  PROVE  LET guess == Guess(type, s, n, t[n + 1].pc) IN
         /\ Cardinality(GuessedTaken(type, s)) \in Nat
         /\ Cardinality(GuessedRight(type, s)) \in Nat
         /\ Cardinality(GuessedTaken(type, t)) =
              Cardinality(GuessedTaken(type, s)) + (IF guess = TAKEN THEN 1 ELSE 0)
         /\ Cardinality(GuessedRight(type, t)) =
              Cardinality(GuessedRight(type, s)) + (IF guess = t[n + 1].actual THEN 1 ELSE 0)
<1> DEFINE guess == Guess(type, s, n, t[n + 1].pc)
           A == GuessedTaken(type, s)
           B == GuessedRight(type, s)
<1>1. A \in SUBSET (1 .. n) /\ B \in SUBSET (1 .. n)
  BY DEF GuessedTaken, GuessedRight
<1>2. ASSUME NEW i \in 1 .. n
      PROVE  s[i] = t[i] /\ Guess(type, t, i - 1, t[i].pc) = Guess(type, s, i - 1, s[i].pc)
  <2>1. i - 1 \in Nat /\ Agree(s, t, i - 1) /\ s[i] = t[i]
    BY DEF Agree
  <2>2. QED BY <2>1, GuessAgree
<1>3. Guess(type, t, (n + 1) - 1, t[n + 1].pc) = guess
  <2>1. (n + 1) - 1 = n
    OBVIOUS
  <2>2. QED BY <2>1, GuessAgree
<1>4. \A i : i \in 1 .. n + 1 <=> i \in 1 .. n \/ i = n + 1
  OBVIOUS
<1>5. n + 1 \notin 1 .. n
  OBVIOUS
<1>6. GuessedTaken(type, t) = IF guess = TAKEN THEN A \cup {n + 1} ELSE A
  <2> HIDE DEF guess
  <2> QED BY <1>2, <1>3, <1>4, <1>5 DEF GuessedTaken
<1>7. GuessedRight(type, t) = IF guess = t[n + 1].actual THEN B \cup {n + 1} ELSE B
  <2> HIDE DEF guess
  <2> QED BY <1>2, <1>3, <1>4, <1>5 DEF GuessedRight
<1> HIDE DEF A, B, guess
<1>8. (guess = TAKEN) \in BOOLEAN /\ (guess = t[n + 1].actual) \in BOOLEAN
  OBVIOUS
<1>9. /\ Cardinality(A) \in Nat
      /\ Cardinality(IF guess = TAKEN THEN A \cup {n + 1} ELSE A)
           = Cardinality(A) + (IF guess = TAKEN THEN 1 ELSE 0)
  BY <1>1, <1>8, CountNext
<1>10. /\ Cardinality(B) \in Nat
       /\ Cardinality(IF guess = t[n + 1].actual THEN B \cup {n + 1} ELSE B)
            = Cardinality(B) + (IF guess = t[n + 1].actual THEN 1 ELSE 0)
  BY <1>1, <1>8, CountNext
<1>11. QED BY <1>6, <1>7, <1>9, <1>10, Zenon DEF A, B, guess

\* predict_branch reads the counter that the replay of the trace gives.
LEMMA PredictGuesses ==
  ASSUME EntriesArePowerOfTwo, TypeOK, DriverInv, RegistersInv, CountersInv, Predict
  PROVE  predicted' = Guess(pred_type, trace, Len(trace), line.pc)
<1> DEFINE n == Len(trace)
           key == Key(pred_type, trace, n, line.pc)
           c == Counter(pred_type, trace, n, key)
<1>1. n \in Nat /\ line.pc \in 0 .. 2^register_bits - 1
  BY BranchSimAssumption DEF DriverInv, Predict
<1>2. key \in Keys(pred_type) /\ get_index(line.pc) = Slot(pred_type, key)
  BY <1>1, IndexIsSlot
<1>3. pht[get_index(line.pc)] = c
  BY <1>2 DEF CountersInv
<1>4. c \in Nat
  BY <1>1, CounterTyped, Sizes DEF CounterMax
<1>5. predicted' = Predicts(c)
  BY <1>3 DEF Predict
<1>6. Guess(pred_type, trace, n, line.pc) = IF 2 * c > CounterMax THEN TAKEN ELSE NOT_TAKEN
  BY DEF Guess
<1> HIDE DEF n, key, c
<1>7. Predicts(c) = IF 2 * c > CounterMax THEN TAKEN ELSE NOT_TAKEN
  BY <1>4, PredictsUpperHalf
<1>8. QED BY <1>5, <1>6, <1>7, Zenon DEF n

LEMMA StatisticsInit == HInit => StatisticsInv
<1> SUFFICES ASSUME HInit PROVE StatisticsInv
  OBVIOUS
<1>1. Len(trace) = 0 /\ pc = "read"
  BY DEF HInit, Init
<1>2. GuessedTaken(pred_type, trace) = {} /\ GuessedRight(pred_type, trace) = {}
  BY <1>1 DEF GuessedTaken, GuessedRight
<1>3. Cardinality({}) = 0
  BY FS_EmptySet
<1>4. /\ stats.num_branches = 0 /\ stats.pred_taken = 0
      /\ stats.pred_not_taken = 0 /\ stats.correct = 0
  BY DEF HInit, Init
<1>5. QED BY <1>1, <1>2, <1>3, <1>4 DEF StatisticsInv

LEMMA StatisticsStep ==
  ASSUME EntriesArePowerOfTwo, TypeOK, DriverInv, RegistersInv, CountersInv, StatisticsInv,
         [HNext]_hvars
  PROVE  StatisticsInv'
<1> DEFINE n == Len(trace)
           T == Cardinality(GuessedTaken(pred_type, trace))
           R == Cardinality(GuessedRight(pred_type, trace))
<1>1. CASE Predict /\ UNCHANGED trace
  <2>1. predicted' = Guess(pred_type, trace, n, line.pc)
    BY <1>1, PredictGuesses
  <2>2. /\ stats' = [stats EXCEPT !.num_branches = @ + 1,
                         !.pred_taken = IF predicted' = TAKEN THEN @ + 1 ELSE @,
                         !.pred_not_taken = IF predicted' = TAKEN THEN @ ELSE @ + 1]
        /\ pc = "predict" /\ pc' = "update"
        /\ pred_type' = pred_type /\ trace' = trace /\ line' = line
    BY <1>1 DEF Predict
  <2>3. stats \in StatsType
    BY DEF TypeOK, StatsType
  <2>4. /\ stats'.num_branches = stats.num_branches + 1 /\ stats'.correct = stats.correct
        /\ stats'.pred_taken = IF predicted' = TAKEN THEN stats.pred_taken + 1 ELSE stats.pred_taken
        /\ stats'.pred_not_taken = IF predicted' = TAKEN THEN stats.pred_not_taken
                                   ELSE stats.pred_not_taken + 1
    BY <2>2, <2>3 DEF StatsType
  <2>5. /\ stats.num_branches = n /\ stats.pred_taken = T
        /\ stats.pred_not_taken = n - T /\ stats.correct = R
        /\ n \in Nat /\ T \in Nat
    <3>1. stats.pred_taken \in Nat /\ stats.pred_not_taken \in Nat /\ n \in Nat
      BY <2>3 DEF StatsType, DriverInv
    <3>2. T \in Nat
      BY <3>1, CountNext DEF GuessedTaken
    <3>3. QED BY <2>2, <3>1, <3>2 DEF StatisticsInv
  <2>6. /\ T' = T /\ R' = R /\ n' = n
        /\ Guess(pred_type', trace', n', line'.pc) = Guess(pred_type, trace, n, line.pc)
    BY <2>2
  <2> HIDE DEF n, T, R
  <2>7. CASE predicted' = TAKEN
    BY <2>1, <2>2, <2>4, <2>5, <2>6, <2>7 DEF StatisticsInv, n, T, R
  <2>8. CASE predicted' # TAKEN
    BY <2>1, <2>2, <2>4, <2>5, <2>6, <2>8 DEF StatisticsInv, n, T, R
  <2>9. QED BY <2>7, <2>8
<1>2. CASE Update /\ trace' = Append(trace, line)
  <2>1. /\ n \in Nat /\ Len(trace') = n + 1 /\ Agree(trace, trace', n)
        /\ trace'[n + 1] = line
    BY <1>2, Appended
  <2>2. /\ pc = "update" /\ pc' = "read" /\ pred_type' = pred_type
        /\ stats' = [stats EXCEPT !.correct = IF line.actual = predicted THEN @ + 1 ELSE @]
    BY <1>2 DEF Update
  <2>3. stats \in StatsType
    BY DEF TypeOK, StatsType
  <2>4. /\ stats'.num_branches = stats.num_branches
        /\ stats'.pred_taken = stats.pred_taken
        /\ stats'.pred_not_taken = stats.pred_not_taken
        /\ stats'.correct = IF line.actual = predicted THEN stats.correct + 1 ELSE stats.correct
    BY <2>2, <2>3 DEF StatsType
  <2>5. predicted = Guess(pred_type, trace, n, line.pc)
    BY <2>2 DEF StatisticsInv
  <2>6. /\ T \in Nat /\ R \in Nat
        /\ Cardinality(GuessedTaken(pred_type, trace')) = T + (IF predicted = TAKEN THEN 1 ELSE 0)
        /\ Cardinality(GuessedRight(pred_type, trace'))
             = R + (IF predicted = line.actual THEN 1 ELSE 0)
    <3>1. Len(trace) = n
      OBVIOUS
    <3> HIDE DEF n
    <3>2. QED BY <2>1, <2>5, <3>1, GuessedAppend
  <2>7. /\ stats.num_branches = n + 1 /\ stats.correct = R
        /\ stats.pred_taken = T + (IF predicted = TAKEN THEN 1 ELSE 0)
        /\ stats.pred_not_taken = n - T + 1 - (IF predicted = TAKEN THEN 1 ELSE 0)
    BY <2>2 DEF StatisticsInv
  <2> HIDE DEF n, T, R
  <2>8. /\ stats'.num_branches = Len(trace')
        /\ stats'.pred_taken = Cardinality(GuessedTaken(pred_type', trace'))
        /\ stats'.pred_not_taken = Len(trace') - Cardinality(GuessedTaken(pred_type', trace'))
        /\ stats'.correct = Cardinality(GuessedRight(pred_type', trace'))
    BY <2>1, <2>2, <2>4, <2>6, <2>7
  <2>9. Cardinality(GuessedTaken(pred_type', trace')) \in Nat /\ Len(trace') \in Nat
    BY <2>1, <2>2, <2>6
  <2>10. QED BY <2>2, <2>8, <2>9 DEF StatisticsInv
<1>3. CASE Complete /\ UNCHANGED trace
  <2>1. stats \in StatsType
    BY DEF TypeOK, StatsType
  <2>2. /\ stats'.num_branches = stats.num_branches /\ stats'.correct = stats.correct
        /\ stats'.pred_taken = stats.pred_taken
        /\ stats'.pred_not_taken = stats.pred_not_taken
    BY <1>3, <2>1 DEF Complete, StatsType
  <2>3. /\ pc = "complete" /\ pc' = "finished" /\ pred_type' = pred_type /\ trace' = trace
    BY <1>3 DEF Complete
  <2>4. QED BY <2>2, <2>3 DEF StatisticsInv
<1>4. CASE /\ UNCHANGED <<pred_type, stats, trace>>
           /\ pc # "update" /\ pc' # "update"
  BY <1>4 DEF StatisticsInv
<1>5. CASE UNCHANGED hvars
  BY <1>5 DEF StatisticsInv, hvars
<1>6. CASE ReadUnreadable \/ ReadBranch \/ EndOfTrace
  BY <1>4, <1>6 DEF HNext, hvars, ReadUnreadable, ReadBranch, EndOfTrace, Update, Predict, Complete
<1>7. QED BY <1>1, <1>2, <1>3, <1>5, <1>6 DEF HNext

-------------------------------------------------------------------------------
(* What the predictors promise.  The README asks for "the lower bits of an *)
(* address", so tables have a power of two entries, and its counters have  *)
(* two bits.                                                               *)

LEMMA RegistersInductive ==
  ASSUME EntriesArePowerOfTwo
  PROVE  HSpec => [](TypeOK /\ DriverInv /\ RegistersInv)
<1>1. HInit => TypeOK /\ DriverInv /\ RegistersInv
  BY InitTyped, RegistersInit
<1>2. TypeOK /\ DriverInv /\ RegistersInv /\ [HNext]_hvars
        => (TypeOK /\ DriverInv /\ RegistersInv)'
  BY StepTyped, RegistersStep
<1>3. QED BY <1>1, <1>2, PTL DEF HSpec

\* setup_predictor, predict_branch, update_predictor: the invariant that the
\* properties follow from holds throughout.
THEOREM Invariance ==
  ASSUME EntriesArePowerOfTwo, counter_bits \in 1 .. 2
  PROVE  HSpec => []BInv
<1>1. HInit => BInv
  BY InitTyped, RegistersInit, CountersInit, StatisticsInit DEF BInv
<1>2. BInv /\ [HNext]_hvars => BInv'
  BY StepTyped, RegistersStep, CountersStep, StatisticsStep DEF BInv
<1>3. QED BY <1>1, <1>2, PTL DEF HSpec

LEMMA AddressTyped ==
  ASSUME NEW a \in Addresses
  PROVE  a \in 0 .. 2^register_bits - 1
BY BranchSimAssumption DEF Addresses

\* get_index: two branches meet in one counter exactly if the definition of the
\* predictor lets them, and every index is inside the table, for counters of
\* one to five bits.
THEOREM CountersSharedByKey ==
  ASSUME EntriesArePowerOfTwo
  PROVE  HSpec => []CountersAreSharedByKey
<1>1. TypeOK /\ DriverInv /\ RegistersInv => CountersAreSharedByKey
  <2> SUFFICES ASSUME TypeOK, RegistersInv PROVE CountersAreSharedByKey
    OBVIOUS
  <2> DEFINE key(a) == Key(pred_type, trace, Len(trace), a)
  <2>1. pred_type \in Predictors /\ DOMAIN pht = 0 .. pht_size(pred_type) - 1
    BY DEF TypeOK
  <2>2. ASSUME NEW a \in Addresses
        PROVE  /\ key(a) \in Keys(pred_type) /\ get_index(a) = Slot(pred_type, key(a))
               /\ get_index(a) \in DOMAIN pht
    <3>1. key(a) \in Keys(pred_type) /\ get_index(a) = Slot(pred_type, key(a))
      BY AddressTyped, IndexIsSlot
    <3> HIDE DEF key
    <3>2. QED BY <2>1, <3>1, SlotInTable
  <2>3. ASSUME NEW a \in Addresses, NEW b \in Addresses
        PROVE  get_index(a) = get_index(b) <=> key(a) = key(b)
    <3> HIDE DEF key
    <3> QED BY <2>1, <2>2, SlotInjective
  <2>4. QED BY <2>2, <2>3 DEF CountersAreSharedByKey
<1>2. QED BY <1>1, RegistersInductive, PTL

\* predict_branch, update_predictor: the counter that a branch would use is the
\* replay of the earlier branches that share it.
THEOREM CountersReplay ==
  ASSUME EntriesArePowerOfTwo, counter_bits \in 1 .. 2
  PROVE  HSpec => []CountersReplayTheTrace
<1>1. BInv => CountersReplayTheTrace
  BY AddressTyped, IndexIsSlot DEF BInv, CountersInv, CountersReplayTheTrace
<1>2. QED BY <1>1, Invariance, PTL

\* predict_branch, update_predictor: the counts of predictions and of correct
\* ones are those of predicting every branch from the trace before it.
THEOREM StatisticsReplay ==
  ASSUME EntriesArePowerOfTwo, counter_bits \in 1 .. 2
  PROVE  HSpec => []StatisticsReplayTheTrace
<1>1. BInv => StatisticsReplayTheTrace
  <2> SUFFICES ASSUME BInv, pc = "read" PROVE StatisticsReplayTheTrace
    BY DEF StatisticsReplayTheTrace
  <2>1. Len(trace) \in Nat /\ GuessedTaken(pred_type, trace) \in SUBSET (1 .. Len(trace))
    BY DEF BInv, DriverInv, GuessedTaken
  <2>2. Cardinality(GuessedTaken(pred_type, trace)) \in Nat
    BY <2>1, CountNext
  <2>3. QED BY <2>1, <2>2 DEF BInv, StatisticsInv, StatisticsReplayTheTrace
<1>2. QED BY <1>1, Invariance, PTL

\* update_predictor: counters of one bit or two keep to what their bits can
\* hold.  With three bits they do not, as a run shows.
THEOREM SmallCountersFit ==
  ASSUME counter_bits \in 1 .. 2
  PROVE  HSpec => []CountersFitTheirBits
<1>1. TypeOK => CountersFitTheirBits
  BY SmallCounters, Sizes DEF TypeOK, CountersFitTheirBits
<1>2. QED BY <1>1, TypeCorrect, PTL

\* main: once the driver has met a line that it cannot read it never finishes.
THEOREM UnreadableLineHangs == HSpec => [](line = GARBLED => [](pc # "finished"))
<1> DEFINE Stuck == line = GARBLED /\ pc = "read"
<1>1. HInit => (line = GARBLED => pc = "read")
  BY DEF HInit, Init
<1>2. (line = GARBLED => pc = "read") /\ [HNext]_hvars
        => (line = GARBLED => pc = "read")' /\ (Stuck => Stuck')
  <2> SUFFICES ASSUME line = GARBLED => pc = "read", [HNext]_hvars
               PROVE  (line = GARBLED => pc = "read")' /\ (Stuck => Stuck')
    OBVIOUS
  <2>1. GARBLED \notin Branches /\ GARBLED # NULL
    BY BranchSimAssumption
  <2>2. CASE ReadUnreadable
    BY <2>2 DEF ReadUnreadable
  <2>3. CASE ReadBranch
    BY <2>1, <2>3 DEF ReadBranch
  <2>4. CASE EndOfTrace
    BY <2>1, <2>4 DEF EndOfTrace
  <2>5. CASE Predict \/ Update \/ Complete
    BY <2>5 DEF Predict, Update, Complete
  <2>6. CASE UNCHANGED hvars
    BY <2>6 DEF hvars
  <2>7. QED BY <2>2, <2>3, <2>4, <2>5, <2>6 DEF HNext
<1>3. Stuck => pc # "finished"
  OBVIOUS
<1>4. QED BY <1>1, <1>2, <1>3, PTL DEF HSpec, Stuck
===============================================================================
