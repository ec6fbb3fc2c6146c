--------------------------- MODULE SchedulerProofs ---------------------------
(***************************************************************************)
(* The scheduler's variables keep their types, and the tags in its tables  *)
(* agree with the program order, for every table size, latency and trace.  *)
(* The invariant IInv is inductive; one lemma per action shows what the    *)
(* action does to the tables, and one that it keeps the tags in agreement. *)
(***************************************************************************)
EXTENDS SchedulerInv, FiniteSetTheorems, WellFoundedInduction, TLAPS

LEMMA LeastIsMember ==
  ASSUME NEW S \in SUBSET Nat, S # {}
  PROVE  /\ Least(S) \in S
         /\ \A t \in S : Least(S) <= t
<1> DEFINE R == OpToRel(<, Nat)
<1>1. IsWellFoundedOn(R, Nat)
  BY NatLessThanWellFounded
<1>2. ASSUME NEW a \in Nat, NEW b \in Nat, ~(<<a, b>> \in R)
      PROVE  b <= a
  <2>1. ~(a < b)
    BY <1>2 DEF OpToRel
  <2> QED BY <2>1
<1> HIDE DEF R
<1>3. PICK s \in S : \A t \in S : ~(<<t, s>> \in R)
  BY <1>1, WFMin
<1> QED BY <1>2, <1>3 DEF Least

LEMMA MostNat ==
  ASSUME NEW m \in Nat, NEW n \in Nat
  PROVE  Most(m, n) \in Nat /\ m <= Most(m, n) /\ n <= Most(m, n)
BY DEF Most

LEMMA TablesAreIntervals ==
  ASSUME NEW op
  PROVE  /\ Table(op) \in SUBSET (Nat \ {0})
         /\ IsFiniteSet(Table(op))
<1> USE SchedulerAssumption
<1> DEFINE a == rs_sizes["ADD"]  d == rs_sizes["DIV"]  m == rs_sizes["MEM"]
<1>1. a \in Nat /\ d \in Nat /\ m \in Nat /\ rs_size \in Nat
  BY DEF Ops
<1>2. /\ IsFiniteSet(1 .. rs_size) /\ IsFiniteSet(1 .. a)
      /\ IsFiniteSet(a + 1 .. a + d) /\ IsFiniteSet(a + d + 1 .. a + d + m)
      /\ IsFiniteSet({})
  <2> HIDE DEF a, d, m
  <2>1. \A x, y \in Nat : IsFiniteSet(x .. y)
    BY FS_Interval
  <2>2. a + 1 \in Nat /\ a + d \in Nat /\ a + d + 1 \in Nat /\ a + d + m \in Nat
    BY <1>1
  <2> QED BY <1>1, <2>1, <2>2, FS_EmptySet
<1>3. Table(op) \in {1 .. rs_size, 1 .. a, a + 1 .. a + d, a + d + 1 .. a + d + m, {}}
  BY DEF Table
<1> HIDE DEF a, d, m
<1>4. /\ 1 .. rs_size \in SUBSET (Nat \ {0}) /\ 1 .. a \in SUBSET (Nat \ {0})
      /\ a + 1 .. a + d \in SUBSET (Nat \ {0})
      /\ a + d + 1 .. a + d + m \in SUBSET (Nat \ {0})
  BY <1>1
<1> QED BY <1>2, <1>3, <1>4

LEMMA StationsAreFinite ==
  /\ Stations \in SUBSET (Nat \ {0})
  /\ IsFiniteSet(Stations)
<1>1. Stations = Table("ADD") \cup Table("DIV") \cup Table("MEM")
  BY DEF Stations, Ops
<1> QED BY <1>1, TablesAreIntervals, FS_Union

\* A table's entries are stations, whatever the operation.
LEMMA TableOfStations ==
  ASSUME NEW op
  PROVE  Table(op) \subseteq Stations
<1>1. CASE rs = "U"
  BY <1>1 DEF Table, Stations, Ops
<1>2. CASE rs # "U" /\ op \in Ops
  BY <1>2 DEF Stations
<1>3. CASE rs # "U" /\ op \notin Ops
  BY <1>3 DEF Table, Ops
<1> QED BY <1>1, <1>2, <1>3

LEMMA Counted ==
  ASSUME NEW S \in SUBSET Stations
  PROVE  Cardinality(S) \in Nat /\ IsFiniteSet(S)
BY StationsAreFinite, FS_Subset, FS_CardinalityType

\* fire_ready takes ready entries only.
LEMMA FiredAreReady ==
  ASSUME NEW s \in Fired
  PROVE  s \in Valid /\ s \in Ready(table[s].op) /\ table[s].op \in Ops
<1>1. PICK op \in Ops : Ready(op) # {} /\ s = Least(Ready(op))
  BY DEF Fired
<1>2. Ready(op) \in SUBSET Nat
  BY StationsAreFinite DEF Ready, Valid
<1>3. s \in Ready(op)
  BY <1>1, <1>2, LeastIsMember
<1> QED BY <1>1, <1>3 DEF Ready

\* fire_ready is called once for each unit and fires one entry at most.
LEMMA FiredOnePerUnit ==
  ASSUME NEW s \in Fired, NEW t \in Fired, table[s].op = table[t].op
  PROVE  s = t
<1>1. PICK op \in Ops : Ready(op) # {} /\ s = Least(Ready(op))
  BY DEF Fired
<1>2. PICK oq \in Ops : Ready(oq) # {} /\ t = Least(Ready(oq))
  BY DEF Fired
<1>3. Ready(op) \in SUBSET Nat /\ Ready(oq) \in SUBSET Nat
  BY StationsAreFinite DEF Ready, Valid
<1>4. s \in Ready(op) /\ t \in Ready(oq)
  BY <1>1, <1>2, <1>3, LeastIsMember
<1>5. op = oq
  BY <1>4 DEF Ready
<1> QED BY <1>1, <1>2, <1>5

LEMMA FreeStation ==
  ASSUME NEW op, Free(op) # {}
  PROVE  Least(Free(op)) \in Stations \ Valid
<1>1. Free(op) \in SUBSET Nat
  BY TablesAreIntervals DEF Free
<1> QED BY <1>1, LeastIsMember, TableOfStations DEF Free

-------------------------------------------------------------------------------
(* Types.                                                                  *)

LEMMA InstructionFields ==
  ASSUME NEW i \in Instructions
  PROVE  /\ i.op \in Ops \cup {OP_INVALID}
         /\ i.dest \in Regs
         /\ i.src1 \in Regs \cup {-1}
         /\ i.src2 \in Regs \cup {-1}
BY SchedulerAssumption

LEMMA TypeInit == Init => TypeOK
<1> SUFFICES ASSUME Init PROVE TypeOK
  OBVIOUS
<1>1. Unused \in Entry
  BY DEF Unused, Entry, Ops
<1>2. stats \in Counters
  BY DEF Init, Counters
<1>3. rat \in [Regs -> {-1} \cup Stations]
  BY DEF Init
<1>4. table \in [Stations -> Entry]
  BY <1>1 DEF Init
<1>5. current_cycle = 1 /\ pc = "read" /\ inst = NULL /\ success = FALSE
  BY Zenon DEF Init
<1>6. current_cycle \in Nat \ {0}
  BY <1>5
<1>7. success \in BOOLEAN
  BY <1>5, Zenon
<1> QED BY <1>2, <1>3, <1>4, <1>5, <1>6, <1>7 DEF TypeOK

LEMMA TypeStep == TypeOK /\ [Next]_vars => TypeOK'
<1> SUFFICES ASSUME TypeOK, [Next]_vars PROVE TypeOK'
  OBVIOUS
<1>1. CASE ReadTrace
  BY <1>1, SchedulerAssumption DEF ReadTrace, TypeOK
<1>2. CASE EndOfTrace
  BY <1>2 DEF EndOfTrace, TypeOK
<1>3. CASE TryIssue
  <2>1. inst \in Instructions
    BY <1>3 DEF TryIssue, TypeOK
  <2>2. CASE Free(inst.op) # {} /\ AddEntry(Least(Free(inst.op)))
    <3> DEFINE s == Least(Free(inst.op))
    <3>1. s \in Stations
      BY <2>2, FreeStation
    <3>2. Alias(inst.src1) \in {-1} \cup Stations /\ Alias(inst.src2) \in {-1} \cup Stations
      BY <2>1, InstructionFields DEF Alias, TypeOK
    <3>3. table' \in [Stations -> Entry]
      BY <2>1, <2>2, <3>1, <3>2, InstructionFields DEF AddEntry, Entry, TypeOK
    <3>4. rat' \in [Regs -> {-1} \cup Stations]
      BY <2>1, <2>2, <3>1, InstructionFields DEF AddEntry, TypeOK
    <3>5. stats' \in Counters
      BY <2>2 DEF AddEntry, TypeOK, Counters
    <3> QED BY <1>3, <2>2, <3>3, <3>4, <3>5 DEF TryIssue, AddEntry, TypeOK
  <2>3. CASE Free(inst.op) = {} /\ Refuse
    <3>1. stats' \in Counters
      BY <2>3 DEF Refuse, TypeOK, Counters
    <3> QED BY <1>3, <2>3, <3>1 DEF TryIssue, Refuse, TypeOK
  <2> QED BY <1>3, <2>2, <2>3 DEF TryIssue
<1>4. CASE ClearCompleted
  <2> DEFINE done == Finishing(current_cycle + 1)
  <2>1. Cardinality(done) \in Nat
    BY Counted DEF Finishing, Executing, Valid
  <2>2. stats.max_completed \in Nat
    BY DEF TypeOK, Counters
  <2>3. Most(stats.max_completed, Cardinality(done)) \in Nat
    BY <2>1, <2>2, MostNat
  <2>4. table' \in [Stations -> Entry]
    <3> SUFFICES ASSUME NEW s \in Stations PROVE table'[s] \in Entry
      BY <1>4 DEF ClearCompleted
    <3>1. /\ table[s] \in Entry
          /\ Produced(done, table[s].src1) \in {-1, 0} \cup Stations
          /\ Produced(done, table[s].src2) \in {-1, 0} \cup Stations
      BY DEF TypeOK, Entry, Produced
    <3> HIDE DEF done
    <3>2. /\ [table[s] EXCEPT !.valid = FALSE] \in Entry
          /\ [table[s] EXCEPT !.src1 = Produced(done, @),
                              !.src2 = Produced(done, @)] \in Entry
      BY <3>1 DEF Entry
    <3> QED BY <1>4, <3>1, <3>2 DEF ClearCompleted, done
  <2>5. stats' \in Counters
    BY <1>4, <2>3 DEF ClearCompleted, TypeOK, Counters
  <2>6. rat' \in [Regs -> {-1} \cup Stations]
    BY <1>4 DEF ClearCompleted, Released, TypeOK
  <2>7. /\ current_cycle' = current_cycle + 1 /\ pc' = "start"
        /\ inst' = inst /\ success' = success
    BY <1>4, Zenon DEF ClearCompleted
  <2> QED BY <2>4, <2>5, <2>6, <2>7 DEF TypeOK
<1>5. CASE StartReady
  <2>1. Fired \subseteq Stations
    BY FiredAreReady DEF Valid
  <2> DEFINE Active(op) == {s \in Executing \cup Fired : table[s].op = op}
  <2>2. Cardinality(Fired) \in Nat /\ \A op : Cardinality(Active(op)) \in Nat
    BY <2>1, Counted DEF Executing, Valid
  <2>3. stats.max_fired \in Nat /\ \A op \in Ops : stats.max_active[op] \in Nat
    BY DEF TypeOK, Counters
  <2>4. /\ Most(stats.max_fired, Cardinality(Fired)) \in Nat
        /\ \A op \in Ops : Most(stats.max_active[op], Cardinality(Active(op))) \in Nat
    BY <2>2, <2>3, MostNat
  <2>5. table' \in [Stations -> Entry]
    BY <1>5 DEF StartReady, TypeOK, Entry
  <2> HIDE DEF Active
  <2>6. stats' = [stats EXCEPT !.max_fired = Most(@, Cardinality(Fired)),
                    !.max_active = [op \in Ops |-> Most(@[op], Cardinality(Active(op)))]]
    BY <1>5 DEF StartReady, Active
  <2>7. stats' \in Counters
    BY <2>4, <2>6 DEF TypeOK, Counters
  <2> QED BY <1>5, <2>5, <2>7 DEF StartReady, TypeOK
<1>6. CASE Drain
  BY <1>6 DEF Drain, TypeOK
<1>7. CASE Complete
  <2>1. stats' \in Counters
    BY <1>7 DEF Complete, TypeOK, Counters
  <2> QED BY <1>7, <2>1 DEF Complete, TypeOK
<1>8. CASE UNCHANGED vars
  BY <1>8 DEF vars, TypeOK
<1> QED BY <1>1, <1>2, <1>3, <1>4, <1>5, <1>6, <1>7, <1>8 DEF Next

\* The variables of the scheduler and the driver keep their types.
THEOREM TypeCorrect == Spec => []TypeOK
<1> QED BY TypeInit, TypeStep, PTL DEF Spec

-------------------------------------------------------------------------------
(* The tags agree with the program order.                                  *)

\* What a step leaves alone when it neither issues nor completes anything.
LEMMA FrameKeepsTags ==
  ASSUME TagsAgree, UNCHANGED <<rat, writer, origin>>,
         stats'.num_insts = stats.num_insts, Valid' = Valid,
         \A s \in Valid : /\ table'[s].dest = table[s].dest
                          /\ table'[s].src1 = table[s].src1
                          /\ table'[s].src2 = table[s].src2
  PROVE  TagsAgree'
<1> USE DEF TagsAgree
<1>1. Numbered' /\ WriterIsLast' /\ OverlapsRecorded'
  BY DEF Numbered, WriterIsLast, OverlapsRecorded
<1>2. YoungestIsAliased' /\ AliasIsYoungest'
  BY DEF YoungestIsAliased, AliasIsYoungest
<1>3. SourceIsProducer'
  BY DEF SourceIsProducer
<1>4. ReadyMeansProduced'
  BY DEF ReadyMeansProduced, MarkedReady
<1> QED BY <1>1, <1>2, <1>3, <1>4

LEMMA IssueKeepsTags ==
  ASSUME IInv, inst \in Instructions, NEW f \in Stations \ Valid,
         AddEntry(f), IssueTo(f)
  PROVE  TagsAgree'
<1> DEFINE n == stats.num_insts + 1  d == inst.dest
<1>1. /\ table \in [Stations -> Entry] /\ rat \in [Regs -> {-1} \cup Stations]
      /\ writer \in [Regs -> Nat] /\ stats.num_insts \in Nat
      /\ origin \in [Stations -> [number : Nat, first : Nat, second : Nat,
                                  overlaps : BOOLEAN]]
  BY DEF IInv, HTypeOK, TypeOK, Counters
<1>2. /\ d \in Regs
      /\ inst.src1 \in Regs \cup {-1} /\ inst.src2 \in Regs \cup {-1}
  BY InstructionFields
<1>3. /\ table'[f].valid /\ table'[f].dest = d
      /\ table'[f].src1 = Alias(inst.src1) /\ table'[f].src2 = Alias(inst.src2)
  BY <1>1 DEF AddEntry
<1>4. /\ origin'[f].number = n /\ origin'[f].overlaps = InFlight(d)
      /\ origin'[f].first = Producer(inst.src1)
      /\ origin'[f].second = Producer(inst.src2)
  BY <1>1 DEF IssueTo
<1>5. \A s \in Stations : s # f => table'[s] = table[s] /\ origin'[s] = origin[s]
  BY <1>1 DEF AddEntry, IssueTo
<1>6. Valid' = Valid \cup {f}
  BY <1>3, <1>5 DEF Valid
<1>7. /\ rat'[d] = f /\ writer'[d] = n
      /\ \A r \in Regs : r # d => rat'[r] = rat[r] /\ writer'[r] = writer[r]
  BY <1>1, <1>2 DEF AddEntry, IssueTo
<1>8. stats'.num_insts = n
  BY <1>1 DEF AddEntry, IInv, HTypeOK, TypeOK, Counters
<1>9. \A s \in Valid : s # f /\ s \in Stations
  BY DEF Valid
<1>10. f \in Nat /\ f # -1
  BY StationsAreFinite
<1>11. Producer(inst.src1) \in 0 .. n - 1 /\ Producer(inst.src2) \in 0 .. n - 1
  BY <1>1, <1>2 DEF Producer, IInv, TagsAgree, WriterIsLast
<1> HIDE DEF n, d
<1>12. n = stats.num_insts + 1 /\ n \in Nat \ {0}
  BY <1>1 DEF n
<1>13. \A s \in Valid : origin[s].number \in 1 .. n - 1
  BY <1>12, <1>1 DEF IInv, TagsAgree, Numbered
<1>14. Numbered'
  <2> SUFFICES ASSUME NEW s \in Valid', NEW t \in Valid'
               PROVE  /\ table'[s].dest \in Regs
                      /\ origin'[s].number \in 1 .. n
                      /\ origin'[s].number = origin'[t].number => s = t
    BY <1>8 DEF Numbered
  <2> QED BY <1>2, <1>3, <1>4, <1>5, <1>6, <1>9, <1>12, <1>13
            DEF IInv, TagsAgree, Numbered, d
<1>15. WriterIsLast'
  <2>1. \A r \in Regs : writer'[r] <= n /\ writer[r] < n
    BY <1>1, <1>7, <1>12 DEF IInv, TagsAgree, WriterIsLast
  <2>2. \A s \in Valid' : origin'[s].number <= writer'[table'[s].dest]
    <3> TAKE s \in Valid'
    <3>1. CASE s = f
      BY <3>1, <1>3, <1>4, <1>7, <1>12
    <3>2. CASE s # f
      BY <3>2, <1>5, <1>6, <1>7, <1>9, <1>12, <1>13
         DEF IInv, TagsAgree, WriterIsLast, Numbered
    <3> QED BY <3>1, <3>2
  <2>3. \A s \in Valid', r \in Regs :
          origin'[s].number = writer'[r] => table'[s].dest = r
    <3> TAKE s \in Valid', r \in Regs
    <3>1. CASE s = f
      BY <3>1, <1>3, <1>4, <1>7, <1>12, <2>1, <1>1
    <3>2. CASE s # f
      BY <3>2, <1>5, <1>6, <1>7, <1>9, <1>12, <1>13, <1>2
         DEF IInv, TagsAgree, WriterIsLast, d
    <3> QED BY <3>1, <3>2
  <2> QED BY <2>1, <2>2, <2>3, <1>8 DEF WriterIsLast
<1>16. OverlapsRecorded'
  <2> SUFFICES ASSUME NEW s \in Valid', NEW t \in Valid',
                      table'[s].dest = table'[t].dest,
                      origin'[s].number < origin'[t].number
               PROVE  origin'[t].overlaps
    BY DEF OverlapsRecorded
  <2>1. s # f
    BY <1>4, <1>5, <1>6, <1>9, <1>12, <1>13
  <2>2. CASE t = f
    BY <2>1, <2>2, <1>3, <1>4, <1>5, <1>6, <1>9 DEF InFlight
  <2>3. CASE t # f
    BY <2>1, <2>3, <1>5, <1>6, <1>9 DEF IInv, TagsAgree, OverlapsRecorded
  <2> QED BY <2>2, <2>3
<1>17. YoungestIsAliased'
  <2> SUFFICES ASSUME NEW s \in Valid',
                      origin'[s].number = writer'[table'[s].dest],
                      ~origin'[s].overlaps
               PROVE  rat'[table'[s].dest] = s
    BY DEF YoungestIsAliased
  <2>1. CASE s = f
    BY <2>1, <1>3, <1>7
  <2>2. CASE s # f
    <3>1. s \in Valid /\ table'[s] = table[s] /\ origin'[s] = origin[s]
      BY <2>2, <1>5, <1>6, <1>9
    <3>2. table[s].dest \in Regs /\ table[s].dest # d
      BY <3>1, <1>7, <1>12, <1>13 DEF IInv, TagsAgree, Numbered
    <3> QED BY <3>1, <3>2, <1>7 DEF IInv, TagsAgree, YoungestIsAliased
  <2> QED BY <2>1, <2>2
<1>18. AliasIsYoungest'
  <2> SUFFICES ASSUME NEW r \in Regs, rat'[r] # -1
               PROVE  /\ rat'[r] \in Valid' /\ table'[rat'[r]].dest = r
                      /\ origin'[rat'[r]].number = writer'[r]
    BY DEF AliasIsYoungest
  <2>1. CASE r = d
    BY <2>1, <1>3, <1>4, <1>6, <1>7
  <2>2. CASE r # d
    BY <2>2, <1>5, <1>6, <1>7, <1>9 DEF IInv, TagsAgree, AliasIsYoungest
  <2> QED BY <2>1, <2>2
\* Renaming finds the producer, or finds -1.
<1>19. ASSUME NEW src \in Regs \cup {-1}, Alias(src) # -1
       PROVE  /\ Alias(src) \in Valid
              /\ origin[Alias(src)].number = Producer(src)
  <2>1. src # -1 /\ src \in Regs
    BY <1>19 DEF Alias
  <2> QED BY <1>19, <2>1 DEF Alias, Producer, IInv, TagsAgree, AliasIsYoungest, Regs
<1>20. SourceIsProducer'
  <2> SUFFICES ASSUME NEW s \in Valid'
               PROVE  /\ origin'[s].first < origin'[s].number
                      /\ origin'[s].second < origin'[s].number
                      /\ table'[s].src1 # -1 =>
                           /\ table'[s].src1 \in Valid'
                           /\ origin'[table'[s].src1].number = origin'[s].first
                      /\ table'[s].src2 # -1 =>
                           /\ table'[s].src2 \in Valid'
                           /\ origin'[table'[s].src2].number = origin'[s].second
    BY DEF SourceIsProducer
  <2>1. CASE s = f
    <3>1. origin'[f].first < n /\ origin'[f].second < n
      BY <1>4, <1>11, <1>12
    <3>2. Alias(inst.src1) # -1 => /\ Alias(inst.src1) \in Valid
                                   /\ origin'[Alias(inst.src1)].number = origin'[f].first
      BY <1>2, <1>4, <1>5, <1>9, <1>19
    <3>3. Alias(inst.src2) # -1 => /\ Alias(inst.src2) \in Valid
                                   /\ origin'[Alias(inst.src2)].number = origin'[f].second
      BY <1>2, <1>4, <1>5, <1>9, <1>19
    <3> QED BY <2>1, <3>1, <3>2, <3>3, <1>3, <1>4, <1>6
  <2>2. CASE s # f
    BY <2>2, <1>5, <1>6, <1>9 DEF IInv, TagsAgree, SourceIsProducer
  <2> QED BY <2>1, <2>2
\* A producer that is in flight without an alias overlapped another writer.
<1>21. ASSUME NEW src \in Regs \cup {-1}, NEW p \in Valid,
              Alias(src) = -1, Producer(src) = origin[p].number
       PROVE  origin[p].overlaps
  <2>1. src # -1 /\ src \in Regs
    BY <1>13, <1>21, <1>12 DEF Producer
  <2>2. rat[src] = -1 /\ writer[src] = origin[p].number
    BY <1>21, <2>1 DEF Alias, Producer
  <2>3. table[p].dest = src
    BY <2>1, <2>2 DEF IInv, TagsAgree, WriterIsLast
  <2>4. p # -1
    BY StationsAreFinite DEF Valid
  <2> QED BY <2>2, <2>3, <2>4 DEF IInv, TagsAgree, YoungestIsAliased
<1>22. ReadyMeansProduced'
  <2> SUFFICES ASSUME NEW s \in Valid', NEW p \in Valid',
                      MarkedReady(s, origin[p].number)'
               PROVE  origin'[p].overlaps
    BY DEF ReadyMeansProduced
  <2>1. \/ table'[s].src1 = -1 /\ origin'[s].first = origin'[p].number
        \/ table'[s].src2 = -1 /\ origin'[s].second = origin'[p].number
    BY DEF MarkedReady
  <2>2. p # f
    <3> SUFFICES ASSUME p = f PROVE FALSE
      OBVIOUS
    <3>1. origin'[s].first = n \/ origin'[s].second = n
      BY <2>1, <1>4
    <3>2. origin'[s].number \in 1 .. n
      BY <1>4, <1>5, <1>6, <1>9, <1>12, <1>13
    <3>3. origin'[s].first < origin'[s].number /\ origin'[s].second < origin'[s].number
      BY <1>20 DEF SourceIsProducer
    <3> QED BY <3>1, <3>2, <3>3, <1>12
  <2>3. p \in Valid /\ origin'[p] = origin[p]
    BY <2>2, <1>5, <1>6, <1>9
  <2>4. CASE s = f
    BY <2>1, <2>3, <2>4, <1>2, <1>3, <1>4, <1>21
  <2>5. CASE s # f
    BY <2>1, <2>3, <2>5, <1>5, <1>6, <1>9
       DEF IInv, TagsAgree, ReadyMeansProduced, MarkedReady
  <2> QED BY <2>4, <2>5
<1> QED BY <1>14, <1>15, <1>16, <1>17, <1>18, <1>20, <1>22 DEF TagsAgree

\* What ClearCompleted does to the entries that stay.
LEMMA ClearEffect ==
  ASSUME TypeOK, ClearCompleted, NEW done, done = Finishing(current_cycle + 1)
  PROVE  /\ done \subseteq Valid
         /\ Valid' = Valid \ done
         /\ \A s \in Valid' :
              /\ table'[s].dest = table[s].dest
              /\ table'[s].op = table[s].op
              /\ table'[s].start_cycle = table[s].start_cycle
              /\ table'[s].src1 = Produced(done, table[s].src1)
              /\ table'[s].src2 = Produced(done, table[s].src2)
<1>1. done \subseteq Valid
  BY DEF Finishing, Executing
<1>2. \A s \in Stations :
        table'[s] = IF s \in done THEN [table[s] EXCEPT !.valid = FALSE]
                    ELSE IF s \in Valid
                    THEN [table[s] EXCEPT !.src1 = Produced(done, @),
                                          !.src2 = Produced(done, @)]
                    ELSE table[s]
  BY DEF ClearCompleted
<1>3. \A s \in Stations : table[s] \in Entry
  BY DEF TypeOK
<1>4. \A s \in done : ~table'[s].valid
  BY <1>1, <1>2, <1>3 DEF Entry, Valid
<1>5. \A s \in Valid \ done :
        /\ table'[s].valid
        /\ table'[s].dest = table[s].dest
        /\ table'[s].op = table[s].op
        /\ table'[s].start_cycle = table[s].start_cycle
        /\ table'[s].src1 = Produced(done, table[s].src1)
        /\ table'[s].src2 = Produced(done, table[s].src2)
  BY <1>2, <1>3 DEF Entry, Valid
<1>6. Valid' = Valid \ done
  BY <1>1, <1>2, <1>4, <1>5 DEF Valid
<1> QED BY <1>1, <1>5, <1>6

LEMMA ClearKeepsTags ==
  ASSUME IInv, ClearCompleted, UNCHANGED <<writer, origin>>
  PROVE  TagsAgree'
<1> DEFINE done == Finishing(current_cycle + 1)
<1>1. /\ done \subseteq Valid
      /\ Valid' = Valid \ done
      /\ \A s \in Valid' :
           /\ table'[s].dest = table[s].dest
           /\ table'[s].src1 = Produced(done, table[s].src1)
           /\ table'[s].src2 = Produced(done, table[s].src2)
  BY ClearEffect DEF IInv, HTypeOK
<1>2. \A r \in Regs :
        rat'[r] = IF \E s \in done : table[s].dest = r THEN -1 ELSE rat[r]
  BY DEF ClearCompleted, Released
<1>3. stats'.num_insts = stats.num_insts
  BY DEF ClearCompleted, IInv, HTypeOK, TypeOK, Counters
<1> HIDE DEF done
<1>4. \A s \in Valid : s # -1 /\ origin[s].number \in Nat /\ table[s].dest \in Regs
  BY StationsAreFinite DEF IInv, TagsAgree, Numbered, Valid, HTypeOK
<1>5. Numbered' /\ WriterIsLast' /\ OverlapsRecorded'
  BY <1>1, <1>3 DEF IInv, TagsAgree, Numbered, WriterIsLast, OverlapsRecorded
<1>6. YoungestIsAliased'
  <2> SUFFICES ASSUME NEW s \in Valid',
                      origin[s].number = writer[table[s].dest],
                      ~origin[s].overlaps
               PROVE  rat'[table[s].dest] = s
    BY <1>1 DEF YoungestIsAliased
  <2>1. rat[table[s].dest] = s
    BY <1>1 DEF IInv, TagsAgree, YoungestIsAliased
  <2>2. \A t \in done : table[t].dest # table[s].dest
    <3> SUFFICES ASSUME NEW t \in done, table[t].dest = table[s].dest PROVE FALSE
      OBVIOUS
    <3>1. s \in Valid /\ t \in Valid /\ s # t
      BY <1>1
    <3>2. origin[t].number < origin[s].number
      <4>1. origin[t].number <= origin[s].number
        BY <3>1 DEF IInv, TagsAgree, WriterIsLast
      <4>2. origin[t].number # origin[s].number
        BY <3>1 DEF IInv, TagsAgree, Numbered
      <4> QED BY <4>1, <4>2, <3>1, <1>4
    <3> QED BY <3>1, <3>2 DEF IInv, TagsAgree, OverlapsRecorded
  <2> QED BY <2>1, <2>2, <1>1, <1>2, <1>4
<1>7. AliasIsYoungest'
  <2> SUFFICES ASSUME NEW r \in Regs, rat'[r] # -1
               PROVE  /\ rat'[r] \in Valid' /\ table'[rat'[r]].dest = r
                      /\ origin[rat'[r]].number = writer[r]
    BY DEF AliasIsYoungest
  <2>1. rat'[r] = rat[r] /\ \A t \in done : table[t].dest # r
    BY <1>2
  <2> QED BY <2>1, <1>1 DEF IInv, TagsAgree, AliasIsYoungest
<1>8. SourceIsProducer'
  BY <1>1 DEF IInv, TagsAgree, SourceIsProducer, Produced
<1>9. ReadyMeansProduced'
  <2> SUFFICES ASSUME NEW s \in Valid', NEW p \in Valid',
                      MarkedReady(s, origin[p].number)'
               PROVE  origin[p].overlaps
    BY DEF ReadyMeansProduced
  <2>1. MarkedReady(s, origin[p].number)
    <3>1. s \in Valid /\ p \in Valid /\ p \notin done
      BY <1>1
    <3>2. \A t \in done : origin[t].number # origin[p].number
      BY <3>1, <1>1 DEF IInv, TagsAgree, Numbered
    <3> QED BY <3>1, <3>2, <1>1 DEF MarkedReady, Produced, IInv, TagsAgree, SourceIsProducer
  <2> QED BY <2>1, <1>1 DEF IInv, TagsAgree, ReadyMeansProduced
<1> QED BY <1>5, <1>6, <1>7, <1>8, <1>9 DEF TagsAgree

LEMMA StartEffect ==
  ASSUME TypeOK, StartReady
  PROVE  /\ Valid' = Valid
         /\ \A s \in Valid :
              /\ table'[s].dest = table[s].dest
              /\ table'[s].op = table[s].op
              /\ table'[s].src1 = table[s].src1
              /\ table'[s].src2 = table[s].src2
              /\ table'[s].start_cycle =
                   IF s \in Fired THEN current_cycle ELSE table[s].start_cycle
<1>1. \A s \in Stations :
        table'[s] = IF s \in Fired THEN [table[s] EXCEPT !.start_cycle = current_cycle]
                    ELSE table[s]
  BY DEF StartReady
<1>2. \A s \in Stations : table[s] \in Entry
  BY DEF TypeOK
<1> QED BY <1>1, <1>2 DEF Entry, Valid

LEMMA HistoryTypeStep ==
  ASSUME HTypeOK, TypeOK', [HNext]_hvars
  PROVE  HTypeOK'
<1>1. CASE UNCHANGED <<writer, origin>>
  BY <1>1 DEF HTypeOK
<1>2. CASE HTryIssue /\ Free(inst.op) # {} /\ IssueTo(Least(Free(inst.op)))
  <2> DEFINE s == Least(Free(inst.op))
  <2>1. inst \in Instructions
    BY <1>2 DEF HTryIssue, TryIssue, HTypeOK, TypeOK
  <2>2. s \in Stations /\ stats.num_insts + 1 \in Nat
    BY <1>2, FreeStation DEF HTypeOK, TypeOK, Counters
  <2>3. Producer(inst.src1) \in Nat /\ Producer(inst.src2) \in Nat
    BY <2>1, InstructionFields DEF Producer, HTypeOK
  <2>4. InFlight(inst.dest) \in BOOLEAN
    BY DEF InFlight
  <2> HIDE DEF s
  <2>5. /\ writer' = [writer EXCEPT ![inst.dest] = stats.num_insts + 1]
        /\ origin' = [origin EXCEPT ![s] =
             [number |-> stats.num_insts + 1, first |-> Producer(inst.src1),
              second |-> Producer(inst.src2), overlaps |-> InFlight(inst.dest)]]
    BY <1>2 DEF IssueTo, s
  <2>6. writer' \in [Regs -> Nat]
    BY <2>1, <2>2, <2>5, InstructionFields DEF HTypeOK
  <2>7. [number |-> stats.num_insts + 1, first |-> Producer(inst.src1),
         second |-> Producer(inst.src2), overlaps |-> InFlight(inst.dest)]
          \in [number : Nat, first : Nat, second : Nat, overlaps : BOOLEAN]
    BY <2>2, <2>3, <2>4
  <2>8. origin' \in [Stations -> [number : Nat, first : Nat, second : Nat,
                                  overlaps : BOOLEAN]]
    BY <2>2, <2>5, <2>7 DEF HTypeOK
  <2> QED BY <2>6, <2>8 DEF HTypeOK
<1> QED BY <1>1, <1>2 DEF HNext, HTryIssue, hvars

LEMMA HistoryIsScheduler ==
  /\ HInit => Init
  /\ [HNext]_hvars => [Next]_vars
BY DEF HInit, HNext, HTryIssue, hvars, Next, vars

LEMMA InvInit == HInit => IInv
<1> SUFFICES ASSUME HInit PROVE IInv
  OBVIOUS
<1>1. TypeOK
  BY TypeInit, HistoryIsScheduler
<1>2. HTypeOK
  BY <1>1 DEF HInit, HTypeOK
<1>3. Valid = {} /\ stats.num_insts = 0
  BY DEF HInit, Init, Valid, Unused
<1>4. /\ \A r \in Regs : rat[r] = -1
      /\ \A r \in Regs : writer[r] = 0
  BY DEF HInit, Init
<1> QED BY <1>2, <1>3, <1>4
         DEF IInv, TagsAgree, Numbered, WriterIsLast, OverlapsRecorded,
             YoungestIsAliased, AliasIsYoungest, SourceIsProducer, ReadyMeansProduced

LEMMA InvStep == IInv /\ [HNext]_hvars => IInv'
<1> SUFFICES ASSUME IInv, [HNext]_hvars PROVE IInv'
  OBVIOUS
<1>1. TypeOK /\ TagsAgree
  BY DEF IInv, HTypeOK
<1>2. HTypeOK'
  BY <1>1, TypeStep, HistoryIsScheduler, HistoryTypeStep DEF IInv
<1> SUFFICES TagsAgree'
  BY <1>2 DEF IInv
<1>3. CASE HTryIssue
  <2>1. inst \in Instructions
    BY <1>1, <1>3 DEF HTryIssue, TryIssue, TypeOK
  <2>2. CASE Free(inst.op) # {}
    <3> DEFINE f == Least(Free(inst.op))
    <3>1. f \in Stations \ Valid
      BY <2>2, FreeStation
    <3>2. AddEntry(f) /\ IssueTo(f)
      BY <1>3, <2>2 DEF HTryIssue, TryIssue
    <3> HIDE DEF f
    <3> QED BY <2>1, <3>1, <3>2, IssueKeepsTags
  <2>3. CASE Free(inst.op) = {}
    <3>1. Refuse /\ UNCHANGED <<writer, origin>>
      BY <1>3, <2>3 DEF HTryIssue, TryIssue
    <3>2. stats'.num_insts = stats.num_insts
      BY <1>1, <3>1 DEF Refuse, TypeOK, Counters
    <3> QED BY <1>1, <3>1, <3>2, FrameKeepsTags DEF Refuse, Valid
  <2> QED BY <2>2, <2>3
<1>4. CASE ClearCompleted /\ UNCHANGED <<writer, origin>>
  BY <1>4, ClearKeepsTags
<1>5. CASE StartReady /\ UNCHANGED <<writer, origin>>
  <2>1. rat' = rat /\ stats'.num_insts = stats.num_insts
    BY <1>1, <1>5 DEF StartReady, TypeOK, Counters
  <2> QED BY <1>1, <1>5, <2>1, StartEffect, FrameKeepsTags
<1>6. CASE /\ ReadTrace \/ EndOfTrace \/ Drain \/ Complete \/ UNCHANGED vars
           /\ UNCHANGED <<writer, origin>>
  <2>1. UNCHANGED <<rat, table>>
    BY <1>6 DEF ReadTrace, EndOfTrace, Drain, Complete, vars
  <2>2. stats'.num_insts = stats.num_insts
    BY <1>1, <1>6 DEF ReadTrace, EndOfTrace, Drain, Complete, vars, TypeOK, Counters
  <2> QED BY <1>1, <1>6, <2>1, <2>2, FrameKeepsTags DEF Valid
<1> QED BY <1>3, <1>4, <1>5, <1>6 DEF HNext, hvars, vars

\* The inductive invariant: types, and the agreement of tags and program order.
THEOREM InvHolds == HSpec => []IInv
<1> QED BY InvInit, InvStep, PTL DEF HSpec

\* Whatever is renamed, the alias of a register is its last writer's station.
THEOREM AliasCorrect == HSpec => []AliasIsYoungest
<1>1. IInv => AliasIsYoungest
  BY DEF IInv, TagsAgree
<1> QED BY <1>1, InvHolds, PTL

\* Every tag an operand waits for is held by the operand's own producer, an older
\* instruction: there is no dangling tag and no cycle of waiting instructions.
THEOREM SourceCorrect == HSpec => []SourceIsProducer
<1>1. IInv => SourceIsProducer
  BY DEF IInv, TagsAgree
<1> QED BY <1>1, InvHolds, PTL

\* An operand is marked ready early only behind overlapping writers.
THEOREM ReadyCorrect == HSpec => []ReadyMeansProduced
<1>1. IInv => ReadyMeansProduced
  BY DEF IInv, TagsAgree
<1> QED BY <1>1, InvHolds, PTL
===============================================================================
