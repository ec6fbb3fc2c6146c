---------------------------- MODULE DataflowProofs ----------------------------
(***************************************************************************)
(* What the scheduler promises of time.  On traces whose writers of a      *)
(* register do not overlap it implements Dataflow: nothing starts before   *)
(* what it reads is produced.  On every trace the functional units are     *)
(* pipelines, and every cycle before the end of the trace is charged to an *)
(* instruction or to a stall.                                              *)
(***************************************************************************)
EXTENDS SchedulerProofs

LEMMA NoOverlapStep ==
  ASSUME IInv, NoOverlap, [SeparateNext]_hvars
  PROVE  NoOverlap'
<1>1. TypeOK
  BY DEF IInv, HTypeOK
<1>2. CASE HTryIssue
  <2>1. inst \in Instructions /\ pc = "issue" /\ pc' = "clear" /\ inst' = inst
    BY <1>1, <1>2 DEF HTryIssue, TryIssue, TypeOK
  <2>2. CASE Free(inst.op) # {}
    <3> DEFINE f == Least(Free(inst.op))
    <3>1. f \in Stations \ Valid
      BY <2>2, FreeStation
    <3>2. AddEntry(f) /\ IssueTo(f)
      BY <1>2, <2>2 DEF HTryIssue, TryIssue
    <3> HIDE DEF f
    <3>3. ~InFlight(inst.dest)
      BY <2>1 DEF NoOverlap
    <3>4. \A s \in Valid' : s = f \/ (s \in Valid /\ s # f)
      BY <3>2 DEF AddEntry, Valid
    <3>5. origin'[f].overlaps = InFlight(inst.dest)
      BY <3>1, <3>2 DEF IssueTo, IInv, HTypeOK
    <3>6. \A s \in Valid : s # f => origin'[s] = origin[s]
      BY <3>2 DEF IssueTo, IInv, HTypeOK, Valid
    <3>7. success' = TRUE
      BY <3>2 DEF AddEntry
    <3> QED BY <2>1, <3>3, <3>4, <3>5, <3>6, <3>7 DEF NoOverlap
  <2>3. CASE Free(inst.op) = {}
    BY <1>2, <2>1, <2>3 DEF HTryIssue, TryIssue, Refuse, NoOverlap, Valid, InFlight
  <2> QED BY <2>2, <2>3
<1>3. CASE ClearCompleted /\ UNCHANGED <<writer, origin>>
  <2>1. /\ Valid' \subseteq Valid
        /\ \A s \in Valid' : table'[s].dest = table[s].dest
    BY <1>1, <1>3, ClearEffect
  <2>2. pc = "clear" /\ pc' = "start" /\ inst' = inst /\ success' = success
    BY <1>3, Zenon DEF ClearCompleted
  <2> QED BY <1>3, <2>1, <2>2 DEF NoOverlap, InFlight
<1>4. CASE StartReady /\ UNCHANGED <<writer, origin>>
  <2>1. /\ Valid' = Valid
        /\ \A s \in Valid : table'[s].dest = table[s].dest
    BY <1>1, <1>4, StartEffect
  <2>2. /\ pc = "start" /\ inst' = inst
        /\ pc' = IF inst = NULL THEN "drain" ELSE IF success THEN "read" ELSE "issue"
    BY <1>4 DEF StartReady
  <2>3. /\ pc' = "issue" => inst # NULL /\ ~success
        /\ pc' = "drain" => inst = NULL
        /\ pc' \notin {"clear", "start"}
    BY <2>2
  <2> QED BY <1>4, <2>1, <2>2, <2>3 DEF NoOverlap, InFlight
<1>5. CASE ReadTrace /\ SeparateNext /\ UNCHANGED <<writer, origin>>
  <2>1. /\ UNCHANGED <<rat, table>> /\ pc = "read" /\ pc' = "issue"
        /\ inst' # NULL /\ ~InFlight(inst'.dest)
    BY <1>5, SchedulerAssumption DEF ReadTrace, SeparateNext
  <2> QED BY <1>5, <2>1 DEF NoOverlap, InFlight, Valid
<1>6. CASE /\ EndOfTrace \/ Drain \/ Complete
           /\ UNCHANGED <<writer, origin>>
  <2>1. UNCHANGED table
    BY <1>6 DEF EndOfTrace, Drain, Complete
  <2>2. CASE EndOfTrace
    BY <1>6, <2>1, <2>2 DEF EndOfTrace, NoOverlap, Valid
  <2>3. CASE Drain \/ Complete
    <3>1. /\ pc = "drain" /\ pc' \in {"clear", "finished"}
          /\ inst' = inst
      BY <2>3 DEF Drain, Complete
    <3> QED BY <1>6, <2>1, <3>1 DEF NoOverlap, Valid
  <2> QED BY <1>6, <2>2, <2>3
<1>7. CASE UNCHANGED hvars
  BY <1>7 DEF hvars, NoOverlap, Valid, InFlight
<1> QED BY <1>2, <1>3, <1>4, <1>5, <1>6, <1>7 DEF SeparateNext, HNext

LEMMA NoOverlapInit == HInit => NoOverlap
<1> SUFFICES ASSUME HInit PROVE NoOverlap
  OBVIOUS
<1>1. Valid = {} /\ pc = "read"
  BY DEF HInit, Init, Valid, Unused
<1> QED BY <1>1 DEF NoOverlap

LEMMA SeparateInv == SeparateSpec => [](IInv /\ NoOverlap)
<1>1. [SeparateNext]_hvars => [HNext]_hvars
  BY DEF SeparateNext
<1>2. IInv /\ NoOverlap /\ [SeparateNext]_hvars => IInv' /\ NoOverlap'
  BY <1>1, InvStep, NoOverlapStep
<1> QED BY <1>2, InvInit, NoOverlapInit, PTL DEF SeparateSpec

\* What a source marked -1 is said to mean: it has been produced.
LEMMA MarkedAreReady ==
  ASSUME IInv, NoOverlap
  PROVE  MarkedSourcesAreReady
BY DEF IInv, TagsAgree, NoOverlap, ReadyMeansProduced, MarkedSourcesAreReady

\* On traces whose writers do not overlap the comment in fire_ready is true: what
\* is marked ready has been produced, for every instance of the scheduler.
THEOREM SeparateWritersReady == SeparateSpec => []MarkedSourcesAreReady
<1> QED BY SeparateInv, MarkedAreReady, PTL

-------------------------------------------------------------------------------
(* The refinement.                                                         *)

\* The instruction that station s holds, as Dataflow sees it.
Seen(s) == [number  |-> origin[s].number,
            op      |-> table[s].op,
            stage   |-> IF table[s].start_cycle = 0 THEN "waiting" ELSE "started",
            needs   |-> {origin[s].first, origin[s].second} \ {0}]

Window == {Seen(s) : s \in Valid}

LEMMA IssueRefines ==
  ASSUME IInv, inst \in Instructions, NEW f \in Stations \ Valid,
         AddEntry(f), IssueTo(f)
  PROVE  DF!Issue(inst.op, inst.dest, {inst.src1, inst.src2} \ {-1})
<1> DEFINE n == stats.num_insts + 1
           new == [number |-> n, op |-> inst.op, stage |-> "waiting",
                   needs |-> {writer[r] : r \in {inst.src1, inst.src2} \ {-1}} \ {0}]
<1>1. /\ table \in [Stations -> Entry]
      /\ origin \in [Stations -> [number : Nat, first : Nat, second : Nat,
                                  overlaps : BOOLEAN]]
  BY DEF IInv, HTypeOK, TypeOK
<1>2. /\ table'[f].valid /\ table'[f].op = inst.op /\ table'[f].start_cycle = 0
      /\ origin'[f].number = n
      /\ origin'[f].first = Producer(inst.src1)
      /\ origin'[f].second = Producer(inst.src2)
  BY <1>1 DEF AddEntry, IssueTo
<1>3. \A s \in Stations : s # f => table'[s] = table[s] /\ origin'[s] = origin[s]
  BY <1>1 DEF AddEntry, IssueTo
<1>4. Valid' = Valid \cup {f}
  BY <1>2, <1>3 DEF Valid
<1>5. {writer[r] : r \in {inst.src1, inst.src2} \ {-1}} \ {0}
        = {Producer(inst.src1), Producer(inst.src2)} \ {0}
  BY DEF Producer
<1>6. Seen(f)' = new
  BY <1>2, <1>5 DEF Seen
<1>7. \A s \in Valid : Seen(s)' = Seen(s)
  BY <1>3 DEF Seen, Valid
<1>8. Window' = Window \cup {new}
  <2> HIDE DEF new
  <2>1. Window' = {Seen(s)' : s \in Valid'}
    BY DEF Window
  <2> QED BY <2>1, <1>4, <1>6, <1>7 DEF Window
<1>9. /\ stats'.num_insts = n
      /\ writer' = [writer EXCEPT ![inst.dest] = n]
  BY DEF AddEntry, IssueTo, IInv, HTypeOK, TypeOK, Counters
<1> QED BY <1>8, <1>9 DEF DF!Issue, Window, Seen

LEMMA ClearRefines ==
  ASSUME IInv, ClearCompleted, UNCHANGED <<writer, origin>>
  PROVE  \E S \in SUBSET {w \in Window : w.stage = "started"} : DF!Finish(S)
<1> DEFINE done == Finishing(current_cycle + 1)
           S == {Seen(s) : s \in done}
<1>1. /\ done \subseteq Valid
      /\ Valid' = Valid \ done
      /\ \A s \in Valid' : /\ table'[s].op = table[s].op
                           /\ table'[s].start_cycle = table[s].start_cycle
  BY ClearEffect DEF IInv, HTypeOK
<1>2. \A s \in done : table[s].start_cycle # 0
  BY DEF Finishing, Executing
<1> HIDE DEF done
<1>3. S \in SUBSET {w \in Window : w.stage = "started"}
  <2> SUFFICES ASSUME NEW s \in done
               PROVE  Seen(s) \in Window /\ Seen(s).stage = "started"
    OBVIOUS
  <2>1. Seen(s).stage = IF table[s].start_cycle = 0 THEN "waiting" ELSE "started"
    BY DEF Seen
  <2> QED BY <1>1, <1>2, <2>1 DEF Window
<1>4. \A s \in Valid' : Seen(s)' = Seen(s)
  BY <1>1 DEF Seen
<1>5. \A s, t \in Valid : Seen(s) = Seen(t) => s = t
  BY DEF Seen, IInv, TagsAgree, Numbered
<1>6. Window' = Window \ S
  <2>1. Window' = {Seen(s)' : s \in Valid'}
    BY DEF Window
  <2>2. Window' = {Seen(s) : s \in Valid \ done}
    BY <2>1, <1>1, <1>4
  <2> QED BY <2>2, <1>1, <1>5 DEF Window
<1>7. stats'.num_insts = stats.num_insts
  BY DEF ClearCompleted, IInv, HTypeOK, TypeOK, Counters
<1>8. DF!Finish(S)
  BY <1>6, <1>7 DEF DF!Finish, Window, Seen
<1> HIDE DEF S
<1> QED BY <1>3, <1>8 DEF DF!Finish

LEMMA RecordStarted ==
  ASSUME NEW n, NEW op, NEW b, NEW needs
  PROVE  [[number |-> n, op |-> op, stage |-> b, needs |-> needs]
            EXCEPT !.stage = "started"]
           = [number |-> n, op |-> op, stage |-> "started", needs |-> needs]
OBVIOUS

LEMMA StartRefines ==
  ASSUME IInv, NoOverlap, StartReady, UNCHANGED <<writer, origin>>
  PROVE  \E S \in SUBSET DF!MayStart : DF!Start(S)
<1> DEFINE S == {Seen(s) : s \in Fired}
<1>1. /\ Valid' = Valid
      /\ \A s \in Valid :
           /\ table'[s].op = table[s].op
           /\ table'[s].start_cycle =
                IF s \in Fired THEN current_cycle ELSE table[s].start_cycle
  BY StartEffect DEF IInv, HTypeOK
<1>2. current_cycle # 0 /\ stats'.num_insts = stats.num_insts
  BY DEF StartReady, IInv, HTypeOK, TypeOK, Counters
<1>3. \A s \in Fired : /\ s \in Valid /\ table[s].start_cycle = 0
                       /\ table[s].src1 = -1 /\ table[s].src2 = -1
  BY FiredAreReady DEF Ready
<1>4. \A s, t \in Fired : table[s].op = table[t].op => s = t
  BY FiredOnePerUnit
\* Nothing a fired instruction needs is still in a station.
<1>5. \A s \in Fired, p \in Valid : origin[p].number \notin {origin[s].first, origin[s].second}
  <2>1. MarkedSourcesAreReady
    BY MarkedAreReady
  <2> QED BY <2>1, <1>3 DEF MarkedSourcesAreReady, MarkedReady
<1>6. S \in SUBSET DF!MayStart
  <2> SUFFICES ASSUME NEW s \in Fired
               PROVE  Seen(s) \in DF!MayStart
    OBVIOUS
  <2>1. Seen(s) \in Window /\ Seen(s).stage = "waiting"
    BY <1>3 DEF Window, Seen
  <2>2. \A n \in Seen(s).needs : \A w \in Window : w.number # n
    BY <1>5 DEF Window, Seen
  <2> QED BY <2>1, <2>2 DEF DF!MayStart, DF!Completed, Window, Seen
<1>7. \A s, t \in Valid : Seen(s) = Seen(t) => s = t
  BY DEF Seen, IInv, TagsAgree, Numbered
<1>8. \A s \in Fired : Seen(s)' = [Seen(s) EXCEPT !.stage = "started"]
  <2> SUFFICES ASSUME NEW s \in Fired
               PROVE  Seen(s)' = [Seen(s) EXCEPT !.stage = "started"]
    OBVIOUS
  <2>1. table'[s].op = table[s].op /\ table'[s].start_cycle # 0
    BY <1>1, <1>2, <1>3
  <2>2. Seen(s)' = [number |-> origin[s].number, op |-> table[s].op, stage |-> "started",
                    needs |-> {origin[s].first, origin[s].second} \ {0}]
    BY <2>1 DEF Seen
  <2> QED BY <2>2, RecordStarted DEF Seen
<1>9. \A s \in Valid \ Fired : Seen(s)' = Seen(s)
  BY <1>1 DEF Seen
<1>10. Window' = (Window \ S) \cup {[w EXCEPT !.stage = "started"] : w \in S}
  <2>1. Window' = {Seen(s)' : s \in Valid}
    BY <1>1 DEF Window
  <2>2. Window' = {Seen(s) : s \in Valid \ Fired}
                    \cup {[Seen(s) EXCEPT !.stage = "started"] : s \in Fired}
    BY <2>1, <1>3, <1>8, <1>9
  <2>3. {Seen(s) : s \in Valid \ Fired} = Window \ S
    BY <1>3, <1>7 DEF Window
  <2>4. {[Seen(s) EXCEPT !.stage = "started"] : s \in Fired}
          = {[w EXCEPT !.stage = "started"] : w \in S}
    OBVIOUS
  <2> QED BY <2>2, <2>3, <2>4
<1>11. \A v, w \in S : v.op = w.op => v = w
  <2> SUFFICES ASSUME NEW s \in Fired, NEW t \in Fired, Seen(s).op = Seen(t).op
               PROVE  Seen(s) = Seen(t)
    OBVIOUS
  <2>1. table[s].op = table[t].op
    BY DEF Seen
  <2> QED BY <1>4, <2>1
<1>12. DF!Start(S)
  BY <1>2, <1>10, <1>11 DEF DF!Start, Window, Seen
<1> HIDE DEF S
<1> QED BY <1>6, <1>12 DEF DF!Start

LEMMA InitRefines == HInit => DF!Init
<1> SUFFICES ASSUME HInit PROVE DF!Init
  OBVIOUS
<1>1. Valid = {} /\ stats.num_insts = 0 /\ writer = [r \in Regs |-> 0]
  BY DEF HInit, Init, Valid, Unused
<1> QED BY <1>1 DEF DF!Init

LEMMA StepRefines ==
  ASSUME IInv, NoOverlap, [SeparateNext]_hvars
  PROVE  [DF!Next]_(DF!vars)
<1>1. TypeOK
  BY DEF IInv, HTypeOK
<1>2. CASE HTryIssue /\ Free(inst.op) # {}
  <2> DEFINE f == Least(Free(inst.op))
  <2>1. f \in Stations \ Valid /\ inst \in Instructions
    BY <1>1, <1>2, FreeStation DEF HTryIssue, TryIssue, TypeOK
  <2>2. AddEntry(f) /\ IssueTo(f)
    BY <1>2 DEF HTryIssue, TryIssue
  <2> HIDE DEF f
  <2>3. DF!Issue(inst.op, inst.dest, {inst.src1, inst.src2} \ {-1})
    BY <2>1, <2>2, IssueRefines
  <2>4. /\ inst.op \in Ops \cup {OP_INVALID} /\ inst.dest \in Regs
        /\ {inst.src1, inst.src2} \ {-1} \in SUBSET Regs
    BY <2>1, InstructionFields
  <2>5. \E op \in Ops \cup {OP_INVALID}, dest \in Regs, srcs \in SUBSET Regs :
          DF!Issue(op, dest, srcs)
    BY <2>3, <2>4 DEF DF!Issue
  <2> QED BY <2>5 DEF DF!Next
<1>3. CASE ClearCompleted /\ UNCHANGED <<writer, origin>>
  BY <1>3, ClearRefines DEF DF!Next, Window, Seen
<1>4. CASE StartReady /\ UNCHANGED <<writer, origin>>
  BY <1>4, StartRefines DEF DF!Next
<1>5. CASE UNCHANGED <<table, writer, origin>> /\ stats'.num_insts = stats.num_insts
  BY <1>5 DEF DF!vars, Valid
<1>6. CASE HTryIssue /\ Free(inst.op) = {}
  <2>1. Refuse /\ UNCHANGED <<writer, origin>>
    BY <1>6 DEF HTryIssue, TryIssue
  <2>2. UNCHANGED table /\ stats'.num_insts = stats.num_insts
    BY <1>1, <2>1 DEF Refuse, TypeOK, Counters
  <2> QED BY <1>5, <2>1, <2>2
<1>7. CASE /\ ReadTrace \/ EndOfTrace \/ Drain \/ Complete \/ UNCHANGED vars
           /\ UNCHANGED <<writer, origin>>
  <2>1. UNCHANGED table
    BY <1>7 DEF ReadTrace, EndOfTrace, Drain, Complete, vars
  <2>2. stats'.num_insts = stats.num_insts
    BY <1>1, <1>7 DEF ReadTrace, EndOfTrace, Drain, Complete, vars, TypeOK, Counters
  <2> QED BY <1>5, <1>7, <2>1, <2>2
<1> QED BY <1>2, <1>3, <1>4, <1>6, <1>7 DEF SeparateNext, HNext, hvars, vars

\* On traces without overlapping writers, tags and stations implement dataflow
\* order: every instruction starts after the producers of its operands complete.
THEOREM SchedulerImplementsDataflow == SeparateSpec => ImplementsDataflow
<1>1. IInv /\ NoOverlap /\ [SeparateNext]_hvars => [DF!Next]_(DF!vars)
  BY StepRefines
<1> QED BY <1>1, InitRefines, SeparateInv, PTL DEF SeparateSpec, ImplementsDataflow, DF!Spec

-------------------------------------------------------------------------------
(* Pipelines.                                                              *)

LEMMA OpsAreFinite == IsFiniteSet(Ops) /\ Cardinality(Ops) \in Nat
<1>1. Ops = ({"ADD"} \cup {"DIV"}) \cup {"MEM"}
  BY DEF Ops
<1>2. IsFiniteSet({"ADD"}) /\ IsFiniteSet({"DIV"}) /\ IsFiniteSet({"MEM"})
  BY FS_Singleton
<1>3. IsFiniteSet({"ADD"} \cup {"DIV"})
  BY <1>2, FS_Union
<1>4. IsFiniteSet(Ops)
  BY <1>1, <1>2, <1>3, FS_Union
<1> QED BY <1>4, FS_CardinalityType

\* Stations with one element of a finite set each are no more than the set's.
LEMMA OneEachIsBounded ==
  ASSUME NEW S \in SUBSET Stations, NEW T, IsFiniteSet(T),
         NEW f \in [S -> T], \A s, t \in S : s # t => f[s] # f[t]
  PROVE  Cardinality(S) <= Cardinality(T)
<1>1. f \in Injection(S, T)
  BY DEF Injection, IsInjective
<1> QED BY <1>1, FS_Injection

LEMMA ExecutingFields ==
  ASSUME TypeOK, PipelineInv, NEW s \in Executing
  PROVE  /\ s \in Valid /\ s \in Stations
         /\ table[s].op \in Ops
         /\ Latency[table[s].op] \in Nat \ {0}
         /\ table[s].start_cycle \in Nat \ {0}
         /\ table[s].start_cycle <= current_cycle
         /\ current_cycle < table[s].start_cycle + Latency[table[s].op]
         /\ current_cycle \in Nat
<1>1. s \in Stations /\ s \in Valid /\ table[s].start_cycle # 0
  BY DEF Executing, Valid
<1>2. table[s].start_cycle \in Nat
  BY <1>1 DEF TypeOK, Entry
<1>3. /\ table[s].op \in Ops
      /\ table[s].start_cycle <= current_cycle
      /\ current_cycle < table[s].start_cycle + Latency[table[s].op]
  BY DEF PipelineInv, UnitsArePipelines
<1> QED BY <1>1, <1>2, <1>3, SchedulerAssumption DEF TypeOK

LEMMA ClearKeepsPipelines ==
  ASSUME TypeOK, PipelineInv, ClearCompleted
  PROVE  PipelineInv'
<1> DEFINE now == current_cycle + 1
           done == Finishing(current_cycle + 1)
<1>1. /\ done \subseteq Valid
      /\ Valid' = Valid \ done
      /\ \A s \in Valid' : /\ table'[s].op = table[s].op
                           /\ table'[s].start_cycle = table[s].start_cycle
  BY ClearEffect
<1>2. current_cycle' = now /\ pc' = "start" /\ pc = "clear"
  BY DEF ClearCompleted
<1>3. done = {s \in Executing : now - Latency[table[s].op] = table[s].start_cycle}
  BY DEF Finishing
<1>4. Executing' = Executing \ done
  BY <1>1 DEF Executing
<1>5. \A s \in Executing' :
        /\ table'[s].op = table[s].op /\ table'[s].start_cycle = table[s].start_cycle
        /\ table[s].op \in Ops
        /\ table[s].start_cycle < now
        /\ now < table[s].start_cycle + Latency[table[s].op]
  <2> SUFFICES ASSUME NEW s \in Executing'
               PROVE  /\ table'[s].op = table[s].op
                      /\ table'[s].start_cycle = table[s].start_cycle
                      /\ table[s].op \in Ops
                      /\ table[s].start_cycle < now
                      /\ now < table[s].start_cycle + Latency[table[s].op]
    OBVIOUS
  <2>1. s \in Executing /\ s \in Valid'
    BY <1>4 DEF Executing
  <2>2. now - Latency[table[s].op] # table[s].start_cycle
    BY <1>3, <1>4
  <2> QED BY <1>1, <2>1, <2>2, ExecutingFields
<1>6. Cardinality(done) <= Cardinality(Ops)
  <2> DEFINE f == [s \in done |-> table[s].op]
  <2>1. done \in SUBSET Stations
    BY <1>1 DEF Valid
  <2>2. f \in [done -> Ops]
    BY <1>3, ExecutingFields
  <2>3. \A s, t \in done : s # t => f[s] # f[t]
    BY <1>3 DEF PipelineInv, UnitsArePipelines
  <2> HIDE DEF f
  <2> QED BY <2>1, <2>2, <2>3, OpsAreFinite, OneEachIsBounded
<1>7. /\ stats'.max_completed <= Cardinality(Ops)
      /\ stats'.max_active = stats.max_active
  <2>1. stats' = [stats EXCEPT !.max_completed = Most(@, Cardinality(done))]
    BY DEF ClearCompleted
  <2>2. stats.max_completed <= Cardinality(Ops)
    BY DEF PipelineInv, UnitsArePipelines
  <2> QED BY <2>1, <2>2, <1>6 DEF Most, TypeOK, Counters
<1> HIDE DEF now, done
<1>8. UnitsArePipelines'
  <2>1. \A s, t \in Executing' :
          s # t /\ table'[s].op = table'[t].op => table'[s].start_cycle # table'[t].start_cycle
    BY <1>4, <1>5 DEF PipelineInv, UnitsArePipelines
  <2>2. \A s \in Executing' :
          current_cycle' < table'[s].start_cycle + Latency[table'[s].op]
    BY <1>2, <1>5
  <2> QED BY <2>1, <2>2, <1>7 DEF PipelineInv, UnitsArePipelines
<1>9. \A s \in Executing' :
        /\ table'[s].op \in Ops
        /\ table'[s].start_cycle <= current_cycle'
        /\ pc' = "start" => table'[s].start_cycle < current_cycle'
  <2> SUFFICES ASSUME NEW s \in Executing'
               PROVE  /\ table'[s].op \in Ops
                      /\ table'[s].start_cycle <= current_cycle'
                      /\ table'[s].start_cycle < current_cycle'
    OBVIOUS
  <2>1. table[s].start_cycle \in Nat /\ now \in Nat
    BY <1>4, ExecutingFields DEF TypeOK, now
  <2> QED BY <2>1, <1>2, <1>5
<1> QED BY <1>8, <1>9 DEF PipelineInv

LEMMA StartKeepsPipelines ==
  ASSUME TypeOK, PipelineInv, StartReady
  PROVE  PipelineInv'
<1>1. /\ Valid' = Valid
      /\ \A s \in Valid :
           /\ table'[s].op = table[s].op
           /\ table'[s].start_cycle =
                IF s \in Fired THEN current_cycle ELSE table[s].start_cycle
  BY StartEffect
<1>2. /\ current_cycle' = current_cycle /\ current_cycle \in Nat \ {0}
      /\ pc = "start" /\ pc' # "start"
  BY DEF StartReady, TypeOK
<1>3. \A s \in Fired : s \in Valid /\ table[s].op \in Ops /\ table[s].start_cycle = 0
  BY FiredAreReady DEF Ready
<1>4. Executing' = Executing \cup Fired
  BY <1>1, <1>2, <1>3 DEF Executing
<1>5. \A s \in Executing : /\ s \in Valid /\ s \notin Fired
                           /\ table[s].start_cycle < current_cycle
                           /\ table[s].start_cycle \in Nat
  BY <1>2, <1>3, ExecutingFields DEF PipelineInv, Executing
<1>6. \A s, t \in Executing' :
        s # t /\ table'[s].op = table'[t].op => table'[s].start_cycle # table'[t].start_cycle
  <2> SUFFICES ASSUME NEW s \in Executing', NEW t \in Executing',
                      s # t, table'[s].op = table'[t].op
               PROVE  table'[s].start_cycle # table'[t].start_cycle
    OBVIOUS
  <2>1. s \in Valid /\ t \in Valid /\ table[s].op = table[t].op
    BY <1>1, <1>3, <1>4, <1>5
  <2>2. CASE s \in Fired /\ t \in Fired
    BY <2>1, <2>2, FiredOnePerUnit
  <2>3. CASE s \in Executing /\ t \in Fired
    BY <1>1, <1>2, <1>5, <2>1, <2>3
  <2>4. CASE s \in Fired /\ t \in Executing
    BY <1>1, <1>2, <1>5, <2>1, <2>4
  <2>5. CASE s \in Executing /\ t \in Executing
    BY <1>1, <1>5, <2>1, <2>5 DEF PipelineInv, UnitsArePipelines
  <2> QED BY <1>4, <2>2, <2>3, <2>4, <2>5
<1>7. \A s \in Executing' :
        /\ table'[s].op \in Ops
        /\ table'[s].start_cycle <= current_cycle
        /\ current_cycle < table'[s].start_cycle + Latency[table'[s].op]
  <2> SUFFICES ASSUME NEW s \in Executing'
               PROVE  /\ table'[s].op \in Ops
                      /\ table'[s].start_cycle <= current_cycle
                      /\ current_cycle < table'[s].start_cycle + Latency[table'[s].op]
    OBVIOUS
  <2>1. CASE s \in Fired
    <3>1. table'[s].op \in Ops /\ table'[s].start_cycle = current_cycle
      BY <1>1, <1>3, <2>1
    <3> QED BY <3>1, <1>2, SchedulerAssumption
  <2>2. CASE s \in Executing
    <3>1. table'[s].op = table[s].op /\ table'[s].start_cycle = table[s].start_cycle
      BY <1>1, <1>5, <2>2
    <3> QED BY <3>1, <2>2, ExecutingFields
  <2> QED BY <1>4, <2>1, <2>2
\* What is active in a unit started in one of the last Latency cycles, one in each.
<1>8. \A op \in Ops :
        Cardinality({s \in Executing \cup Fired : table[s].op = op}) <= Latency[op]
  <2> SUFFICES ASSUME NEW op \in Ops
               PROVE  Cardinality({s \in Executing \cup Fired : table[s].op = op})
                        <= Latency[op]
    OBVIOUS
  <2> DEFINE A == {s \in Executing \cup Fired : table[s].op = op}
             T == current_cycle - Latency[op] + 1 .. current_cycle
             f == [s \in A |-> table'[s].start_cycle]
  <2>1. A \in SUBSET Stations /\ A \subseteq Executing'
    BY <1>3, <1>4, <1>5 DEF Valid
  <2>2. Latency[op] \in Nat \ {0}
    BY SchedulerAssumption
  <2>3. \A s \in A : table'[s].op = op
    BY <1>1, <1>3, <1>5
  <2>4. \A s \in A : table'[s].start_cycle \in Nat
    BY <1>1, <1>2, <1>3, <1>5
  <2>5. f \in [A -> T]
    BY <1>2, <1>7, <2>1, <2>2, <2>3, <2>4
  <2>6. \A s, t \in A : s # t => f[s] # f[t]
    BY <1>6, <2>1, <2>3
  <2>7. IsFiniteSet(T) /\ Cardinality(T) = Latency[op]
    <3>1. current_cycle - Latency[op] + 1 \in Int /\ current_cycle \in Int
      BY <1>2, <2>2
    <3>2. /\ IsFiniteSet(T)
          /\ Cardinality(T) =
               IF current_cycle - Latency[op] + 1 > current_cycle THEN 0
               ELSE current_cycle - (current_cycle - Latency[op] + 1) + 1
      BY <3>1, FS_Interval
    <3> QED BY <3>2, <1>2, <2>2
  <2> HIDE DEF A, T, f
  <2>8. Cardinality(A) <= Cardinality(T)
    BY <2>1, <2>5, <2>6, <2>7, OneEachIsBounded
  <2> QED BY <2>7, <2>8 DEF A
<1>9. /\ stats'.max_completed = stats.max_completed
      /\ \A op \in Ops : stats'.max_active[op] <= Latency[op]
  <2> DEFINE Active(op) == {s \in Executing \cup Fired : table[s].op = op}
             m == [op \in Ops |-> Most(stats.max_active[op], Cardinality(Active(op)))]
  <2>1. stats' = [stats EXCEPT !.max_fired = Most(@, Cardinality(Fired)),
                               !.max_active = m]
    BY DEF StartReady
  <2>2. stats'.max_active = m /\ stats'.max_completed = stats.max_completed
    <3> HIDE DEF m
    <3> QED BY <2>1 DEF TypeOK, Counters
  <2>3. \A op \in Ops : stats.max_active[op] <= Latency[op]
    BY DEF PipelineInv, UnitsArePipelines
  <2>4. \A op \in Ops : m[op] <= Latency[op]
    BY <1>8, <2>3 DEF Most
  <2> QED BY <2>2, <2>4
<1>10. UnitsArePipelines'
  BY <1>2, <1>6, <1>7, <1>9 DEF PipelineInv, UnitsArePipelines
<1> QED BY <1>2, <1>7, <1>10 DEF PipelineInv

LEMMA FrameKeepsPipelines ==
  ASSUME PipelineInv, UNCHANGED current_cycle, pc' # "start",
         Executing' = Executing,
         \A s \in Executing : table'[s] = table[s],
         /\ stats'.max_completed = stats.max_completed
         /\ stats'.max_active = stats.max_active
  PROVE  PipelineInv'
<1>1. UnitsArePipelines'
  BY DEF PipelineInv, UnitsArePipelines
<1> QED BY <1>1 DEF PipelineInv

LEMMA PipelineInit == Init => PipelineInv
<1> SUFFICES ASSUME Init PROVE PipelineInv
  OBVIOUS
<1>1. Executing = {}
  BY DEF Init, Executing, Valid, Unused
<1>2. stats.max_completed = 0 /\ \A op \in Ops : stats.max_active[op] = 0
  BY DEF Init
<1>3. 0 <= Cardinality(Ops) /\ \A op \in Ops : 0 <= Latency[op]
  BY OpsAreFinite, SchedulerAssumption
<1> QED BY <1>1, <1>2, <1>3 DEF PipelineInv, UnitsArePipelines

LEMMA PipelineStep == TypeOK /\ PipelineInv /\ [Next]_vars => PipelineInv'
<1> SUFFICES ASSUME TypeOK, PipelineInv, [Next]_vars PROVE PipelineInv'
  OBVIOUS
<1>1. CASE ClearCompleted
  BY <1>1, ClearKeepsPipelines
<1>2. CASE StartReady
  BY <1>2, StartKeepsPipelines
<1>3. CASE TryIssue
  <2>1. pc' # "start" /\ UNCHANGED current_cycle
    BY <1>3 DEF TryIssue
  <2>2. CASE AddEntry(Least(Free(inst.op))) /\ Free(inst.op) # {}
    <3> DEFINE f == Least(Free(inst.op))
    <3>1. f \in Stations \ Valid
      BY <2>2, FreeStation
    <3> HIDE DEF f
    <3>2. /\ table'[f].start_cycle = 0
          /\ \A s \in Stations \ {f} : table'[s] = table[s]
      BY <2>2, <3>1 DEF AddEntry, TypeOK, f
    <3>3. Executing' = Executing /\ \A s \in Executing : table'[s] = table[s]
      BY <3>1, <3>2 DEF Executing, Valid
    <3>4. /\ stats'.max_completed = stats.max_completed
          /\ stats'.max_active = stats.max_active
      BY <2>2 DEF AddEntry, TypeOK, Counters
    <3> QED BY <2>1, <3>3, <3>4, FrameKeepsPipelines
  <2>3. CASE Refuse
    <3>1. /\ table' = table
          /\ stats'.max_completed = stats.max_completed
          /\ stats'.max_active = stats.max_active
      BY <2>3 DEF Refuse, TypeOK, Counters
    <3> QED BY <2>1, <3>1, FrameKeepsPipelines DEF Executing, Valid
  <2> QED BY <1>3, <2>2, <2>3 DEF TryIssue
<1>4. CASE ReadTrace \/ EndOfTrace \/ Drain \/ Complete
  <2>1. table' = table /\ current_cycle' = current_cycle /\ pc' # "start"
    BY <1>4 DEF ReadTrace, EndOfTrace, Drain, Complete
  <2>2. /\ stats'.max_completed = stats.max_completed
        /\ stats'.max_active = stats.max_active
    BY <1>4 DEF ReadTrace, EndOfTrace, Drain, Complete, TypeOK, Counters
  <2> QED BY <2>1, <2>2, FrameKeepsPipelines DEF Executing, Valid
<1>5. CASE UNCHANGED vars
  BY <1>5 DEF vars, PipelineInv, UnitsArePipelines, Executing, Valid
<1> QED BY <1>1, <1>2, <1>3, <1>4, <1>5 DEF Next

\* No unit ever holds two instructions in one stage or one for longer than its
\* latency, which bounds what completes in a cycle and what is active.
THEOREM PipelinesHold == HSpec => []UnitsArePipelines
<1> DEFINE J == TypeOK /\ PipelineInv
<1>1. HInit => J
  BY HistoryIsScheduler, TypeInit, PipelineInit
<1>2. J /\ [HNext]_hvars => J'
  BY HistoryIsScheduler, TypeStep, PipelineStep
<1>3. J => UnitsArePipelines
  BY DEF PipelineInv
<1> QED BY <1>1, <1>2, <1>3, PTL DEF HSpec
-------------------------------------------------------------------------------
(* Cycles.                                                                 *)

LEMMA CycleInit == Init => CycleInv
BY DEF Init, CycleInv, Uncounted

LEMMA IssueKeepsCycles ==
  ASSUME TypeOK, CycleInv, TryIssue
  PROVE  CycleInv'
<1>1. /\ pc = "issue" /\ pc' = "clear" /\ inst' = inst /\ current_cycle' = current_cycle
      /\ inst \in Instructions
  BY DEF TryIssue, TypeOK
<1>2. Uncounted' <=> Uncounted
  BY <1>1 DEF Uncounted
<1>3. stats.num_insts \in Nat /\ stats.issue_stall \in Nat /\ current_cycle \in Nat
  BY DEF TypeOK, Counters
<1>4. ~Uncounted => current_cycle = 1 + stats.num_insts + stats.issue_stall
  BY <1>1 DEF CycleInv
<1>5. CASE Free(inst.op) # {} /\ AddEntry(Least(Free(inst.op)))
  <2>1. stats'.num_insts = stats.num_insts + 1 /\ stats'.issue_stall = stats.issue_stall
    BY <1>5 DEF AddEntry, TypeOK, Counters
  <2>2. ~Uncounted
    <3> SUFFICES ASSUME Uncounted PROVE FALSE
      OBVIOUS
    <3>1. Table(inst.op) = {}
      BY DEF Uncounted, Table, Ops
    <3> QED BY <1>5, <3>1 DEF Free
  <2> QED BY <1>1, <1>2, <1>3, <1>4, <2>1, <2>2 DEF CycleInv
<1>6. CASE Refuse
  <2>1. ~success'
    BY <1>6, Zenon DEF Refuse
  <2>2. /\ stats'.num_insts = stats.num_insts
        /\ ~Uncounted => stats'.issue_stall = stats.issue_stall + 1
    BY <1>1, <1>6, SchedulerAssumption DEF Refuse, Uncounted, TypeOK, Counters
  <2>3. ~Uncounted => current_cycle = stats'.num_insts + stats'.issue_stall
    BY <1>3, <1>4, <2>2
  <2>4. Uncounted' => pc' \in {"issue", "clear", "start"} /\ (pc' # "issue" => ~success')
    BY <1>1, <2>1
  <2> QED BY <1>1, <1>2, <2>3, <2>4 DEF CycleInv
<1> QED BY <1>5, <1>6 DEF TryIssue

LEMMA StartKeepsCycles ==
  ASSUME TypeOK, CycleInv, StartReady
  PROVE  CycleInv'
<1>1. /\ pc = "start" /\ inst' = inst /\ current_cycle' = current_cycle
      /\ pc' = IF inst = NULL THEN "drain" ELSE IF success THEN "read" ELSE "issue"
  BY DEF StartReady
<1>2. stats'.num_insts = stats.num_insts /\ stats'.issue_stall = stats.issue_stall
  BY DEF StartReady, TypeOK, Counters
<1>3. Uncounted' <=> Uncounted
  BY <1>1 DEF Uncounted
<1>4. Uncounted => inst # NULL /\ ~success
  BY <1>1 DEF CycleInv, Uncounted
<1>5. Uncounted => pc' = "issue"
  BY <1>1, <1>4
<1>6. pc' \in {"read", "issue"} => inst # NULL
  BY <1>1
<1>7. pc' \in {"drain", "read", "issue"}
  BY <1>1
<1> QED BY <1>1, <1>2, <1>3, <1>5, <1>6, <1>7 DEF CycleInv

LEMMA CycleStep == TypeOK /\ CycleInv /\ [Next]_vars => CycleInv'
<1> SUFFICES ASSUME TypeOK, CycleInv, [Next]_vars PROVE CycleInv'
  OBVIOUS
<1>1. CASE TryIssue
  BY <1>1, IssueKeepsCycles
<1>2. CASE StartReady
  BY <1>2, StartKeepsCycles
<1>3. CASE ClearCompleted
  <2>1. /\ pc = "clear" /\ pc' = "start" /\ inst' = inst
        /\ current_cycle' = current_cycle + 1
    BY <1>3 DEF ClearCompleted
  <2>2. success' = success
    BY <1>3, Zenon DEF ClearCompleted
  <2>3. stats'.num_insts = stats.num_insts /\ stats'.issue_stall = stats.issue_stall
    BY <1>3 DEF ClearCompleted, TypeOK, Counters
  <2>4. Uncounted' <=> Uncounted
    BY <2>1 DEF Uncounted
  <2>5. Uncounted => ~success
    BY <2>1 DEF CycleInv
  <2>6. Uncounted' => ~success'
    BY <2>2, <2>4, <2>5
  <2>7. ~Uncounted /\ inst # NULL => current_cycle = stats.num_insts + stats.issue_stall
    BY <2>1 DEF CycleInv
  <2>8. stats.num_insts \in Nat /\ stats.issue_stall \in Nat
    BY DEF TypeOK, Counters
  <2> QED BY <2>1, <2>3, <2>4, <2>6, <2>7, <2>8 DEF CycleInv
<1>4. CASE ReadTrace
  <2>1. pc = "read" /\ pc' = "issue" /\ UNCHANGED <<current_cycle, stats>>
    BY <1>4 DEF ReadTrace
  <2>2. ~Uncounted
    BY <2>1 DEF CycleInv
  <2> QED BY <2>1, <2>2 DEF CycleInv
<1>5. CASE EndOfTrace \/ Drain \/ Complete
  <2>1. ~Uncounted
    BY <1>5 DEF EndOfTrace, Drain, Complete, CycleInv
  <2>2. /\ pc' \in {"drain", "clear", "finished"}
        /\ inst' \in {inst, NULL}
        /\ pc' # "finished" => inst' = NULL
    BY <1>5 DEF EndOfTrace, Drain, Complete, CycleInv
  <2>3. ~Uncounted'
    BY <2>1, <2>2 DEF Uncounted
  <2> QED BY <1>5, <2>2, <2>3 DEF CycleInv
<1>6. CASE UNCHANGED vars
  BY <1>6 DEF vars, CycleInv, Uncounted
<1> QED BY <1>1, <1>2, <1>3, <1>4, <1>5, <1>6 DEF Next

\* Until the trace ends, the cycles are the instructions and the counted stalls.
THEOREM CyclesHold == HSpec => []CyclesAreAccounted
<1> DEFINE J == TypeOK /\ CycleInv
<1>1. HInit => J
  BY HistoryIsScheduler, TypeInit, CycleInit
<1>2. J /\ [HNext]_hvars => J'
  BY HistoryIsScheduler, TypeStep, CycleStep
<1>3. J => CyclesAreAccounted
  BY DEF CycleInv, CyclesAreAccounted, Uncounted
<1> QED BY <1>1, <1>2, <1>3, PTL DEF HSpec

-------------------------------------------------------------------------------
(* Progress: what has no unit stays, and all else is in time.              *)

LEMMA RetryStep == TypeOK /\ RetryInv /\ [Next]_vars => RetryInv'
<1> SUFFICES ASSUME TypeOK, RetryInv, [Next]_vars PROVE RetryInv'
  OBVIOUS
<1>1. CASE TryIssue
  <2>1. pc' = "clear" /\ inst' = inst /\ pc = "issue"
    BY <1>1 DEF TryIssue
  <2>2. Table(inst.op) = {} => ~success'
    BY <1>1, Zenon DEF TryIssue, Free, Refuse
  <2> QED BY <2>1, <2>2 DEF RetryInv
<1>2. CASE ClearCompleted
  <2>1. pc' = "start" /\ inst' = inst /\ pc = "clear"
    BY <1>2 DEF ClearCompleted
  <2>2. success' = success
    BY <1>2, Zenon DEF ClearCompleted
  <2>3. inst # NULL /\ Table(inst.op) = {} => ~success'
    BY <2>1, <2>2 DEF RetryInv
  <2> QED BY <2>1, <2>3 DEF RetryInv
<1>3. CASE StartReady
  <2>1. /\ pc = "start" /\ inst' = inst
        /\ pc' = IF inst = NULL THEN "drain" ELSE IF success THEN "read" ELSE "issue"
    BY <1>3 DEF StartReady
  <2>2. inst # NULL /\ Table(inst.op) = {} => pc' = "issue"
    BY <2>1 DEF RetryInv
  <2>3. pc' # "finished"
    BY <2>1
  <2> QED BY <2>1, <2>2, <2>3 DEF RetryInv
<1>4. CASE ReadTrace
  BY <1>4 DEF ReadTrace, RetryInv
<1>5. CASE EndOfTrace
  BY <1>5 DEF EndOfTrace, RetryInv
<1>6. CASE Drain \/ Complete
  BY <1>6 DEF Drain, Complete, RetryInv, Valid
<1>7. CASE UNCHANGED vars
  BY <1>7 DEF vars, RetryInv, Valid
<1> QED BY <1>1, <1>2, <1>3, <1>4, <1>5, <1>6, <1>7 DEF Next

\* Every step but an issue and a completion leaves in the tables what is there.
LEMMA IssueEffect ==
  ASSUME TypeOK, TryIssue, Free(inst.op) # {}
  PROVE  LET f == Least(Free(inst.op))
         IN /\ f \in Stations \ Valid
            /\ Valid' = Valid \cup {f}
            /\ Executing' = Executing
            /\ \A s \in Valid : table'[s] = table[s]
            /\ stats'.num_insts = stats.num_insts + 1
<1> DEFINE f == Least(Free(inst.op))
<1>1. f \in Stations \ Valid
  BY FreeStation
<1>2. AddEntry(f)
  BY DEF TryIssue
<1> HIDE DEF f
<1>3. /\ table'[f].start_cycle = 0 /\ table'[f].valid
      /\ \A s \in Stations \ {f} : table'[s] = table[s]
  BY <1>1, <1>2 DEF AddEntry, TypeOK
<1>4. stats'.num_insts = stats.num_insts + 1
  BY <1>2 DEF AddEntry, TypeOK, Counters
<1>5. Valid' = Valid \cup {f} /\ Executing' = Executing
  BY <1>1, <1>3 DEF Executing, Valid
<1> QED BY <1>1, <1>3, <1>4, <1>5 DEF f, Valid

\* An operation without a unit never starts, and its line is never given up.
LEMMA NoUnitStays ==
  ASSUME TypeOK, PipelineInv, RetryInv, [Next]_vars, NoUnit
  PROVE  NoUnit'
<1>1. OP_INVALID \notin Ops
  BY DEF OP_INVALID, Ops
<1>2. CASE TryIssue
  <2>1. inst' = inst
    BY <1>2 DEF TryIssue
  <2>2. CASE Free(inst.op) # {}
    BY <1>2, <2>1, <2>2, IssueEffect DEF NoUnit
  <2>3. CASE Free(inst.op) = {}
    BY <1>2, <2>1, <2>3 DEF TryIssue, Refuse, NoUnit, Valid
  <2> QED BY <2>2, <2>3
<1>3. CASE ClearCompleted
  <2> DEFINE done == Finishing(current_cycle + 1)
  <2>1. inst' = inst
    BY <1>3 DEF ClearCompleted
  <2>2. Valid' = Valid \ done /\ \A s \in Valid' : table'[s].op = table[s].op
    BY <1>3, ClearEffect
  <2>3. \A s \in done : table[s].op # OP_INVALID
    BY <1>1 DEF Finishing, PipelineInv
  <2> HIDE DEF done
  <2> QED BY <2>1, <2>2, <2>3 DEF NoUnit
<1>4. CASE StartReady
  <2>1. inst' = inst
    BY <1>4 DEF StartReady
  <2> QED BY <1>4, <2>1, StartEffect DEF NoUnit
<1>5. CASE ReadTrace \/ EndOfTrace
  <2>1. table' = table /\ pc = "read"
    BY <1>5 DEF ReadTrace, EndOfTrace
  <2> QED BY <2>1 DEF NoUnit, RetryInv, Valid
<1>6. CASE Drain \/ Complete \/ UNCHANGED vars
  BY <1>6 DEF Drain, Complete, vars, NoUnit, Valid
<1> QED BY <1>2, <1>3, <1>4, <1>5, <1>6 DEF Next

\* An instruction in flight that no older one is left of has its operands.
LEMMA OldestIsReady ==
  ASSUME IInv, Valid # {}
  PROVE  \E s \in Valid : table[s].src1 = -1 /\ table[s].src2 = -1
<1> DEFINE N == {origin[s].number : s \in Valid}
<1>1. \A s \in Valid : origin[s].number \in Nat
  BY DEF IInv, HTypeOK, Valid
<1>2. N \in SUBSET Nat /\ N # {}
  BY <1>1
<1>3. Least(N) \in N /\ \A n \in N : Least(N) <= n
  BY <1>2, LeastIsMember
<1>4. PICK s \in Valid : \A t \in Valid : origin[s].number <= origin[t].number
  BY <1>3
<1>5. ASSUME NEW t \in Valid PROVE ~(origin[t].number < origin[s].number)
  BY <1>1, <1>4
<1>6. table[s].src1 = -1 /\ table[s].src2 = -1
  BY <1>5 DEF IInv, TagsAgree, SourceIsProducer
<1> QED BY <1>6

\* Then something executes once fire_ready has been called.
LEMMA StartLeavesNoneIdle ==
  ASSUME IInv, PipelineInv, StartReady, Valid # {}, ~NoUnit
  PROVE  Executing # {} \/ Fired # {}
<1>1. PICK s \in Valid : table[s].src1 = -1 /\ table[s].src2 = -1
  BY OldestIsReady
<1>2. table[s].op \in Ops
  <2>1. table[s].op \in Ops \cup {OP_INVALID}
    BY DEF Valid, IInv, HTypeOK, TypeOK, Entry
  <2> QED BY <2>1 DEF NoUnit
<1>3. CASE table[s].start_cycle # 0
  BY <1>3 DEF Executing
<1>4. CASE table[s].start_cycle = 0
  <2>1. s \in Ready(table[s].op)
    BY <1>1, <1>4 DEF Ready
  <2> QED BY <1>2, <2>1 DEF Fired
<1> QED BY <1>3, <1>4

LEMMA HistoryStep ==
  /\ HInit => IInv /\ PipelineInv /\ RetryInv
  /\ IInv /\ PipelineInv /\ RetryInv /\ [HNext]_hvars
       => (IInv /\ PipelineInv /\ RetryInv)'
<1>1. IInv => TypeOK
  BY DEF IInv, HTypeOK
<1>2. HInit => RetryInv
  BY DEF HInit, Init, RetryInv
<1> QED BY <1>1, <1>2, InvInit, InvStep, HistoryIsScheduler, PipelineInit,
           PipelineStep, RetryStep

\* main: once an instruction that no unit executes has been met the run never
\* ends, the other half of what the run checks being liveness.
THEOREM NoUnitHangs == HSpec => [](NoUnit => [](pc # "finished"))
<1> DEFINE J == IInv /\ PipelineInv /\ RetryInv
<1>1. HInit => J
  BY HistoryStep
<1>2. J /\ [HNext]_hvars => J'
  BY HistoryStep
<1>3. J /\ [HNext]_hvars /\ NoUnit => NoUnit'
  BY NoUnitStays, HistoryIsScheduler DEF IInv, HTypeOK
<1>4. J /\ NoUnit => pc # "finished"
  BY DEF NoUnit, RetryInv
<1> HIDE DEF J
<1> QED BY <1>1, <1>2, <1>3, <1>4, PTL DEF HSpec

-------------------------------------------------------------------------------
(* Time.                                                                   *)

LEMMA Latencies ==
  /\ LongestLatency \in Nat \ {0}
  /\ \A op \in Ops : Latency[op] \in Nat \ {0} /\ Latency[op] <= LongestLatency
<1>1. \A op \in Ops : Latency[op] \in Nat \ {0}
  BY SchedulerAssumption
<1>2. "ADD" \in Ops /\ "DIV" \in Ops /\ "MEM" \in Ops /\ Ops = {"ADD", "DIV", "MEM"}
  BY DEF Ops
<1> QED BY <1>1, <1>2 DEF LongestLatency, Most

LEMMA SpanGrows ==
  ASSUME NEW m \in Int, NEW n \in Int
  PROVE  /\ Span(m) \in Int
         /\ m <= n => Span(m) <= Span(n)
         /\ m < n => Span(m) + LongestLatency + 1 <= Span(n)
<1> DEFINE B == LongestLatency + 1
<1>1. B \in Nat
  BY Latencies
<1>2. Span(m) = m * B /\ Span(n) = n * B
  BY DEF Span
<1> HIDE DEF B
<1>3. m * B \in Int /\ n * B \in Int
  BY <1>1
<1>4. n * B = m * B + (n - m) * B
  BY <1>1
<1>5. n - m \in Nat => (n - m) * B >= 0
  BY <1>1
<1>6. n - m \in Nat \ {0} => (n - m) * B >= B
  <2> SUFFICES ASSUME NEW k \in Nat \ {0} PROVE k * B >= B
    OBVIOUS
  <2>1. k * B = B + (k - 1) * B /\ (k - 1) * B >= 0
    BY <1>1
  <2> QED BY <2>1, <1>1
<1>7. (n - m) * B \in Int
  BY <1>1
<1>8. m < n => n * B >= m * B + B
  BY <1>1, <1>3, <1>4, <1>6, <1>7
<1>9. m <= n => m * B <= n * B
  BY <1>1, <1>3, <1>4, <1>5, <1>7
<1> QED BY <1>1, <1>2, <1>3, <1>8, <1>9, Latencies DEF B

LEMMA StartedNumber ==
  ASSUME TypeOK
  PROVE  /\ IsFiniteSet(NotStarted) /\ Cardinality(NotStarted) \in Nat
         /\ stats.num_insts \in Nat
         /\ Started \in Int /\ Started <= stats.num_insts
<1>1. IsFiniteSet(NotStarted) /\ Cardinality(NotStarted) \in Nat
  BY Counted DEF NotStarted, Valid
<1>2. stats.num_insts \in Nat
  BY DEF TypeOK, Counters
<1> QED BY <1>1, <1>2 DEF Started

\* While anything executes the clock is inside the span of what has started.
LEMMA InsideSpan ==
  ASSUME TypeOK, PipelineInv, NEW s \in Executing,
         table[s].start_cycle + LongestLatency <= 1 + Span(Started)
  PROVE  current_cycle <= Span(Started)
<1>1. Span(Started) \in Int
  BY StartedNumber, SpanGrows
<1> QED BY <1>1, ExecutingFields, Latencies

\* A step that neither starts, issues nor completes anything.
LEMMA FrameKeepsTime ==
  ASSUME TypeOK, TypeOK', TimeInv, NoUnit => NoUnit',
         UNCHANGED <<table, current_cycle>>,
         stats'.num_insts = stats.num_insts,
         pc # "start" /\ pc' # "start",
         pc' = "clear" => Valid # {},
         pc' \in {"read", "issue", "drain"} => pc \in {"read", "issue", "drain"}
  PROVE  TimeInv'
<1>1. Valid' = Valid /\ Executing' = Executing /\ Started' = Started
  BY DEF Valid, Executing, Started, NotStarted
<1>2. Span(Started)' = Span(Started)
  BY <1>1 DEF Span, LongestLatency
<1> QED BY <1>1, <1>2 DEF TimeInv, NeverIdle, LongestLatency

LEMMA IssueKeepsTime ==
  ASSUME TypeOK, TypeOK', PipelineInv, TimeInv, NoUnit => NoUnit', TryIssue
  PROVE  TimeInv'
<1> SUFFICES ASSUME ~NoUnit' PROVE TimeInv'
  BY DEF TimeInv
<1>1. /\ pc = "issue" /\ pc' = "clear" /\ inst' = inst
      /\ current_cycle' = current_cycle /\ inst # NULL
  BY DEF TryIssue, TypeOK
<1>2. /\ current_cycle <= 1 + Span(Started)
      /\ \A s \in Executing :
           table[s].start_cycle + LongestLatency <= 1 + Span(Started)
  BY <1>1 DEF TimeInv
<1>3. CASE Free(inst.op) # {}
  <2> DEFINE f == Least(Free(inst.op))
  <2>1. /\ f \in Stations \ Valid
        /\ Valid' = Valid \cup {f}
        /\ Executing' = Executing
        /\ \A s \in Valid : table'[s] = table[s]
        /\ stats'.num_insts = stats.num_insts + 1
    BY <1>3, IssueEffect
  <2> HIDE DEF f
  <2>2. NotStarted' = NotStarted \cup {f} /\ f \notin NotStarted
    BY <2>1 DEF NotStarted, Executing
  <2>3. Cardinality(NotStarted') = Cardinality(NotStarted) + 1
    BY <2>2, StartedNumber, FS_AddElement
  <2>4. Started' = Started
    BY <2>1, <2>3, StartedNumber DEF Started
  <2>5. Span(Started)' = Span(Started)
    BY <2>4 DEF Span, LongestLatency
  <2>6. \A s \in Executing : table'[s] = table[s]
    BY <2>1 DEF Executing
  <2> QED BY <1>1, <1>2, <2>1, <2>5, <2>6 DEF TimeInv, NeverIdle, LongestLatency
<1>4. CASE Free(inst.op) = {}
  <2>1. Refuse
    BY <1>4 DEF TryIssue
  <2>2. table' = table /\ stats'.num_insts = stats.num_insts
    BY <2>1 DEF Refuse, TypeOK, Counters
  <2>3. Table(inst.op) # {}
    BY <1>1 DEF NoUnit
  <2>4. Valid # {}
    BY <1>4, <2>3 DEF Free
  <2> QED BY <1>1, <2>2, <2>4, FrameKeepsTime
<1> QED BY <1>3, <1>4

LEMMA ClearKeepsTime ==
  ASSUME TypeOK, PipelineInv, TimeInv, NoUnit => NoUnit', ClearCompleted
  PROVE  TimeInv'
<1> SUFFICES ASSUME ~NoUnit' PROVE TimeInv'
  BY DEF TimeInv
<1> DEFINE done == Finishing(current_cycle + 1)
<1>1. /\ pc = "clear" /\ pc' = "start" /\ current_cycle' = current_cycle + 1
      /\ current_cycle \in Nat
  BY DEF ClearCompleted, TypeOK
<1>2. /\ done \subseteq Executing
      /\ Valid' = Valid \ done
      /\ \A s \in Valid' : table'[s].start_cycle = table[s].start_cycle
  BY ClearEffect DEF Finishing
<1>3. stats'.num_insts = stats.num_insts
  BY DEF ClearCompleted, TypeOK, Counters
<1> HIDE DEF done
<1>4. Executing' = Executing \ done /\ NotStarted' = NotStarted
  BY <1>2 DEF Executing, NotStarted
<1>5. Span(Started)' = Span(Started) /\ Span(Started) \in Int
  BY <1>3, <1>4, StartedNumber, SpanGrows DEF Started, Span, LongestLatency
<1>6. /\ current_cycle <= 1 + Span(Started)
      /\ Valid # {}
      /\ \A s \in Executing :
           table[s].start_cycle + LongestLatency <= 1 + Span(Started)
  BY <1>1 DEF TimeInv
<1>7. Valid' = {} => current_cycle <= Span(Started)
  <2> SUFFICES ASSUME Valid' = {} PROVE current_cycle <= Span(Started)
    OBVIOUS
  <2>1. PICK s \in Executing : TRUE
    BY <1>2, <1>6
  <2> QED BY <1>6, <2>1, InsideSpan
<1>8. \A s \in Executing' :
        table'[s].start_cycle + LongestLatency <= 1 + Span(Started)
  BY <1>2, <1>4, <1>6 DEF Executing
<1> QED BY <1>1, <1>5, <1>6, <1>7, <1>8 DEF TimeInv, NeverIdle, LongestLatency

LEMMA StartKeepsTime ==
  ASSUME IInv, TypeOK', PipelineInv, TimeInv, NoUnit => NoUnit', StartReady
  PROVE  TimeInv'
<1> SUFFICES ASSUME ~NoUnit' PROVE TimeInv'
  BY DEF TimeInv
<1>1. /\ TypeOK /\ pc = "start" /\ current_cycle' = current_cycle
      /\ pc' \in {"read", "issue", "drain"} /\ current_cycle \in Nat \ {0}
  BY DEF StartReady, IInv, HTypeOK, TypeOK
<1>2. /\ Valid' = Valid
      /\ \A s \in Valid : table'[s].start_cycle =
           IF s \in Fired THEN current_cycle ELSE table[s].start_cycle
  BY <1>1, StartEffect
<1>3. stats'.num_insts = stats.num_insts
  BY <1>1 DEF StartReady, TypeOK, Counters
<1>4. Fired \subseteq NotStarted
  BY FiredAreReady DEF NotStarted, Executing, Ready
<1>5. Executing' = Executing \cup Fired /\ NotStarted' = NotStarted \ Fired
  BY <1>1, <1>2, <1>4 DEF Executing, NotStarted
<1>6. /\ current_cycle <= 2 + Span(Started)
      /\ Valid = {} => current_cycle <= 1 + Span(Started)
      /\ \A s \in Executing :
           table[s].start_cycle + LongestLatency <= 1 + Span(Started)
  BY <1>1 DEF TimeInv
<1>7. NeverIdle'
  BY <1>1, <1>2, <1>5, StartLeavesNoneIdle DEF NeverIdle
<1>8. /\ Started \in Int /\ Span(Started) \in Int
      /\ Started' \in Int /\ Span(Started') \in Int
      /\ Span(Started)' = Span(Started')
  <2>1. IsFiniteSet(NotStarted) /\ NotStarted' \subseteq NotStarted
    BY <1>1, <1>5, StartedNumber
  <2>2. Cardinality(NotStarted') \in Nat
    BY <2>1, FS_Subset, FS_CardinalityType
  <2>3. Started \in Int /\ stats.num_insts \in Nat
    BY <1>1, StartedNumber
  <2>4. Started' = stats.num_insts - Cardinality(NotStarted')
    BY <1>3 DEF Started
  <2>5. Started' \in Int
    BY <2>2, <2>3, <2>4
  <2> QED BY <2>3, <2>5, SpanGrows DEF Span, LongestLatency
<1>9. CASE Fired = {}
  <2>1. Started' = Started /\ Executing' = Executing
    BY <1>3, <1>5, <1>9 DEF Started
  <2>2. \A s \in Executing : table'[s].start_cycle = table[s].start_cycle
    BY <1>2, <1>9 DEF Executing
  <2>3. current_cycle <= 1 + Span(Started)
    <3>1. CASE Valid = {}
      BY <1>6, <3>1
    <3>2. CASE Valid # {}
      <4>1. PICK s \in Executing : TRUE
        BY <1>9, <3>2, StartLeavesNoneIdle
      <4>2. current_cycle <= Span(Started)
        BY <1>1, <1>6, <4>1, InsideSpan
      <4> QED BY <1>1, <1>8, <4>2
    <3> QED BY <3>1, <3>2
  <2> QED BY <1>1, <1>6, <1>7, <1>8, <2>1, <2>2, <2>3 DEF TimeInv, LongestLatency
<1>10. CASE Fired # {}
  <2>1. PICK f \in Fired : TRUE
    BY <1>10
  <2>2. NotStarted' \subseteq NotStarted \ {f} /\ f \in NotStarted
    BY <1>4, <1>5, <2>1
  <2>3. /\ IsFiniteSet(NotStarted \ {f})
        /\ Cardinality(NotStarted \ {f}) = Cardinality(NotStarted) - 1
    BY <1>1, <2>2, StartedNumber, FS_RemoveElement
  <2>4. Cardinality(NotStarted') <= Cardinality(NotStarted) - 1
    BY <2>2, <2>3, FS_Subset
  <2>5. Started < Started'
    <3>1. Started' = stats.num_insts - Cardinality(NotStarted')
      BY <1>3 DEF Started
    <3>2. /\ Started = stats.num_insts - Cardinality(NotStarted)
          /\ Cardinality(NotStarted) \in Nat /\ stats.num_insts \in Nat
      BY <1>1, StartedNumber DEF Started
    <3>3. Cardinality(NotStarted') \in Nat
      BY <2>2, <2>3, FS_Subset, FS_CardinalityType
    <3> QED BY <2>4, <3>1, <3>2, <3>3
  <2>6. Span(Started) + LongestLatency + 1 <= Span(Started')
    BY <1>8, <2>5, SpanGrows
  <2>7. LongestLatency \in Nat \ {0}
    BY Latencies
  <2>8. current_cycle <= 1 + Span(Started')
    BY <1>1, <1>6, <1>8, <2>6, <2>7
  <2>9. \A s \in Executing' :
          table'[s].start_cycle + LongestLatency <= 1 + Span(Started')
    <3> SUFFICES ASSUME NEW s \in Executing'
                 PROVE  table'[s].start_cycle + LongestLatency <= 1 + Span(Started')
      OBVIOUS
    <3>1. CASE s \in Fired
      <4>1. table'[s].start_cycle = current_cycle
        BY <1>2, <1>4, <3>1 DEF NotStarted
      <4> QED BY <1>1, <1>6, <1>8, <2>6, <2>7, <4>1
    <3>2. CASE s \in Executing \ Fired
      <4>1. table'[s].start_cycle = table[s].start_cycle
        BY <1>2, <3>2 DEF Executing
      <4>2. table[s].start_cycle \in Nat
        BY <1>1, <3>2, ExecutingFields
      <4> QED BY <1>6, <1>8, <2>6, <2>7, <3>2, <4>1, <4>2
    <3> QED BY <1>5, <3>1, <3>2
  <2> QED BY <1>1, <1>7, <1>8, <2>8, <2>9 DEF TimeInv, LongestLatency
<1> QED BY <1>9, <1>10

LEMMA TimeInit == HInit => TimeInv
<1> SUFFICES ASSUME HInit PROVE TimeInv
  OBVIOUS
<1>1. Valid = {} /\ Executing = {} /\ NotStarted = {}
  BY DEF HInit, Init, Valid, Executing, NotStarted, Unused
<1>2. stats.num_insts = 0 /\ current_cycle = 1 /\ pc = "read"
  BY DEF HInit, Init
<1>3. Cardinality(NotStarted) = 0
  BY <1>1, FS_EmptySet
<1>4. Span(Started) = 0
  BY <1>2, <1>3, Latencies DEF Started, Span
<1> QED BY <1>1, <1>2, <1>4 DEF TimeInv, NeverIdle

LEMMA TimeStep ==
  ASSUME IInv, TypeOK', PipelineInv, RetryInv, TimeInv, [HNext]_hvars
  PROVE  TimeInv'
<1>1. TypeOK /\ [Next]_vars
  BY HistoryIsScheduler DEF IInv, HTypeOK
<1>2. NoUnit => NoUnit'
  BY <1>1, NoUnitStays
<1>3. CASE TryIssue
  BY <1>1, <1>2, <1>3, IssueKeepsTime
<1>4. CASE ClearCompleted
  BY <1>1, <1>2, <1>4, ClearKeepsTime
<1>5. CASE StartReady
  BY <1>2, <1>5, StartKeepsTime
<1>6. CASE ReadTrace \/ EndOfTrace \/ Drain \/ Complete
  <2>1. /\ UNCHANGED <<table, current_cycle>>
        /\ pc # "start" /\ pc' # "start"
        /\ pc' = "clear" => Valid # {}
        /\ pc' \in {"read", "issue", "drain"} => pc \in {"read", "issue", "drain"}
    BY <1>6 DEF ReadTrace, EndOfTrace, Drain, Complete
  <2>2. stats'.num_insts = stats.num_insts
    BY <1>1, <1>6 DEF ReadTrace, EndOfTrace, Drain, Complete, TypeOK, Counters
  <2> QED BY <1>1, <1>2, <2>1, <2>2, FrameKeepsTime
<1>7. CASE UNCHANGED vars
  <2>1. Valid' = Valid /\ Executing' = Executing /\ NoUnit' = NoUnit
    BY <1>7 DEF vars, Valid, Executing, NoUnit
  <2>2. Started' = Started /\ Span(Started)' = Span(Started)
    BY <1>7, <2>1 DEF vars, Started, NotStarted, Span, LongestLatency
  <2> QED BY <1>7, <2>1, <2>2 DEF vars, TimeInv, NeverIdle, LongestLatency
<1> QED BY <1>1, <1>3, <1>4, <1>5, <1>6, <1>7 DEF Next

LEMMA TimeInvHolds == HSpec => [](TypeOK /\ PipelineInv /\ TimeInv)
<1> DEFINE J == IInv /\ PipelineInv /\ RetryInv
<1>1. HInit => J /\ TimeInv
  BY HistoryStep, TimeInit
<1>2. J /\ [HNext]_hvars => J'
  BY HistoryStep
<1>3. J => TypeOK
  BY DEF IInv, HTypeOK
<1>4. J /\ J' /\ TimeInv /\ [HNext]_hvars => TimeInv'
  <2> SUFFICES ASSUME J, J', TimeInv, [HNext]_hvars PROVE TimeInv'
    OBVIOUS
  <2>1. TypeOK'
    BY DEF IInv, HTypeOK
  <2> QED BY <2>1, TimeStep
<1>5. J => PipelineInv
  OBVIOUS
<1> HIDE DEF J
<1> QED BY <1>1, <1>2, <1>3, <1>4, <1>5, PTL DEF HSpec

\* Whatever waits for operands waits for something that executes: unless there
\* is an operation without a unit no cycle of the clock is lost.
THEOREM NeverIdleHolds == HSpec => []NeverIdle
<1>1. TimeInv => NeverIdle
  BY DEF TimeInv, NeverIdle
<1> QED BY <1>1, TimeInvHolds, PTL

\* No run is longer than its instructions one after the other, each with its
\* latency and a cycle more, however large or small the tables are.
THEOREM RunTimeHolds == HSpec => []RunTimeIsBounded
<1>1. TypeOK /\ PipelineInv /\ TimeInv => RunTimeIsBounded
  <2> SUFFICES ASSUME TypeOK, PipelineInv, TimeInv, ~NoUnit
               PROVE  current_cycle <= 1 + Span(stats.num_insts)
    BY DEF RunTimeIsBounded, Span
  <2>1. /\ Started \in Int /\ stats.num_insts \in Int
        /\ Span(Started) \in Int /\ Span(stats.num_insts) \in Int
        /\ Started <= stats.num_insts
        /\ Span(Started) <= Span(stats.num_insts)
        /\ current_cycle \in Nat
    BY StartedNumber, SpanGrows DEF TypeOK
  <2>2. CASE pc # "start" \/ Valid = {}
    BY <2>1, <2>2 DEF TimeInv
  <2>3. CASE pc = "start" /\ Executing # {}
    <3>1. PICK s \in Executing :
            table[s].start_cycle + LongestLatency <= 1 + Span(Started)
      BY <2>3 DEF TimeInv
    <3> QED BY <2>1, <3>1, InsideSpan
  <2>4. CASE pc = "start" /\ Valid # {} /\ Executing = {}
    <3>1. NotStarted # {}
      BY <2>4 DEF NotStarted
    <3>2. Cardinality(NotStarted) # 0
      BY <3>1, StartedNumber, FS_EmptySet
    <3>3. Started < stats.num_insts
      BY <3>2, StartedNumber DEF Started
    <3>4. Span(Started) + LongestLatency + 1 <= Span(stats.num_insts)
      BY <2>1, <3>3, SpanGrows
    <3>5. current_cycle <= 2 + Span(Started)
      BY <2>4 DEF TimeInv
    <3> QED BY <2>1, <3>4, <3>5, Latencies
  <2> QED BY <2>2, <2>3, <2>4
<1> QED BY <1>1, TimeInvHolds, PTL
===============================================================================
