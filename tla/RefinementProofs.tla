--------------------------- MODULE RefinementProofs ---------------------------
(***************************************************************************)
(* MI, MSI, MESI and MOSI implement the coherent memory for every number   *)
(* of nodes, and MOESI for two, with any lines and cycles of memory        *)
(* latency: a step of the simulator issues or completes one access,        *)
(* changes one permission, or is none of the memory's business.            *)
(***************************************************************************)
EXTENDS RequestProofs

-------------------------------------------------------------------------------
(* What a step of the loop is to the processors.                           *)

\* Cache i handles a message for line a and touches no other line.
OnlyLine(i, a) ==
  \A j \in Nodes, b \in Lines : j # i \/ b # a => state'[j][b] = state[j][b]

\* The processor of i is sent the DATA it waits for, with the permission its
\* access takes.
SendsDATA(i, a) ==
  /\ UnderWay(i)
  /\ infile[i] \in Access /\ infile[i].addr = a
  /\ inbound_request_buf' = [inbound_request_buf EXCEPT ![i] = a]
  /\ state'[i][a] \in (IF infile[i].op = "STORE" THEN {"M"} ELSE Copy)

Handles(i, a) ==
  /\ OnlyLine(i, a)
  /\ UNCHANGED <<infile, outstanding_request, inbound_request>>
  /\ inbound_request_buf' = inbound_request_buf \/ SendsDATA(i, a)

LEMMA ServeHandles ==
  ASSUME IInv, AccessInv, NEW i \in Nodes, CacheServe(i)
  PROVE  \E a \in Lines : Handles(i, a)
<1> DEFINE a == proc_request[i].addr
           out == ProcOutcome(i)
<1>1. /\ a \in Lines
      /\ AccessContract(protocol, state[i][a], proc_request[i].op, out)
      /\ state'[i][a] = out.state
      /\ OnlyLine(i, a)
      /\ UNCHANGED <<infile, outstanding_request, inbound_request>>
      /\ inbound_request_buf' =
           IF "send_DATA_to_proc" \in out.does
             THEN [inbound_request_buf EXCEPT ![i] = a]
             ELSE inbound_request_buf
  BY ServeEffect DEF OnlyLine
<1>2. UnderWay(i) /\ proc_request[i] # NULL
  BY AccessServed DEF CacheServe, UnderWay
<1>3. infile[i] = proc_request[i] /\ infile[i] \in Access
  BY <1>2 DEF AccessInv, IInv, TypeOK, PrTypeOK
<1> HIDE DEF out
<1>4. CASE "send_DATA_to_proc" \in out.does
  <2>1. state'[i][a] \in (IF infile[i].op = "STORE" THEN {"M"} ELSE Copy)
    BY <1>1, <1>3, <1>4 DEF AccessContract
  <2> QED BY <1>1, <1>2, <1>3, <1>4, <2>1 DEF Handles, SendsDATA
<1>5. CASE "send_DATA_to_proc" \notin out.does
  BY <1>1, <1>5 DEF Handles
<1> QED BY <1>4, <1>5

LEMMA SnoopHandles ==
  ASSUME IInv, AccessInv, NEW i \in Nodes, CacheSnoop(i)
  PROVE  \E a \in Lines : Handles(i, a)
<1> DEFINE a == current_request.addr
           out == SnoopOutcome(i)
<1>1. CASE RequestOnBus
  <2>1. /\ a \in Lines
        /\ UNCHANGED <<infile, outstanding_request, inbound_request>>
    BY <1>1, RequestSnooped
  <2>2. OnlyLine(i, a) /\ inbound_request_buf' = inbound_request_buf
    BY <1>1, RequestEffect DEF OnlyLine
  <2> QED BY <2>1, <2>2 DEF Handles
<1>2. CASE DataOnBus
  <2>1. /\ a \in Lines /\ state[i][a] \in Waiting
        /\ UNCHANGED <<infile, outstanding_request, inbound_request>>
        /\ UnderWay(i)
    BY <1>2, DataSnooped DEF UnderWay
  <2>2. /\ FillContract(protocol, state[i][a], shared_line, out)
        /\ state'[i][a] = out.state
        /\ OnlyLine(i, a)
        /\ inbound_request_buf' = [inbound_request_buf EXCEPT ![i] = a]
    BY <1>2, DataEffect DEF OnlyLine
  <2> HIDE DEF out
  <2>3. /\ infile[i] \in Access /\ infile[i].addr = a
        /\ infile[i].op = "STORE" => state[i][a] \in WaitWrite
    BY <2>1 DEF AccessInv, IInv, TypeOK, PrTypeOK
  <2>4. /\ state[i][a] \in WaitWrite => out.state = "M"
        /\ out.state \in {"M", "S", "E"}
    BY <2>1, <2>2, Classes DEF FillContract
  <2>5. state'[i][a] \in (IF infile[i].op = "STORE" THEN {"M"} ELSE Copy)
    BY <2>2, <2>3, <2>4 DEF Copy, Owning
  <2> QED BY <2>1, <2>2, <2>3, <2>5 DEF Handles, SendsDATA
<1>3. RequestOnBus \/ DataOnBus
  BY DEF CacheSnoop, MustSnoop, RequestOnBus, DataOnBus
<1> QED BY <1>1, <1>2, <1>3

LEMMA StepKinds ==
  ASSUME IInv, AccessInv, [Next]_vars
  PROVE  \/ \E i \in Nodes, a \in Lines : Handles(i, a)
         \/ \E i \in Nodes : TickProcessor(i)
         \/ Tock
         \/ UNCHANGED <<state, infile, outstanding_request, inbound_request,
                        inbound_request_buf, proc_request>>
<1> USE DEF prVars, cacheVars
<1>1. CASE TickBus
  BY <1>1 DEF TickBus
<1>2. ASSUME NEW i \in Nodes, CacheIdle(i) \/ CachePass(i)
      PROVE  UNCHANGED <<state, infile, outstanding_request, inbound_request,
                         inbound_request_buf, proc_request>>
  BY <1>2 DEF CacheIdle, CachePass
<1>3. ASSUME NEW i \in Nodes, CacheServe(i) \/ CacheSnoop(i)
      PROVE  \E a \in Lines : Handles(i, a)
  BY <1>3, ServeHandles, SnoopHandles
<1>4. CASE TickMemory
  BY <1>4, MemoryNeverAborts DEF TickMemory
<1>5. CASE UNCHANGED vars
  BY <1>5 DEF vars
<1> QED BY <1>1, <1>2, <1>3, <1>4, <1>5 DEF Next, Ended

-------------------------------------------------------------------------------
(* The access a processor is on.                                           *)

\* A processor that is not busy has nothing with its cache.
LEMMA IdleProcessor ==
  ASSUME IInv, NEW i \in Nodes, ~Busy(i)
  PROVE  /\ proc_request[i] = NULL
         /\ inbound_request_buf[i] = NULL
         /\ \A a \in Lines : state[i][a] \notin Waiting
         /\ ~UnderWay(i)
BY DEF IInv, ProcessorInv, Busy, UnderWay

LEMMA AccessInvStep ==
  ASSUME IInv, AccessInv, [Next]_vars
  PROVE  AccessInv'
<1> DEFINE Kept(j) == /\ proc_request'[j] # NULL => infile'[j] = proc_request'[j]
                      /\ \A a \in Lines : state'[j][a] \in Waiting =>
                           /\ infile'[j] # NULL
                           /\ infile'[j].addr = a
                           /\ infile'[j].op = "STORE" => state'[j][a] \in WaitWrite
<1> SUFFICES ASSUME NEW j \in Nodes PROVE Kept(j)
  BY DEF AccessInv
<1>1. ASSUME NEW i \in Nodes, TickProcessor(i) PROVE Kept(j)
  <2>1. PrTick(i) /\ state' = state
    BY <1>1 DEF TickProcessor, cacheVars
  <2>2. CASE Rest(i)
    BY <2>1, <2>2 DEF Rest, AccessInv
  <2>3. ASSUME NEW access \in Access, Fetch(i, access) PROVE Kept(j)
    <3>1. \A a \in Lines : state[i][a] \notin Waiting
      BY <2>3, IdleProcessor DEF Fetch
    <3>2. /\ infile' = [infile EXCEPT ![i] = access]
          /\ proc_request' = [proc_request EXCEPT ![i] = access]
      BY <2>3 DEF Fetch
    <3> QED BY <2>1, <3>1, <3>2 DEF AccessInv, IInv, TypeOK, PrTypeOK
  <2>4. CASE ReachEnd(i)
    <3>1. proc_request[i] = NULL /\ \A a \in Lines : state[i][a] \notin Waiting
      BY <2>4, IdleProcessor DEF ReachEnd
    <3>2. infile' = [infile EXCEPT ![i] = NULL] /\ proc_request' = proc_request
      BY <2>4 DEF ReachEnd
    <3> QED BY <2>1, <3>1, <3>2 DEF AccessInv, IInv, TypeOK, PrTypeOK
  <2> QED BY <2>1, <2>2, <2>3, <2>4 DEF PrTick
<1>2. ASSUME NEW i \in Nodes, CacheServe(i) PROVE Kept(j)
  <2> DEFINE b == proc_request[i].addr
             out == ProcOutcome(i)
  <2>1. /\ b \in Lines
        /\ AccessContract(protocol, state[i][b], proc_request[i].op, out)
        /\ state'[i][b] = out.state
        /\ \A k \in Nodes, a \in Lines :
             k # i \/ a # b => state'[k][a] = state[k][a]
        /\ infile' = infile
        /\ proc_request' = [proc_request EXCEPT ![i] = NULL]
    BY <1>2, ServeEffect
  <2>2. /\ proc_request[i] # NULL /\ infile[i] = proc_request[i]
        /\ \A a \in Lines : state[i][a] \notin Waiting
    BY <1>2, AccessServed DEF CacheServe, AccessInv
  <2> HIDE DEF out
  <2>3. state'[i][b] \in Waiting /\ infile[i].op = "STORE" =>
          state'[i][b] \in WaitWrite
    BY <2>1, <2>2 DEF AccessContract
  <2>4. proc_request'[j] # NULL => infile'[j] = proc_request'[j]
    BY <2>1 DEF AccessInv, IInv, TypeOK, PrTypeOK
  <2>5. CASE j = i
    BY <2>1, <2>2, <2>3, <2>4, <2>5
  <2>6. CASE j # i
    BY <2>1, <2>4, <2>6 DEF AccessInv
  <2> QED BY <2>5, <2>6
<1>3. ASSUME NEW i \in Nodes, CacheSnoop(i), RequestOnBus PROVE Kept(j)
  <2>1. infile' = infile /\ proc_request' = proc_request
    BY <1>3, RequestSnooped
  <2>2. \A a \in Lines :
          /\ state'[j][a] \in Waiting => state[j][a] \in Waiting
          /\ state[j][a] \in WaitWrite => state'[j][a] \in WaitWrite
    BY <1>3, RequestEffect, Classes DEF RequestContract
  <2> QED BY <2>1, <2>2 DEF AccessInv
<1>4. ASSUME NEW i \in Nodes, CacheSnoop(i), DataOnBus PROVE Kept(j)
  <2>1. infile' = infile /\ proc_request' = proc_request
    BY <1>4, DataSnooped
  <2>2. \A a \in Lines : state'[j][a] \in Waiting => state'[j][a] = state[j][a]
    BY <1>4, DataEffect DEF FillContract
  <2> QED BY <2>1, <2>2 DEF AccessInv
<1>5. ASSUME UNCHANGED <<state, infile, proc_request>> PROVE Kept(j)
  BY <1>5 DEF AccessInv
<1>6. ASSUME NEW i \in Nodes, CacheSnoop(i) PROVE RequestOnBus \/ DataOnBus
  BY <1>6 DEF CacheSnoop, MustSnoop, RequestOnBus, DataOnBus
<1>7. CASE TickBus
  BY <1>5, <1>7 DEF TickBus, prVars, cacheVars
<1>8. ASSUME NEW i \in Nodes, CacheIdle(i) \/ CachePass(i) PROVE Kept(j)
  BY <1>5, <1>8 DEF CacheIdle, CachePass, prVars, cacheVars
<1>9. CASE TickMemory
  BY <1>5, <1>9, MemoryNeverAborts DEF TickMemory, prVars, cacheVars
<1>10. CASE Tock \/ UNCHANGED vars
  BY <1>5, <1>10 DEF Tock, vars, prVars, cacheVars
<1> QED
  BY <1>1, <1>2, <1>3, <1>4, <1>6, <1>7, <1>8, <1>9, <1>10 DEF Next, Ended

LEMMA AccessInvHolds ==
  ASSUME Protocols \subseteq Sound
  PROVE  Spec => []AccessInv
<1>1. Init => AccessInv
  BY DEF Init, PrInit, CacheInit, AccessInv, Waiting, WaitRead, WaitWrite
<1>2. IInv /\ AccessInv /\ [Next]_vars => AccessInv'
  BY AccessInvStep
<1> QED BY <1>1, <1>2, InvariantHolds, PTL DEF Spec

\* With those protocols a cache sends DATA only to a processor that waits for
\* it, for the access the processor is on, and holds the line in M if that is
\* a store, or a copy of it if it is a load.
THEOREM CompletesWithPermissionHolds ==
  ASSUME Protocols \subseteq Sound
  PROVE  Spec => CompletesWithPermission
<1>1. ASSUME IInv, AccessInv, [Next]_vars, NEW i \in Nodes,
             inbound_request_buf[i] = NULL, inbound_request_buf'[i] # NULL
      PROVE  /\ infile[i] # NULL
             /\ inbound_request_buf'[i] = infile[i].addr
             /\ state'[i][infile[i].addr] \in
                  (IF infile[i].op = "STORE" THEN {"M"} ELSE Copy)
  <2>1. CASE \E j \in Nodes, a \in Lines : Handles(j, a)
    <3>1. PICK j \in Nodes, a \in Lines : Handles(j, a)
      BY <2>1
    <3>2. SendsDATA(j, a)
      BY <1>1, <3>1 DEF Handles
    <3>3. i = j /\ inbound_request_buf'[i] = a
      BY <1>1, <3>2 DEF SendsDATA, IInv, TypeOK, PrTypeOK
    <3>4. infile[i] # NULL
      BY <3>2, <3>3, NullAssumption DEF SendsDATA
    <3> QED BY <3>2, <3>3, <3>4 DEF SendsDATA
  <2>2. CASE \E j \in Nodes : TickProcessor(j)
    BY <1>1, <2>2 DEF TickProcessor, PrTick
  <2>3. CASE Tock
    BY <1>1, <2>3 DEF Tock, PrTock
  <2> QED BY <1>1, <2>1, <2>2, <2>3, StepKinds
<1>2. IInv /\ AccessInv /\ [Next]_vars =>
        [\A i \in Nodes :
           inbound_request_buf[i] = NULL /\ inbound_request_buf'[i] # NULL =>
             /\ infile[i] # NULL
             /\ inbound_request_buf'[i] = infile[i].addr
             /\ state'[i][infile[i].addr] \in
                  (IF infile[i].op = "STORE" THEN {"M"} ELSE Copy)]_vars
  BY <1>1
<1> QED BY <1>2, InvariantHolds, AccessInvHolds, PTL DEF Spec, CompletesWithPermission

-------------------------------------------------------------------------------
(* The refinement.                                                         *)

\* What Memory's variables stand for.
Perm == [i \in Nodes |-> [a \in Lines |-> PermissionOf(state[i][a])]]
UnderWayOf == [i \in Nodes |-> IF UnderWay(i) THEN infile[i] ELSE NULL]

LEMMA PermissionLemma ==
  ASSUME NEW s
  PROVE  /\ PermissionOf(s) \in {"none", "read", "write"}
         /\ PermissionOf(s) = "write" <=> s \in Exclusive
         /\ PermissionOf(s) = "none" <=> s \notin Copy
BY Classes DEF PermissionOf

\* Changing one line changes one permission.
LEMMA OnePermission ==
  ASSUME TypeOK, NEW i \in Nodes, NEW a \in Lines, OnlyLine(i, a)
  PROVE  Perm' = [Perm EXCEPT ![i][a] = PermissionOf(state'[i][a])]
<1> DEFINE Old == [j \in Nodes |-> [b \in Lines |-> PermissionOf(state[j][b])]]
           New == [j \in Nodes |-> [b \in Lines |-> PermissionOf(state'[j][b])]]
<1>1. \A j \in Nodes, b \in Lines :
         j # i \/ b # a => PermissionOf(state'[j][b]) = PermissionOf(state[j][b])
  BY DEF OnlyLine
<1>2. \A j \in Nodes : j # i => New[j] = Old[j]
  BY <1>1
<1>3. New[i] = [Old[i] EXCEPT ![a] = PermissionOf(state'[i][a])]
  BY <1>1
<1>4. New = [Old EXCEPT ![i] = [Old[i] EXCEPT ![a] = PermissionOf(state'[i][a])]]
  <2> HIDE DEF New, Old
  <2>1. /\ New = [j \in Nodes |-> New[j]]
        /\ Old = [j \in Nodes |-> Old[j]]
    BY DEF New, Old
  <2> QED BY <1>2, <1>3, <2>1
<1> QED BY <1>4 DEF Perm

LEMMA MessageRefines ==
  ASSUME IInv, IInv', NEW i \in Nodes, NEW a \in Lines, Handles(i, a)
  PROVE  Memory!Next
<1>1. PICK p \in Memory!Permissions : p = PermissionOf(state'[i][a])
  BY PermissionLemma DEF Memory!Permissions
<1>2. Perm' = [Perm EXCEPT ![i][a] = p]
  BY <1>1, OnePermission DEF Handles, IInv
<1>3. Memory!Coherent(Perm')
  BY PermissionLemma
     DEF IInv, CoherenceInvariant, SingleWriter, Memory!Coherent, Perm
<1>4. CASE inbound_request_buf' = inbound_request_buf
  <2>1. UnderWayOf' = UnderWayOf
    BY <1>4 DEF Handles, UnderWayOf, UnderWay
  <2>2. Memory!Repermit(i, a, p)
    BY <1>2, <1>3, <2>1 DEF Memory!Repermit, Perm, UnderWayOf
  <2> QED BY <1>1, <2>2 DEF Memory!Next
<1>5. CASE SendsDATA(i, a)
  <2>1. /\ UnderWayOf[i] = infile[i] /\ infile[i] # NULL
        /\ infile[i].op \in {"LOAD", "STORE"} /\ infile[i].addr = a
    BY <1>5, NullAssumption DEF SendsDATA, UnderWayOf, Access
  <2>2. Memory!Allows(p, infile[i].op)
    BY <1>1, <1>5, <2>1, PermissionLemma DEF SendsDATA, Memory!Allows, Exclusive
  <2>3. UnderWayOf' = [UnderWayOf EXCEPT ![i] = NULL]
    <3>1. /\ inbound_request_buf'[i] = a /\ a # NULL
          /\ \A j \in Nodes : j # i => inbound_request_buf'[j] = inbound_request_buf[j]
      BY <1>5, NullAssumption DEF SendsDATA, IInv, TypeOK, PrTypeOK
    <3> QED BY <3>1 DEF Handles, UnderWayOf, UnderWay
  <2>4. Memory!Complete(i, p)
    BY <1>2, <1>3, <2>1, <2>2, <2>3 DEF Memory!Complete, Perm, UnderWayOf
  <2> QED BY <1>1, <2>4 DEF Memory!Next
<1> QED BY <1>4, <1>5 DEF Handles

LEMMA ProcessorRefines ==
  ASSUME IInv, NEW i \in Nodes, TickProcessor(i)
  PROVE  Memory!Next \/ UNCHANGED <<Perm, UnderWayOf>>
<1>1. /\ PrTick(i) /\ Perm' = Perm
      /\ inbound_request_buf' = inbound_request_buf
      /\ inbound_request' = [inbound_request EXCEPT ![i] = NULL]
  BY DEF TickProcessor, PrTick, Consume, cacheVars, Perm
<1> USE DEF IInv, TypeOK, PrTypeOK
<1>2. CASE Rest(i)
  <2>1. \A j \in Nodes : UnderWay(j)' <=> UnderWay(j)
    BY <1>1, <1>2 DEF Rest, UnderWay, Busy
  <2> QED BY <1>1, <1>2, <2>1 DEF Rest, UnderWayOf
<1>3. ASSUME NEW access \in Access, Fetch(i, access) PROVE Memory!Next
  <2>1. ~UnderWay(i) /\ inbound_request_buf[i] = NULL
    BY <1>3, IdleProcessor DEF Fetch
  <2>2. /\ UnderWay(i)'
        /\ \A j \in Nodes : j # i => (UnderWay(j)' <=> UnderWay(j))
        /\ infile' = [infile EXCEPT ![i] = access]
    BY <1>1, <1>3, <2>1 DEF Fetch, UnderWay
  <2>3. UnderWayOf' = [UnderWayOf EXCEPT ![i] = access] /\ UnderWayOf[i] = NULL
    BY <2>1, <2>2 DEF UnderWayOf
  <2>4. /\ access = [op |-> access.op, addr |-> access.addr]
        /\ access.op \in {"LOAD", "STORE"} /\ access.addr \in Lines
    BY DEF Access
  <2>5. Memory!Issue(i, access.op, access.addr)
    BY <1>1, <2>3, <2>4 DEF Memory!Issue, Perm, UnderWayOf
  <2> QED BY <2>4, <2>5 DEF Memory!Next
<1>4. CASE ReachEnd(i)
  <2>1. ~UnderWay(i)
    BY <1>4, IdleProcessor DEF ReachEnd
  <2>2. \A j \in Nodes : UnderWay(j)' <=> UnderWay(j)
    BY <1>1, <1>4, <2>1 DEF ReachEnd, UnderWay
  <2>3. \A j \in Nodes : j # i => infile'[j] = infile[j]
    BY <1>4 DEF ReachEnd
  <2> QED BY <1>1, <2>1, <2>2, <2>3 DEF UnderWayOf
<1> QED BY <1>1, <1>2, <1>3, <1>4 DEF PrTick

LEMMA TockRefines ==
  ASSUME IInv, Tock
  PROVE  UNCHANGED <<Perm, UnderWayOf>>
<1>1. Perm' = Perm
  BY DEF Tock, cacheVars, Perm
<1>2. \A i \in Nodes : UnderWay(i)' <=> UnderWay(i)
  BY DEF Tock, PrTock, UnderWay
<1> QED BY <1>1, <1>2 DEF Tock, UnderWayOf

LEMMA MemoryStepRefines ==
  ASSUME IInv, IInv', AccessInv, [Next]_vars
  PROVE  [Memory!Next]_<<Perm, UnderWayOf>>
<1>1. CASE UNCHANGED <<state, infile, outstanding_request, inbound_request,
                       inbound_request_buf, proc_request>>
  BY <1>1 DEF Perm, UnderWayOf, UnderWay
<1> QED BY <1>1, StepKinds, MessageRefines, ProcessorRefines, TockRefines

LEMMA MemoryInitRefines == Init => Memory!Init
BY PermissionLemma DEF Init, PrInit, CacheInit, Memory!Init, Copy, Owning

\* The five classes of the simulator, step by step, implement the memory that
\* issues and completes accesses and keeps permissions coherent.
THEOREM SimulatorImplementsCoherentMemory ==
  ASSUME Protocols \subseteq Sound
  PROVE  Spec => ImplementsCoherentMemory
<1>1. IInv /\ IInv' /\ AccessInv /\ [Next]_vars => [Memory!Next]_<<Perm, UnderWayOf>>
  BY MemoryStepRefines
<1> QED
  BY <1>1, MemoryInitRefines, InvariantHolds, AccessInvHolds, PTL
     DEF Spec, ImplementsCoherentMemory, Memory!Spec, Perm, UnderWayOf

===============================================================================
