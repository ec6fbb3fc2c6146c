---------------------------- MODULE RequestProofs ----------------------------
(***************************************************************************)
(* What becomes of the requests of MI, MSI, MESI and MOSI, for every       *)
(* number of nodes, and of MOESI's for two, with any lines and cycles of   *)
(* memory latency: each waiting line has exactly one, the shared line      *)
(* tells its reader the truth (but for MOESI), a modified line always has  *)
(* somebody who is responsible for it, and no node waits for longer than   *)
(* one turn of the bus for each node.                                      *)
(***************************************************************************)
EXTENDS CoherenceProofs, FiniteSetTheorems

-------------------------------------------------------------------------------
(* Every waiting line has one request.                                     *)

\* What BroadcastRequest does to the queue.
LEMMA HeadIsBroadcast ==
  ASSUME IInv, BroadcastRequest, NEW i \in Nodes, NEW a \in Lines, Queued(i, a)
  PROVE  Queued(i, a)' \/ Transaction(i, a)'
<1> DEFINE q == pending_requests
<1>1. /\ q \in Seq(Request) /\ q # <<>>
      /\ current_request' = Head(q) /\ pending_requests' = Tail(q)
  BY DEF BroadcastRequest, IInv, TypeOK, BusTypeOK
<1>2. /\ Len(q) \in Nat \ {0}
      /\ Head(q) = q[1]
      /\ Len(Tail(q)) = Len(q) - 1
      /\ \A k \in 1 .. Len(q) - 1 : Tail(q)[k] = q[k + 1]
  BY <1>1, FromTheFront
<1>3. PICK k \in 1 .. Len(q) : q[k].src = i /\ q[k].addr = a
  BY DEF Queued
<1>4. CASE k = 1
  <2>1. q[1] # NULL /\ q[1].msg # "DATA"
    <3>1. q[1] \in Request
      BY <1>1, <1>2, ElementsTyped
    <3> QED BY <3>1, NullAssumption DEF Request, Mreq
  <2> QED BY <1>1, <1>2, <1>3, <1>4, <2>1 DEF Transaction, RequestOnBus
<1>5. CASE k # 1
  <2>1. k - 1 \in 1 .. Len(Tail(q)) /\ Tail(q)[k - 1] = q[k]
    BY <1>2, <1>5
  <2> QED BY <1>1, <1>3, <2>1 DEF Queued
<1> QED BY <1>4, <1>5

\* A request stays in the queue until it is broadcast.
LEMMA QueuedGoesOn ==
  ASSUME IInv, [Next]_vars, NEW i \in Nodes, NEW a \in Lines, Queued(i, a)
  PROVE  Queued(i, a)' \/ (TickBus /\ shared_line' = FALSE /\ Transaction(i, a)')
<1>1. ASSUME pending_requests' = pending_requests PROVE Queued(i, a)'
  BY <1>1 DEF Queued
<1>2. ASSUME NEW m \in Request, pending_requests' = Append(pending_requests, m)
      PROVE  Queued(i, a)'
  <2> DEFINE q == pending_requests
  <2>1. /\ Len(q) \in Nat /\ Len(pending_requests') = Len(q) + 1
        /\ \A k \in 1 .. Len(q) : pending_requests'[k] = q[k]
    BY <1>2, AtTheBack DEF IInv, TypeOK, BusTypeOK
  <2> HIDE DEF q
  <2> QED BY <2>1 DEF Queued, q
<1>3. ASSUME TickBus
      PROVE  Queued(i, a)' \/ (shared_line' = FALSE /\ Transaction(i, a)')
  <2>1. CASE BroadcastRequest
    BY <2>1, HeadIsBroadcast DEF BroadcastRequest
  <2>2. CASE ~BroadcastRequest
    <3>1. pending_requests' = pending_requests
      BY <1>3, <2>2 DEF TickBus, BusTick, BroadcastData, AwaitData, StayIdle
    <3> QED BY <3>1 DEF Queued
  <2> QED BY <2>1, <2>2
<1>4. ASSUME NEW j \in Nodes, CacheServe(j) PROVE Queued(i, a)'
  <2>1. \/ pending_requests' = pending_requests
        \/ \E m \in Request : pending_requests' = Append(pending_requests, m)
    BY <1>4, ServeEffect
  <2> QED BY <1>1, <1>2, <2>1
<1>5. ASSUME NEW j \in Nodes, CacheSnoop(j) PROVE pending_requests' = pending_requests
  BY <1>5, RequestEffect, DataEffect DEF CacheSnoop, MustSnoop, RequestOnBus, DataOnBus
<1> QED BY <1>1, <1>3, <1>4, <1>5, WhatChanges

\* A line that begins to wait has its request queued.
LEMMA NewWaiterIsQueued ==
  ASSUME IInv, [Next]_vars, NEW i \in Nodes, NEW a \in Lines,
         state[i][a] \notin Waiting, state'[i][a] \in Waiting
  PROVE  Queued(i, a)'
<1>1. ASSUME NEW j \in Nodes, CacheServe(j) PROVE Queued(i, a)'
  <2>1. i = j /\ a = proc_request[j].addr
    BY <1>1, ServeEffect
  <2>2. "send_DATA_to_proc" \notin ProcOutcome(j).does
    BY <1>1, <2>1, ServeEffect DEF AccessContract
  <2>3. PICK m \in Request :
          /\ m.src = i /\ m.addr = a
          /\ pending_requests' = Append(pending_requests, m)
    BY <1>1, <2>1, <2>2, ServeEffect
  <2>4. /\ Len(pending_requests) \in Nat
        /\ Len(pending_requests') = Len(pending_requests) + 1
        /\ pending_requests'[Len(pending_requests) + 1] = m
    BY <2>3, AtTheBack DEF IInv, TypeOK, BusTypeOK
  <2>5. Len(pending_requests) + 1 \in 1 .. Len(pending_requests')
    BY <2>4
  <2> QED BY <2>3, <2>4, <2>5 DEF Queued
<1>2. ASSUME NEW j \in Nodes, CacheSnoop(j), RequestOnBus PROVE FALSE
  BY <1>2, RequestEffect, Classes DEF RequestContract
<1>3. ASSUME NEW j \in Nodes, CacheSnoop(j), DataOnBus PROVE FALSE
  BY <1>3, DataEffect DEF FillContract
<1> QED BY <1>1, <1>2, <1>3, WhatChanges

LEMMA WaiterInvStep ==
  ASSUME IInv, WaiterInv, [Next]_vars
  PROVE  WaiterInv'
<1> SUFFICES ASSUME NEW i \in Nodes, NEW a \in Lines, state'[i][a] \in Waiting
             PROVE  Queued(i, a)' \/ Transaction(i, a)'
  BY DEF WaiterInv
<1>1. CASE state[i][a] \notin Waiting
  BY <1>1, NewWaiterIsQueued
<1>2. ~TakesData(i, a)
  BY DataEffect DEF TakesData, FillContract
<1>3. CASE state[i][a] \in Waiting
  BY <1>2, <1>3, QueuedGoesOn, TransactionGoesOn DEF WaiterInv
<1> QED BY <1>1, <1>3

\* For the protocols of Sound no line waits without a request.
LEMMA WaiterInvHolds ==
  ASSUME Protocols \subseteq Sound
  PROVE  Spec => []WaiterInv
<1>1. Init => WaiterInv
  BY DEF Init, CacheInit, WaiterInv, Waiting, WaitRead, WaitWrite
<1>2. IInv /\ WaiterInv /\ [Next]_vars => WaiterInv'
  BY WaiterInvStep
<1> QED BY <1>1, <1>2, InvariantHolds, PTL DEF Spec

\* With those protocols a line waits if and only if exactly one request for it
\* is queued or being served, and the request asks for what the line waits for:
\* the handlers, which change waiting lines, neither lose nor repeat one.
THEOREM EveryWaiterHasOneRequestHolds ==
  ASSUME Protocols \subseteq Sound
  PROVE  Spec => []EveryWaiterHasOneRequest
<1>1. ASSUME IInv, WaiterInv PROVE EveryWaiterHasOneRequest
  <2> SUFFICES ASSUME NEW i \in Nodes, NEW a \in Lines
      PROVE LET queued == {k \in DOMAIN pending_requests :
                     pending_requests[k].src = i /\ pending_requests[k].addr = a}
            IN /\ Cardinality(queued) + (IF Transaction(i, a) THEN 1 ELSE 0)
                    = (IF state[i][a] \in Waiting THEN 1 ELSE 0)
               /\ \A k \in queued : pending_requests[k].msg =
                    IF state[i][a] \in WaitWrite THEN "GETM" ELSE "GETS"
    BY DEF EveryWaiterHasOneRequest
  <2> DEFINE queued == {k \in DOMAIN pending_requests :
                   pending_requests[k].src = i /\ pending_requests[k].addr = a}
  <2>1. DOMAIN pending_requests = 1 .. Len(pending_requests)
    BY <1>1 DEF IInv, TypeOK, BusTypeOK
  <2>2. \A k \in queued : /\ AsksFor(pending_requests[k])
                          /\ pending_requests[k].msg \in {"GETS", "GETM"}
                          /\ state[i][a] \in Waiting
                          /\ ~Transaction(i, a)
    BY <1>1, <2>1, QueueTyped, Classes DEF IInv, QueueInv, AsksFor
  <2>3. \A k \in queued : pending_requests[k].msg =
                           IF state[i][a] \in WaitWrite THEN "GETM" ELSE "GETS"
    BY <2>2, Classes DEF AsksFor
  <2>4. \A k, l \in queued : k = l
    BY <1>1, <2>1 DEF IInv, QueueInv
  <2>5. CASE queued = {}
    <3>1. Cardinality(queued) = 0
      BY <2>5, FS_EmptySet
    <3>2. ~Queued(i, a)
      BY <2>1, <2>5 DEF Queued
    <3>3. Transaction(i, a) <=> state[i][a] \in Waiting
      BY <1>1, <3>2 DEF IInv, TransactionInv, WaiterInv
    <3> QED BY <2>5, <3>1, <3>3
  <2>6. CASE queued # {}
    <3>1. PICK k : queued = {k}
      BY <2>4, <2>6
    <3>2. Cardinality(queued) = 1
      BY <3>1, FS_Singleton
    <3>3. state[i][a] \in Waiting /\ ~Transaction(i, a)
      BY <2>2, <3>1
    <3> QED BY <2>3, <3>2, <3>3
  <2> QED BY <2>5, <2>6
<1> QED BY <1>1, InvariantHolds, WaiterInvHolds, PTL

-------------------------------------------------------------------------------
(* The shared line.                                                        *)

\* A transaction under way was under way before, unless it has just been
\* broadcast, with the shared line clear.
LEMMA OldTransaction ==
  ASSUME IInv, IInv', WaiterInv, [Next]_vars, NEW i \in Nodes, NEW a \in Lines,
         Transaction(i, a)', shared_line'
  PROVE  Transaction(i, a)
<1>1. ~Queued(i, a)'
  BY DEF IInv, QueueInv, Queued
<1>2. state'[i][a] \in Waiting
  BY DEF IInv, TransactionInv
<1>3. state[i][a] \in Waiting
  BY <1>1, <1>2, NewWaiterIsQueued
<1>4. ~Queued(i, a)
  BY <1>1, QueuedGoesOn
<1> QED BY <1>3, <1>4 DEF WaiterInv

LEMMA SharedInvStep ==
  ASSUME protocol \in Clean, IInv, IInv', WaiterInv, SharedInv, [Next]_vars
  PROVE  SharedInv'
<1> SUFFICES ASSUME NEW i \in Nodes, NEW a \in Lines,
                    Transaction(i, a)', state'[i][a] = "ISE", shared_line'
             PROVE  \E j \in Nodes \ {i} : state'[j][a] \in Copy \cup {"SM"}
  BY DEF SharedInv
<1>1. Transaction(i, a) /\ state[i][a] \in Waiting
  BY OldTransaction DEF IInv, TransactionInv
<1>2. state[i][a] = "ISE" /\ shared_line =>
        \E j \in Nodes \ {i} : state[j][a] \in Copy \cup {"SM"}
  BY <1>1 DEF SharedInv
<1>3. ASSUME NEW j \in Nodes, CacheServe(j)
      PROVE  \E k \in Nodes \ {i} : state'[k][a] \in Copy \cup {"SM"}
  <2> DEFINE b == proc_request[j].addr
  <2>1. /\ b \in Lines /\ state[j][b] \notin Waiting
        /\ AccessContract(protocol, state[j][b], proc_request[j].op,
                          ProcOutcome(j))
        /\ state'[j][b] = ProcOutcome(j).state
        /\ \A k \in Nodes, c \in Lines :
             k # j \/ c # b => state'[k][c] = state[k][c]
        /\ shared_line' = shared_line
    BY <1>3, ServeEffect
  <2> HIDE DEF b
  <2>2. state[j][b] \in Copy => state'[j][b] \in Copy \cup {"SM"}
    BY <2>1 DEF AccessContract
  <2>3. i # j \/ a # b
    BY <1>1, <2>1
  <2>4. shared_line
    BY ONLY <2>1, shared_line'
  <2>5. PICK k \in Nodes \ {i} : state[k][a] \in Copy \cup {"SM"}
    BY <1>2, <2>1, <2>3, <2>4
  <2>6. state'[k][a] \in Copy \cup {"SM"}
    BY <2>1, <2>2, <2>5 DEF Waiting, WaitWrite
  <2> QED BY <2>6
<1>4. ASSUME NEW j \in Nodes, CacheSnoop(j), RequestOnBus
      PROVE  \E k \in Nodes \ {i} : state'[k][a] \in Copy \cup {"SM"}
  <2> DEFINE s == state[j][a]
             out == SnoopOutcome(j)
  <2>1. i = current_request.src /\ a = current_request.addr
    <3>1. current_request.src \in Nodes /\ current_request.addr \in Lines
      BY <1>4, RequestSnooped
    <3> QED BY <1>1, <1>4, <3>1 DEF IInv, TransactionInv, Transaction
  <2>2. /\ RequestContract(protocol, s, current_request.msg,
                           current_request.src = j, out)
        /\ state'[j][a] = out.state
        /\ \A k \in Nodes : k # j => state'[k][a] = state[k][a]
    <3> HIDE DEF out
    <3>1. LET b == current_request.addr
          IN /\ RequestContract(protocol, state[j][b], current_request.msg,
                                current_request.src = j, out)
             /\ state'[j][b] = out.state
             /\ \A k \in Nodes, c \in Lines :
                  k # j \/ c # b => state'[k][c] = state[k][c]
      BY <1>4, RequestEffect DEF out
    <3> QED BY ONLY <2>1, <3>1, a \in Lines
  <2>3. shared_line' = (shared_line \/ "set_shared_line" \in out.does)
    BY <1>4, RequestEffect
  <2> HIDE DEF out
  <2>4. state[i][a] = "ISE"
    BY <2>2, Classes DEF RequestContract
  <2>5. protocol = "MESI"
    BY <2>4, StatesOfSound DEF IInv, ProtocolInv, Clean
  <2>6. current_request.msg = "GETS"
    <3>1. current_request.msg \in {"GETS", "GETM"}
      BY <1>4, RequestSnooped
    <3>2. AsksFor(current_request)
      BY <1>4 DEF IInv, BusInv
    <3> QED BY <2>1, <2>4, <3>1, <3>2 DEF AsksFor, WaitWrite
  <2>7. /\ s \in Copy \cup {"SM"} => state'[j][a] \in Copy \cup {"SM"}
        /\ "set_shared_line" \in out.does => s \in Copy \cup {"SM"}
    BY <2>2, <2>5, <2>6 DEF RequestContract
  <2>8. CASE shared_line
    BY <1>2, <2>2, <2>4, <2>7, <2>8
  <2>9. CASE "set_shared_line" \in out.does
    <3>1. j # i
      BY <2>4, <2>7, <2>9 DEF Copy, Owning
    <3> QED BY <2>7, <2>9, <3>1
  <2> QED BY <2>8, <2>9, <2>3
<1>5. ASSUME NEW j \in Nodes, CacheSnoop(j), DataOnBus PROVE FALSE
  <2>1. Transaction(j, current_request.addr) /\ current_request.addr \in Lines
    BY <1>5, DataSnooped
  <2>2. i = j /\ a = current_request.addr
    BY <1>1, <2>1 DEF IInv, TransactionInv
  <2>3. state'[i][a] \notin Waiting
    BY <1>5, <2>2, DataEffect DEF FillContract
  <2> QED BY <2>3, Classes
<1>6. ASSUME TickBus, state' = state
      PROVE  \E j \in Nodes \ {i} : state'[j][a] \in Copy \cup {"SM"}
  BY <1>2, <1>6
     DEF TickBus, BusTick, BroadcastRequest, BroadcastData, AwaitData, StayIdle
<1> QED BY <1>2, <1>3, <1>4, <1>5, <1>6, WhatChanges

\* With MI, MSI, MESI and MOSI a reader that finds the shared line set, when
\* its DATA comes, does share the line: nothing any other cache does between
\* the broadcast of the request and the DATA makes the answer out of date.
THEOREM SharedLineMeansSharedHolds ==
  ASSUME Protocols \subseteq Clean
  PROVE  Spec => []SharedLineMeansShared
<1>1. Init => SharedInv
  BY DEF Init, CacheInit, SharedInv
<1>2. IInv /\ IInv' /\ WaiterInv /\ SharedInv /\ [Next]_vars => SharedInv'
  <2>1. IInv => protocol \in Clean
    BY DEF IInv, TypeOK, CacheTypeOK
  <2> QED BY <2>1, SharedInvStep
<1>0. Protocols \subseteq Sound
  BY SoundProtocols
<1>3. IInv /\ SharedInv => SharedLineMeansShared
  <2> SUFFICES ASSUME IInv, SharedInv, NEW i \in Nodes,
                      phase = "cache_snoop", turn = i, DataOnBus, MustSnoop(i),
                      state[i][current_request.addr] = "ISE", shared_line
               PROVE  \E j \in Nodes \ {i} :
                        state[j][current_request.addr] \in Copy \cup {"SM"}
    BY DEF SharedLineMeansShared
  <2>1. current_request.addr \in Lines /\ current_request.dest = i /\ ~Snooped(i)
    BY DEF MustSnoop, DataOnBus, Snooped, IInv, TypeOK, BusTypeOK, Mreq,
           Request, Data, Nodes
  <2>2. Transaction(i, current_request.addr)
    BY <2>1 DEF Transaction
  <2> QED BY <2>1, <2>2 DEF SharedInv
<1> QED BY <1>0, <1>1, <1>2, <1>3, InvariantHolds, WaiterInvHolds, PTL DEF Spec

-------------------------------------------------------------------------------
(* Modified data is never dropped.                                         *)

\* DATA that cache m.src has sent for a writer of line a.
ForWriter(m, a) ==
  /\ m # NULL /\ m.msg = "DATA" /\ m.addr = a /\ m.src # MC
  /\ Transaction(m.dest, a) /\ state[m.dest][a] \in WaitWrite

\* A writer waits on until it takes its DATA, and then has the line in M.
LEMMA WriterGoesOn ==
  ASSUME IInv, [Next]_vars, NEW i \in Nodes, NEW a \in Lines,
         Transaction(i, a), state[i][a] \in WaitWrite
  PROVE  \/ Transaction(i, a)' /\ state'[i][a] \in WaitWrite
         \/ state'[i][a] \in Dirty
<1>1. CASE TakesData(i, a)
  BY <1>1, DataEffect DEF TakesData, FillContract, Dirty
<1>2. CASE ~TakesData(i, a)
  <2>1. Transaction(i, a)'
    BY <1>2, TransactionGoesOn
  <2>2. state[i][a] \in Waiting
    BY Classes
  <2>3. ASSUME NEW j \in Nodes, CacheServe(j) PROVE state'[i][a] \in WaitWrite
    <3>1. i # j \/ a # proc_request[j].addr
      BY <2>2, <2>3, ServeEffect
    <3> QED BY <2>3, <3>1, ServeEffect
  <2>4. ASSUME NEW j \in Nodes, CacheSnoop(j), RequestOnBus
        PROVE  state'[i][a] \in WaitWrite
    BY <2>4, RequestEffect DEF RequestContract
  <2>5. ASSUME NEW j \in Nodes, CacheSnoop(j), DataOnBus
        PROVE  state'[i][a] \in WaitWrite
    <3>1. i # j \/ a # current_request.addr
      BY <1>2, <2>5 DEF TakesData
    <3> QED BY <2>5, <3>1, DataEffect
  <2> QED BY <2>1, <2>3, <2>4, <2>5, WhatChanges
<1> QED BY <1>1, <1>2

\* What is in the reply slot stays there until it is broadcast.
LEMMA ReplyGoesOn ==
  ASSUME IInv, [Next]_vars, data_reply # NULL
  PROVE  data_reply \in {data_reply', current_request'}
<1>1. CASE TickBus
  BY <1>1 DEF TickBus, BusTick, BroadcastRequest, BroadcastData, AwaitData, StayIdle
<1>2. ASSUME NEW j \in Nodes, CacheServe(j) PROVE data_reply' = data_reply
  BY <1>2, ServeEffect
<1>3. ASSUME NEW j \in Nodes, CacheSnoop(j), RequestOnBus
      PROVE  data_reply' = data_reply
  <2>1. state[j][current_request.addr] \notin Owning
    BY <1>3, RequestSnooped DEF IInv, CoherenceInvariant
  <2> QED BY <1>3, <2>1, RequestEffect
<1>4. ASSUME NEW j \in Nodes, CacheSnoop(j) PROVE RequestOnBus
  BY <1>4 DEF CacheSnoop, MustSnoop, RequestOnBus, DataOnBus, IInv, BusInv
<1>5. CASE TickMemory
  BY <1>5, MemoryNeverAborts DEF TickMemory, McTick, Answer, KeepLooking,
                                McAssertions, ReplySlotFree
<1>6. ASSUME NEW j \in Nodes, CacheIdle(j) \/ CachePass(j) \/ TickProcessor(j)
      PROVE  data_reply' = data_reply
  BY <1>6 DEF CacheIdle, CachePass, TickProcessor, busVars
<1>7. CASE Tock \/ UNCHANGED vars
  BY <1>7 DEF Tock, vars, busVars
<1> QED BY <1>1, <1>2, <1>3, <1>4, <1>5, <1>6, <1>7 DEF Next, Ended

LEMMA BroadcastStays ==
  ASSUME IInv, [Next]_vars, NEW i \in Nodes, DataOnBus, ~Snooped(i)
  PROVE  current_request' = current_request
<1>1. ~TickBus
  BY DEF Snooped, TickBus
<1>2. ASSUME NEW j \in Nodes, CacheServe(j) PROVE current_request' = current_request
  BY <1>2, ServeEffect
<1>3. ASSUME NEW j \in Nodes, CacheSnoop(j) PROVE current_request' = current_request
  BY <1>3, DataSnooped
<1> QED BY <1>1, <1>2, <1>3, WhatChanges

\* DATA for a writer reaches it.
LEMMA DataForWriterKept ==
  ASSUME IInv, [Next]_vars, NEW a \in Lines, NEW m \in {data_reply, current_request},
         ForWriter(m, a)
  PROVE  Owned(a)'
<1> DEFINE d == m.dest
<1>1. m \in Data /\ d \in Nodes
  BY DEF ForWriter, IInv, TypeOK, BusTypeOK, Mreq, Request, Data
<1>2. \/ Transaction(d, a)' /\ state'[d][a] \in WaitWrite
      \/ state'[d][a] \in Dirty
  BY <1>1, WriterGoesOn DEF ForWriter
<1>3. m \in {data_reply', current_request'}
  <2>1. CASE m = data_reply
    BY <2>1, ReplyGoesOn DEF ForWriter
  <2>2. CASE m = current_request
    <3>1. DataOnBus /\ ~RequestOnBus
      BY <2>2 DEF ForWriter, DataOnBus, RequestOnBus
    <3>2. ~request_in_progress /\ data_reply = NULL
      BY <3>1 DEF IInv, BusInv
    <3>3. ~Snooped(d)
      BY <2>2, <3>1, <3>2 DEF ForWriter, Transaction
    <3> QED BY <1>1, <2>2, <3>1, <3>3, BroadcastStays
  <2> QED BY <2>1, <2>2
<1>4. m # NULL /\ m.msg = "DATA" /\ m.addr = a /\ m.src # MC
  BY DEF ForWriter
<1> HIDE DEF d
<1>5. CASE state'[d][a] \in Dirty
  BY <1>1, <1>5 DEF Owned
<1>6. CASE Transaction(d, a)' /\ state'[d][a] \in WaitWrite
  BY <1>3, <1>4, <1>6 DEF Owned, d
<1> QED BY <1>2, <1>5, <1>6

\* A cache that gives a modified line up has sent it to a writer.
LEMMA OwnerHandsOver ==
  ASSUME IInv, [Next]_vars, protocol \notin {"MSI", "MESI"},
         NEW i \in Nodes, NEW a \in Lines, state[i][a] \in Dirty,
         state'[i][a] \notin Dirty
  PROVE  Owned(a)'
<1>1. ASSUME NEW j \in Nodes, CacheServe(j) PROVE FALSE
  <2>1. i = j /\ a = proc_request[j].addr
    BY <1>1, ServeEffect
  <2> QED BY <1>1, <2>1, ServeEffect DEF AccessContract
<1>2. ASSUME NEW j \in Nodes, CacheSnoop(j), DataOnBus PROVE FALSE
  <2>1. i = j /\ a = current_request.addr
    BY <1>2, DataEffect
  <2>2. state[i][a] \in Waiting
    BY <1>2, <2>1, DataSnooped
  <2>3. state[i][a] \in WaitWrite
    BY <2>2 DEF Dirty, Waiting, WaitWrite, WaitRead
  <2> QED BY <1>2, <2>1, <2>3, DataEffect DEF FillContract, Dirty
<1>3. ASSUME NEW j \in Nodes, CacheSnoop(j), RequestOnBus PROVE Owned(a)'
  <2> DEFINE out == SnoopOutcome(i)
  <2>1. PICK d \in Nodes : d = current_request.src
    BY <1>3, RequestSnooped
  <2>2. i = j /\ a = current_request.addr
    BY <1>3, RequestEffect
  <2>3. /\ RequestContract(protocol, state[i][a], current_request.msg,
                           current_request.src = i, out)
        /\ state'[i][a] = out.state
    BY <1>3, <2>2, RequestEffect
  <2> HIDE DEF out
  <2>4. current_request.msg = "GETM" \/ protocol = "MI"
    BY <2>3 DEF RequestContract
  <2>5. d \in Nodes /\ current_request.msg \in {"GETS", "GETM"} /\ ~DataOnBus
    BY <1>3, <2>1, RequestSnooped
  <2>6. Transaction(d, a)
    BY <1>3, <2>1, <2>2 DEF Transaction
  <2>7. state[d][a] \in WaitWrite
    <3>1. CASE current_request.msg = "GETM"
      BY <1>3, <2>1, <2>2, <3>1 DEF IInv, BusInv, AsksFor
    <3>2. CASE protocol = "MI"
      <4>1. state[d][a] \in {"I", "IM", "M"}
        BY <2>5, <3>2, StatesOfSound DEF IInv, ProtocolInv
      <4>2. state[d][a] \in Waiting
        BY <2>5, <2>6 DEF IInv, TransactionInv
      <4> QED BY <4>1, <4>2 DEF Waiting, WaitRead, WaitWrite
    <3> QED BY <2>4, <3>1, <3>2
  <2>8. \/ Transaction(d, a)' /\ state'[d][a] \in WaitWrite
        \/ state'[d][a] \in Dirty
    BY <2>5, <2>6, <2>7, WriterGoesOn
  <2>9. data_reply' = [msg |-> "DATA", addr |-> a, src |-> i, dest |-> d]
    <3>1. state[i][a] \in Owning
      BY DEF Dirty, Owning
    <3> QED BY <1>3, <2>1, <2>2, <3>1, RequestEffect
  <2>10. data_reply' # NULL /\ i # MC
    BY <2>5, <2>9, NullAssumption, NodesAssumption DEF Data, Mreq, MC, Nodes
  <2>11. CASE state'[d][a] \in Dirty
    BY <2>5, <2>11 DEF Owned
  <2>12. CASE Transaction(d, a)' /\ state'[d][a] \in WaitWrite
    BY <2>9, <2>10, <2>12 DEF Owned
  <2> QED BY <2>8, <2>11, <2>12
<1> QED BY <1>1, <1>2, <1>3, WhatChanges

\* With MI, MOSI and two caches of MOESI responsibility for a modified line
\* passes from cache to cache: the last owner gives it up only by the DATA
\* it sends to a writer, and the writer gets it.
THEOREM OwnershipConservedHolds ==
  ASSUME Protocols \subseteq Sound
  PROVE  Spec => OwnershipConserved
<1>1. ASSUME IInv, [Next]_vars, protocol \notin {"MSI", "MESI"},
             NEW a \in Lines, Owned(a)
      PROVE  Owned(a)'
  <2>1. CASE \E i \in Nodes : state[i][a] \in Dirty
    <3>1. PICK i \in Nodes : state[i][a] \in Dirty
      BY <2>1
    <3>2. CASE state'[i][a] \in Dirty
      BY <3>2 DEF Owned
    <3> QED BY <1>1, <3>1, <3>2, OwnerHandsOver
  <2>2. CASE \E m \in {data_reply, current_request} : ForWriter(m, a)
    BY <1>1, <2>2, DataForWriterKept
  <2> QED BY <1>1, <2>1, <2>2 DEF Owned, ForWriter
<1>2. IInv /\ [Next]_vars =>
        [protocol \notin {"MSI", "MESI"} /\ phase' # "aborted" =>
           \A a \in Lines : Owned(a) => Owned(a)']_vars
  BY <1>1
<1> QED BY <1>2, InvariantHolds, PTL DEF Spec, OwnershipConserved

-------------------------------------------------------------------------------
(* No node waits for ever: how many cycles are left until it has its DATA. *)

LEMMA Services ==
  /\ num_nodes \in Nat \ {0}
  /\ Service \in Nat /\ Service = hit_time + 2
  /\ \A k \in Int : k * Service \in Int
  /\ \A k \in Int : (k - 1) * Service = k * Service - Service
  /\ \A k, l \in Int : k <= l => k * Service <= l * Service
  /\ \A k \in Int : 1 <= k => Service <= k * Service
<1>1. num_nodes \in Nat \ {0} /\ Service \in Nat /\ Service = hit_time + 2
  BY NodesAssumption, HitTimeAssumption DEF Service
<1> HIDE DEF Service
<1>2. ASSUME NEW k \in Int PROVE k * Service \in Int
  BY <1>1
<1>3. ASSUME NEW k \in Int PROVE (k - 1) * Service = k * Service - Service
  BY <1>1
<1>4. ASSUME NEW k \in Int, NEW l \in Int, k <= l PROVE k * Service <= l * Service
  <2>1. (l - k) * Service \in Nat
    BY <1>1, <1>4
  <2>2. (l - k) * Service = l * Service - k * Service
    BY <1>1
  <2> QED BY <1>2, <2>1, <2>2
<1>5. 1 * Service = Service
  BY <1>1
<1>6. ASSUME NEW k \in Int, 1 <= k PROVE Service <= k * Service
  <2>1. 1 * Service <= k * Service
    BY <1>4, <1>6
  <2> QED BY <1>5, <2>1
<1> QED BY <1>1, <1>2, <1>3, <1>4, <1>6

\* A request in progress has its node, which has no other in the queue.
LEMMA SomebodyIsServed ==
  ASSUME IInv, request_in_progress
  PROVE  \E i \in Nodes : /\ \E a \in Lines : Transaction(i, a)
                          /\ Places(i) = {}
<1>1. \E i \in Nodes, a \in Lines : Transaction(i, a)
  <2>1. CASE RequestOnBus
    BY <2>1 DEF Transaction, RequestOnBus, IInv, TypeOK, BusTypeOK, Mreq, Request, Data
  <2>2. CASE data_reply # NULL
    BY <2>2 DEF Transaction, IInv, TypeOK, BusTypeOK, Data
  <2>3. CASE ~RequestOnBus /\ data_reply = NULL
    <3>1. lookup # NULL
      BY <2>3 DEF IInv, ControlInv, BusInv
    <3> QED BY <3>1 DEF Transaction, IInv, TypeOK, McTypeOK, Lookup
  <2> QED BY <2>1, <2>2, <2>3
<1>2. DOMAIN pending_requests = 1 .. Len(pending_requests)
  BY DEF IInv, TypeOK, BusTypeOK
<1> QED BY <1>1, <1>2 DEF Places, IInv, QueueInv

\* The bus never has more to do than one request of every node.
LEMMA QueueIsShort ==
  ASSUME IInv
  PROVE  /\ Len(pending_requests) \in Nat
         /\ Len(pending_requests) <= num_nodes
         /\ request_in_progress => Len(pending_requests) <= num_nodes - 1
<1> DEFINE q == pending_requests
           n == Len(q)
<1>1. n \in Nat /\ DOMAIN q = 1 .. n
  BY DEF IInv, TypeOK, BusTypeOK
<1>2. \A k \in 1 .. n : q[k].src \in Nodes
  BY QueueTyped DEF IInv
<1>3. \A k, l \in 1 .. n : k # l => q[k].src # q[l].src
  BY DEF IInv, QueueInv
<1>4. IsFiniteSet(Nodes) /\ Cardinality(Nodes) = num_nodes
  BY FS_Interval, NodesAssumption DEF Nodes
<1> HIDE DEF n
<1>5. CASE ~request_in_progress
  <2> DEFINE f == [k \in 1 .. n |-> q[k].src]
  <2>1. f \in Injection(1 .. n, Nodes)
    BY <1>2, <1>3, Zenon DEF Injection, IsInjective
  <2>2. Cardinality(1 .. n) <= num_nodes
    BY <1>4, <2>1, FS_Injection
  <2>3. Cardinality(1 .. n) = n
    BY <1>1, FS_Interval
  <2> QED BY <1>1, <1>5, <2>2, <2>3 DEF n
<1>6. CASE request_in_progress
  <2>1. PICK i \in Nodes : Places(i) = {}
    BY <1>6, SomebodyIsServed
  <2>2. \A k \in 1 .. n : q[k].src # i
    BY <1>1, <2>1 DEF Places
  <2> DEFINE f == [k \in 0 .. n |-> IF k = 0 THEN i ELSE q[k].src]
  <2>3. \A k \in 0 .. n : k = 0 \/ k \in 1 .. n
    BY <1>1
  <2>4. f \in Injection(0 .. n, Nodes)
    <3>1. \A k \in 0 .. n : f[k] \in Nodes
      BY <1>2, <2>3
    <3>2. \A k, l \in 0 .. n : f[k] = f[l] => k = l
      BY <1>3, <2>2, <2>3
    <3> QED BY <3>1, <3>2 DEF Injection, IsInjective
  <2>5. Cardinality(0 .. n) <= num_nodes
    BY <1>4, <2>4, FS_Injection
  <2>6. Cardinality(0 .. n) = n + 1
    BY <1>1, FS_Interval
  <2>7. n \in Int /\ n + 1 <= num_nodes
    BY <1>1, <2>5, <2>6
  <2>8. n <= num_nodes /\ n <= num_nodes - 1 /\ n \in Nat
    BY <1>1, <2>7, NodesAssumption
  <2> QED BY <2>8 DEF n
<1> QED BY <1>5, <1>6

LEMMA DataLeftInRange ==
  ASSUME IInv, request_in_progress
  PROVE  /\ DataLeft \in 0 .. Service - 1
         /\ phase # "bus_tick" => DataLeft >= 1
BY HitTimeAssumption DEF DataLeft, Service, IInv, TypeOK, McTypeOK

\* What CyclesLeft is, without its choice: a node has one place in the queue.
CyclesLeftIs(i, n) ==
  IF proc_request[i] # NULL
    THEN n = num_nodes * Service + IF phase \in {"tick_pr", "tick_mc", "tock"} THEN 1 ELSE 0
  ELSE IF Places(i) # {}
    THEN \A k \in Places(i) :
           n = k * Service
                 + IF request_in_progress THEN DataLeft ELSE IF phase = "bus_tick" THEN -1 ELSE 0
  ELSE n = IF request_in_progress THEN DataLeft ELSE 0

PlacesInv ==
  \A i \in Nodes :
    /\ Places(i) \subseteq 1 .. Len(pending_requests)
    /\ \A k, l \in Places(i) : k = l
    /\ CyclesLeftIs(i, CyclesLeft(i))

LEMMA PlacesInvHolds ==
  IInv => PlacesInv
<1> SUFFICES ASSUME IInv, NEW i \in Nodes
             PROVE  /\ Places(i) \subseteq 1 .. Len(pending_requests)
                    /\ \A k, l \in Places(i) : k = l
                    /\ CyclesLeftIs(i, CyclesLeft(i))
  BY DEF PlacesInv
<1>1. DOMAIN pending_requests = 1 .. Len(pending_requests)
  BY DEF IInv, TypeOK, BusTypeOK
<1>2. /\ Places(i) \subseteq 1 .. Len(pending_requests)
      /\ \A k, l \in Places(i) : k = l
  BY <1>1 DEF Places, IInv, QueueInv
<1>3. \A k \in Places(i) : Place(i) = k
  BY <1>2 DEF Place
<1>4. CyclesLeftIs(i, CyclesLeft(i))
  BY <1>3 DEF CyclesLeftIs, CyclesLeft
<1> QED BY <1>2, <1>4

LEMMA CyclesInvHolds ==
  IInv => CyclesInv
<1> SUFFICES ASSUME IInv, NEW i \in Nodes
             PROVE  /\ CyclesLeft(i) \in 0 .. num_nodes * Service + 1
                    /\ proc_request[i] = NULL => CyclesLeft(i) <= num_nodes * Service
  BY DEF CyclesInv
<1> DEFINE n == num_nodes * Service
<1>1. n \in Int /\ n >= Service /\ Service \in Int /\ Service >= 2
  <2>1. num_nodes \in Int /\ 1 <= num_nodes
    BY NodesAssumption
  <2>2. n \in Int /\ Service <= n
    BY <2>1, Services
  <2> QED BY <2>2, Services, HitTimeAssumption
<1>2. /\ Places(i) \subseteq 1 .. Len(pending_requests)
      /\ CyclesLeftIs(i, CyclesLeft(i))
  BY PlacesInvHolds DEF PlacesInv
<1> DEFINE c == CyclesLeft(i)
<1>3. CASE proc_request[i] # NULL
  <2>1. c = n + IF phase \in {"tick_pr", "tick_mc", "tock"} THEN 1 ELSE 0
    BY <1>2, <1>3 DEF CyclesLeftIs
  <2> HIDE DEF n, c
  <2>2. c \in 0 .. n + 1
    BY <1>1, <2>1
  <2> QED BY <1>3, <2>2 DEF n, c
<1>4. CASE proc_request[i] = NULL /\ Places(i) # {}
  <2> DEFINE rest == IF request_in_progress THEN DataLeft
                     ELSE IF phase = "bus_tick" THEN -1 ELSE 0
  <2>1. PICK k \in 1 .. Len(pending_requests) : c = k * Service + rest
    BY <1>2, <1>4 DEF CyclesLeftIs
  <2> DEFINE m == k * Service
  <2>2. /\ k \in Int /\ 1 <= k
        /\ k <= num_nodes
        /\ request_in_progress => k <= num_nodes - 1
    BY QueueIsShort, NodesAssumption
  <2>3. num_nodes \in Int
    BY NodesAssumption
  <2>4. /\ m \in Int /\ Service <= m /\ m <= n
        /\ request_in_progress => m <= n - Service
    <3>1. Service <= m /\ m <= n /\ m \in Int
      BY <2>2, <2>3, Services
    <3>2. request_in_progress => m <= (num_nodes - 1) * Service
      BY <2>2, <2>3, Services
    <3>3. (num_nodes - 1) * Service = n - Service
      BY <2>3, Services
    <3> QED BY <3>1, <3>2, <3>3
  <2>5. /\ rest \in Int /\ -1 <= rest
        /\ IF request_in_progress THEN rest <= Service - 1 ELSE rest <= 0
    BY <1>1, DataLeftInRange
  <2> HIDE DEF m, n, c, rest
  <2>6. c = m + rest
    BY <2>1 DEF m
  <2>7. c \in 0 .. n
    BY <1>1, <2>4, <2>5, <2>6
  <2>8. c \in 0 .. n + 1 /\ c <= n
    BY <1>1, <2>7
  <2> QED BY <2>8 DEF n, c
<1>5. CASE proc_request[i] = NULL /\ Places(i) = {}
  <2>1. c = IF request_in_progress THEN DataLeft ELSE 0
    BY <1>2, <1>5 DEF CyclesLeftIs
  <2>2. request_in_progress => DataLeft \in 0 .. Service - 1
    BY DataLeftInRange
  <2> HIDE DEF n, c
  <2>3. c \in 0 .. n + 1 /\ c <= n
    BY <1>1, <2>1, <2>2
  <2> QED BY <2>3 DEF n, c
<1> QED BY <1>3, <1>4, <1>5

\* Whose turn it is next, and in which phase.
LEMMA WhoIsNext ==
  ASSUME TypeOK, NEW again, NEW after, NextTurn(again, after)
  PROVE  \/ phase' = again /\ turn' = turn + 1
         \/ phase' = after /\ turn' = 0 /\ \A i \in Nodes : i <= turn
BY NodesAssumption DEF NextTurn, TypeOK, Nodes

LEMMA MemoryKeepsTime ==
  ASSUME IInv, IInv', TickMemory
  PROVE  phase' = "tock" /\ request_in_progress' /\ data_reply' = NULL => data_time' > 0
<1> SUFFICES ASSUME request_in_progress', data_reply' = NULL
             PROVE  data_time' > 0
  OBVIOUS
<1>1. McTick /\ request_in_progress /\ phase = "tick_mc" /\ phase' = "tock"
  BY MemoryNeverAborts DEF TickMemory
<1>2. LookupNow \in Lookup
  <2>1. CASE RequestOnBus
    <3>1. current_request.addr \in Lines /\ current_request.src \in Nodes
      BY <2>1 DEF RequestOnBus, IInv, TypeOK, BusTypeOK, Mreq, Request, Data
    <3> QED BY <2>1, <3>1 DEF LookupNow, Lookup
  <2>2. CASE ~RequestOnBus
    <3>1. ~DataOnBus /\ lookup # NULL
      BY <1>1, <2>2 DEF IInv, BusInv, BeforeMemory
    <3> QED BY <2>2, <3>1 DEF LookupNow, IInv, TypeOK, McTypeOK
  <2> QED BY <2>1, <2>2
<1>3. ~Answer
  <2> DEFINE d == [msg |-> "DATA", addr |-> LookupNow.addr, src |-> MC,
                   dest |-> LookupNow.target]
  <2>1. d \in Data
    BY <1>2 DEF Lookup, Data
  <2>2. d # NULL
    BY <2>1, NullAssumption DEF Mreq
  <2> QED BY <2>2 DEF Answer, SendData
<1>4. data_time' = DataTimeNow /\ DataTimeNow # 0
  BY <1>1, <1>2, <1>3, NullAssumption DEF McTick, KeepLooking, AnswerDue
<1> QED BY <1>4 DEF IInv, TypeOK, McTypeOK

LEMMA CycleInvStep ==
  ASSUME IInv, IInv', CycleInv, [Next]_vars
  PROVE  CycleInv'
<1> DEFINE Early(i) == /\ phase = "cache_request" => turn <= i
                       /\ phase = "cache_snoop" => turn < i
                       /\ phase = "tick_pr" => i < turn
           Looked == phase = "tock" /\ request_in_progress /\ data_reply = NULL =>
                       data_time > 0
<1>1. SUFFICES (\A i \in Nodes : proc_request'[i] # NULL => Early(i)') /\ Looked'
  BY DEF CycleInv
<1>2. (\A i \in Nodes : proc_request[i] # NULL => Early(i)) /\ Looked
  BY DEF CycleInv
<1>3. \A i \in Nodes : i \in Nat
  BY DEF Nodes
<1>4. turn \in Nat
  BY DEF IInv, TypeOK, Nodes
<1>5. CASE TickBus
  BY <1>3, <1>5 DEF TickBus, IInv, ControlInv, prVars
<1>6. ASSUME NEW j \in Nodes, CacheIdle(j)
      PROVE  (\A i \in Nodes : proc_request'[i] # NULL => Early(i)') /\ Looked'
  <2>1. /\ phase = "cache_request" /\ turn = j /\ proc_request[j] = NULL
        /\ phase' = "cache_snoop" /\ turn' = turn /\ proc_request' = proc_request
    BY <1>6 DEF CacheIdle, prVars
  <2> QED BY <1>2, <1>3, <2>1
<1>7. ASSUME NEW j \in Nodes, CacheServe(j)
      PROVE  (\A i \in Nodes : proc_request'[i] # NULL => Early(i)') /\ Looked'
  <2>1. /\ phase = "cache_request" /\ turn = j
        /\ phase' = "cache_snoop" /\ turn' = turn
        /\ proc_request' = [proc_request EXCEPT ![j] = NULL]
    BY <1>7, ServeEffect DEF CacheServe
  <2>2. \A i \in Nodes : proc_request'[i] # NULL => i # j /\ proc_request[i] # NULL
    BY <2>1 DEF IInv, TypeOK, PrTypeOK
  <2> QED BY <1>2, <1>3, <2>1, <2>2
<1>8. ASSUME NEW j \in Nodes, CachePass(j) \/ CacheSnoop(j)
      PROVE  (\A i \in Nodes : proc_request'[i] # NULL => Early(i)') /\ Looked'
  <2>1. /\ phase = "cache_snoop" /\ turn = j
        /\ NextTurn("cache_request", "tick_pr") /\ proc_request' = proc_request
    BY <1>8, RequestSnooped, DataSnooped
       DEF CachePass, CacheSnoop, MustSnoop, RequestOnBus, DataOnBus, prVars
  <2>2. \/ phase' = "cache_request" /\ turn' = turn + 1
        \/ phase' = "tick_pr" /\ turn' = 0 /\ \A i \in Nodes : i <= turn
    BY <2>1, WhoIsNext DEF IInv
  <2> QED BY <1>2, <1>3, <1>4, <2>1, <2>2
<1>9. ASSUME NEW j \in Nodes, TickProcessor(j)
      PROVE  (\A i \in Nodes : proc_request'[i] # NULL => Early(i)') /\ Looked'
  <2>1. /\ phase = "tick_pr" /\ turn = j
        /\ \A i \in Nodes : i # j => proc_request'[i] = proc_request[i]
    BY <1>9 DEF TickProcessor, PrTick, Rest, Fetch, ReachEnd, IInv, TypeOK, PrTypeOK
  <2>2. \/ phase' = "tick_pr" /\ turn' = turn + 1
        \/ phase' = "tick_mc" /\ turn' = 0
    BY <1>9, WhoIsNext DEF TickProcessor, IInv
  <2>3. ASSUME NEW i \in Nodes, proc_request'[i] # NULL PROVE Early(i)'
    <3>1. i \in Nat /\ i <= turn
      <4>1. CASE i = j
        BY <1>3, <2>1, <4>1
      <4>2. CASE i # j
        <5>1. i < turn
          BY <1>2, <2>1, <2>3, <4>2
        <5> QED BY <1>3, <1>4, <5>1
      <4> QED BY <4>1, <4>2
    <3> QED BY <1>4, <2>2, <3>1
  <2> QED BY <2>2, <2>3
<1>10. CASE TickMemory
  <2>1. phase' = "tock"
    BY <1>10, MemoryNeverAborts DEF TickMemory
  <2> QED BY <1>10, <2>1, MemoryKeepsTime
<1>11. CASE Tock
  BY <1>11 DEF Tock
<1>12. CASE UNCHANGED vars
  BY <1>2, <1>12 DEF vars, busVars, mcVars, prVars
<1> QED BY <1>5, <1>6, <1>7, <1>8, <1>9, <1>10, <1>11, <1>12 DEF Next, Ended

\* In the course of a cycle the DATA in progress comes no later than was left.
LEMMA DataComesNoLater ==
  ASSUME IInv, IInv', [Next]_vars, phase \notin {"bus_tick", "tock"}
  PROVE  /\ request_in_progress' = request_in_progress
         /\ request_in_progress => DataLeft' <= DataLeft
<1> DEFINE Goal == /\ request_in_progress' = request_in_progress
                   /\ request_in_progress => DataLeft' <= DataLeft
<1>1. request_in_progress => DataLeft \in Int /\ DataLeft >= 1
  BY DataLeftInRange, Services
<1>2. ASSUME UNCHANGED <<data_reply, current_request, request_in_progress, lookup,
                         data_time>>,
             phase' # "bus_tick"
      PROVE  Goal
  <2>1. request_in_progress => DataLeft' = DataLeft
    BY <1>2 DEF DataLeft, RequestOnBus
  <2> QED BY <1>1, <1>2, <2>1
<1>3. ASSUME NEW j \in Nodes, CacheIdle(j) \/ CachePass(j) \/ TickProcessor(j)
      PROVE  Goal
  <2>1. phase' # "bus_tick"
    BY <1>3 DEF CacheIdle, CachePass, TickProcessor, NextTurn
  <2> QED BY <1>2, <1>3, <2>1 DEF CacheIdle, CachePass, TickProcessor, busVars, mcVars
<1>4. ASSUME NEW j \in Nodes, CacheServe(j) PROVE Goal
  <2>1. data_time' = data_time
    BY <1>4, AccessServed DEF CacheServe, mcVars
  <2> QED BY <1>2, <1>4, <2>1, ServeEffect
<1>5. ASSUME NEW j \in Nodes, CacheSnoop(j), RequestOnBus PROVE Goal
  <2>1. /\ NextTurn("cache_request", "tick_pr")
        /\ UNCHANGED <<current_request, request_in_progress, lookup>>
    BY <1>5, RequestSnooped
  <2>2. phase' # "aborted" /\ phase' # "bus_tick"
    BY <2>1 DEF NextTurn
  <2>3. data_time' = data_time
    BY <1>5, <2>2 DEF CacheSnoop, Abort, mcVars
  <2>4. CASE data_reply' = data_reply
    BY <1>2, <2>1, <2>2, <2>3, <2>4
  <2>5. CASE data_reply' # data_reply
    <3>1. data_reply' # NULL
      <4>1. data_reply' = [msg |-> "DATA", addr |-> current_request.addr, src |-> j,
                           dest |-> current_request.src]
        BY <1>5, <2>5, RequestEffect
      <4> QED BY <1>5, <4>1, RequestSnooped, NullAssumption DEF Data, Mreq
    <3>2. DataLeft' = 1
      BY <2>2, <3>1 DEF DataLeft
    <3> QED BY <1>1, <2>1, <3>2
  <2> QED BY <2>4, <2>5
<1>6. ASSUME NEW j \in Nodes, CacheSnoop(j), DataOnBus PROVE Goal
  BY <1>6, DataSnooped DEF IInv, BusInv
<1>7. ASSUME NEW j \in Nodes, CacheSnoop(j) PROVE RequestOnBus \/ DataOnBus
  BY <1>7 DEF CacheSnoop, MustSnoop, RequestOnBus, DataOnBus
<1>8. CASE TickMemory
  <2>1. /\ McTick /\ phase = "tick_mc" /\ phase' = "tock"
        /\ UNCHANGED <<current_request, request_in_progress>>
    BY <1>8, MemoryNeverAborts DEF TickMemory
  <2>2. CASE request_in_progress /\ data_reply' # NULL
    <3>1. DataLeft' = 1
      BY <2>1, <2>2 DEF DataLeft
    <3> QED BY <1>1, <2>1, <3>1
  <2>3. CASE request_in_progress /\ data_reply' = NULL
    <3>1. data_reply = NULL
      <4>1. CASE Answer
        BY <1>8, <2>1, <4>1, MemoryNeverAborts DEF Answer, McAssertions, ReplySlotFree
      <4>2. CASE KeepLooking
        BY <2>3, <4>2 DEF KeepLooking
      <4> QED BY <2>1, <4>1, <4>2 DEF McTick
    <3>2. lookup' # NULL /\ lookup' = LookupNow /\ data_time' = DataTimeNow
      <4>1. lookup' # NULL
        BY <1>8, <2>1, <2>3 DEF IInv, BusInv, AfterMemory
      <4> QED BY <2>1, <4>1 DEF McTick, Answer, KeepLooking
    <3>3. DataLeft' = data_time' + 1
      BY <2>1, <2>3, <3>2 DEF DataLeft
    <3>4. DataLeft = DataTimeNow + 1
      BY <2>1, <2>3, <3>1 DEF DataLeft, DataTimeNow, IInv, BusInv, BeforeMemory
    <3> QED BY <1>1, <2>1, <2>3, <3>2, <3>3, <3>4
  <2> QED BY <2>1, <2>2, <2>3
<1>9. CASE UNCHANGED vars
  BY <1>2, <1>9 DEF vars, busVars, mcVars
<1> QED BY <1>3, <1>4, <1>5, <1>6, <1>7, <1>8, <1>9 DEF Next, Ended, TickBus, Tock

LEMMA NextPlaces ==
  IInv' => PlacesInv' /\ CyclesInv'
BY PlacesInvHolds, CyclesInvHolds, PTL

\* Only the bus takes a request out of the queue, and a node puts in its own.
LEMMA PlaceIsKept ==
  ASSUME IInv, IInv', [Next]_vars, ~TickBus, NEW i \in Nodes, ~CacheServe(i)
  PROVE  Places(i)' = Places(i)
<1> DEFINE q == pending_requests
<1>1. CASE q' = q
  BY <1>1 DEF Places
<1>2. ASSUME NEW j \in Nodes, CacheServe(j) PROVE Places(i)' = Places(i)
  <2>1. CASE q' # q
    <3>1. PICK m \in Request : m.src = j /\ q' = Append(q, m)
      BY <1>2, <2>1, ServeEffect
    <3>2. /\ q \in Seq(Request) /\ q' \in Seq(Request)
          /\ DOMAIN q = 1 .. Len(q) /\ DOMAIN q' = 1 .. Len(q') /\ Len(q) \in Nat
      BY DEF IInv, TypeOK, BusTypeOK
    <3>3. /\ Len(q') = Len(q) + 1
          /\ \A k \in 1 .. Len(q) + 1 : q'[k] = IF k = Len(q) + 1 THEN m ELSE q[k]
      BY <3>1, <3>2, AtTheBack
    <3>4. i # j
      BY <1>2
    <3> HIDE DEF q
    <3> QED BY <3>1, <3>2, <3>3, <3>4 DEF Places, q
  <2> QED BY <1>1, <2>1
<1>3. ASSUME NEW j \in Nodes, CacheSnoop(j) PROVE q' = q
  BY <1>3, RequestEffect, DataEffect DEF CacheSnoop, MustSnoop, RequestOnBus, DataOnBus
<1> QED BY <1>1, <1>2, <1>3, WhatChanges

\* Outside a tick of the caches a node that waits for something else than the
\* queue waits for the request in progress.
LEMMA InProgressForWaiter ==
  ASSUME IInv, WaiterInv, AfterMemory, NEW i \in Nodes, Waits(i),
         proc_request[i] = NULL, Places(i) = {}
  PROVE  request_in_progress
<1>1. PICK a \in Lines : state[i][a] \in Waiting
  BY DEF Waits
<1>2. ~Queued(i, a)
  BY DEF Queued, Places, IInv, TypeOK, BusTypeOK
<1>3. Transaction(i, a)
  BY <1>1, <1>2 DEF WaiterInv
<1>4. Snooped(i)
  BY DEF AfterMemory, Snooped
<1> QED BY <1>3, <1>4, NoTransaction DEF IInv, BusInv

LEMMA NoLaterInsideCycle ==
  ASSUME IInv, IInv', [Next]_vars, phase \notin {"bus_tick", "tock"}, NEW i \in Nodes,
         proc_request'[i] = proc_request[i], Places(i)' = Places(i),
         proc_request[i] # NULL =>
           (phase' \in {"tick_pr", "tick_mc", "tock"} => phase \in {"tick_pr", "tick_mc", "tock"})
  PROVE  CyclesLeft(i)' <= CyclesLeft(i)
<1> DEFINE p == proc_request[i] # NULL
           r == request_in_progress
<1>1. /\ CyclesLeftIs(i, CyclesLeft(i)) /\ CyclesLeftIs(i, CyclesLeft(i))'
      /\ Places(i) \subseteq Int
  BY PlacesInvHolds, NextPlaces DEF PlacesInv
<1>2. /\ r' = r
      /\ r => DataLeft' \in Int /\ DataLeft \in Int /\ DataLeft' <= DataLeft
  <2>1. DataLeft \in Int /\ DataLeft' \in Int
    BY HitTimeAssumption DEF DataLeft, IInv, TypeOK, McTypeOK
  <2> QED BY <2>1, DataComesNoLater
<1>3. num_nodes * Service \in Int /\ \A k \in Int : k * Service \in Int
  BY Services
<1>4. CASE p
  BY <1>1, <1>3, <1>4 DEF CyclesLeftIs
<1>5. CASE ~p /\ Places(i) # {}
  <2>1. PICK k \in Places(i) : TRUE
    BY <1>5
  <2>2. phase' # "bus_tick"
    <3>1. ASSUME NEW j \in Nodes, CacheServe(j) \/ CacheSnoop(j) PROVE phase' # "bus_tick"
      BY <3>1, ServeEffect, RequestSnooped, DataSnooped
         DEF CacheSnoop, MustSnoop, RequestOnBus, DataOnBus, NextTurn
    <3> QED BY <3>1, MemoryNeverAborts
            DEF Next, TickBus, CacheIdle, CachePass, TickProcessor, TickMemory, Tock,
                Ended, NextTurn, vars
  <2>3. CyclesLeft(i) = k * Service + IF r THEN DataLeft ELSE 0
    BY <1>1, <1>5, <2>1 DEF CyclesLeftIs
  <2>4. CyclesLeft(i)' = k * Service + IF r THEN DataLeft' ELSE 0
    BY <1>1, <1>2, <1>5, <2>1, <2>2 DEF CyclesLeftIs
  <2>5. k * Service \in Int
    BY <1>1, <1>3, <2>1
  <2> QED BY <1>2, <2>3, <2>4, <2>5
<1>6. CASE ~p /\ Places(i) = {}
  BY <1>1, <1>2, <1>6 DEF CyclesLeftIs
<1> QED BY <1>4, <1>5, <1>6

\* A node whose access is with the cache is not the one that is ticked, but for
\* the tick in which the cache serves it.
LEMMA NoLaterByOtherTicks ==
  ASSUME IInv, IInv', CycleInv, [Next]_vars, phase \notin {"bus_tick", "tock"},
         NEW i \in Nodes, ~CacheServe(i), Waits(i)
  PROVE  CyclesLeft(i)' <= CyclesLeft(i)
<1>1. Places(i)' = Places(i)
  BY PlaceIsKept DEF TickBus
<1>2. i \in Nat /\ turn \in Nat
  BY DEF IInv, TypeOK, Nodes
<1> DEFINE Late == {"tick_pr", "tick_mc", "tock"}
           Goal == /\ proc_request'[i] = proc_request[i]
                   /\ proc_request[i] # NULL => (phase' \in Late => phase \in Late)
<1>3. ASSUME NEW j \in Nodes, CacheIdle(j) PROVE Goal
  BY <1>3 DEF CacheIdle, prVars
<1>4. ASSUME NEW j \in Nodes, CacheServe(j) PROVE Goal
  <2>1. j # i
    BY <1>4
  <2> QED BY <1>4, <2>1, ServeEffect DEF IInv, TypeOK, PrTypeOK
<1>5. ASSUME NEW j \in Nodes, CachePass(j) \/ CacheSnoop(j) PROVE Goal
  <2>1. /\ phase = "cache_snoop" /\ proc_request' = proc_request
        /\ NextTurn("cache_request", "tick_pr")
    BY <1>5, RequestSnooped, DataSnooped
       DEF CachePass, CacheSnoop, MustSnoop, RequestOnBus, DataOnBus, prVars
  <2>2. phase' = "cache_request" \/ i <= turn
    BY <2>1, WhoIsNext DEF IInv
  <2>3. proc_request[i] # NULL => turn < i
    BY <2>1 DEF CycleInv
  <2> QED BY <1>2, <2>1, <2>2, <2>3
<1>6. ASSUME NEW j \in Nodes, TickProcessor(j) PROVE Goal
  <2>1. phase = "tick_pr" /\ turn = j
    BY <1>6 DEF TickProcessor
  <2>2. CASE j # i
    BY <1>6, <2>1, <2>2
       DEF TickProcessor, PrTick, Rest, Fetch, ReachEnd, IInv, TypeOK, PrTypeOK
  <2>3. CASE j = i
    <3>1. proc_request[i] = NULL
      BY <1>2, <2>1, <2>3 DEF CycleInv
    <3>2. Busy(i)
      BY <3>1 DEF Waits, Busy, IInv, ProcessorInv
    <3> QED BY <1>6, <2>1, <2>3, <3>2 DEF TickProcessor, PrTick, Rest, Fetch, ReachEnd
  <2> QED BY <2>2, <2>3
<1>7. ASSUME TickMemory PROVE Goal
  BY <1>7, MemoryNeverAborts DEF TickMemory, prVars
<1>8. ASSUME UNCHANGED vars PROVE Goal
  BY <1>8 DEF vars, prVars
<1>9. Goal
  BY <1>3, <1>4, <1>5, <1>6, <1>7, <1>8 DEF Next, TickBus, Tock, Ended
<1> QED BY <1>1, <1>9, NoLaterInsideCycle

\* The cache's turn costs a node no more than it has allowed for the queue.
LEMMA NoLaterOnceServed ==
  ASSUME IInv, IInv', NEW i \in Nodes, CacheServe(i)
  PROVE  CyclesLeft(i)' <= CyclesLeft(i)
<1>1. /\ proc_request[i] # NULL /\ phase = "cache_request"
      /\ proc_request'[i] = NULL
  BY ServeEffect DEF CacheServe, IInv, TypeOK, PrTypeOK
<1>2. CyclesLeft(i) = num_nodes * Service + 0
  BY <1>1, PlacesInvHolds DEF PlacesInv, CyclesLeftIs
<1>3. CyclesLeft(i)' <= num_nodes * Service
  BY <1>1, NextPlaces DEF CyclesInv
<1> QED BY <1>2, <1>3, Services

LEMMA CycleEndsNearer ==
  ASSUME IInv, IInv', WaiterInv, CycleInv, Tock, NEW i \in Nodes, Waits(i), Waits(i)'
  PROVE  CyclesLeft(i)' + 1 <= CyclesLeft(i)
<1> DEFINE p == proc_request[i] # NULL
           r == request_in_progress
<1>1. /\ phase = "tock" /\ phase' \in {"bus_tick", "finished"}
      /\ UNCHANGED <<pending_requests, proc_request, request_in_progress, data_reply,
                     current_request, lookup>>
  BY DEF Tock, busVars
<1>2. phase' = "bus_tick"
  <2>1. outstanding_request'[i] /\ outstanding_request' = outstanding_request
    BY DEF Waits, IInv, ProcessorInv, Tock
  <2> QED BY <2>1 DEF Tock, done
<1>3. /\ CyclesLeftIs(i, CyclesLeft(i)) /\ CyclesLeftIs(i, CyclesLeft(i))'
      /\ Places(i) \subseteq Int /\ Places(i)' = Places(i)
  BY <1>1, PlacesInvHolds, NextPlaces DEF PlacesInv, Places
<1>4. r => DataLeft \in Int /\ DataLeft' \in Int /\ DataLeft' = DataLeft - 1
  <2>1. CASE r /\ data_reply # NULL
    BY <1>1, <1>2, <2>1 DEF DataLeft
  <2>2. CASE r /\ data_reply = NULL
    <3>1. ~(RequestOnBus /\ lookup = NULL) /\ ~(RequestOnBus' /\ lookup' = NULL)
      BY <1>1 DEF IInv, BusInv, AfterMemory, RequestOnBus
    <3>2. DataLeft = data_time + 1 /\ DataLeft' = data_time' + 1
      BY <1>1, <2>2, <3>1 DEF DataLeft
    <3>3. data_time \in Int /\ data_time > 0
      BY <1>1, <2>2 DEF CycleInv, IInv, TypeOK, McTypeOK
    <3>4. data_time' = data_time - 1
      BY <3>3 DEF Tock, McClock
    <3> QED BY <3>2, <3>3, <3>4
  <2> QED BY <2>1, <2>2
<1>5. num_nodes * Service \in Int /\ \A k \in Int : k * Service \in Int
  BY Services
<1>6. CASE p
  BY <1>1, <1>2, <1>3, <1>5, <1>6 DEF CyclesLeftIs
<1>7. CASE ~p /\ Places(i) # {}
  <2>1. PICK k \in Places(i) : k * Service \in Int
    BY <1>3, <1>5, <1>7
  <2>2. /\ CyclesLeft(i) = k * Service + IF r THEN DataLeft ELSE 0
        /\ CyclesLeft(i)' = k * Service + IF r THEN DataLeft' ELSE -1
    BY <1>1, <1>2, <1>3, <1>7, <2>1 DEF CyclesLeftIs
  <2> QED BY <1>4, <2>1, <2>2
<1>8. CASE ~p /\ Places(i) = {}
  <2>1. r
    BY <1>1, <1>8, InProgressForWaiter DEF AfterMemory
  <2> QED BY <1>1, <1>3, <1>4, <1>8, <2>1 DEF CyclesLeftIs
<1> QED BY <1>6, <1>7, <1>8

\* When the oldest request is broadcast the others move up one place.
LEMMA PlacesMoveUp ==
  ASSUME IInv, BroadcastRequest, NEW i \in Nodes
  PROVE  Places(i)' = {k - 1 : k \in Places(i) \ {1}}
<1> DEFINE q == pending_requests
<1>1. /\ q \in Seq(Request) /\ q # <<>> /\ q' = Tail(q) /\ q' \in Seq(Request)
      /\ DOMAIN q = 1 .. Len(q) /\ DOMAIN q' = 1 .. Len(q')
  BY DEF BroadcastRequest, IInv, TypeOK, BusTypeOK
<1>2. /\ Len(q) \in Nat \ {0}
      /\ Len(q') = Len(q) - 1
      /\ \A k \in 1 .. Len(q) - 1 : q'[k] = q[k + 1]
  BY <1>1, FromTheFront
<1> HIDE DEF q
<1>3. Places(i) = {k \in 1 .. Len(q) : q[k].src = i}
  BY <1>1 DEF Places, q
<1>4. Places(i)' = {k \in 1 .. Len(q) - 1 : q[k + 1].src = i}
  BY <1>1, <1>2 DEF Places, q
<1>5. ASSUME NEW k \in 1 .. Len(q) - 1, q[k + 1].src = i
      PROVE  \E l \in Places(i) \ {1} : k = l - 1
  <2>1. k + 1 \in Places(i) \ {1} /\ k = (k + 1) - 1
    BY <1>2, <1>3, <1>5
  <2> QED BY <2>1
<1>6. ASSUME NEW l \in Places(i) \ {1}
      PROVE  l - 1 \in 1 .. Len(q) - 1 /\ q[(l - 1) + 1].src = i
  BY <1>2, <1>3, <1>6
<1> QED BY <1>4, <1>5, <1>6

LEMMA NoLaterByBusTick ==
  ASSUME IInv, IInv', WaiterInv, TickBus, NEW i \in Nodes, Waits(i)
  PROVE  CyclesLeft(i)' <= CyclesLeft(i)
<1> DEFINE p == proc_request[i] # NULL
           r == request_in_progress
<1>1. /\ phase = "bus_tick" /\ phase' = "cache_request"
      /\ UNCHANGED <<proc_request, lookup, data_time>>
  BY DEF TickBus, mcVars, prVars
<1>2. /\ CyclesLeftIs(i, CyclesLeft(i)) /\ CyclesLeftIs(i, CyclesLeft(i))'
      /\ Places(i) \subseteq Int /\ Places(i)' \subseteq Int
      /\ \A k, l \in Places(i) : k = l
  BY PlacesInvHolds, NextPlaces, IInv' DEF PlacesInv
<1>3. num_nodes * Service \in Int /\ \A k \in Int : k * Service \in Int
  BY Services
<1>4. CASE p
  BY <1>1, <1>2, <1>3, <1>4 DEF CyclesLeftIs
<1>5. ASSUME ~p, ~BroadcastRequest,
             r => DataLeft \in Int,
             r' => r /\ DataLeft' = DataLeft,
             r /\ ~r' => DataLeft = 0,
             ~r => Places(i) = {}
      PROVE  CyclesLeft(i)' <= CyclesLeft(i)
  <2>1. Places(i)' = Places(i)
    BY <1>5 DEF Places, TickBus, BusTick, BroadcastData, AwaitData, StayIdle
  <2>2. CASE Places(i) # {}
    <3>1. PICK k \in Places(i) : k * Service \in Int
      BY <1>2, <1>3, <2>2
    <3>2. CyclesLeft(i) = k * Service + DataLeft
      BY <1>2, <1>5, <2>2, <3>1 DEF CyclesLeftIs
    <3>3. CyclesLeft(i)' = k * Service + IF r' THEN DataLeft' ELSE 0
      BY <1>1, <1>2, <1>5, <2>1, <2>2, <3>1 DEF CyclesLeftIs
    <3> QED BY <1>5, <2>2, <3>1, <3>2, <3>3
  <2>3. CASE Places(i) = {}
    BY <1>1, <1>2, <1>5, <2>1, <2>3 DEF CyclesLeftIs
  <2> QED BY <2>2, <2>3
<1>6. ASSUME ~p, BroadcastData PROVE CyclesLeft(i)' <= CyclesLeft(i)
  <2>1. r /\ ~r' /\ DataLeft = 0 /\ ~BroadcastRequest
    BY <1>1, <1>6 DEF BroadcastData, BroadcastRequest, DataLeft
  <2> QED BY <1>5, <1>6, <2>1
<1>7. ASSUME ~p, AwaitData PROVE CyclesLeft(i)' <= CyclesLeft(i)
  <2>1. /\ r /\ r' /\ data_reply = NULL /\ data_reply' = NULL
        /\ ~RequestOnBus' /\ ~BroadcastRequest
    BY <1>7 DEF AwaitData, BroadcastRequest, RequestOnBus
  <2>2. ~(RequestOnBus /\ lookup = NULL)
    BY <1>1 DEF IInv, BusInv, AfterMemory
  <2>3. DataLeft = data_time + 1 /\ DataLeft' = data_time' + 1
    BY <2>1, <2>2 DEF DataLeft
  <2> QED BY <1>1, <1>5, <1>7, <2>1, <2>3 DEF IInv, TypeOK, McTypeOK
<1>8. ASSUME ~p, BroadcastRequest PROVE CyclesLeft(i)' <= CyclesLeft(i)
  <2>1. /\ ~r /\ r' /\ data_reply' = NULL
        /\ lookup' = NULL
    BY <1>1, <1>8 DEF BroadcastRequest, IInv, BusInv, BeforeMemory
  <2>2. DataLeft' = Service - 1
    <3>1. RequestOnBus'
      BY <1>1, <2>1 DEF IInv, BusInv, BeforeMemory
    <3>2. DataLeft' = hit_time + 1
      BY <2>1, <3>1 DEF DataLeft
    <3> QED BY <3>2, Services, HitTimeAssumption
  <2>3. PICK k \in Places(i) : TRUE
    <3>1. Places(i) # {}
      BY <1>1, <1>8, <2>1, InProgressForWaiter DEF AfterMemory
    <3> QED BY <3>1
  <2>4. /\ CyclesLeft(i) = k * Service - 1
        /\ k \in Int /\ k * Service \in Int
        /\ (k - 1) * Service = k * Service - Service
    <3>1. CyclesLeft(i) = k * Service + (-1)
      BY <1>1, <1>2, <1>8, <2>1, <2>3 DEF CyclesLeftIs
    <3> QED BY <1>2, <2>3, <3>1, Services
  <2>5. Places(i)' = IF k = 1 THEN {} ELSE {k - 1}
    BY <1>2, <1>8, <2>3, PlacesMoveUp
  <2>6. CASE k = 1
    <3>1. CyclesLeft(i)' = DataLeft'
      BY <1>1, <1>2, <1>8, <2>1, <2>5, <2>6 DEF CyclesLeftIs
    <3> QED BY <2>2, <2>4, <2>6, <3>1, Services
  <2>7. CASE k # 1
    <3>1. CyclesLeft(i)' = (k - 1) * Service + DataLeft'
      BY <1>1, <1>2, <1>8, <2>1, <2>5, <2>7 DEF CyclesLeftIs
    <3> QED BY <2>2, <2>4, <3>1, Services
  <2> QED BY <2>6, <2>7
<1>9. ASSUME ~p, StayIdle PROVE CyclesLeft(i)' <= CyclesLeft(i)
  <2>1. ~r /\ ~r' /\ ~BroadcastRequest /\ Places(i) = {}
    BY <1>9 DEF StayIdle, BroadcastRequest, Places
  <2> QED BY <1>5, <1>9, <2>1
<1> QED BY <1>4, <1>6, <1>7, <1>8, <1>9 DEF TickBus, BusTick

\* With the protocols of Sound no step of the loop sets back a node that waits,
\* and each cycle brings it one nearer to its DATA: whatever the others ask for,
\* a node has waited for at most one request of every node when it has its own.
THEOREM WaitIsBoundedHolds ==
  ASSUME Protocols \subseteq Sound
  PROVE  Spec => WaitIsBounded
<1>1. Init => CycleInv
  BY DEF Init, PrInit, CycleInv
<1>2. IInv /\ IInv' /\ CycleInv /\ [Next]_vars => CycleInv'
  BY CycleInvStep
<1>3. ASSUME IInv, IInv', WaiterInv, CycleInv, Next, NEW i \in Nodes, Waits(i)'
      PROVE  /\ CyclesLeft(i)' \in 0 .. num_nodes * Service + 1
             /\ Waits(i) => CyclesLeft(i)' + (IF phase = "tock" THEN 1 ELSE 0) <= CyclesLeft(i)
  <2>1. /\ CyclesLeft(i)' \in 0 .. num_nodes * Service + 1
        /\ CyclesLeft(i) \in 0 .. num_nodes * Service + 1
    BY <1>3, CyclesInvHolds, NextPlaces DEF CyclesInv
  <2>2. num_nodes * Service + 1 \in Int
    BY Services
  <2>3. CASE TickBus
    BY <1>3, <2>1, <2>2, <2>3, NoLaterByBusTick DEF TickBus
  <2>4. CASE Tock
    <3>1. phase = "tock"
      BY <2>4 DEF Tock
    <3>2. Waits(i) => CyclesLeft(i)' + 1 <= CyclesLeft(i)
      BY <1>3, <2>4, CycleEndsNearer
    <3> QED BY <2>1, <3>1, <3>2
  <2>5. CASE CacheServe(i)
    BY <1>3, <2>1, <2>2, <2>5, NoLaterOnceServed DEF CacheServe
  <2>6. CASE phase \notin {"bus_tick", "tock"} /\ ~CacheServe(i)
    BY <1>3, <2>1, <2>2, <2>6, NoLaterByOtherTicks
  <2>7. ASSUME phase \in {"bus_tick", "tock"} PROVE TickBus \/ Tock
    BY <1>3, <2>7 DEF Next, CacheIdle, CacheServe, CachePass, CacheSnoop, TickProcessor,
                      TickMemory, Ended
  <2> QED BY <2>3, <2>4, <2>5, <2>6, <2>7
<1>4. IInv /\ IInv' /\ WaiterInv /\ CycleInv /\ [Next]_vars =>
        [\A i \in Nodes : Waits(i)' =>
           /\ CyclesLeft(i)' \in 0 .. num_nodes * Service + 1
           /\ Waits(i) => CyclesLeft(i)' + (IF phase = "tock" THEN 1 ELSE 0)
                            <= CyclesLeft(i)]_vars
  BY <1>3
<1> QED BY <1>1, <1>2, <1>4, InvariantHolds, WaiterInvHolds, PTL DEF Spec, WaitIsBounded

===============================================================================
