--------------------------- MODULE SimulatorProofs ---------------------------
(***************************************************************************)
(* Type correctness of the simulator, for every number of nodes and every  *)
(* protocol.                                                               *)
(***************************************************************************)
EXTENDS Simulator, TLAPS

FiveProtocols == {"MI", "MSI", "MESI", "MOSI", "MOESI"}

\* Whatever the state and the message, a handler's outcome is a line state and
\* calls of the helpers; a processor's request is never answered on the bus.
AccessTyped(out) == out \in Outcomes /\ "send_DATA_on_bus" \notin out.does

\* do_cache_* of all five protocols.
LEMMA AccessOutcomes ==
  ASSUME NEW p \in FiveProtocols, NEW s \in LineStates, NEW op \in {"LOAD", "STORE"}
  PROVE  AccessTyped(process_request_processor(p, s, op))
<1> USE DEF FiveProtocols, AccessTyped, process_request_processor, Outcomes,
            Effects, LineStates
<1>1. CASE p = "MI"
  BY <1>1 DEF MI!process_cache_request, MI!do_cache_I, MI!do_cache_IM,
              MI!do_cache_M, MI!To, MI!Hit, MI!Fatal
<1>2. CASE p = "MSI"
  BY <1>2 DEF MSI!process_cache_request, MSI!do_cache_I, MSI!do_cache_IM,
              MSI!do_cache_IS, MSI!do_cache_M, MSI!do_cache_S,
              MSI!do_cache_SM, MSI!To, MSI!Hit, MSI!Fatal
<1>3. CASE p = "MESI"
  BY <1>3 DEF MESI!process_cache_request, MESI!do_cache_I, MESI!do_cache_S,
              MESI!do_cache_E, MESI!do_cache_M, MESI!do_cache_IM,
              MESI!do_cache_ISE, MESI!do_cache_SM, MESI!To, MESI!Hit,
              MESI!Fatal
<1>4. CASE p = "MOSI"
  BY <1>4 DEF MOSI!process_cache_request, MOSI!do_cache_I, MOSI!do_cache_S,
              MOSI!do_cache_O, MOSI!do_cache_M, MOSI!do_cache_IM,
              MOSI!do_cache_IS, MOSI!do_cache_SM, MOSI!do_cache_OM,
              MOSI!To, MOSI!Hit, MOSI!Fatal
<1>5. CASE p = "MOESI"
  BY <1>5 DEF MOESI!process_cache_request, MOESI!do_cache_I, MOESI!do_cache_S,
              MOESI!do_cache_E, MOESI!do_cache_O, MOESI!do_cache_M,
              MOESI!do_cache_IM, MOESI!do_cache_ISE, MOESI!do_cache_SM,
              MOESI!do_cache_OM, MOESI!To, MOESI!Hit, MOESI!Fatal
<1> QED BY <1>1, <1>2, <1>3, <1>4, <1>5

\* Nor is DATA answered on the bus.
SnoopTyped(msg, out) ==
  out \in Outcomes /\ (msg = "DATA" => "send_DATA_on_bus" \notin out.does)

\* do_snoop_* of all five protocols.
LEMMA SnoopOutcomes ==
  ASSUME NEW p \in FiveProtocols, NEW s \in LineStates,
         NEW msg \in {"GETS", "GETM", "DATA"},
         NEW own \in BOOLEAN, NEW shared \in BOOLEAN
  PROVE  SnoopTyped(msg, process_request_snoop(p, s, msg, own, shared))
<1> USE DEF FiveProtocols, SnoopTyped, process_request_snoop, Outcomes,
            Effects, LineStates
<1>1. CASE p = "MI"
  BY <1>1 DEF MI!process_snoop_request, MI!do_snoop_I, MI!do_snoop_IM,
              MI!do_snoop_M, MI!To, MI!Ignore, MI!Supply, MI!Fill, MI!Fatal
<1>2. CASE p = "MSI"
  BY <1>2 DEF MSI!process_snoop_request, MSI!do_snoop_I, MSI!do_snoop_IM,
              MSI!do_snoop_IS, MSI!do_snoop_M, MSI!do_snoop_S,
              MSI!do_snoop_SM, MSI!To, MSI!Ignore, MSI!Supply, MSI!Fill,
              MSI!Fatal
<1>3. CASE p = "MESI"
  BY <1>3 DEF MESI!process_snoop_request, MESI!do_snoop_I, MESI!do_snoop_S,
              MESI!do_snoop_E, MESI!do_snoop_M, MESI!do_snoop_IM,
              MESI!do_snoop_ISE, MESI!do_snoop_SM, MESI!To, MESI!Ignore,
              MESI!Supply, MESI!Fill, MESI!Fatal
<1>4. CASE p = "MOSI"
  BY <1>4 DEF MOSI!process_snoop_request, MOSI!do_snoop_I, MOSI!do_snoop_S,
              MOSI!do_snoop_O, MOSI!do_snoop_M, MOSI!do_snoop_IM,
              MOSI!do_snoop_IS, MOSI!do_snoop_SM, MOSI!do_snoop_OM,
              MOSI!To, MOSI!Ignore, MOSI!Supply, MOSI!Fill, MOSI!Fatal
<1>5. CASE p = "MOESI"
  BY <1>5 DEF MOESI!process_snoop_request, MOESI!do_snoop_I, MOESI!do_snoop_S,
              MOESI!do_snoop_E, MOESI!do_snoop_O, MOESI!do_snoop_M,
              MOESI!do_snoop_IM, MOESI!do_snoop_ISE, MOESI!do_snoop_SM,
              MOESI!do_snoop_OM, MOESI!To, MOESI!Ignore, MOESI!Supply,
              MOESI!Fill, MOESI!Fatal
<1> QED BY <1>1, <1>2, <1>3, <1>4, <1>5

-------------------------------------------------------------------------------

\* The helpers keep the types when they are called by a well-typed outcome.
LEMMA PerformTyped ==
  ASSUME TypeOK, NEW i \in Nodes, NEW a \in Lines, NEW out \in Outcomes, NEW dest,
         "send_DATA_on_bus" \in out.does => dest \in Nodes,
         Perform(i, a, out, dest)
  PROVE  /\ state' \in [Nodes -> [Lines -> LineStates]]
         /\ shared_line' \in BOOLEAN
         /\ pending_requests' \in Seq(Request)
         /\ data_reply' \in Data \cup {NULL}
         /\ inbound_request_buf' \in [Nodes -> Lines \cup {NULL}]
<1> USE DEF TypeOK, BusTypeOK, PrTypeOK, CacheTypeOK, Perform, Outcomes
<1>1. /\ state' \in [Nodes -> [Lines -> LineStates]]
      /\ shared_line' \in BOOLEAN
      /\ inbound_request_buf' \in [Nodes -> Lines \cup {NULL}]
  OBVIOUS
<1>2. pending_requests' \in Seq(Request)
  <2>1. CASE "send_GETS" \in out.does
    <3>1. [msg |-> "GETS", addr |-> a, src |-> i] \in Request
      BY DEF Request
    <3>2. pending_requests' =
            Append(pending_requests, [msg |-> "GETS", addr |-> a, src |-> i])
      BY <2>1 DEF Enqueue
    <3> HIDE DEF Perform, Outcomes
    <3> QED BY <3>1, <3>2
  <2>2. CASE "send_GETS" \notin out.does /\ "send_GETM" \in out.does
    <3>1. [msg |-> "GETM", addr |-> a, src |-> i] \in Request
      BY DEF Request
    <3>2. pending_requests' =
            Append(pending_requests, [msg |-> "GETM", addr |-> a, src |-> i])
      BY <2>2 DEF Enqueue
    <3> HIDE DEF Perform, Outcomes
    <3> QED BY <3>1, <3>2
  <2>3. CASE "send_GETS" \notin out.does /\ "send_GETM" \notin out.does
    BY <2>3
  <2> QED BY <2>1, <2>2, <2>3
<1>3. data_reply' \in Data \cup {NULL}
  BY DEF SendData, Data
<1> QED BY <1>1, <1>2, <1>3

\* The loop's program counter stays in range.
LEMMA NextTurnTyped ==
  ASSUME turn \in Nodes, NEW again \in Phases, NEW after \in Phases,
         NextTurn(again, after)
  PROVE  phase' \in Phases /\ turn' \in Nodes
BY NodesAssumption DEF NextTurn, Nodes

\* The constructors leave everything well typed.
LEMMA TypeInit == Init => TypeOK
BY NodesAssumption, HitTimeAssumption, UninitAssumption
   DEF Init, BusInit, McInit, PrInit, CacheInit, TypeOK, BusTypeOK, McTypeOK,
       PrTypeOK, CacheTypeOK, Nodes, Phases, LineStates

\* Every tick keeps everything well typed.
LEMMA TypeStep == ASSUME TypeOK, [Next]_vars PROVE TypeOK'
<1> DEFINE Unchanged == UNCHANGED <<busVars, mcVars, prVars, cacheVars, turn>>
<1>0. Unchanged /\ phase' \in Phases => TypeOK'
  BY DEF TypeOK, BusTypeOK, McTypeOK, PrTypeOK, CacheTypeOK, busVars, mcVars,
         prVars, cacheVars
<1>1. CASE TickBus
  <2>1. BusTypeOK'
    <3> USE <1>1 DEF TickBus, BusTick, TypeOK, BusTypeOK, Mreq
    <3>1. CASE BroadcastData BY <3>1 DEF BroadcastData
    <3>2. CASE AwaitData BY <3>2 DEF AwaitData
    <3>3. CASE BroadcastRequest
      <4>1. Head(pending_requests) \in Request
            /\ Tail(pending_requests) \in Seq(Request)
        BY <3>3 DEF BroadcastRequest
      <4> QED BY <3>3, <4>1 DEF BroadcastRequest
    <3>4. CASE StayIdle BY <3>4 DEF StayIdle
    <3> QED BY <3>1, <3>2, <3>3, <3>4
  <2> QED
    BY <1>1, <2>1 DEF TickBus, TypeOK, McTypeOK, PrTypeOK, CacheTypeOK,
       Phases, mcVars, prVars, cacheVars
<1>2. ASSUME NEW i \in Nodes, CacheIdle(i) PROVE TypeOK'
  BY <1>0, <1>2 DEF CacheIdle, Phases
<1>3. ASSUME NEW i \in Nodes, CacheServe(i) PROVE TypeOK'
  <2>1. CASE Dies(i, ProcOutcome(i).does)
    BY <1>0, <1>3, <2>1 DEF CacheServe, Abort, Phases
  <2>2. CASE ~Dies(i, ProcOutcome(i).does)
    <3>1. proc_request[i] \in Access
      BY <1>3 DEF CacheServe, TypeOK, PrTypeOK
    <3>2. /\ proc_request[i].addr \in Lines
          /\ AccessTyped(ProcOutcome(i))
      BY <3>1, AccessOutcomes, ProtocolsAssumption
         DEF Access, ProcOutcome, TypeOK, CacheTypeOK, FiveProtocols
    <3>3. ServeProcessor(i) /\ phase' = "cache_snoop" /\ UNCHANGED <<mcVars, turn>>
      BY <1>3, <2>2 DEF CacheServe
    <3>4. /\ state' \in [Nodes -> [Lines -> LineStates]]
          /\ shared_line' \in BOOLEAN
          /\ pending_requests' \in Seq(Request)
          /\ data_reply' \in Data \cup {NULL}
          /\ inbound_request_buf' \in [Nodes -> Lines \cup {NULL}]
      BY <3>2, <3>3, PerformTyped DEF ServeProcessor, AccessTyped
    <3> QED
      BY <3>3, <3>4 DEF ServeProcessor, TypeOK, BusTypeOK, McTypeOK, PrTypeOK,
         CacheTypeOK, Phases, mcVars
  <2> QED BY <2>1, <2>2
<1>4. ASSUME NEW i \in Nodes, CachePass(i) PROVE TypeOK'
  <2>1. phase' \in Phases /\ turn' \in Nodes
    BY <1>4, NextTurnTyped DEF CachePass, TypeOK, Phases
  <2> QED
    BY <1>4, <2>1 DEF CachePass, TypeOK, BusTypeOK, McTypeOK, PrTypeOK,
       CacheTypeOK, busVars, mcVars, prVars, cacheVars
<1>5. ASSUME NEW i \in Nodes, CacheSnoop(i) PROVE TypeOK'
  <2>1. CASE Dies(i, SnoopOutcome(i).does)
    BY <1>0, <1>5, <2>1 DEF CacheSnoop, Abort, Phases
  <2>2. CASE ~Dies(i, SnoopOutcome(i).does)
    <3>1. current_request \in Mreq
      BY <1>5 DEF CacheSnoop, MustSnoop, TypeOK, BusTypeOK
    <3>2. /\ current_request.addr \in Lines
          /\ current_request.msg \in {"GETS", "GETM", "DATA"}
          /\ current_request.msg # "DATA" => current_request.src \in Nodes
      BY <3>1 DEF Mreq, Request, Data
    <3>3. SnoopTyped(current_request.msg, SnoopOutcome(i))
      <4>1. /\ protocol \in FiveProtocols
            /\ state[i][current_request.addr] \in LineStates
            /\ (current_request.src = i) \in BOOLEAN
            /\ shared_line \in BOOLEAN
        BY <3>2, ProtocolsAssumption
           DEF TypeOK, CacheTypeOK, BusTypeOK, FiveProtocols
      <4> QED BY <3>2, <4>1, SnoopOutcomes DEF SnoopOutcome
    <3>4. Snoop(i) /\ NextTurn("cache_request", "tick_pr") /\ UNCHANGED mcVars
      BY <1>5, <2>2 DEF CacheSnoop
    <3>5. /\ state' \in [Nodes -> [Lines -> LineStates]]
          /\ shared_line' \in BOOLEAN
          /\ pending_requests' \in Seq(Request)
          /\ data_reply' \in Data \cup {NULL}
          /\ inbound_request_buf' \in [Nodes -> Lines \cup {NULL}]
      BY <3>2, <3>3, <3>4, PerformTyped DEF Snoop, SnoopTyped
    <3>6. phase' \in Phases /\ turn' \in Nodes
      BY <3>4, NextTurnTyped DEF TypeOK, Phases
    <3> QED
      BY <3>4, <3>5, <3>6 DEF Snoop, TypeOK, BusTypeOK, McTypeOK, PrTypeOK,
         CacheTypeOK, mcVars
  <2> QED BY <2>1, <2>2
<1>6. ASSUME NEW i \in Nodes, TickProcessor(i) PROVE TypeOK'
  <2>1. phase' \in Phases /\ turn' \in Nodes
    BY <1>6, NextTurnTyped DEF TickProcessor, TypeOK, Phases
  <2>2. PrTypeOK'
    <3> USE DEF TickProcessor, PrTick, Consume, TypeOK, PrTypeOK
    <3>1. CASE Rest(i) BY <1>6, <3>1 DEF Rest, Busy
    <3>2. CASE \E access \in Access : Fetch(i, access)
      BY <1>6, <3>2 DEF Fetch
    <3>3. CASE ReachEnd(i) BY <1>6, <3>3 DEF ReachEnd
    <3> QED BY <1>6, <3>1, <3>2, <3>3
  <2> QED
    BY <1>6, <2>1, <2>2 DEF TickProcessor, TypeOK, BusTypeOK, McTypeOK,
       CacheTypeOK, busVars, mcVars, cacheVars
<1>7. CASE TickMemory
  <2>1. CASE ~McAssertions
    BY <1>0, <1>7, <2>1 DEF TickMemory, Abort, Phases
  <2>2. CASE McAssertions
    <3>1. /\ McTick /\ phase' = "tock"
          /\ UNCHANGED <<prVars, cacheVars, turn, current_request,
                         pending_requests, request_in_progress, shared_line>>
      BY <1>7, <2>2 DEF TickMemory
    <3>2. LookupNow \in Lookup \cup {NULL} /\ DataTimeNow \in 0 .. hit_time
      BY HitTimeAssumption DEF LookupNow, DataTimeNow, RequestOnBus, TypeOK,
         BusTypeOK, McTypeOK, Lookup, Mreq, Request, Data
    <3>3. data_reply' \in Data \cup {NULL} /\ McTypeOK'
      BY <3>1, <3>2 DEF McTick, Answer, KeepLooking, AnswerDue, SendData, TypeOK,
         BusTypeOK, McTypeOK, Lookup, Data
    <3> QED
      BY <3>1, <3>3 DEF TypeOK, BusTypeOK, PrTypeOK, CacheTypeOK, Phases,
         prVars, cacheVars
  <2> QED BY <2>1, <2>2
<1>8. CASE Tock
  <2>1. McTypeOK'
    BY <1>8, HitTimeAssumption DEF Tock, McClock, TypeOK, McTypeOK
  <2>2. PrTypeOK'
    BY <1>8 DEF Tock, PrTock, TypeOK, PrTypeOK
  <2> QED
    BY <1>8, <2>1, <2>2 DEF Tock, TypeOK, BusTypeOK, CacheTypeOK, Phases,
       busVars, cacheVars
<1>9. CASE UNCHANGED vars
  BY <1>0, <1>9 DEF vars, TypeOK
<1> QED
  BY <1>1, <1>2, <1>3, <1>4, <1>5, <1>6, <1>7, <1>8, <1>9 DEF Next, Ended

\* What the program counter, the bus, the caches, memory and the processors
\* hold is always of the type the classes declare.
THEOREM TypeCorrect == Spec => []TypeOK
<1>1. TypeOK /\ [Next]_vars => TypeOK'
  BY TypeStep
<1> QED BY TypeInit, <1>1, PTL DEF Spec

===============================================================================
