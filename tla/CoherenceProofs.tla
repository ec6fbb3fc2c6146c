--------------------------- MODULE CoherenceProofs ---------------------------
(***************************************************************************)
(* Coherence of MI, MSI, MESI and MOSI for every number of nodes, and of   *)
(* MOESI for two, with any lines and cycles of memory latency: IInv is an  *)
(* invariant, and it implies SingleWriter and NeverAborts; with MemoryInv  *)
(* it also implies MemoryAnswersUnowned.                                   *)
(* Of a protocol the proof only knows the contracts below.                 *)
(***************************************************************************)
EXTENDS CoherenceInv, SimulatorProofs

-------------------------------------------------------------------------------
(* What the handlers of the sound protocols have in common: three          *)
(* contracts, one per kind of message, that are all the rest of the proof  *)
(* needs to know of a protocol, and one fact more about MOESI for each     *)
(* kind of request.                                                        *)

\* The states of a sound protocol.
LEMMA StatesOfSound ==
  /\ StatesOf("MI") = {"I", "IM", "M"}
  /\ StatesOf("MSI") = {"I", "IM", "IS", "M", "S", "SM"}
  /\ StatesOf("MESI") = {"I", "S", "E", "M", "IM", "ISE", "SM"}
  /\ StatesOf("MOSI") = {"I", "S", "O", "M", "IM", "IS", "SM", "OM"}
  /\ StatesOf("MOESI") = {"I", "S", "E", "O", "M", "IM", "ISE", "SM", "OM"}
BY DEF StatesOf, MI!States, MSI!States, MESI!States, MOSI!States, MOESI!States

\* What the protocols are, and that it is one of the five.
LEMMA SoundProtocols ==
  /\ Clean \subseteq Sound
  /\ \A p \in Sound : p \in {"MI", "MSI", "MESI", "MOSI", "MOESI"}
  /\ "MOESI" \in Sound => num_nodes <= 2
BY DEF Sound, Clean

\* A processor's request that finds the line at rest: a hit leaves the line
\* at rest, a miss queues one request and makes the line wait for its answer.
\* No cache gains a copy, ownership or exclusivity by its processor's request,
\* none that has a copy goes without notice, and a store hits only in M and
\* never asks for less than the line to itself.  Only MOESI drives the shared
\* line on a hit.
AccessContract(p, s, op, out) ==
  /\ out.state \in StatesOf(p)
  /\ \/ /\ "send_DATA_to_proc" \in out.does
        /\ out.does \subseteq {"send_DATA_to_proc", "set_shared_line"}
        /\ out.state \in Copy \ Waiting
        /\ op = "STORE" => out.state = "M"
     \/ out.does = {"send_GETS"} /\ out.state \in WaitRead /\ op = "LOAD"
     \/ out.does = {"send_GETM"} /\ out.state \in WaitWrite
  /\ out.state \in Copy => s \in Copy
  /\ s \in Copy => out.state \in Copy \cup {"SM"}
  /\ out.state \in Owning => s \in Owning
  /\ out.state \in Exclusive => s \in Exclusive
  /\ s \in Dirty => out.state \in Dirty

\* do_cache_* of every sound protocol keep the contract.
LEMMA AccessHandlers ==
  ASSUME NEW p \in Sound, NEW s \in StatesOf(p), s \notin Waiting,
         NEW op \in {"LOAD", "STORE"}
  PROVE  AccessContract(p, s, op, process_request_processor(p, s, op))
<1> USE StatesOfSound DEF AccessContract, process_request_processor,
          Exclusive, Owning, Copy, Dirty, Waiting, WaitRead, WaitWrite
<1>1. CASE p = "MI"
  BY <1>1 DEF MI!process_cache_request, MI!do_cache_I, MI!do_cache_M,
              MI!To, MI!Hit
<1>2. CASE p = "MSI"
  BY <1>2 DEF MSI!process_cache_request, MSI!do_cache_I, MSI!do_cache_S,
              MSI!do_cache_M, MSI!To, MSI!Hit
<1>3. CASE p = "MESI"
  BY <1>3 DEF MESI!process_cache_request, MESI!do_cache_I, MESI!do_cache_S,
              MESI!do_cache_E, MESI!do_cache_M, MESI!To, MESI!Hit
<1>4. CASE p = "MOSI"
  BY <1>4 DEF MOSI!process_cache_request, MOSI!do_cache_I, MOSI!do_cache_S,
              MOSI!do_cache_O, MOSI!do_cache_M, MOSI!To, MOSI!Hit
<1>5. CASE p = "MOESI"
  <2> DEFINE out == MOESI!process_cache_request(s, op)
  <2>1. /\ s = "I" => out = MOESI!do_cache_I(op)
        /\ s = "S" => out = MOESI!do_cache_S(op)
        /\ s = "E" => out = MOESI!do_cache_E(op)
        /\ s = "O" => out = MOESI!do_cache_O(op)
        /\ s = "M" => out = MOESI!do_cache_M(op)
    BY DEF MOESI!process_cache_request
  <2> HIDE DEF out
  <2>2. AccessContract(p, s, op, out)
    BY <1>5, <2>1 DEF MOESI!do_cache_I, MOESI!do_cache_S, MOESI!do_cache_E,
                      MOESI!do_cache_O, MOESI!do_cache_M, MOESI!To, MOESI!Hit
  <2> QED BY <1>5, <2>2 DEF out
<1> QED BY SoundProtocols, <1>1, <1>2, <1>3, <1>4, <1>5

\* A request snooped on the bus: the owner, and only the owner, answers; a
\* waiting line waits on, for the same thing; nobody gains anything, and after
\* a GETM of another cache there is no copy left, after a GETS no exclusive one.
RequestContract(p, s, msg, own, out) ==
  /\ out.state \in StatesOf(p)
  /\ out.does \subseteq {"set_shared_line", "send_DATA_on_bus"}
  /\ "send_DATA_on_bus" \in out.does <=> s \in Owning
  /\ s \in Copy => "set_shared_line" \in out.does
  /\ s \in WaitRead <=> out.state \in WaitRead
  /\ s \in WaitRead => out.state = s
  /\ s \in WaitWrite <=> out.state \in WaitWrite
  /\ out.state \in Copy => s \in Copy
  /\ out.state \in Owning => s \in Owning
  /\ out.state \notin Exclusive
  /\ msg = "GETM" /\ ~own => out.state \notin Copy
  /\ p \notin {"MSI", "MESI"} /\ s \in Dirty =>
       out.state \in Dirty \/ msg = "GETM" \/ p = "MI"
  /\ p = "MESI" /\ msg = "GETS" =>
       /\ s \in Copy \cup {"SM"} => out.state \in Copy \cup {"SM"}
       /\ "set_shared_line" \in out.does => s \in Copy \cup {"SM"}

\* MOESI's owner is asked to read again, or while it is about to write.
PastOwner(p, s, msg) == p = "MOESI" /\ s \in {"O", "OM"} /\ msg = "GETS"

\* do_snoop_* on GETS and GETM; but where a cache reads past MOESI's owner that
\* breaks the contract.
LEMMA RequestHandlers ==
  ASSUME NEW p \in Sound, NEW s \in StatesOf(p),
         NEW msg \in {"GETS", "GETM"}, NEW own \in BOOLEAN, NEW shared \in BOOLEAN,
         ~PastOwner(p, s, msg)
  PROVE  RequestContract(p, s, msg, own,
                         process_request_snoop(p, s, msg, own, shared))
<1> DEFINE out == process_request_snoop(p, s, msg, own, shared)
<1> SUFFICES RequestContract(p, s, msg, own, out)
  OBVIOUS
<1> HIDE DEF out
<1> USE StatesOfSound
        DEF PastOwner, Exclusive, Owning, Copy, Dirty,
            Waiting, WaitRead, WaitWrite, MI!To, MI!Ignore, MI!Supply,
            MSI!To, MSI!Ignore, MSI!Supply, MESI!To, MESI!Ignore, MESI!Supply,
            MOSI!To, MOSI!Ignore, MOSI!Supply, MOESI!To, MOESI!Ignore,
            MOESI!Supply
<1>1. CASE p = "MI"
  <2>1. /\ s = "I" => out = MI!do_snoop_I(msg)
        /\ s = "IM" => out = MI!do_snoop_IM(msg)
        /\ s = "M" => out = MI!do_snoop_M(msg)
    BY <1>1 DEF out, process_request_snoop, MI!process_snoop_request
  <2> QED
    BY <1>1, <2>1
       DEF RequestContract, MI!do_snoop_I, MI!do_snoop_IM, MI!do_snoop_M
<1>2. CASE p = "MSI"
  <2>1. /\ s = "I" => out = MSI!do_snoop_I(msg)
        /\ s = "S" => out = MSI!do_snoop_S(msg)
        /\ s = "M" => out = MSI!do_snoop_M(msg)
        /\ s = "IM" => out = MSI!do_snoop_IM(msg)
        /\ s = "IS" => out = MSI!do_snoop_IS(msg)
        /\ s = "SM" => out = MSI!do_snoop_SM(msg)
    BY <1>2 DEF out, process_request_snoop, MSI!process_snoop_request
  <2> QED
    BY <1>2, <2>1
       DEF RequestContract, MSI!do_snoop_I, MSI!do_snoop_S, MSI!do_snoop_M,
           MSI!do_snoop_IM, MSI!do_snoop_IS, MSI!do_snoop_SM
<1>3. CASE p = "MESI"
  <2>1. /\ s = "I" => out = MESI!do_snoop_I(msg)
        /\ s = "S" => out = MESI!do_snoop_S(msg)
        /\ s = "E" => out = MESI!do_snoop_E(msg)
        /\ s = "M" => out = MESI!do_snoop_M(msg)
        /\ s = "IM" => out = MESI!do_snoop_IM(msg)
        /\ s = "ISE" => out = MESI!do_snoop_ISE(msg, shared)
        /\ s = "SM" => out = MESI!do_snoop_SM(msg)
    BY <1>3 DEF out, process_request_snoop, MESI!process_snoop_request
  <2> QED
    BY <1>3, <2>1
       DEF RequestContract, MESI!do_snoop_I, MESI!do_snoop_S, MESI!do_snoop_E,
           MESI!do_snoop_M, MESI!do_snoop_IM, MESI!do_snoop_ISE,
           MESI!do_snoop_SM
<1>4. CASE p = "MOSI"
  <2>1. /\ s = "I" => out = MOSI!do_snoop_I(msg)
        /\ s = "S" => out = MOSI!do_snoop_S(msg)
        /\ s = "O" => out = MOSI!do_snoop_O(msg)
        /\ s = "M" => out = MOSI!do_snoop_M(msg)
        /\ s = "IM" => out = MOSI!do_snoop_IM(msg)
        /\ s = "IS" => out = MOSI!do_snoop_IS(msg)
        /\ s = "SM" => out = MOSI!do_snoop_SM(msg)
        /\ s = "OM" => out = MOSI!do_snoop_OM(msg, own)
    BY <1>4 DEF out, process_request_snoop, MOSI!process_snoop_request
  <2> QED
    BY <1>4, <2>1
       DEF RequestContract, MOSI!do_snoop_I, MOSI!do_snoop_S, MOSI!do_snoop_O,
           MOSI!do_snoop_M, MOSI!do_snoop_IM, MOSI!do_snoop_IS,
           MOSI!do_snoop_SM, MOSI!do_snoop_OM
<1>5. CASE p = "MOESI"
  <2>1. /\ s = "I" => out = MOESI!do_snoop_I(msg)
        /\ s = "S" => out = MOESI!do_snoop_S(msg)
        /\ s = "E" => out = MOESI!do_snoop_E(msg)
        /\ s = "O" => out = MOESI!do_snoop_O(msg)
        /\ s = "M" => out = MOESI!do_snoop_M(msg)
        /\ s = "IM" => out = MOESI!do_snoop_IM(msg)
        /\ s = "ISE" => out = MOESI!do_snoop_ISE(msg, shared)
        /\ s = "SM" => out = MOESI!do_snoop_SM(msg)
        /\ s = "OM" => out = MOESI!do_snoop_OM(msg, own)
    BY <1>5 DEF out, process_request_snoop, MOESI!process_snoop_request
  <2>2. s = "I" => RequestContract(p, s, msg, own, out)
    BY <1>5, <2>1 DEF MOESI!do_snoop_I, RequestContract
  <2>3. s = "S" => RequestContract(p, s, msg, own, out)
    BY <1>5, <2>1 DEF MOESI!do_snoop_S, RequestContract
  <2>4. s = "E" => RequestContract(p, s, msg, own, out)
    BY <1>5, <2>1 DEF MOESI!do_snoop_E, RequestContract
  <2>5. s = "O" => RequestContract(p, s, msg, own, out)
    BY <1>5, <2>1 DEF MOESI!do_snoop_O, RequestContract
  <2>6. s = "M" => RequestContract(p, s, msg, own, out)
    BY <1>5, <2>1 DEF MOESI!do_snoop_M, RequestContract
  <2>7. s = "IM" => RequestContract(p, s, msg, own, out)
    BY <1>5, <2>1 DEF MOESI!do_snoop_IM, RequestContract
  <2>8. s = "ISE" => RequestContract(p, s, msg, own, out)
    BY <1>5, <2>1 DEF MOESI!do_snoop_ISE, RequestContract
  <2>9. s = "SM" => RequestContract(p, s, msg, own, out)
    BY <1>5, <2>1 DEF MOESI!do_snoop_SM, RequestContract
  <2>10. s = "OM" => RequestContract(p, s, msg, own, out)
    BY <1>5, <2>1 DEF MOESI!do_snoop_OM, RequestContract
  <2> QED BY <1>5, <2>2, <2>3, <2>4, <2>5, <2>6, <2>7, <2>8, <2>9, <2>10
<1> QED BY SoundProtocols, <1>1, <1>2, <1>3, <1>4, <1>5

\* DATA that reaches the line that waits for it: the processor gets it, and the
\* line has what it waited for.
FillContract(p, s, shared, out) ==
  /\ out.state \in StatesOf(p) \ Waiting
  /\ out.does = {"send_DATA_to_proc"}
  /\ s \in WaitWrite => out.state = "M"
  /\ s \in WaitRead =>
       out.state = "S" \/ (s = "ISE" /\ ~shared /\ out.state = "E")

\* do_snoop_* on DATA.
LEMMA FillHandlers ==
  ASSUME NEW p \in Sound, NEW s \in StatesOf(p), s \in Waiting,
         NEW own \in BOOLEAN, NEW shared \in BOOLEAN
  PROVE  FillContract(p, s, shared,
                      process_request_snoop(p, s, "DATA", own, shared))
<1> USE StatesOfSound DEF FillContract, process_request_snoop,
          Waiting, WaitRead, WaitWrite
<1>1. CASE p = "MI"
  BY <1>1 DEF MI!process_snoop_request, MI!do_snoop_IM, MI!To, MI!Fill
<1>2. CASE p = "MSI"
  BY <1>2 DEF MSI!process_snoop_request, MSI!do_snoop_IM, MSI!do_snoop_IS,
              MSI!do_snoop_SM, MSI!To, MSI!Fill
<1>3. CASE p = "MESI"
  BY <1>3 DEF MESI!process_snoop_request, MESI!do_snoop_IM, MESI!do_snoop_ISE,
              MESI!do_snoop_SM, MESI!To, MESI!Fill
<1>4. CASE p = "MOSI"
  BY <1>4 DEF MOSI!process_snoop_request, MOSI!do_snoop_IM, MOSI!do_snoop_IS,
              MOSI!do_snoop_SM, MOSI!do_snoop_OM, MOSI!To, MOSI!Fill
<1>5. CASE p = "MOESI"
  BY <1>5 DEF MOESI!process_snoop_request, MOESI!do_snoop_IM,
              MOESI!do_snoop_ISE, MOESI!do_snoop_SM, MOESI!do_snoop_OM,
              MOESI!To, MOESI!Fill
<1> QED BY SoundProtocols, <1>1, <1>2, <1>3, <1>4, <1>5

\* A hit in any other protocol leaves the shared line as it is.
LEMMA CleanAccess ==
  ASSUME NEW p \in Clean, NEW s \in StatesOf(p), s \notin Waiting,
         NEW op \in {"LOAD", "STORE"}
  PROVE  "set_shared_line" \notin process_request_processor(p, s, op).does
<1> USE StatesOfSound DEF process_request_processor, Waiting, WaitRead, WaitWrite
<1>1. CASE p = "MI"
  BY <1>1 DEF MI!process_cache_request, MI!do_cache_I, MI!do_cache_M,
              MI!To, MI!Hit
<1>2. CASE p = "MSI"
  BY <1>2 DEF MSI!process_cache_request, MSI!do_cache_I, MSI!do_cache_S,
              MSI!do_cache_M, MSI!To, MSI!Hit
<1>3. CASE p = "MESI"
  BY <1>3 DEF MESI!process_cache_request, MESI!do_cache_I, MESI!do_cache_S,
              MESI!do_cache_E, MESI!do_cache_M, MESI!To, MESI!Hit
<1>4. CASE p = "MOSI"
  BY <1>4 DEF MOSI!process_cache_request, MOSI!do_cache_I, MOSI!do_cache_S,
              MOSI!do_cache_O, MOSI!do_cache_M, MOSI!To, MOSI!Hit
<1> QED BY <1>1, <1>2, <1>3, <1>4 DEF Clean

\* What else is known of MOESI: how a line comes to be in O or OM, and when the
\* other cache's line comes to be in I or ISE.
LEMMA OwnerAccess ==
  ASSUME NEW s \in StatesOf("MOESI"), s \notin Waiting, NEW op \in {"LOAD", "STORE"}
  PROVE  LET out == process_request_processor("MOESI", s, op)
         IN /\ out.state # "I"
            /\ out.state \in {"O", "OM"} => s = "O"
            /\ out.state = "ISE" => s = "I"
BY StatesOfSound
   DEF process_request_processor, MOESI!process_cache_request, MOESI!do_cache_I,
       MOESI!do_cache_S, MOESI!do_cache_E, MOESI!do_cache_O, MOESI!do_cache_M,
       MOESI!To, MOESI!Hit, Waiting, WaitRead, WaitWrite

LEMMA OwnerRequest ==
  ASSUME NEW s \in StatesOf("MOESI"),
         NEW msg \in {"GETS", "GETM"}, NEW own \in BOOLEAN, NEW shared \in BOOLEAN,
         ~PastOwner("MOESI", s, msg)
  PROVE  LET out == process_request_snoop("MOESI", s, msg, own, shared)
         IN /\ out.state = "O" => s = "M" /\ msg = "GETS"
            /\ out.state = "OM" => s = "OM" /\ own
            /\ out.state = "I" => s = "I" \/ (s \in Copy /\ msg = "GETM")
<1> DEFINE out == process_request_snoop("MOESI", s, msg, own, shared)
<1>1. /\ s = "I" => out = MOESI!do_snoop_I(msg)
      /\ s = "S" => out = MOESI!do_snoop_S(msg)
      /\ s = "E" => out = MOESI!do_snoop_E(msg)
      /\ s = "O" => out = MOESI!do_snoop_O(msg)
      /\ s = "M" => out = MOESI!do_snoop_M(msg)
      /\ s = "IM" => out = MOESI!do_snoop_IM(msg)
      /\ s = "ISE" => out = MOESI!do_snoop_ISE(msg, shared)
      /\ s = "SM" => out = MOESI!do_snoop_SM(msg)
      /\ s = "OM" => out = MOESI!do_snoop_OM(msg, own)
  BY DEF process_request_snoop, MOESI!process_snoop_request
<1> HIDE DEF out
<1>2. /\ out.state = "O" => s = "M" /\ msg = "GETS"
      /\ out.state = "OM" => s = "OM" /\ own
      /\ out.state = "I" => s = "I" \/ (s \in Copy /\ msg = "GETM")
  BY <1>1, StatesOfSound
     DEF PastOwner, Copy, Owning, MOESI!do_snoop_I, MOESI!do_snoop_S,
         MOESI!do_snoop_E, MOESI!do_snoop_O, MOESI!do_snoop_M,
         MOESI!do_snoop_IM, MOESI!do_snoop_ISE, MOESI!do_snoop_SM,
         MOESI!do_snoop_OM, MOESI!To, MOESI!Ignore, MOESI!Supply
<1> QED BY <1>2 DEF out

-------------------------------------------------------------------------------
(* Auxiliary facts.                                                        *)

\* How the classes of line states relate.
LEMMA Classes ==
  /\ Exclusive \subseteq Owning
  /\ Owning \subseteq Copy
  /\ Waiting = WaitRead \cup WaitWrite
  /\ WaitRead \cap WaitWrite = {}
  /\ WaitRead \cap Copy = {}
  /\ Exclusive \cap Waiting = {}
  /\ "ISE" \in WaitRead
BY DEF Exclusive, Owning, Copy, Waiting, WaitRead, WaitWrite

\* Queues: what is in one, what is in one after an element has been added at
\* the back, or taken from the front.
LEMMA ElementsTyped ==
  ASSUME NEW S, NEW q \in Seq(S)
  PROVE  \A k \in 1 .. Len(q) : q[k] \in S
OBVIOUS

LEMMA AtTheBack ==
  ASSUME NEW S, NEW q \in Seq(S), NEW e \in S
  PROVE  /\ Len(Append(q, e)) = Len(q) + 1
         /\ \A k \in 1 .. Len(q) + 1 :
              Append(q, e)[k] = IF k = Len(q) + 1 THEN e ELSE q[k]
OBVIOUS

LEMMA FromTheFront ==
  ASSUME NEW S, NEW q \in Seq(S), q # <<>>
  PROVE  /\ Len(q) \in Nat \ {0}
         /\ Head(q) = q[1]
         /\ Len(Tail(q)) = Len(q) - 1
         /\ \A k \in 1 .. Len(q) - 1 : Tail(q)[k] = q[k + 1]
OBVIOUS

LEMMA QueueTyped ==
  ASSUME TypeOK
  PROVE  \A k \in 1 .. Len(pending_requests) :
           /\ pending_requests[k].msg \in {"GETS", "GETM"}
           /\ pending_requests[k].addr \in Lines
           /\ pending_requests[k].src \in Nodes
<1>1. pending_requests \in Seq(Request)
  BY DEF TypeOK, BusTypeOK
<1>2. \A k \in 1 .. Len(pending_requests) : pending_requests[k] \in Request
  BY <1>1, ElementsTyped
<1> QED BY <1>2 DEF Request

\* A handler changes the one line it is called for.
LEMMA OneLineChanges ==
  ASSUME TypeOK, NEW i \in Nodes, NEW a \in Lines, NEW out, NEW dest,
         Perform(i, a, out, dest)
  PROVE  /\ state'[i][a] = out.state
         /\ \A j \in Nodes, b \in Lines :
              j # i \/ b # a => state'[j][b] = state[j][b]
BY DEF TypeOK, CacheTypeOK, Perform

\* A handler's step of the loop: the cache it is called for, and no other, has
\* now dealt with the message on the bus.
LEMMA TurnAdvances ==
  ASSUME TypeOK, NEW i \in Nodes, phase = "cache_snoop", turn = i,
         NextTurn("cache_request", "tick_pr")
  PROVE  /\ ~Snooped(i)
         /\ \A j \in Nodes : Snooped(j)' <=> Snooped(j) \/ j = i
         /\ BeforeMemory /\ BeforeMemory'
         /\ ~AfterMemory /\ ~AfterMemory'
         /\ ControlInv'
<1>1. CASE turn = num_nodes - 1
  BY <1>1, NodesAssumption
     DEF NextTurn, Snooped, BeforeMemory, AfterMemory, ControlInv, Nodes
<1>2. CASE turn # num_nodes - 1
  BY <1>2, NodesAssumption
     DEF NextTurn, Snooped, BeforeMemory, AfterMemory, ControlInv, Nodes
<1> QED BY <1>1, <1>2

\* A step that changes neither bus, lookup nor lines, and by which no cache
\* comes to have dealt with a request, keeps what IInv says of them.
LEMMA QuietStep ==
  ASSUME IInv, UNCHANGED <<busVars, lookup, cacheVars>>,
         \A j \in Nodes : Snooped(j) => Snooped(j)',
         \A j \in Nodes : RequestOnBus /\ Snooped(j)' => Snooped(j),
         BeforeMemory' <=> BeforeMemory, AfterMemory' <=> AfterMemory
  PROVE  /\ ProtocolInv' /\ QueueInv' /\ BusInv' /\ TransactionInv'
         /\ CoherenceInvariant'
<1> USE DEF busVars, cacheVars
<1>1. \A i \in Nodes, a \in Lines : Transaction(i, a)' => Transaction(i, a)
  BY DEF Transaction, RequestOnBus, DataOnBus
<1>2. RequestOnBus' = RequestOnBus /\ DataOnBus' = DataOnBus
  BY DEF RequestOnBus, DataOnBus
<1>3. \A j \in Nodes : Served(j)' => Served(j)
  BY <1>2 DEF Served
<1>4. ProtocolInv'
  BY DEF IInv, ProtocolInv
<1>5. QueueInv'
  BY <1>1, QueueTyped DEF IInv, QueueInv, AsksFor
<1>6. BusInv'
  BY <1>2 DEF IInv, BusInv, AsksFor
<1>7. TransactionInv'
  BY <1>1 DEF IInv, TransactionInv
<1>8. SingleWriter'
  BY DEF IInv, CoherenceInvariant, SingleWriter
<1>9. CoherenceInvariant'
  BY <1>1, <1>2, <1>3, <1>8 DEF IInv, CoherenceInvariant
<1> QED BY <1>4, <1>5, <1>6, <1>7, <1>9

-------------------------------------------------------------------------------
(* What the ticks that handle a message find.                              *)

\* No transaction is under way when the bus is free and has been seen by all.
LEMMA NoTransaction ==
  ASSUME ~request_in_progress, data_reply = NULL, ~RequestOnBus,
         NEW i \in Nodes, DataOnBus => Snooped(i)
  PROVE  \A a \in Lines : ~Transaction(i, a)
BY DEF Transaction

\* Memory's assertions hold, so its tick never ends the run.
LEMMA MemoryNeverAborts ==
  ASSUME IInv, phase = "tick_mc"
  PROVE  McAssertions
<1>1. BeforeMemory
  BY DEF BeforeMemory
<1>2. RequestOnBus => lookup = NULL /\ ~AnswerDue
  BY <1>1, HitTimeAssumption DEF IInv, BusInv, AnswerDue, DataTimeNow
<1>3. AnswerDue => ReplySlotFree
  BY <1>1, <1>2 DEF IInv, BusInv, AnswerDue, LookupNow, ReplySlotFree
<1> QED BY <1>2, <1>3 DEF McAssertions

\* The handler of an access keeps its contract, and finds a node that has
\* nothing else under way.
LEMMA AccessServed ==
  ASSUME IInv, NEW i \in Nodes, proc_request[i] # NULL
  PROVE  LET a == proc_request[i].addr
             s == state[i][a]
             out == ProcOutcome(i)
         IN /\ a \in Lines
            /\ AccessContract(protocol, s, proc_request[i].op, out)
            /\ outstanding_request[i]
            /\ inbound_request_buf[i] = NULL
            /\ inbound_request[i] = NULL
            /\ \A b \in Lines : state[i][b] \notin Waiting
            /\ \A b \in Lines : ~Transaction(i, b)
            /\ \A k \in 1 .. Len(pending_requests) : pending_requests[k].src # i
            /\ ~Dies(i, out.does)
<1> DEFINE a == proc_request[i].addr
           s == state[i][a]
           out == ProcOutcome(i)
<1>1. a \in Lines /\ proc_request[i].op \in {"LOAD", "STORE"}
  BY DEF IInv, TypeOK, PrTypeOK, Access
<1>2. /\ outstanding_request[i]
      /\ inbound_request_buf[i] = NULL
      /\ inbound_request[i] = NULL
      /\ \A b \in Lines : state[i][b] \notin Waiting
  BY DEF IInv, ProcessorInv
<1>3. \A b \in Lines : ~Transaction(i, b)
  BY <1>2 DEF IInv, TransactionInv
<1>4. \A k \in 1 .. Len(pending_requests) : pending_requests[k].src # i
  BY <1>2, QueueTyped, Classes DEF IInv, QueueInv, AsksFor
<1>5. AccessContract(protocol, s, proc_request[i].op, out)
  BY <1>1, <1>2, AccessHandlers DEF IInv, ProtocolInv, ProcOutcome
<1>6. ~Dies(i, out.does)
  BY <1>2, <1>5 DEF AccessContract, Dies
<1> HIDE DEF a, s, out
<1> QED BY <1>1, <1>2, <1>3, <1>4, <1>5, <1>6 DEF a, s, out

\* With two caches no request is sent past the owner: the other cache reads
\* only what the owner has not taken over yet, or has answered already.
LEMMA NeverPastOwner ==
  ASSUME IInv, NEW i \in Nodes, CacheSnoop(i), RequestOnBus
  PROVE  ~PastOwner(protocol, state[i][current_request.addr], current_request.msg)
<1> DEFINE a == current_request.addr
           src == current_request.src
<1> SUFFICES ASSUME protocol = "MOESI", state[i][a] \in {"O", "OM"},
                    current_request.msg = "GETS"
             PROVE  FALSE
  BY DEF PastOwner
<1>1. a \in Lines /\ src \in Nodes
  BY DEF RequestOnBus, IInv, TypeOK, BusTypeOK, Mreq, Request, Data
<1>2. state[src][a] \in WaitRead /\ Transaction(src, a)
  BY DEF IInv, BusInv, AsksFor, Transaction
<1>3. state[src][a] = "ISE" /\ src # i
  <2>1. state[src][a] \in StatesOf("MOESI")
    BY <1>1 DEF IInv, ProtocolInv
  <2> QED BY <1>2, <2>1, StatesOfSound DEF WaitRead
<1>4. ~Served(i)
  BY DEF Served, CacheSnoop, Snooped, Nodes
<1> HIDE DEF a, src
<1>5. Transaction(i, a)
  BY <1>1, <1>3, <1>4 DEF IInv, PairInv, Reading
<1> QED BY <1>1, <1>2, <1>3, <1>5 DEF IInv, TransactionInv

\* The handler of a snooped request keeps its contract, and finds the reply slot
\* free if it has to answer.
LEMMA RequestSnooped ==
  ASSUME IInv, NEW i \in Nodes, CacheSnoop(i), RequestOnBus
  PROVE  LET a == current_request.addr
             src == current_request.src
             out == SnoopOutcome(i)
         IN /\ a \in Lines /\ src \in Nodes
            /\ current_request.msg \in {"GETS", "GETM"}
            /\ ~DataOnBus
            /\ RequestContract(protocol, state[i][a], current_request.msg,
                               src = i, out)
            /\ phase = "cache_snoop" /\ turn = i /\ ~Snooped(i)
            /\ Perform(i, a, out, src)
            /\ NextTurn("cache_request", "tick_pr")
            /\ UNCHANGED <<protocol, current_request, request_in_progress, infile,
                           outstanding_request, inbound_request, proc_request,
                           lookup>>
<1> DEFINE a == current_request.addr
           src == current_request.src
           s == state[i][a]
           out == SnoopOutcome(i)
<1>1. /\ a \in Lines /\ src \in Nodes
      /\ current_request.msg \in {"GETS", "GETM"}
      /\ ~DataOnBus
  BY DEF RequestOnBus, DataOnBus, IInv, TypeOK, BusTypeOK, Mreq, Request, Data
<1>2. RequestContract(protocol, s, current_request.msg, src = i, out)
  <2>1. /\ protocol \in Sound /\ s \in StatesOf(protocol)
        /\ (src = i) \in BOOLEAN /\ shared_line \in BOOLEAN
    BY <1>1 DEF IInv, ProtocolInv, TypeOK, BusTypeOK
  <2> QED BY <1>1, <2>1, RequestHandlers, NeverPastOwner DEF SnoopOutcome
<1>3. phase = "cache_snoop" /\ turn = i /\ ~Snooped(i)
  BY DEF CacheSnoop, Snooped, Nodes
<1> HIDE DEF out
<1>4. s \in Owning => data_reply = NULL
  BY <1>3 DEF IInv, CoherenceInvariant
<1>5. ~Dies(i, out.does)
  BY <1>2, <1>4 DEF Dies, RequestContract, ReplySlotFree
<1>6. /\ Perform(i, a, out, src)
      /\ NextTurn("cache_request", "tick_pr")
      /\ UNCHANGED <<protocol, current_request, request_in_progress, infile,
                     outstanding_request, inbound_request, proc_request, lookup>>
  BY <1>5 DEF CacheSnoop, Snoop, mcVars, out
<1> HIDE DEF a, src, s
<1> QED BY <1>1, <1>2, <1>3, <1>6 DEF a, src, s, out

\* The handler of snooped DATA keeps its contract, and finds the line waiting
\* and the processor's buffer free.
LEMMA DataSnooped ==
  ASSUME IInv, NEW i \in Nodes, CacheSnoop(i), DataOnBus
  PROVE  LET a == current_request.addr
             out == SnoopOutcome(i)
         IN /\ a \in Lines /\ current_request.dest = i /\ ~RequestOnBus
            /\ phase = "cache_snoop" /\ turn = i /\ ~Snooped(i) /\ BeforeMemory
            /\ Transaction(i, a) /\ state[i][a] \in Waiting
            /\ FillContract(protocol, state[i][a], shared_line, out)
            /\ proc_request[i] = NULL
            /\ outstanding_request[i]
            /\ inbound_request_buf[i] = NULL
            /\ inbound_request[i] = NULL
            /\ \A b \in Lines \ {a} : state[i][b] \notin Waiting
            /\ Perform(i, a, out, current_request.src)
            /\ NextTurn("cache_request", "tick_pr")
            /\ UNCHANGED <<protocol, current_request, request_in_progress, infile,
                           outstanding_request, inbound_request, proc_request,
                           lookup>>
<1> DEFINE a == current_request.addr
           s == state[i][a]
           out == SnoopOutcome(i)
<1>2. /\ a \in Lines /\ current_request.dest = i
      /\ current_request.msg = "DATA"
      /\ ~RequestOnBus
  BY DEF CacheSnoop, MustSnoop, RequestOnBus, DataOnBus, IInv, TypeOK, BusTypeOK,
         Mreq, Request, Data
<1>3. phase = "cache_snoop" /\ turn = i /\ ~Snooped(i) /\ BeforeMemory
  BY DEF CacheSnoop, Snooped, Nodes, BeforeMemory
<1>4. Transaction(i, a) /\ s \in Waiting
  BY <1>2, <1>3 DEF Transaction, IInv, TransactionInv
<1>5. FillContract(protocol, s, shared_line, out)
  <2>1. /\ protocol \in Sound /\ s \in StatesOf(protocol)
        /\ (current_request.src = i) \in BOOLEAN /\ shared_line \in BOOLEAN
    BY <1>2 DEF IInv, ProtocolInv, TypeOK, BusTypeOK
  <2> QED BY <1>2, <1>4, <2>1, FillHandlers DEF SnoopOutcome
<1>6. /\ proc_request[i] = NULL
      /\ outstanding_request[i]
      /\ inbound_request_buf[i] = NULL
      /\ inbound_request[i] = NULL
      /\ \A b \in Lines \ {a} : state[i][b] \notin Waiting
  BY <1>2, <1>4 DEF IInv, ProcessorInv
<1>7. ~Dies(i, out.does)
  BY <1>5, <1>6 DEF Dies, FillContract
<1>8. /\ Perform(i, a, out, current_request.src)
      /\ NextTurn("cache_request", "tick_pr")
      /\ UNCHANGED <<protocol, current_request, request_in_progress, infile,
                     outstanding_request, inbound_request, proc_request, lookup>>
  BY <1>7 DEF CacheSnoop, Snoop, mcVars, out
<1> HIDE DEF a, s, out
<1> QED BY <1>2, <1>3, <1>4, <1>5, <1>6, <1>8 DEF a, s, out

-------------------------------------------------------------------------------
(* A transaction goes on until its DATA is snooped.                        *)

\* The tick of cache i in which it takes the DATA for line a.
TakesData(i, a) == CacheSnoop(i) /\ DataOnBus /\ current_request.addr = a

LEMMA BusAtRest ==
  ASSUME UNCHANGED <<busVars, lookup>>, NEW i \in Nodes, NEW a \in Lines,
         Transaction(i, a), DataOnBus /\ current_request.dest = i =>
                              (Snooped(i)' => Snooped(i))
  PROVE  Transaction(i, a)'
BY DEF Transaction, busVars, RequestOnBus, DataOnBus

LEMMA BusTickGoesOn ==
  ASSUME IInv, TickBus, NEW i \in Nodes, NEW a \in Lines, Transaction(i, a)
  PROVE  Transaction(i, a)'
<1>1. /\ AfterMemory /\ ~BeforeMemory
      /\ \A j \in Nodes : Snooped(j) /\ ~Snooped(j)'
      /\ lookup' = lookup
  BY DEF IInv, TypeOK, ControlInv, TickBus, AfterMemory, BeforeMemory, Snooped,
         Nodes, mcVars
<1>2. CASE BroadcastData
  <2>1. /\ data_reply # NULL /\ data_reply \in Data
        /\ current_request' = data_reply
    BY <1>2 DEF BroadcastData, IInv, TypeOK, BusTypeOK
  <2>2. data_reply.dest = i /\ data_reply.addr = a
    BY <2>1 DEF Data, IInv, TransactionInv, Transaction
  <2>3. DataOnBus' /\ current_request'.dest = i /\ current_request'.addr = a
    BY <2>1, <2>2 DEF DataOnBus, Data
  <2> QED BY <1>1, <2>3 DEF Transaction
<1>3. CASE AwaitData
  <2>1. request_in_progress /\ lookup # NULL /\ data_reply = NULL
    BY <1>1, <1>3 DEF AwaitData, IInv, BusInv
  <2>2. ~DataOnBus
    BY <2>1 DEF IInv, BusInv
  <2>3. lookup.target = i /\ lookup.addr = a
    <3>1. lookup.target \in Nodes /\ lookup.addr \in Lines
      BY <2>1 DEF IInv, TypeOK, McTypeOK, Lookup
    <3> QED BY <2>1, <3>1 DEF IInv, TransactionInv, Transaction
  <2> QED BY <1>1, <1>3, <2>1, <2>3 DEF AwaitData, Transaction
<1>4. CASE BroadcastRequest \/ StayIdle
  <2>1. ~request_in_progress
    BY <1>4 DEF BroadcastRequest, StayIdle
  <2>2. data_reply = NULL /\ ~RequestOnBus
    BY <2>1 DEF IInv, BusInv
  <2> QED BY <1>1, <2>1, <2>2, NoTransaction
<1> QED BY <1>2, <1>3, <1>4 DEF TickBus, BusTick

LEMMA MemoryTickGoesOn ==
  ASSUME IInv, TickMemory, NEW i \in Nodes, NEW a \in Lines, Transaction(i, a)
  PROVE  Transaction(i, a)'
<1>1. /\ McTick /\ phase = "tick_mc"
      /\ UNCHANGED <<current_request, request_in_progress>>
  BY MemoryNeverAborts DEF TickMemory
<1>2. /\ BeforeMemory /\ Snooped(i)
      /\ RequestOnBus' = RequestOnBus /\ DataOnBus' = DataOnBus
  BY <1>1 DEF BeforeMemory, Snooped, RequestOnBus, DataOnBus
<1>3. CASE Answer
  <2>1. /\ ~RequestOnBus /\ request_in_progress
        /\ data_reply = NULL /\ LookupNow = lookup /\ lookup # NULL
    BY <1>2, <1>3, HitTimeAssumption
       DEF Answer, AnswerDue, LookupNow, DataTimeNow, IInv, BusInv
  <2>2. lookup.target = i /\ lookup.addr = a
    BY <1>2, <2>1 DEF Transaction
  <2>3. data_reply' = [msg |-> "DATA", addr |-> a, src |-> MC, dest |-> i]
    BY <1>3, <2>1, <2>2 DEF Answer, SendData
  <2>4. data_reply' # NULL
    BY <2>3, NullAssumption DEF Data, Mreq
  <2> QED BY <2>3, <2>4 DEF Transaction
<1>4. CASE KeepLooking
  <2>1. lookup' = LookupNow /\ data_reply' = data_reply
    BY <1>4 DEF KeepLooking
  <2>2. CASE RequestOnBus
    <3>1. i = current_request.src /\ a = current_request.addr
      BY <2>2 DEF IInv, TransactionInv, Transaction, TypeOK, BusTypeOK,
                  RequestOnBus, Mreq, Request, Data
    <3> QED BY <1>1, <1>2, <2>2, <3>1 DEF Transaction
  <2>3. CASE ~RequestOnBus
    <3>1. request_in_progress => lookup' = lookup
      BY <2>1, <2>3 DEF LookupNow, IInv, BusInv
    <3> QED BY <1>1, <1>2, <2>1, <2>3, <3>1 DEF Transaction
  <2> QED BY <2>2, <2>3
<1> QED BY <1>1, <1>3, <1>4 DEF McTick

\* No step but its receiver's tick loses the transaction that is under way.
LEMMA TransactionGoesOn ==
  ASSUME IInv, [Next]_vars, NEW i \in Nodes, NEW a \in Lines, Transaction(i, a)
  PROVE  Transaction(i, a)' \/ TakesData(i, a)
<1>1. CASE TickBus
  BY <1>1, BusTickGoesOn
<1>2. ASSUME NEW j \in Nodes, CacheIdle(j) PROVE Transaction(i, a)'
  BY <1>2, BusAtRest DEF CacheIdle, mcVars, Snooped
<1>3. ASSUME NEW j \in Nodes, CacheServe(j) PROVE Transaction(i, a)'
  <2>1. /\ proc_request[j].addr \in Lines
        /\ AccessContract(protocol, state[j][proc_request[j].addr],
                          proc_request[j].op, ProcOutcome(j))
        /\ ~Dies(j, ProcOutcome(j).does)
    BY <1>3, AccessServed DEF CacheServe
  <2>2. /\ Perform(j, proc_request[j].addr, ProcOutcome(j), j)
        /\ UNCHANGED <<current_request, request_in_progress, lookup, turn>>
        /\ phase = "cache_request" /\ phase' = "cache_snoop"
    BY <1>3, <2>1 DEF CacheServe, ServeProcessor, mcVars
  <2>3. data_reply' = data_reply
    BY <2>1, <2>2 DEF AccessContract, Perform
  <2> QED BY <2>2, <2>3 DEF Transaction, Snooped, RequestOnBus, DataOnBus
<1>4. ASSUME NEW j \in Nodes, CachePass(j) PROVE Transaction(i, a)'
  <2>1. DataOnBus /\ current_request.dest = i => j # i
    BY <1>4 DEF CachePass, MustSnoop, DataOnBus
  <2> QED BY <1>4, <2>1, BusAtRest, TurnAdvances DEF CachePass, mcVars, IInv
<1>5. ASSUME NEW j \in Nodes, CacheSnoop(j), RequestOnBus PROVE Transaction(i, a)'
  <2>1. /\ current_request.addr \in Lines /\ current_request.src \in Nodes
        /\ ~DataOnBus /\ request_in_progress
        /\ UNCHANGED <<current_request, request_in_progress, lookup>>
    BY <1>5, RequestSnooped DEF IInv, BusInv
  <2>2. i = current_request.src /\ a = current_request.addr
    BY <1>5, <2>1 DEF IInv, TransactionInv, Transaction
  <2> QED BY <1>5, <2>1, <2>2 DEF Transaction, RequestOnBus
<1>6. ASSUME NEW j \in Nodes, CacheSnoop(j), DataOnBus PROVE TakesData(i, a)
  <2>1. Transaction(j, current_request.addr) /\ current_request.addr \in Lines
    BY <1>6, DataSnooped
  <2>2. i = j /\ a = current_request.addr
    BY <2>1 DEF IInv, TransactionInv
  <2> QED BY <1>6, <2>2 DEF TakesData
<1>7. ASSUME NEW j \in Nodes, TickProcessor(j) PROVE Transaction(i, a)'
  BY <1>7, BusAtRest DEF TickProcessor, NextTurn, mcVars, Snooped
<1>8. CASE TickMemory
  BY <1>8, MemoryTickGoesOn
<1>9. CASE Tock
  BY <1>9, BusAtRest DEF Tock, Snooped
<1>10. CASE UNCHANGED vars
  BY <1>10, BusAtRest DEF vars, mcVars, Snooped
<1>11. ASSUME NEW j \in Nodes, CacheSnoop(j)
       PROVE  Transaction(i, a)' \/ TakesData(i, a)
  BY <1>5, <1>6, <1>11 DEF CacheSnoop, MustSnoop, RequestOnBus, DataOnBus
<1> QED
  BY <1>1, <1>2, <1>3, <1>4, <1>7, <1>8, <1>9, <1>10, <1>11 DEF Next, Ended

-------------------------------------------------------------------------------
(* What the ticks that handle a message do to lines and queue, in the terms *)
(* of the contracts.                                                       *)

\* The processor's half.
LEMMA ServeEffect ==
  ASSUME IInv, NEW i \in Nodes, CacheServe(i)
  PROVE  LET a == proc_request[i].addr
             s == state[i][a]
         IN /\ a \in Lines /\ s \notin Waiting
            /\ AccessContract(protocol, s, proc_request[i].op,
                              ProcOutcome(i))
            /\ state'[i][a] = ProcOutcome(i).state
            /\ \A j \in Nodes, b \in Lines :
                 j # i \/ b # a => state'[j][b] = state[j][b]
            /\ \/ /\ "send_DATA_to_proc" \in ProcOutcome(i).does
                  /\ pending_requests' = pending_requests
               \/ \E m \in Request :
                    /\ m.src = i /\ m.addr = a
                    /\ pending_requests' = Append(pending_requests, m)
            /\ shared_line => shared_line'
            /\ protocol \in Clean => shared_line' = shared_line
            /\ UNCHANGED <<data_reply, current_request, protocol,
                           request_in_progress, lookup, turn, infile,
                           outstanding_request, inbound_request>>
            /\ phase = "cache_request" /\ phase' = "cache_snoop"
            /\ inbound_request_buf' =
                 IF "send_DATA_to_proc" \in ProcOutcome(i).does
                   THEN [inbound_request_buf EXCEPT ![i] = a]
                   ELSE inbound_request_buf
            /\ proc_request' = [proc_request EXCEPT ![i] = NULL]
<1> DEFINE a == proc_request[i].addr
           s == state[i][a]
           out == ProcOutcome(i)
<1>1. /\ a \in Lines /\ s \notin Waiting
      /\ AccessContract(protocol, s, proc_request[i].op, out)
      /\ ~Dies(i, out.does)
  BY AccessServed DEF CacheServe
<1>2. /\ Perform(i, a, out, i)
      /\ UNCHANGED <<current_request, protocol, request_in_progress, lookup,
                     turn, infile, outstanding_request, inbound_request>>
      /\ phase = "cache_request" /\ phase' = "cache_snoop"
      /\ proc_request' = [proc_request EXCEPT ![i] = NULL]
  BY <1>1 DEF CacheServe, ServeProcessor, mcVars
<1>3. /\ state'[i][a] = out.state
      /\ \A j \in Nodes, b \in Lines :
           j # i \/ b # a => state'[j][b] = state[j][b]
  BY <1>1, <1>2, OneLineChanges DEF IInv
<1>7. protocol \in Clean => "set_shared_line" \notin out.does
  <2>1. s \in StatesOf(protocol) /\ proc_request[i].op \in {"LOAD", "STORE"}
    BY <1>1 DEF CacheServe, IInv, TypeOK, PrTypeOK, Access, ProtocolInv
  <2> QED BY <1>1, <2>1, CleanAccess DEF ProcOutcome
<1> HIDE DEF out
<1>4. /\ data_reply' = data_reply
      /\ shared_line => shared_line'
      /\ protocol \in Clean => shared_line' = shared_line
  BY <1>1, <1>2, <1>7 DEF AccessContract, Perform, IInv, TypeOK, BusTypeOK
<1>5. inbound_request_buf' =
        IF "send_DATA_to_proc" \in out.does
          THEN [inbound_request_buf EXCEPT ![i] = a] ELSE inbound_request_buf
  BY <1>1, <1>2 DEF AccessContract, Perform
<1>6. \/ /\ "send_DATA_to_proc" \in out.does
         /\ pending_requests' = pending_requests
      \/ \E m \in Request :
           /\ m.src = i /\ m.addr = a
           /\ pending_requests' = Append(pending_requests, m)
  <2> DEFINE Req(msg) == [msg |-> msg, addr |-> a, src |-> i]
  <2>1. \A msg \in {"GETS", "GETM"} :
          Req(msg) \in Request /\ Req(msg).src = i /\ Req(msg).addr = a
    BY <1>1 DEF Request
  <2>2. CASE "send_DATA_to_proc" \in out.does
    BY <1>1, <1>2, <2>2 DEF AccessContract, Perform
  <2>3. CASE out.does = {"send_GETS"}
    BY <1>2, <2>1, <2>3 DEF Perform, Enqueue
  <2>4. CASE out.does = {"send_GETM"}
    BY <1>2, <2>1, <2>4 DEF Perform, Enqueue
  <2> QED BY <1>1, <2>2, <2>3, <2>4 DEF AccessContract
<1> QED BY <1>1, <1>2, <1>3, <1>4, <1>5, <1>6 DEF out

\* The bus's half, when a request is on the bus.
LEMMA RequestEffect ==
  ASSUME IInv, NEW i \in Nodes, CacheSnoop(i), RequestOnBus
  PROVE  LET a == current_request.addr
             s == state[i][a]
             out == SnoopOutcome(i)
         IN /\ RequestContract(protocol, s, current_request.msg,
                               current_request.src = i, out)
            /\ state'[i][a] = out.state
            /\ \A j \in Nodes, b \in Lines :
                 j # i \/ b # a => state'[j][b] = state[j][b]
            /\ UNCHANGED <<pending_requests, inbound_request_buf>>
            /\ shared_line' = (shared_line \/ "set_shared_line" \in out.does)
            /\ data_reply' =
                 IF s \in Owning
                   THEN [msg |-> "DATA", addr |-> a, src |-> i,
                         dest |-> current_request.src]
                   ELSE data_reply
<1> DEFINE a == current_request.addr
           out == SnoopOutcome(i)
<1>1. /\ a \in Lines
      /\ RequestContract(protocol, state[i][a], current_request.msg,
                         current_request.src = i, out)
      /\ Perform(i, a, out, current_request.src)
  BY RequestSnooped
<1>2. /\ state'[i][a] = out.state
      /\ \A j \in Nodes, b \in Lines :
           j # i \/ b # a => state'[j][b] = state[j][b]
  BY <1>1, OneLineChanges DEF IInv
<1> HIDE DEF out
<1>3. /\ UNCHANGED <<pending_requests, inbound_request_buf>>
      /\ shared_line' = (shared_line \/ "set_shared_line" \in out.does)
      /\ data_reply' =
           IF state[i][a] \in Owning
             THEN [msg |-> "DATA", addr |-> a, src |-> i,
                   dest |-> current_request.src]
             ELSE data_reply
  BY <1>1 DEF RequestContract, Perform, SendData
<1> QED BY <1>1, <1>2, <1>3 DEF out

\* The bus's half, when DATA is on the bus.
LEMMA DataEffect ==
  ASSUME IInv, NEW i \in Nodes, CacheSnoop(i), DataOnBus
  PROVE  LET a == current_request.addr
             out == SnoopOutcome(i)
         IN /\ FillContract(protocol, state[i][a], shared_line, out)
            /\ state'[i][a] = out.state
            /\ \A j \in Nodes, b \in Lines :
                 j # i \/ b # a => state'[j][b] = state[j][b]
            /\ UNCHANGED <<pending_requests, shared_line>>
            /\ inbound_request_buf' = [inbound_request_buf EXCEPT ![i] = a]
<1> DEFINE a == current_request.addr
           out == SnoopOutcome(i)
<1>1. /\ a \in Lines
      /\ FillContract(protocol, state[i][a], shared_line, out)
      /\ Perform(i, a, out, current_request.src)
  BY DataSnooped
<1>2. /\ state'[i][a] = out.state
      /\ \A j \in Nodes, b \in Lines :
           j # i \/ b # a => state'[j][b] = state[j][b]
  BY <1>1, OneLineChanges DEF IInv
<1> HIDE DEF out
<1>3. /\ UNCHANGED <<pending_requests, shared_line>>
      /\ inbound_request_buf' = [inbound_request_buf EXCEPT ![i] = a]
  BY <1>1 DEF FillContract, Perform, IInv, TypeOK, BusTypeOK
<1> QED BY <1>1, <1>2, <1>3 DEF out

\* Where lines, queue and shared line change.
LEMMA WhatChanges ==
  ASSUME IInv, [Next]_vars
  PROVE  \/ \E i \in Nodes : CacheServe(i)
         \/ \E i \in Nodes : CacheSnoop(i) /\ RequestOnBus
         \/ \E i \in Nodes : CacheSnoop(i) /\ DataOnBus
         \/ TickBus /\ UNCHANGED <<state, protocol>>
         \/ UNCHANGED <<state, protocol, pending_requests, shared_line,
                        current_request>>
<1> USE DEF busVars, mcVars, cacheVars
<1>1. CASE TickBus
  BY <1>1 DEF TickBus
<1>2. ASSUME NEW i \in Nodes, CacheIdle(i) \/ CachePass(i) \/ TickProcessor(i)
      PROVE  UNCHANGED <<state, protocol, pending_requests, shared_line,
                         current_request>>
  BY <1>2 DEF CacheIdle, CachePass, TickProcessor
<1>3. ASSUME NEW i \in Nodes, CacheSnoop(i) PROVE RequestOnBus \/ DataOnBus
  BY <1>3 DEF CacheSnoop, MustSnoop, RequestOnBus, DataOnBus
<1>4. CASE TickMemory
  BY <1>4, MemoryNeverAborts DEF TickMemory
<1>5. CASE Tock
  BY <1>5 DEF Tock
<1>6. CASE UNCHANGED vars
  BY <1>6 DEF vars
<1> QED BY <1>1, <1>2, <1>3, <1>4, <1>5, <1>6 DEF Next, Ended

-------------------------------------------------------------------------------
(* Two caches of MOESI.                                                    *)

LEMMA TwoNodes ==
  ASSUME IInv, protocol = "MOESI", NEW i \in Nodes, NEW j \in Nodes, i # j
  PROVE  \A k \in Nodes : k = i \/ k = j
BY NodesAssumption, SoundProtocols DEF IInv, ProtocolInv, Nodes

\* Every tick but the bus's leaves the message on the bus there, and the caches
\* that have dealt with it.
LEMMA OtherTicks ==
  ASSUME IInv, [Next]_vars, ~TickBus
  PROVE  /\ current_request' = current_request
         /\ \A j \in Nodes : Snooped(j) => Snooped(j)'
<1> USE DEF busVars, mcVars
<1>1. ASSUME NEW i \in Nodes, CacheIdle(i)
      PROVE  /\ current_request' = current_request
             /\ \A j \in Nodes : Snooped(j) => Snooped(j)'
  BY <1>1 DEF CacheIdle, Snooped
<1>2. ASSUME NEW i \in Nodes, CacheServe(i)
      PROVE  /\ current_request' = current_request
             /\ \A j \in Nodes : Snooped(j) => Snooped(j)'
  BY <1>2, ServeEffect DEF Snooped
<1>3. ASSUME NEW i \in Nodes, CachePass(i)
      PROVE  /\ current_request' = current_request
             /\ \A j \in Nodes : Snooped(j) => Snooped(j)'
  BY <1>3, TurnAdvances DEF CachePass, IInv
<1>4. ASSUME NEW i \in Nodes, CacheSnoop(i)
      PROVE  /\ current_request' = current_request
             /\ \A j \in Nodes : Snooped(j) => Snooped(j)'
  <2>1. RequestOnBus \/ DataOnBus
    BY <1>4 DEF CacheSnoop, MustSnoop, RequestOnBus, DataOnBus
  <2>2. /\ phase = "cache_snoop" /\ turn = i
        /\ NextTurn("cache_request", "tick_pr")
        /\ current_request' = current_request
    BY <1>4, <2>1, RequestSnooped, DataSnooped
  <2> QED BY <2>2, TurnAdvances DEF IInv
<1>5. ASSUME NEW i \in Nodes, TickProcessor(i)
      PROVE  /\ current_request' = current_request
             /\ \A j \in Nodes : Snooped(j) => Snooped(j)'
  BY <1>5 DEF TickProcessor, NextTurn, Snooped
<1>6. CASE TickMemory
  BY <1>6, MemoryNeverAborts DEF TickMemory, Snooped
<1>7. CASE Tock
  BY <1>7 DEF Tock, Snooped, IInv, TypeOK
<1>8. CASE UNCHANGED vars
  BY <1>8 DEF vars, Snooped
<1> QED BY <1>1, <1>2, <1>3, <1>4, <1>5, <1>6, <1>7, <1>8 DEF Next, Ended

\* A transaction the other cache has dealt with goes on, dealt with, until its
\* DATA is taken.
LEMMA ReadingGoesOn ==
  ASSUME IInv, [Next]_vars, NEW i \in Nodes, NEW j \in Nodes, NEW a \in Lines,
         Reading(i, a, j), state'[i][a] \in Waiting
  PROVE  Reading(i, a, j)'
<1>1. Transaction(i, a)'
  <2>1. ASSUME TakesData(i, a) PROVE FALSE
    <3>1. state'[i][a] \notin Waiting
      BY <2>1, DataEffect DEF TakesData, FillContract
    <3> QED BY <3>1
  <2> QED BY <2>1, TransactionGoesOn DEF Reading
<1>2. CASE TickBus
  <2>1. ~BroadcastRequest
    <3> SUFFICES ASSUME BroadcastRequest PROVE FALSE
      OBVIOUS
    <3>1. ~request_in_progress /\ AfterMemory /\ Snooped(i)
      BY <1>2 DEF BroadcastRequest, TickBus, AfterMemory, Snooped
    <3>2. data_reply = NULL /\ ~RequestOnBus
      BY <3>1 DEF IInv, BusInv
    <3> QED BY <3>1, <3>2, NoTransaction DEF Reading
  <2>2. ~RequestOnBus'
    BY <1>2, <2>1, NullAssumption
       DEF TickBus, BusTick, BroadcastData, AwaitData, StayIdle, RequestOnBus,
           IInv, TypeOK, BusTypeOK, Data, Mreq
  <2> QED BY <1>1, <2>2 DEF Reading, Served
<1>3. CASE ~TickBus
  BY <1>1, <1>3, OtherTicks DEF Reading, Served, RequestOnBus
<1> QED BY <1>2, <1>3

\* PairInv of caches i and j and line a after a step, where a transaction may
\* be read as it was or as it is.
StillReading(i, a, j) == Reading(i, a, j) \/ Reading(i, a, j)'
PairAfter(i, j, a) ==
  /\ state'[i][a] = "O" =>
       /\ state'[j][a] # "I"
       /\ state'[j][a] = "ISE" => StillReading(j, a, i)
  /\ state'[i][a] = "OM" =>
       /\ state'[j][a] = "I" => StillReading(i, a, j)
       /\ state'[j][a] = "ISE" => StillReading(j, a, i) \/ StillReading(i, a, j)

LEMMA PairFromStates ==
  ASSUME IInv, [Next]_vars,
         \A i, j \in Nodes, a \in Lines : i # j => PairAfter(i, j, a)
  PROVE  PairInv'
<1>1. "ISE" \in Waiting /\ "OM" \in Waiting
  BY DEF Waiting, WaitRead, WaitWrite
<1>2. \A i, j \in Nodes, a \in Lines :
        Reading(i, a, j) /\ state'[i][a] \in Waiting => Reading(i, a, j)'
  BY ReadingGoesOn
<1> QED BY <1>1, <1>2 DEF PairInv, PairAfter, StillReading

\* The transaction of a request that cache k has just dealt with.
LEMMA JustServed ==
  ASSUME IInv, NEW k \in Nodes, CacheSnoop(k), RequestOnBus,
         NEW i \in Nodes, NEW a \in Lines,
         i = current_request.src, a = current_request.addr
  PROVE  Reading(i, a, k)'
<1>1. /\ RequestOnBus' /\ current_request' = current_request
      /\ phase = "cache_snoop" /\ turn = k
      /\ NextTurn("cache_request", "tick_pr")
  BY RequestSnooped DEF RequestOnBus
<1>2. Snooped(k)'
  BY <1>1, TurnAdvances DEF IInv
<1> QED BY <1>1, <1>2 DEF Reading, Transaction, Served

\* Each tick keeps what two caches of MOESI make of a line.
LEMMA PairStep ==
  ASSUME IInv, [Next]_vars
  PROVE  PairInv'
<1>1. protocol' = protocol
  BY WhatChanges, ServeEffect, RequestSnooped, DataSnooped
<1>2. CASE protocol # "MOESI"
  BY <1>1, <1>2 DEF PairInv
<1>3. CASE protocol = "MOESI"
  <2> SUFFICES ASSUME NEW i \in Nodes, NEW j \in Nodes, NEW a \in Lines, i # j
               PROVE  PairAfter(i, j, a)
    BY PairFromStates
  <2>1. \A k \in Nodes : state[k][a] \in StatesOf("MOESI")
    BY <1>3 DEF IInv, ProtocolInv
  <2>2. /\ state[i][a] = "O" =>
             /\ state[j][a] # "I"
             /\ state[j][a] = "ISE" => Reading(j, a, i)
        /\ state[i][a] = "OM" =>
             /\ state[j][a] = "I" => Reading(i, a, j)
             /\ state[j][a] = "ISE" => Reading(j, a, i) \/ Reading(i, a, j)
    BY <1>3 DEF IInv, PairInv
  <2>3. \A k \in Nodes : k = i \/ k = j
    BY <1>3, TwoNodes
  <2>4. ASSUME state'[i][a] = state[i][a], state'[j][a] = state[j][a]
        PROVE  PairAfter(i, j, a)
    BY <2>2, <2>4 DEF PairAfter, StillReading
  <2>5. ASSUME NEW k \in Nodes, CacheServe(k) PROVE PairAfter(i, j, a)
    <3> DEFINE b == proc_request[k].addr
    <3>1. /\ b \in Lines /\ state[k][b] \notin Waiting
          /\ proc_request[k].op \in {"LOAD", "STORE"}
          /\ state'[k][b] = ProcOutcome(k).state
          /\ \A l \in Nodes, c \in Lines :
               l # k \/ c # b => state'[l][c] = state[l][c]
      BY <2>5, ServeEffect DEF CacheServe, IInv, TypeOK, PrTypeOK, Access
    <3>2. b = a => /\ state'[k][a] # "I"
                   /\ state'[k][a] \in {"O", "OM"} => state[k][a] = "O"
                   /\ state'[k][a] = "ISE" => state[k][a] = "I"
      BY <1>3, <2>1, <3>1, OwnerAccess DEF ProcOutcome
    <3> HIDE DEF b
    <3>3. CASE b # a
      BY <2>4, <3>1, <3>3
    <3>4. CASE b = a /\ k = i
      BY <2>2, <3>1, <3>2, <3>4 DEF PairAfter, StillReading
    <3>5. CASE b = a /\ k = j
      BY <2>2, <3>1, <3>2, <3>5 DEF PairAfter, StillReading
    <3> QED BY <2>3, <3>3, <3>4, <3>5
  <2>6. ASSUME NEW k \in Nodes, CacheSnoop(k), RequestOnBus
        PROVE  PairAfter(i, j, a)
    <3> DEFINE b == current_request.addr
               src == current_request.src
               msg == current_request.msg
    <3>1. /\ b \in Lines /\ src \in Nodes /\ msg \in {"GETS", "GETM"}
          /\ RequestContract(protocol, state[k][b], msg, src = k, SnoopOutcome(k))
          /\ state'[k][b] = SnoopOutcome(k).state
          /\ \A l \in Nodes, c \in Lines :
               l # k \/ c # b => state'[l][c] = state[l][c]
      BY <2>6, RequestSnooped, RequestEffect
    <3>2. b = a => /\ state'[k][a] = "O" => state[k][a] = "M" /\ msg = "GETS"
                   /\ state'[k][a] = "OM" => state[k][a] = "OM"
                   /\ state'[k][a] = "I" =>
                        state[k][a] = "I" \/ (state[k][a] \in Copy /\ msg = "GETM")
      <4>1. /\ ~PastOwner("MOESI", state[k][b], msg)
            /\ shared_line \in BOOLEAN /\ (src = k) \in BOOLEAN
        BY <1>3, <2>6, NeverPastOwner DEF IInv, TypeOK, BusTypeOK
      <4>2. SnoopOutcome(k) =
              process_request_snoop("MOESI", state[k][b], msg, src = k, shared_line)
        BY <1>3 DEF SnoopOutcome
      <4> HIDE DEF b, src, msg
      <4> SUFFICES ASSUME b = a
                   PROVE  /\ state'[k][b] = "O" => state[k][b] = "M" /\ msg = "GETS"
                          /\ state'[k][b] = "OM" => state[k][b] = "OM"
                          /\ state'[k][b] = "I" =>
                               \/ state[k][b] = "I"
                               \/ state[k][b] \in Copy /\ msg = "GETM"
        OBVIOUS
      <4> DEFINE s == state[k][b]
                 out == process_request_snoop("MOESI", s, msg, src = k, shared_line)
      <4>3. s \in StatesOf("MOESI")
        BY <2>1
      <4> HIDE DEF s
      <4>4. /\ out.state = "O" => s = "M" /\ msg = "GETS"
            /\ out.state = "OM" => s = "OM" /\ src = k
            /\ out.state = "I" => s = "I" \/ (s \in Copy /\ msg = "GETM")
        <5> DEFINE own == src = k
        <5>1. own \in BOOLEAN /\ ~PastOwner("MOESI", s, msg)
          BY <4>1 DEF s
        <5>2. msg \in {"GETS", "GETM"} /\ shared_line \in BOOLEAN
          BY <3>1, <4>1
        <5> HIDE DEF own
        <5>3. LET o == process_request_snoop("MOESI", s, msg, own, shared_line)
              IN /\ o.state = "O" => s = "M" /\ msg = "GETS"
                 /\ o.state = "OM" => s = "OM" /\ own
                 /\ o.state = "I" => s = "I" \/ (s \in Copy /\ msg = "GETM")
          BY ONLY <4>3, <5>1, <5>2, OwnerRequest
        <5> QED BY <5>3 DEF own
      <4> HIDE DEF out
      <4> QED BY <3>1, <4>2, <4>4 DEF s, out
    <3>3. state'[k][b] = "ISE" => state[k][b] = "ISE"
      BY <3>1, Classes DEF RequestContract
    <3>4. state[src][b] \in (IF msg = "GETM" THEN WaitWrite ELSE WaitRead)
      BY <2>6 DEF IInv, BusInv, AsksFor
    <3>5. \A l \in Nodes : l = src /\ a = b => Reading(l, a, k)'
      BY <2>6, JustServed
    <3> HIDE DEF b, src, msg
    <3>6. CASE b # a
      BY <2>4, <3>1, <3>6
    <3>7. CASE b = a /\ k = i
      <4>1. state'[i][a] = "O" => src = j
        BY <2>3, <3>1, <3>2, <3>4, <3>7 DEF WaitRead
      <4>2. state'[j][a] = state[j][a]
        BY <3>1, <3>7
      <4>3. state'[i][a] = "O" => /\ state[j][a] # "I"
                                  /\ Reading(j, a, i)'
        BY <3>2, <3>4, <3>5, <3>7, <4>1 DEF WaitRead
      <4> QED BY <2>2, <3>2, <3>7, <4>2, <4>3 DEF PairAfter, StillReading
    <3>8. CASE b = a /\ k = j
      <4>1. state'[i][a] = state[i][a]
        BY <3>1, <3>8
      <4>2. state[i][a] \in {"O", "OM"} => state[j][a] \notin Owning
        BY DEF IInv, CoherenceInvariant, SingleWriter, Owning
      <4>3. ASSUME state[i][a] \in {"O", "OM"}, state'[j][a] = "I",
                   state[j][a] # "I"
            PROVE  state[i][a] = "OM" /\ Reading(i, a, j)'
        <5>1. state[j][a] = "S" /\ msg = "GETM"
          BY <3>2, <3>8, <4>2, <4>3 DEF Copy
        <5>2. src = i
          BY <2>3, <3>1, <3>4, <3>8, <5>1 DEF WaitWrite
        <5> QED BY <3>4, <3>5, <3>8, <4>3, <5>1, <5>2 DEF WaitWrite
      <4> QED BY <2>2, <3>3, <3>8, <4>1, <4>3 DEF PairAfter, StillReading
    <3> QED BY <2>3, <3>6, <3>7, <3>8
  <2>7. ASSUME NEW k \in Nodes, CacheSnoop(k), DataOnBus
        PROVE  PairAfter(i, j, a)
    <3> DEFINE b == current_request.addr
    <3>1. /\ b \in Lines /\ state[k][b] \in Waiting
          /\ FillContract(protocol, state[k][b], shared_line, SnoopOutcome(k))
          /\ state'[k][b] = SnoopOutcome(k).state
          /\ \A l \in Nodes, c \in Lines :
               l # k \/ c # b => state'[l][c] = state[l][c]
      BY <2>7, DataSnooped, DataEffect
    <3> HIDE DEF b
    <3>2. state'[k][b] \in {"S", "E", "M"}
      BY <3>1, Classes DEF FillContract
    <3>3. CASE b # a
      BY <2>4, <3>1, <3>3
    <3>4. CASE b = a
      BY <2>2, <2>3, <3>1, <3>2, <3>4 DEF PairAfter, StillReading
    <3> QED BY <3>3, <3>4
  <2>8. ASSUME state' = state PROVE PairAfter(i, j, a)
    BY <2>4, <2>8
  <2> QED BY <2>5, <2>6, <2>7, <2>8, WhatChanges
<1> QED BY <1>2, <1>3

-------------------------------------------------------------------------------
(* One lemma per tick of the loop.                                         *)

LEMMA CacheIdleKeeps ==
  ASSUME IInv, NEW i \in Nodes, CacheIdle(i)
  PROVE  IInv'
<1>1. TypeOK' /\ PairInv'
  BY TypeStep, PairStep DEF IInv, Next
<1>2. ControlInv' /\ ProcessorInv'
  BY DEF IInv, ControlInv, ProcessorInv, BeforeMemory, AfterMemory, CacheIdle,
         prVars, cacheVars
<1>3. /\ \A j \in Nodes : Snooped(j)' <=> Snooped(j)
      /\ BeforeMemory' <=> BeforeMemory
      /\ AfterMemory' <=> AfterMemory
  BY DEF CacheIdle, Snooped, BeforeMemory, AfterMemory
<1> QED BY <1>1, <1>2, <1>3, QuietStep DEF IInv, CacheIdle, mcVars

LEMMA CachePassKeeps ==
  ASSUME IInv, NEW i \in Nodes, CachePass(i)
  PROVE  IInv'
<1>1. TypeOK' /\ PairInv'
  BY TypeStep, PairStep DEF IInv, Next
<1>2. ControlInv'
  BY TurnAdvances DEF IInv, CachePass
<1>3. ProcessorInv'
  BY DEF IInv, ProcessorInv, CachePass, prVars, cacheVars
<1>4. /\ \A j \in Nodes : Snooped(j) => Snooped(j)'
      /\ BeforeMemory' <=> BeforeMemory
      /\ AfterMemory' <=> AfterMemory
  BY TurnAdvances DEF IInv, CachePass
<1>5. ~RequestOnBus
  BY DEF CachePass, MustSnoop, RequestOnBus, DataOnBus
<1> QED BY <1>1, <1>2, <1>3, <1>4, <1>5, QuietStep DEF IInv, CachePass, mcVars

LEMMA TickProcessorKeeps ==
  ASSUME IInv, NEW i \in Nodes, TickProcessor(i)
  PROVE  IInv'
<1>1. TypeOK' /\ PairInv'
  BY TypeStep, PairStep DEF IInv, Next
<1>2. /\ ControlInv'
      /\ \A j \in Nodes : Snooped(j)' <=> Snooped(j)
      /\ BeforeMemory' <=> BeforeMemory
      /\ AfterMemory' <=> AfterMemory
  BY DEF TickProcessor, NextTurn, ControlInv, Snooped, BeforeMemory, AfterMemory
<1>3. ProcessorInv'
  <2> USE DEF IInv, ProcessorInv, TypeOK, PrTypeOK, TickProcessor, PrTick,
              Consume, cacheVars, Busy
  <2>1. CASE Rest(i) BY <2>1 DEF Rest
  <2>2. CASE \E access \in Access : Fetch(i, access) BY <2>2 DEF Fetch
  <2>3. CASE ReachEnd(i) BY <2>3 DEF ReachEnd
  <2> QED BY <2>1, <2>2, <2>3
<1> QED BY <1>1, <1>2, <1>3, QuietStep DEF IInv, TickProcessor, mcVars

LEMMA TockKeeps ==
  ASSUME IInv, Tock
  PROVE  IInv'
<1>1. TypeOK' /\ PairInv'
  BY TypeStep, PairStep DEF IInv, Next
<1>2. /\ ControlInv'
      /\ \A j \in Nodes : Snooped(j)' <=> Snooped(j)
      /\ BeforeMemory' <=> BeforeMemory
      /\ AfterMemory' <=> AfterMemory
  BY DEF IInv, Tock, ControlInv, Snooped, BeforeMemory, AfterMemory
<1>3. ProcessorInv'
  BY DEF IInv, ProcessorInv, TypeOK, PrTypeOK, Tock, PrTock, cacheVars
<1> QED BY <1>1, <1>2, <1>3, QuietStep DEF IInv, Tock

LEMMA TickBusKeeps ==
  ASSUME IInv, TickBus
  PROVE  IInv'
<1>1. TypeOK' /\ PairInv'
  BY TypeStep, PairStep DEF IInv, Next
<1>2. /\ BeforeMemory' /\ ~AfterMemory'
      /\ AfterMemory /\ ~BeforeMemory
      /\ ControlInv'
      /\ \A j \in Nodes : Snooped(j) /\ ~Snooped(j)'
  BY DEF IInv, TypeOK, ControlInv, TickBus, BeforeMemory, AfterMemory, Snooped, Nodes
<1>3. ProtocolInv' /\ ProcessorInv' /\ SingleWriter'
  BY DEF IInv, CoherenceInvariant, TickBus, prVars, cacheVars, ProtocolInv,
         ProcessorInv, SingleWriter
<1>4. UNCHANGED <<lookup, state>>
  BY DEF TickBus, mcVars, cacheVars
<1>5. ASSUME ~RequestOnBus',
             data_reply' = NULL,
             ~request_in_progress' => (lookup = NULL \/ DataOnBus'),
             request_in_progress' => ~DataOnBus' /\ lookup # NULL,
             UNCHANGED <<pending_requests, shared_line>>,
             \A i \in Nodes, a \in Lines : Transaction(i, a)' => Transaction(i, a)
      PROVE  IInv'
  <2>1. QueueInv'
    BY <1>4, <1>5, QueueTyped DEF IInv, QueueInv, AsksFor
  <2>2. BusInv'
    BY <1>2, <1>4, <1>5 DEF BusInv
  <2>3. TransactionInv'
    BY <1>4, <1>5 DEF IInv, TransactionInv
  <2>4. CoherenceInvariant'
    BY <1>2, <1>3, <1>4, <1>5 DEF IInv, CoherenceInvariant, Served
  <2> QED BY <1>1, <1>2, <1>3, <2>1, <2>2, <2>3, <2>4 DEF IInv
<1>6. CASE BroadcastData
  <2>1. DataOnBus' /\ ~RequestOnBus'
    BY <1>6, NullAssumption
       DEF BroadcastData, DataOnBus, RequestOnBus, IInv, TypeOK, BusTypeOK, Data, Mreq
  <2>2. \A i \in Nodes, a \in Lines : Transaction(i, a)' => Transaction(i, a)
    BY <1>6, <2>1 DEF BroadcastData, Transaction
  <2> QED BY <1>5, <1>6, <2>1, <2>2 DEF BroadcastData
<1>7. CASE AwaitData
  <2>1. ~DataOnBus' /\ ~RequestOnBus'
    BY <1>7 DEF AwaitData, DataOnBus, RequestOnBus
  <2>2. \A i \in Nodes, a \in Lines : Transaction(i, a)' => Transaction(i, a)
    BY <1>4, <1>7, <2>1 DEF AwaitData, Transaction
  <2>3. lookup # NULL
    BY <1>2, <1>7 DEF IInv, BusInv, AwaitData
  <2> QED BY <1>5, <1>7, <2>1, <2>2, <2>3 DEF AwaitData
<1>8. CASE StayIdle
  <2>1. ~DataOnBus' /\ ~RequestOnBus'
    BY <1>8 DEF StayIdle, DataOnBus, RequestOnBus
  <2>2. lookup = NULL /\ data_reply = NULL
    BY <1>2, <1>8 DEF IInv, BusInv, StayIdle
  <2>3. \A i \in Nodes, a \in Lines : Transaction(i, a)' => Transaction(i, a)
    BY <1>8, <2>1, <2>2 DEF StayIdle, Transaction
  <2> QED BY <1>5, <1>8, <2>1, <2>2, <2>3 DEF StayIdle
<1>9. CASE BroadcastRequest
  <2> DEFINE q == pending_requests
  <2>1. /\ ~request_in_progress /\ q # <<>>
        /\ current_request' = Head(q) /\ pending_requests' = Tail(q)
        /\ request_in_progress' /\ data_reply' = data_reply
    BY <1>9 DEF BroadcastRequest
  <2>2. lookup = NULL /\ data_reply = NULL /\ ~RequestOnBus
    BY <1>2, <2>1 DEF IInv, BusInv
  <2>3. \A i \in Nodes, a \in Lines : ~Transaction(i, a)
    BY <1>2, <2>1, <2>2, NoTransaction
  <2>4. /\ Len(q) \in Nat \ {0}
        /\ Head(q) = q[1]
        /\ Len(Tail(q)) = Len(q) - 1
        /\ \A k \in 1 .. Len(q) - 1 : Tail(q)[k] = q[k + 1]
    BY <2>1, FromTheFront DEF IInv, TypeOK, BusTypeOK
  <2>5. /\ q[1].msg \in {"GETS", "GETM"}
        /\ q[1].addr \in Lines
        /\ q[1].src \in Nodes
        /\ q[1] # NULL
    <3>1. q[1] \in Request
      BY <2>4, ElementsTyped DEF IInv, TypeOK, BusTypeOK
    <3> QED BY <3>1, NullAssumption DEF Request, Mreq
  <2>6. RequestOnBus' /\ ~DataOnBus'
    BY <2>1, <2>4, <2>5 DEF RequestOnBus, DataOnBus
  <2>7. \A i \in Nodes, a \in Lines :
          Transaction(i, a)' => i = q[1].src /\ a = q[1].addr
    BY <1>4, <2>1, <2>2, <2>4, <2>6 DEF Transaction
  <2>8. AsksFor(current_request)' /\ AsksFor(q[1])
    BY <1>4, <2>1, <2>4 DEF IInv, QueueInv, AsksFor
  <2>9. QueueInv'
    <3>1. \A k \in 1 .. Len(Tail(q)) :
            /\ Tail(q)[k] = q[k + 1]
            /\ k + 1 \in 1 .. Len(q)
            /\ AsksFor(q[k + 1])
            /\ q[k + 1].src # q[1].src
            /\ q[k + 1].src \in Nodes
      BY <2>4, QueueTyped DEF IInv, QueueInv
    <3>2. \A k, l \in 1 .. Len(Tail(q)) :
            k # l => Tail(q)[k].src # Tail(q)[l].src
      BY <2>4, <3>1 DEF IInv, QueueInv
    <3> QED BY <1>4, <2>1, <2>7, <3>1, <3>2 DEF QueueInv, AsksFor
  <2>10. BusInv'
    BY <1>2, <1>4, <2>1, <2>2, <2>6, <2>8 DEF BusInv
  <2>11. TransactionInv'
    <3>1. state[q[1].src][q[1].addr] \in Waiting
      BY <2>8, Classes DEF AsksFor
    <3> QED BY <1>4, <2>7, <3>1 DEF TransactionInv
  <2>12. CoherenceInvariant'
    BY <1>2, <1>3, <2>1, <2>2, <2>6 DEF CoherenceInvariant, Served
  <2> QED BY <1>1, <1>2, <1>3, <2>9, <2>10, <2>11, <2>12 DEF IInv
<1> QED BY <1>6, <1>7, <1>8, <1>9 DEF TickBus, BusTick

LEMMA TickMemoryKeeps ==
  ASSUME IInv, TickMemory
  PROVE  IInv'
<1>1. TypeOK' /\ PairInv'
  BY TypeStep, PairStep DEF IInv, Next
<1>2. /\ McTick /\ phase' = "tock" /\ phase = "tick_mc"
      /\ UNCHANGED <<prVars, cacheVars, turn, current_request,
                     pending_requests, request_in_progress, shared_line>>
  BY MemoryNeverAborts DEF TickMemory
<1>3. /\ BeforeMemory /\ ~AfterMemory /\ ~BeforeMemory' /\ AfterMemory'
      /\ ControlInv'
      /\ \A j \in Nodes : Snooped(j) /\ Snooped(j)'
  BY <1>2 DEF IInv, ControlInv, BeforeMemory, AfterMemory, Snooped
<1>4. RequestOnBus' = RequestOnBus /\ DataOnBus' = DataOnBus
  BY <1>2 DEF RequestOnBus, DataOnBus
<1>5. ProtocolInv' /\ ProcessorInv' /\ SingleWriter'
  BY <1>2 DEF IInv, CoherenceInvariant, prVars, cacheVars, ProtocolInv,
         ProcessorInv, SingleWriter
<1>6. state' = state
  BY <1>2 DEF cacheVars
<1>7. /\ \A i \in Nodes, a \in Lines : Transaction(i, a)' => Transaction(i, a)
      /\ BusInv'
  <2>1. CASE Answer
    <3>1. /\ ~RequestOnBus /\ ~DataOnBus /\ request_in_progress
          /\ LookupNow = lookup /\ lookup # NULL
      BY <2>1, <1>3, HitTimeAssumption
         DEF Answer, AnswerDue, LookupNow, DataTimeNow, IInv, BusInv
    <3>2. data_reply' = [msg |-> "DATA", addr |-> lookup.addr, src |-> MC,
                         dest |-> lookup.target]
          /\ lookup' = NULL
      BY <2>1, <3>1 DEF Answer, SendData
    <3>3. data_reply' # NULL
      <4>1. lookup \in Lookup
        BY <3>1 DEF IInv, TypeOK, McTypeOK
      <4>2. data_reply' \in Data
        BY <3>2, <4>1 DEF Data, Lookup
      <4> QED BY <4>2, NullAssumption DEF Mreq
    <3>4. \A i \in Nodes, a \in Lines : Transaction(i, a)' => Transaction(i, a)
      BY <1>4, <3>1, <3>2 DEF Transaction
    <3>5. BusInv'
      BY <1>2, <1>3, <1>4, <3>1, <3>2, <3>3 DEF BusInv
    <3> QED BY <3>4, <3>5
  <2>2. CASE KeepLooking
    <3>1. lookup' = LookupNow /\ data_reply' = data_reply
      BY <2>2 DEF KeepLooking
    <3>2. CASE RequestOnBus
      <4>1. /\ lookup'.addr = current_request.addr
            /\ lookup'.target = current_request.src
            /\ lookup' # NULL
            /\ ~DataOnBus /\ request_in_progress
        <5>1. lookup' = [addr |-> current_request.addr,
                         target |-> current_request.src]
          BY <3>1, <3>2 DEF LookupNow
        <5>2. lookup' \in Lookup
          BY <3>2, <5>1 DEF RequestOnBus, IInv, TypeOK, BusTypeOK, Mreq, Request,
             Data, Lookup
        <5>3. lookup' # NULL
          BY <5>2, NullAssumption
        <5> QED BY <3>2, <5>1, <5>3 DEF RequestOnBus, DataOnBus, IInv, BusInv
      <4>2. \A i \in Nodes, a \in Lines : Transaction(i, a)' => Transaction(i, a)
        BY <1>2, <1>4, <3>1, <3>2, <4>1 DEF Transaction
      <4>3. BusInv'
        BY <1>2, <1>3, <1>4, <1>6, <3>1, <3>2, <4>1 DEF IInv, BusInv, AsksFor
      <4> QED BY <4>2, <4>3
    <3>3. CASE ~RequestOnBus
      <4>1. lookup' = IF DataOnBus THEN NULL ELSE lookup
        BY <3>1, <3>3 DEF LookupNow
      <4>2. \A i \in Nodes, a \in Lines : Transaction(i, a)' => Transaction(i, a)
        BY <1>2, <1>3, <1>4, <3>1, <3>3, <4>1 DEF Transaction
      <4>3. BusInv'
        BY <1>2, <1>3, <1>4, <3>1, <3>3, <4>1 DEF IInv, BusInv
      <4> QED BY <4>2, <4>3
    <3> QED BY <3>2, <3>3
  <2> QED BY <1>2, <2>1, <2>2 DEF McTick
<1>8. QueueInv'
  BY <1>2, <1>6, <1>7, QueueTyped DEF IInv, QueueInv, AsksFor
<1>9. TransactionInv'
  BY <1>6, <1>7 DEF IInv, TransactionInv
<1>10. CoherenceInvariant'
  BY <1>2, <1>3, <1>4, <1>5, <1>6, <1>7 DEF IInv, CoherenceInvariant, Served
<1> QED BY <1>1, <1>3, <1>5, <1>7, <1>8, <1>9, <1>10 DEF IInv

-------------------------------------------------------------------------------
(* The processor's half of a cache's tick.                                 *)

LEMMA CacheServeKeeps ==
  ASSUME IInv, NEW i \in Nodes, CacheServe(i)
  PROVE  IInv'
<1> DEFINE a == proc_request[i].addr
           s == state[i][a]
           out == ProcOutcome(i)
           q == pending_requests
<1>1. TypeOK' /\ PairInv'
  BY TypeStep, PairStep DEF IInv, Next
<1>2. /\ a \in Lines
      /\ AccessContract(protocol, s, proc_request[i].op, out)
      /\ outstanding_request[i]
      /\ inbound_request_buf[i] = NULL
      /\ inbound_request[i] = NULL
      /\ \A b \in Lines : state[i][b] \notin Waiting
      /\ \A b \in Lines : ~Transaction(i, b)
      /\ \A k \in 1 .. Len(q) : q[k].src # i
      /\ ~Dies(i, out.does)
  BY AccessServed DEF CacheServe
<1>3. /\ Perform(i, a, out, i)
      /\ proc_request' = [proc_request EXCEPT ![i] = NULL]
      /\ UNCHANGED <<protocol, current_request, request_in_progress,
                     outstanding_request, inbound_request, lookup, turn>>
      /\ phase = "cache_request" /\ phase' = "cache_snoop"
  BY <1>2 DEF CacheServe, ServeProcessor, mcVars
<1>4. /\ state'[i][a] = out.state
      /\ \A j \in Nodes, b \in Lines :
           j # i \/ b # a => state'[j][b] = state[j][b]
  BY <1>2, <1>3, OneLineChanges DEF IInv
<1> HIDE DEF out
<1>5. /\ data_reply' = data_reply
      /\ ~shared_line' => ~shared_line
      /\ \A j \in Nodes : j # i => inbound_request_buf'[j] = inbound_request_buf[j]
      /\ "send_DATA_to_proc" \notin out.does =>
           inbound_request_buf'[i] = inbound_request_buf[i]
  BY <1>2, <1>3 DEF AccessContract, Perform, IInv, TypeOK, PrTypeOK, BusTypeOK
<1>6. /\ BeforeMemory /\ BeforeMemory' /\ ~AfterMemory'
      /\ ControlInv'
      /\ \A j \in Nodes : Snooped(j)' <=> Snooped(j)
      /\ RequestOnBus' = RequestOnBus /\ DataOnBus' = DataOnBus
  BY <1>3 DEF BeforeMemory, AfterMemory, ControlInv, Snooped, RequestOnBus, DataOnBus
<1>7. \A j \in Nodes, b \in Lines :
        /\ state'[j][b] \in Copy => state[j][b] \in Copy
        /\ state'[j][b] \in Owning => state[j][b] \in Owning
        /\ state'[j][b] \in Exclusive => state[j][b] \in Exclusive
  BY <1>2, <1>4 DEF AccessContract
<1>8. \A j \in Nodes, b \in Lines : Transaction(j, b)' => Transaction(j, b) /\ j # i
  BY <1>2, <1>3, <1>5, <1>6 DEF Transaction
<1>9. ProtocolInv'
  BY <1>2, <1>3, <1>4 DEF IInv, ProtocolInv, AccessContract
<1>10. ProcessorInv'
  <2>1. out.state \in Waiting => inbound_request_buf'[i] = NULL
    BY <1>2, <1>5, Classes DEF AccessContract
  <2>2. /\ proc_request'[i] = NULL
        /\ \A j \in Nodes : j # i => proc_request'[j] = proc_request[j]
    BY <1>3 DEF IInv, TypeOK, PrTypeOK
  <2> QED BY <1>2, <1>3, <1>4, <1>5, <2>1, <2>2 DEF IInv, ProcessorInv
<1>11. QueueInv'
  <2>1. CASE pending_requests' = q
    BY <1>2, <1>4, <1>8, <2>1, QueueTyped DEF IInv, QueueInv, AsksFor
  <2>2. ASSUME NEW msg \in {"GETS", "GETM"},
               pending_requests' = Append(q, [msg |-> msg, addr |-> a, src |-> i]),
               out.state \in (IF msg = "GETM" THEN WaitWrite ELSE WaitRead)
        PROVE  QueueInv'
    <3> DEFINE e == [msg |-> msg, addr |-> a, src |-> i]
               AsksNow(m) == state'[m.src][m.addr] \in
                               (IF m.msg = "GETM" THEN WaitWrite ELSE WaitRead)
    <3>1. e \in Request /\ e.msg = msg /\ e.addr = a /\ e.src = i
      BY <1>2 DEF Request
    <3>2. /\ Len(pending_requests') = Len(q) + 1
          /\ Len(q) \in Nat
          /\ \A k \in 1 .. Len(q) + 1 :
               pending_requests'[k] = IF k = Len(q) + 1 THEN e ELSE q[k]
      BY <2>2, <3>1, AtTheBack DEF IInv, TypeOK, BusTypeOK
    <3> HIDE DEF e
    <3>3. \A k \in 1 .. Len(q) : AsksNow(q[k])
      BY <1>2, <1>4, QueueTyped DEF IInv, QueueInv, AsksFor
    <3>4. AsksNow(e)
      BY <1>4, <2>2, <3>1
    <3>5. \A k \in 1 .. Len(q) + 1 :
            AsksNow(pending_requests'[k])
      BY <3>2, <3>3, <3>4
    <3>6. \A k \in 1 .. Len(q) + 1 : \A j \in Nodes :
            j = pending_requests'[k].src => \A b \in Lines : ~Transaction(j, b)'
      <4>1. \A b \in Lines : ~Transaction(i, b)'
        BY <1>8
      <4>2. \A k \in 1 .. Len(q) : \A j \in Nodes :
              j = q[k].src => \A b \in Lines : ~Transaction(j, b)
        BY DEF IInv, QueueInv
      <4>3. \A k \in 1 .. Len(q) : \A j \in Nodes :
              j = q[k].src => \A b \in Lines : ~Transaction(j, b)'
        BY <1>8, <4>2
      <4> QED BY <3>1, <3>2, <4>1, <4>3
    <3>8. \A k \in 1 .. Len(q) + 1 : pending_requests'[k].src \in Nodes
      BY <3>1, <3>2, QueueTyped DEF IInv
    <3>7. \A k, l \in 1 .. Len(q) + 1 :
            k # l => pending_requests'[k].src # pending_requests'[l].src
      <4>1. \A k, l \in 1 .. Len(q) : k # l => q[k].src # q[l].src
        BY DEF IInv, QueueInv
      <4>2. \A k \in 1 .. Len(q) : q[k].src # i
        BY <1>2
      <4> HIDE DEF q
      <4> QED BY <3>1, <3>2, <4>1, <4>2
    <3> QED BY <3>2, <3>5, <3>6, <3>8, <3>7 DEF QueueInv, AsksFor, Transaction, Snooped
  <2> QED BY <1>2, <1>3, <2>1, <2>2 DEF AccessContract, Perform, Enqueue
<1>12. BusInv'
  <2>1. RequestOnBus => /\ current_request.src \in Nodes \ {i}
                        /\ current_request.addr \in Lines
    BY <1>2 DEF RequestOnBus, Transaction, IInv, TypeOK, BusTypeOK, Mreq, Request, Data
  <2>2. RequestOnBus => AsksFor(current_request)'
    BY <1>3, <1>4, <2>1 DEF IInv, BusInv, AsksFor
  <2> QED BY <1>3, <1>5, <1>6, <2>2 DEF IInv, BusInv
<1>13. TransactionInv'
  BY <1>4, <1>8 DEF IInv, TransactionInv
<1>14. SingleWriter'
  BY <1>7 DEF IInv, CoherenceInvariant, SingleWriter
<1>15. CoherenceInvariant'
  <2>1. \A j, k \in Nodes, b \in Lines :
          j # k /\ Transaction(j, b)' /\ Served(k)' =>
            /\ state'[j][b] \in WaitWrite => state'[k][b] \notin Copy
            /\ state'[j][b] \in WaitRead => state'[k][b] \notin Exclusive
            /\ state'[j][b] = "ISE" /\ ~shared_line' => state'[k][b] \notin Copy
    BY <1>4, <1>5, <1>6, <1>7, <1>8 DEF IInv, CoherenceInvariant, Served
  <2>2. RequestOnBus' /\ data_reply' # NULL =>
          \A j \in Nodes :
            ~Snooped(j)' => state'[j][current_request'.addr] \notin Owning
    <3>1. RequestOnBus => current_request.addr \in Lines
      BY DEF RequestOnBus, IInv, TypeOK, BusTypeOK, Mreq, Request, Data
    <3> QED BY <1>3, <1>5, <1>6, <1>7, <3>1 DEF IInv, CoherenceInvariant
  <2> QED BY <1>14, <2>1, <2>2 DEF CoherenceInvariant
<1> QED BY <1>1, <1>6, <1>9, <1>10, <1>11, <1>12, <1>13, <1>15 DEF IInv

-------------------------------------------------------------------------------
(* The bus's half of a cache's tick.                                       *)

\* A request is on the bus: the owner answers it, and no copy is left that its
\* sender's DATA would make illegal.
LEMMA SnoopRequestKeeps ==
  ASSUME IInv, NEW i \in Nodes, CacheSnoop(i), RequestOnBus
  PROVE  IInv'
<1> DEFINE a == current_request.addr
           src == current_request.src
           s == state[i][a]
           out == SnoopOutcome(i)
<1>1. TypeOK' /\ PairInv'
  BY TypeStep, PairStep DEF IInv, Next
<1>2. /\ a \in Lines /\ src \in Nodes
      /\ current_request.msg \in {"GETS", "GETM"}
      /\ ~DataOnBus
  BY RequestSnooped
<1>3. RequestContract(protocol, s, current_request.msg, src = i, out)
  BY RequestSnooped
<1>4. phase = "cache_snoop" /\ turn = i /\ ~Snooped(i)
  BY RequestSnooped
<1>5. /\ Perform(i, a, out, src)
      /\ NextTurn("cache_request", "tick_pr")
      /\ UNCHANGED <<protocol, current_request, request_in_progress,
                     outstanding_request, inbound_request, proc_request, lookup>>
  BY RequestSnooped
<1> HIDE DEF out
<1>6. /\ state'[i][a] = out.state
      /\ \A j \in Nodes, b \in Lines :
           j # i \/ b # a => state'[j][b] = state[j][b]
  BY <1>2, <1>5, OneLineChanges DEF IInv
<1>7. /\ \A j \in Nodes : Snooped(j)' <=> Snooped(j) \/ j = i
      /\ BeforeMemory /\ BeforeMemory' /\ ~AfterMemory' /\ ControlInv'
  BY <1>4, <1>5, TurnAdvances DEF IInv
<1>8. /\ RequestOnBus' /\ ~DataOnBus'
      /\ UNCHANGED <<pending_requests, inbound_request_buf>>
      /\ shared_line \/ s \in Copy => shared_line'
      /\ IF s \in Owning
           THEN data_reply' = [msg |-> "DATA", addr |-> a, src |-> i, dest |-> src]
           ELSE data_reply' = data_reply
  BY <1>2, <1>3, <1>5
     DEF RequestContract, Perform, SendData, RequestOnBus, DataOnBus
<1>9. \A j \in Nodes, b \in Lines :
        /\ state'[j][b] \in WaitRead <=> state[j][b] \in WaitRead
        /\ state'[j][b] \in WaitRead => state'[j][b] = state[j][b]
        /\ state'[j][b] \in WaitWrite <=> state[j][b] \in WaitWrite
        /\ state'[j][b] \in Copy => state[j][b] \in Copy
        /\ state'[j][b] \in Owning => state[j][b] \in Owning
        /\ state'[j][b] \in Exclusive => state[j][b] \in Exclusive
  BY <1>3, <1>6 DEF RequestContract
<1>10. \A j \in Nodes, b \in Lines : Transaction(j, b)' => Transaction(j, b)
  BY <1>5, <1>8 DEF Transaction
<1>11. ProtocolInv'
  BY <1>3, <1>5, <1>6 DEF IInv, ProtocolInv, RequestContract
<1>12. ProcessorInv'
  BY <1>5, <1>8, <1>9, Classes DEF IInv, ProcessorInv
<1>13. QueueInv'
  BY <1>8, <1>9, <1>10, QueueTyped DEF IInv, QueueInv, AsksFor
<1>14. BusInv'
  BY <1>2, <1>5, <1>7, <1>8, <1>9 DEF IInv, BusInv, AsksFor
<1>15. TransactionInv'
  BY <1>9, <1>10, Classes DEF IInv, TransactionInv
<1>16. SingleWriter'
  BY <1>9 DEF IInv, CoherenceInvariant, SingleWriter
<1>17. CoherenceInvariant'
  <2>1. ASSUME NEW j \in Nodes, NEW k \in Nodes, NEW b \in Lines,
               j # k, Transaction(j, b)', Served(k)'
        PROVE  /\ state'[j][b] \in WaitWrite => state'[k][b] \notin Copy
               /\ state'[j][b] \in WaitRead => state'[k][b] \notin Exclusive
               /\ state'[j][b] = "ISE" /\ ~shared_line' => state'[k][b] \notin Copy
    <3>1. CASE Snooped(k)
      BY <1>8, <1>9, <1>10, <2>1, <3>1, Classes DEF IInv, CoherenceInvariant, Served
    <3>2. CASE ~Snooped(k)
      <4>1. k = i
        BY <1>7, <1>8, <2>1, <3>2 DEF Served
      <4>2. j = src /\ b = a
        BY <1>2, <1>10, <2>1 DEF IInv, TransactionInv, Transaction
      <4>3. state[j][b] \in WaitWrite => current_request.msg = "GETM"
        BY <1>2, <4>2, Classes DEF IInv, BusInv, AsksFor
      <4>4. state'[k][b] = out.state
        BY <1>6, <4>1, <4>2
      <4>5. current_request.msg = "GETM" => out.state \notin Copy
        BY <1>3, <2>1, <4>1, <4>2 DEF RequestContract
      <4>6. /\ out.state \notin Exclusive
            /\ out.state \in Copy => shared_line'
        BY <1>3, <1>8 DEF RequestContract
      <4> QED BY <1>9, <4>3, <4>4, <4>5, <4>6
    <3> QED BY <3>1, <3>2
  <2>2. data_reply' # NULL =>
          \A j \in Nodes : ~Snooped(j)' => state'[j][a] \notin Owning
    <3> SUFFICES ASSUME data_reply' # NULL, NEW j \in Nodes, ~Snooped(j)'
                 PROVE  state'[j][a] \notin Owning
      OBVIOUS
    <3>1. j # i /\ ~Snooped(j)
      BY <1>7
    <3>2. state[j][a] \notin Owning
      BY <1>2, <1>8, <3>1 DEF IInv, CoherenceInvariant, SingleWriter
    <3> QED BY <1>2, <1>9, <3>2
  <2> QED BY <1>5, <1>16, <2>1, <2>2 DEF CoherenceInvariant
<1> QED BY <1>1, <1>7, <1>11, <1>12, <1>13, <1>14, <1>15, <1>17 DEF IInv

\* DATA is on the bus: the line it is for waits for it, and gets what the other
\* caches have already made room for.
LEMMA SnoopDataKeeps ==
  ASSUME IInv, NEW i \in Nodes, CacheSnoop(i), DataOnBus
  PROVE  IInv'
<1> DEFINE a == current_request.addr
           s == state[i][a]
           out == SnoopOutcome(i)
<1>1. TypeOK' /\ PairInv'
  BY TypeStep, PairStep DEF IInv, Next
<1>2. /\ a \in Lines /\ current_request.dest = i
      /\ ~RequestOnBus
  BY DataSnooped
<1>3. phase = "cache_snoop" /\ turn = i /\ ~Snooped(i) /\ BeforeMemory
  BY DataSnooped
<1>4. Transaction(i, a) /\ s \in Waiting
  BY DataSnooped
<1>5. FillContract(protocol, s, shared_line, out)
  BY DataSnooped
<1>6. /\ proc_request[i] = NULL
      /\ outstanding_request[i]
      /\ inbound_request_buf[i] = NULL
      /\ inbound_request[i] = NULL
      /\ \A b \in Lines \ {a} : state[i][b] \notin Waiting
  BY DataSnooped
<1>8. /\ Perform(i, a, out, current_request.src)
      /\ NextTurn("cache_request", "tick_pr")
      /\ UNCHANGED <<protocol, current_request, request_in_progress,
                     outstanding_request, inbound_request, proc_request, lookup>>
  BY DataSnooped
<1> HIDE DEF out
<1>9. /\ state'[i][a] = out.state
      /\ \A j \in Nodes, b \in Lines :
           j # i \/ b # a => state'[j][b] = state[j][b]
  BY <1>2, <1>8, OneLineChanges DEF IInv
<1>10. /\ \A j \in Nodes : Snooped(j)' <=> Snooped(j) \/ j = i
       /\ BeforeMemory' /\ ~AfterMemory' /\ ControlInv'
  BY <1>3, <1>8, TurnAdvances DEF IInv
<1>11. /\ ~RequestOnBus' /\ DataOnBus'
       /\ UNCHANGED <<pending_requests, data_reply>>
       /\ \A j \in Nodes : j # i => inbound_request_buf'[j] = inbound_request_buf[j]
  BY <1>2, <1>5, <1>8
     DEF FillContract, Perform, RequestOnBus, DataOnBus, IInv, TypeOK, PrTypeOK
<1>12. ~request_in_progress /\ data_reply = NULL
  BY DEF IInv, BusInv
<1>13. \A j \in Nodes, b \in Lines : ~Transaction(j, b)'
  BY <1>2, <1>8, <1>10, <1>11, <1>12 DEF Transaction
<1>14. ProtocolInv'
  BY <1>5, <1>8, <1>9 DEF IInv, ProtocolInv, FillContract
<1>15. ProcessorInv'
  <2>1. \A b \in Lines : state'[i][b] \notin Waiting
    BY <1>5, <1>6, <1>9 DEF FillContract
  <2> QED BY <1>6, <1>8, <1>9, <1>11, <2>1 DEF IInv, ProcessorInv
<1>16. QueueInv'
  <2>1. \A k \in 1 .. Len(pending_requests) : pending_requests[k].src # i
    BY <1>2, <1>4 DEF IInv, QueueInv
  <2> QED BY <1>9, <1>11, <1>13, <2>1, QueueTyped DEF IInv, QueueInv, AsksFor
<1>17. BusInv'
  BY <1>8, <1>10, <1>11, <1>12, <1>3 DEF IInv, BusInv
<1>18. TransactionInv'
  BY <1>13 DEF TransactionInv
<1>19. SingleWriter'
  <2>1. ASSUME NEW j \in Nodes, j # i
        PROVE  /\ s \in WaitWrite => state[j][a] \notin Copy
               /\ s \in WaitRead => state[j][a] \notin Exclusive
               /\ s = "ISE" /\ ~shared_line => state[j][a] \notin Copy
    BY <1>2, <1>4, <2>1 DEF IInv, CoherenceInvariant, Served
  <2>2. /\ out.state \in Owning => s \in WaitWrite \/ (s = "ISE" /\ ~shared_line)
        /\ out.state \in Copy
    BY <1>4, <1>5, Classes DEF FillContract, Copy, Owning
  <2>3. \A j \in Nodes : j # i =>
          /\ out.state \in Owning => state[j][a] \notin Copy
          /\ state[j][a] \notin Exclusive
    BY <1>4, <2>1, <2>2, Classes
  <2> QED BY <1>9, <2>3, Classes DEF IInv, CoherenceInvariant, SingleWriter
<1>20. CoherenceInvariant'
  BY <1>11, <1>13, <1>19 DEF CoherenceInvariant
<1> QED BY <1>1, <1>10, <1>14, <1>15, <1>16, <1>17, <1>18, <1>20 DEF IInv

-------------------------------------------------------------------------------
(* The invariant and its consequences.                                     *)

\* At the start nothing waits and nothing is held.
LEMMA IInvInit ==
  ASSUME Protocols \subseteq Sound, Init
  PROVE  IInv
<1>1. TypeOK
  BY TypeInit
<1>2. /\ phase = "bus_tick" /\ turn = 0 /\ protocol \in Sound
      /\ current_request = NULL /\ pending_requests = <<>> /\ data_reply = NULL
      /\ request_in_progress = FALSE /\ lookup = NULL
      /\ \A i \in Nodes, a \in Lines : state[i][a] = "I"
      /\ \A i \in Nodes : /\ inbound_request[i] = NULL
                          /\ inbound_request_buf[i] = NULL
                          /\ proc_request[i] = NULL
  BY DEF Init, BusInit, McInit, PrInit, CacheInit
<1>3. ~RequestOnBus /\ ~DataOnBus /\ ~BeforeMemory /\ AfterMemory
  BY <1>2 DEF RequestOnBus, DataOnBus, BeforeMemory, AfterMemory
<1>4. "I" \notin Waiting /\ "I" \notin Owning /\ "I" \notin Exclusive
  BY DEF Waiting, WaitRead, WaitWrite, Owning, Exclusive
<1>5. \A i \in Nodes, a \in Lines : ~Transaction(i, a)
  BY <1>2, <1>3 DEF Transaction
<1>6. ProtocolInv
  BY <1>2, StatesOfSound, SoundProtocols DEF ProtocolInv
<1>7. ControlInv /\ ProcessorInv /\ BusInv /\ TransactionInv
  BY <1>2, <1>3, <1>4, <1>5 DEF ControlInv, ProcessorInv, BusInv, TransactionInv
<1>8. QueueInv
  <2>1. Len(pending_requests) = 0
    BY <1>2
  <2> QED BY <2>1 DEF QueueInv
<1>9. CoherenceInvariant
  BY <1>2, <1>3, <1>4, <1>5 DEF CoherenceInvariant, SingleWriter
<1>10. PairInv
  BY <1>2 DEF PairInv
<1> QED BY <1>1, <1>6, <1>7, <1>8, <1>9, <1>10 DEF IInv

\* Every tick keeps the invariant.
LEMMA IInvStep ==
  ASSUME IInv, [Next]_vars
  PROVE  IInv'
<1>1. CASE TickBus
  BY <1>1, TickBusKeeps
<1>2. ASSUME NEW i \in Nodes, CacheIdle(i) PROVE IInv'
  BY <1>2, CacheIdleKeeps
<1>3. ASSUME NEW i \in Nodes, CacheServe(i) PROVE IInv'
  BY <1>3, CacheServeKeeps
<1>4. ASSUME NEW i \in Nodes, CachePass(i) PROVE IInv'
  BY <1>4, CachePassKeeps
<1>5. ASSUME NEW i \in Nodes, CacheSnoop(i) PROVE IInv'
  <2>1. RequestOnBus \/ DataOnBus
    BY <1>5 DEF CacheSnoop, MustSnoop, RequestOnBus, DataOnBus
  <2> QED BY <1>5, <2>1, SnoopRequestKeeps, SnoopDataKeeps
<1>6. ASSUME NEW i \in Nodes, TickProcessor(i) PROVE IInv'
  BY <1>6, TickProcessorKeeps
<1>7. CASE TickMemory
  BY <1>7, TickMemoryKeeps
<1>8. CASE Tock
  BY <1>8, TockKeeps
<1>9. CASE UNCHANGED vars
  <2>1. /\ \A j \in Nodes : Snooped(j)' <=> Snooped(j)
        /\ BeforeMemory' <=> BeforeMemory
        /\ AfterMemory' <=> AfterMemory
    BY <1>9 DEF vars, Snooped, BeforeMemory, AfterMemory
  <2>2. TypeOK' /\ ControlInv' /\ ProcessorInv' /\ PairInv'
    BY <1>9, <2>1, TypeStep, PairStep
       DEF vars, prVars, cacheVars, IInv, ControlInv, ProcessorInv
  <2> QED BY <1>9, <2>1, <2>2, QuietStep DEF vars, mcVars, IInv
<1> QED
  BY <1>1, <1>2, <1>3, <1>4, <1>5, <1>6, <1>7, <1>8, <1>9 DEF Next, Ended

\* For the protocols of Sound, MOESI with two caches among them, every state a
\* run reaches satisfies IInv: who waits, for what, and how far the bus
\* transaction has come is always as the comments of CoherenceInv say.
THEOREM InvariantHolds ==
  ASSUME Protocols \subseteq Sound
  PROVE  Spec => []IInv
<1>1. Init => IInv
  BY IInvInit
<1>2. IInv /\ [Next]_vars => IInv'
  BY IInvStep
<1> QED BY <1>1, <1>2, PTL DEF Spec

\* MI, MSI, MESI and MOSI keep the single-writer rule with any number of caches
\* and lines, MOESI with two caches and any number of lines: a line one cache
\* holds in E or M no other cache holds, and no two caches own a line.
THEOREM SingleWriterHolds ==
  ASSUME Protocols \subseteq Sound
  PROVE  Spec => []SingleWriter
<1>1. IInv => SingleWriter
  BY DEF IInv, CoherenceInvariant
<1> QED BY <1>1, InvariantHolds, PTL

\* With those protocols no run ends in a fatal_error or a failed assertion:
\* each handler is called only for the messages it has a case for, and the slot
\* for DATA on the bus and a processor's buffer are free when they are filled.
THEOREM NeverAbortsHolds ==
  ASSUME Protocols \subseteq Sound
  PROVE  Spec => []NeverAborts
<1>1. IInv => NeverAborts
  BY DEF IInv, ControlInv, BeforeMemory, AfterMemory, NeverAborts
<1> QED BY <1>1, InvariantHolds, PTL

-------------------------------------------------------------------------------
(* Memory and the owners.                                                  *)

\* A step that touches neither the transaction nor any line's owner, unless it
\* is an owner that has just given the line up, keeps MemoryInv.
LEMMA OwnersKept ==
  ASSUME IInv, MemoryInv,
         UNCHANGED <<current_request, request_in_progress, data_reply, lookup>>,
         \A j \in Nodes, b \in Lines :
           state'[j][b] \in Owning => state[j][b] \in Owning,
         \A j \in Nodes :
           RequestOnBus /\ Snooped(j)' =>
             Snooped(j) \/ state'[j][current_request.addr] \notin Owning
  PROVE  MemoryInv'
<1>1. RequestOnBus' = RequestOnBus /\ (RequestOnBus => current_request.addr \in Lines)
  BY DEF RequestOnBus, IInv, TypeOK, BusTypeOK, Mreq, Request, Data
<1>2. request_in_progress /\ ~RequestOnBus /\ data_reply = NULL =>
        lookup.addr \in Lines
  BY DEF IInv, BusInv, ControlInv, TypeOK, McTypeOK, Lookup
<1>3. data_reply # NULL => data_reply.addr \in Lines
  BY DEF IInv, TypeOK, BusTypeOK, Data
<1> QED BY <1>1, <1>2, <1>3 DEF MemoryInv, MemoryAnswersUnowned

LEMMA MemoryInvStep ==
  ASSUME IInv, IInv', MemoryInv, [Next]_vars
  PROVE  MemoryInv'
<1>1. CASE TickBus
  <2> USE <1>1 DEF TickBus
  <2>1. /\ lookup' = lookup /\ state' = state
        /\ \A j \in Nodes : Snooped(j) /\ ~Snooped(j)'
    BY DEF mcVars, cacheVars, Snooped, IInv, TypeOK, Nodes, ControlInv
  <2>2. CASE AwaitData
    <3>1. ~RequestOnBus' /\ data_reply' = data_reply /\ data_reply = NULL
          /\ request_in_progress
      BY <2>2 DEF AwaitData, RequestOnBus
    <3>2. RequestOnBus => lookup.addr = current_request.addr
      <4>1. RequestOnBus => /\ lookup # NULL
                            /\ lookup.target \in Nodes /\ lookup.addr \in Lines
                            /\ current_request.src \in Nodes
                            /\ current_request.addr \in Lines
        BY DEF RequestOnBus, IInv, TypeOK, BusTypeOK, McTypeOK, BusInv, AfterMemory,
               Lookup, Mreq, Request, Data
      <4> QED BY <3>1, <4>1 DEF IInv, TransactionInv, Transaction
    <3> QED BY <2>1, <3>1, <3>2 DEF MemoryInv, MemoryAnswersUnowned
  <2>3. CASE BroadcastData
    BY <2>1, <2>3 DEF BroadcastData, MemoryInv, MemoryAnswersUnowned, RequestOnBus,
       IInv, TypeOK, BusTypeOK, Data
  <2>4. CASE BroadcastRequest
    <3>1. data_reply' = NULL
      BY <2>4 DEF BroadcastRequest, IInv, BusInv
    <3>2. RequestOnBus'
      <4>1. pending_requests # <<>> /\ current_request' = Head(pending_requests)
        BY <2>4 DEF BroadcastRequest
      <4>2. Head(pending_requests) \in Request
        BY <4>1 DEF IInv, TypeOK, BusTypeOK
      <4> QED BY <4>1, <4>2, NullAssumption DEF RequestOnBus, Request, Mreq
    <3> QED BY <2>1, <3>1, <3>2 DEF MemoryInv, MemoryAnswersUnowned
  <2>5. CASE StayIdle
    <3>1. ~request_in_progress' /\ ~RequestOnBus' /\ data_reply' = NULL
      BY <2>5 DEF StayIdle, RequestOnBus, IInv, BusInv
    <3> QED BY <3>1 DEF MemoryInv, MemoryAnswersUnowned
  <2> QED BY <2>2, <2>3, <2>4, <2>5 DEF BusTick
<1>2. ASSUME NEW i \in Nodes, CacheIdle(i) PROVE MemoryInv'
  BY <1>2, OwnersKept DEF CacheIdle, busVars, mcVars, cacheVars, Snooped
<1>3. ASSUME NEW i \in Nodes, CacheServe(i) PROVE MemoryInv'
  <2> DEFINE a == proc_request[i].addr
             out == ProcOutcome(i)
  <2>1. /\ a \in Lines
        /\ AccessContract(protocol, state[i][a], proc_request[i].op, out)
        /\ ~Dies(i, out.does)
    BY <1>3, AccessServed DEF CacheServe
  <2>2. /\ Perform(i, a, out, i)
        /\ UNCHANGED <<current_request, request_in_progress, lookup, turn>>
        /\ phase = "cache_request" /\ phase' = "cache_snoop"
    BY <1>3, <2>1 DEF CacheServe, ServeProcessor, mcVars
  <2>3. /\ state'[i][a] = out.state
        /\ \A j \in Nodes, b \in Lines :
             j # i \/ b # a => state'[j][b] = state[j][b]
    BY <2>1, <2>2, OneLineChanges DEF IInv
  <2> HIDE DEF out
  <2>4. data_reply' = data_reply
    BY <2>1, <2>2 DEF AccessContract, Perform
  <2>5. \A j \in Nodes, b \in Lines :
          state'[j][b] \in Owning => state[j][b] \in Owning
    BY <2>1, <2>3 DEF AccessContract
  <2> QED BY <2>2, <2>4, <2>5, OwnersKept DEF Snooped
<1>4. ASSUME NEW i \in Nodes, CachePass(i) PROVE MemoryInv'
  <2>1. ~RequestOnBus
    BY <1>4 DEF CachePass, MustSnoop, RequestOnBus, DataOnBus
  <2> QED BY <1>4, <2>1, OwnersKept DEF CachePass, busVars, mcVars, cacheVars
<1>5. ASSUME NEW i \in Nodes, CacheSnoop(i), RequestOnBus PROVE MemoryInv'
  <2> DEFINE a == current_request.addr
             src == current_request.src
             s == state[i][a]
             out == SnoopOutcome(i)
  <2>1. /\ a \in Lines
        /\ RequestContract(protocol, s, current_request.msg, src = i, out)
        /\ phase = "cache_snoop" /\ turn = i
        /\ Perform(i, a, out, src)
        /\ NextTurn("cache_request", "tick_pr")
        /\ UNCHANGED <<current_request, request_in_progress, lookup>>
    BY <1>5, RequestSnooped
  <2>2. /\ state'[i][a] = out.state
        /\ \A j \in Nodes, b \in Lines :
             j # i \/ b # a => state'[j][b] = state[j][b]
    BY <2>1, OneLineChanges DEF IInv
  <2>3. \A j \in Nodes : Snooped(j)' <=> Snooped(j) \/ j = i
    BY <2>1, TurnAdvances DEF IInv
  <2> HIDE DEF out
  <2>4. \A j \in Nodes, b \in Lines :
          state'[j][b] \in Owning => state[j][b] \in Owning
    BY <2>1, <2>2 DEF RequestContract
  <2>5. CASE s \in Owning
    <3>1. /\ RequestOnBus'
          /\ data_reply' = [msg |-> "DATA", addr |-> a, src |-> i, dest |-> src]
      BY <1>5, <2>1, <2>5 DEF RequestContract, Perform, SendData, RequestOnBus
    <3>2. data_reply' # NULL /\ data_reply'.src # MC
      BY <3>1, <1>5, RequestSnooped, NodesAssumption, NullAssumption
         DEF Nodes, MC, Mreq, Data
    <3> QED BY <3>1, <3>2 DEF MemoryInv, MemoryAnswersUnowned
  <2>6. CASE s \notin Owning
    <3>1. data_reply' = data_reply
      BY <2>1, <2>6 DEF RequestContract, Perform
    <3>2. state'[i][a] \notin Owning
      BY <2>1, <2>4, <2>6
    <3> QED BY <2>1, <2>3, <2>4, <3>1, <3>2, OwnersKept
  <2> QED BY <2>5, <2>6
<1>6. ASSUME NEW i \in Nodes, CacheSnoop(i), DataOnBus PROVE MemoryInv'
  <2>1. current_request' = current_request
    BY <1>6 DEF CacheSnoop, Abort, Snoop, busVars
  <2>2. ~RequestOnBus' /\ DataOnBus'
    BY <1>6, <2>1 DEF RequestOnBus, DataOnBus
  <2>3. ~request_in_progress' /\ data_reply' = NULL
    BY <2>2 DEF IInv, BusInv
  <2> QED BY <2>2, <2>3 DEF MemoryInv, MemoryAnswersUnowned
<1>7. ASSUME NEW i \in Nodes, TickProcessor(i) PROVE MemoryInv'
  BY <1>7, OwnersKept
     DEF TickProcessor, NextTurn, busVars, mcVars, cacheVars, Snooped
<1>8. CASE TickMemory
  <2>1. /\ McTick /\ phase' = "tock" /\ phase = "tick_mc"
        /\ UNCHANGED <<cacheVars, current_request, request_in_progress>>
    BY <1>8, MemoryNeverAborts DEF TickMemory
  <2>2. /\ state' = state /\ RequestOnBus' = RequestOnBus
        /\ BeforeMemory
        /\ \A j \in Nodes : Snooped(j) /\ Snooped(j)'
    BY <2>1 DEF cacheVars, RequestOnBus, Snooped, BeforeMemory
  <2>3. CASE Answer
    <3>1. /\ ~RequestOnBus /\ ~DataOnBus /\ request_in_progress
          /\ data_reply = NULL /\ LookupNow = lookup
      BY <2>2, <2>3, HitTimeAssumption
         DEF Answer, AnswerDue, LookupNow, DataTimeNow, IInv, BusInv
    <3>2. \A j \in Nodes : state[j][lookup.addr] \notin Owning
      BY <3>1 DEF MemoryInv
    <3>3. data_reply' = [msg |-> "DATA", addr |-> lookup.addr, src |-> MC,
                         dest |-> lookup.target]
      BY <2>3, <3>1 DEF Answer, SendData
    <3>4. data_reply' # NULL
      BY <2>1, <2>2, <3>1, <2>3 DEF IInv, BusInv, AfterMemory, Answer
    <3> QED BY <2>2, <3>1, <3>2, <3>3, <3>4 DEF MemoryInv, MemoryAnswersUnowned
  <2>4. CASE KeepLooking
    <3>1. lookup' = LookupNow /\ data_reply' = data_reply
      BY <2>4 DEF KeepLooking
    <3>2. ~RequestOnBus /\ request_in_progress => lookup' = lookup
      BY <3>1 DEF LookupNow, IInv, BusInv
    <3> QED BY <2>1, <2>2, <3>1, <3>2 DEF MemoryInv, MemoryAnswersUnowned
  <2> QED BY <2>1, <2>3, <2>4 DEF McTick
<1>9. CASE Tock
  BY <1>9, OwnersKept DEF Tock, busVars, cacheVars, Snooped
<1>10. CASE UNCHANGED vars
  BY <1>10, OwnersKept DEF vars, busVars, mcVars, cacheVars, Snooped
<1>11. ASSUME NEW i \in Nodes, CacheSnoop(i) PROVE MemoryInv'
  BY <1>5, <1>6, <1>11 DEF CacheSnoop, MustSnoop, RequestOnBus, DataOnBus
<1> QED
  BY <1>1, <1>2, <1>3, <1>4, <1>7, <1>8, <1>9, <1>10, <1>11 DEF Next, Ended

\* While a request is served, the caches that have dealt with it and left it
\* without DATA do not own its line; nor does any while memory looks it up.
THEOREM MemoryInvHolds ==
  ASSUME Protocols \subseteq Sound
  PROVE  Spec => []MemoryInv
<1>1. Init => MemoryInv
  BY DEF Init, BusInit, MemoryInv, MemoryAnswersUnowned, RequestOnBus
<1>2. IInv /\ IInv' /\ MemoryInv /\ [Next]_vars => MemoryInv'
  BY MemoryInvStep
<1> QED BY <1>1, <1>2, InvariantHolds, PTL DEF Spec

\* With those protocols memory, which is never told of a store, answers only
\* for a line no cache owns: the owner's DATA cancels the lookup in time,
\* whatever the latency.
THEOREM MemoryAnswersUnownedHolds ==
  ASSUME Protocols \subseteq Sound
  PROVE  Spec => []MemoryAnswersUnowned
<1>1. MemoryInv => MemoryAnswersUnowned
  BY DEF MemoryInv
<1> QED BY <1>1, MemoryInvHolds, PTL

===============================================================================
