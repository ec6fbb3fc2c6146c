---------------------------- MODULE MOESI_protocol ----------------------------
(***************************************************************************)
(* Project3/protocols/MOESI_protocol.cpp: the owned state of MOSI and the  *)
(* exclusive state of MESI together.  Two handlers differ from those       *)
(* protocols in more than a state name: a read hit in S drives the shared  *)
(* line, and a line in OM takes a GETS of another cache for its own DATA.  *)
(***************************************************************************)
EXTENDS Protocol

States == {"I", "S", "E", "O", "M", "IM", "ISE", "SM", "OM"}

do_cache_I(msg) == IF msg = "LOAD" THEN To("ISE", {"send_GETS"})
                                   ELSE To("IM", {"send_GETM"})
do_cache_S(msg) ==
  IF msg = "LOAD" THEN To("S", {"send_DATA_to_proc", "set_shared_line"})
                  ELSE To("SM", {"send_GETM"})
do_cache_E(msg) == IF msg = "LOAD" THEN Hit("E") ELSE Hit("M")
do_cache_O(msg) == IF msg = "LOAD" THEN Hit("O") ELSE To("OM", {"send_GETM"})
do_cache_M(msg) == Hit("M")
do_cache_IM(msg) == Fatal("IM")
do_cache_ISE(msg) == Fatal("ISE")
do_cache_SM(msg) == Fatal("SM")
do_cache_OM(msg) == Fatal("OM")

do_snoop_I(msg) == Ignore("I")
do_snoop_S(msg) ==
  CASE msg = "GETS" -> To("S", {"set_shared_line"})
    [] msg = "GETM" -> To("I", {"set_shared_line"})
    [] OTHER        -> Fatal("S")
do_snoop_E(msg) ==
  CASE msg = "GETS" -> Supply("S")
    [] msg = "GETM" -> Supply("I")
    [] OTHER        -> Fatal("E")
\* An owner answers a reader without driving the shared line.
do_snoop_O(msg) ==
  CASE msg = "GETS" -> To("O", {"send_DATA_on_bus"})
    [] msg = "GETM" -> Supply("I")
    [] OTHER        -> Fatal("O")
\* Mutants: the owner answers a reader and stays M; gives ownership up.
do_snoop_M_Stays(msg) == IF msg = "GETS" THEN Supply("M") ELSE Supply("I")
do_snoop_M_NoOwner(msg) == IF msg = "GETS" THEN Supply("S") ELSE Supply("I")
do_snoop_M(msg) ==
  CASE msg = "GETS" -> Supply("O")
    [] msg = "GETM" -> Supply("I")
    [] OTHER        -> Fatal("M")
do_snoop_IM(msg) == IF msg = "DATA" THEN Fill("M") ELSE Ignore("IM")
do_snoop_ISE(msg, shared) ==
  IF msg = "DATA" THEN IF shared THEN Fill("S") ELSE Fill("E")
                  ELSE Ignore("ISE")
\* Mutant: the sharer that loses the race forgets that it waits.
do_snoop_SM_Forgets(msg) ==
  CASE msg = "GETS" -> To("SM", {"set_shared_line"})
    [] msg = "GETM" -> To("I", {"set_shared_line"})
    [] OTHER        -> Fill("M")
do_snoop_SM(msg) == IF msg = "DATA" THEN Fill("M")
                                    ELSE To("SM", {"set_shared_line"})
\* Mutant: the owner that loses the race stays owner.
do_snoop_OM_Keeps(msg, own) ==
  CASE msg = "GETS" -> To("M", {"set_shared_line", "send_DATA_to_proc"})
    [] msg = "GETM" -> Supply("OM")
    [] OTHER        -> Fill("M")
\* GETS: the processor's store completes and the line is M, although the
\* cache's own GETM is still queued and the reader gets no answer from here.
do_snoop_OM(msg, own) ==
  CASE msg = "GETS" -> To("M", {"set_shared_line", "send_DATA_to_proc"})
    [] msg = "GETM" -> Supply(IF own THEN "OM" ELSE "IM")
    [] OTHER        -> Fill("M")

process_cache_request(state, msg) ==
  CASE state = "I"   -> do_cache_I(msg)
    [] state = "S"   -> do_cache_S(msg)
    [] state = "E"   -> do_cache_E(msg)
    [] state = "O"   -> do_cache_O(msg)
    [] state = "M"   -> do_cache_M(msg)
    [] state = "IM"  -> do_cache_IM(msg)
    [] state = "ISE" -> do_cache_ISE(msg)
    [] state = "SM"  -> do_cache_SM(msg)
    [] state = "OM"  -> do_cache_OM(msg)
    [] OTHER         -> Fatal(state)

process_snoop_request(state, msg, own, shared) ==
  CASE state = "I"   -> do_snoop_I(msg)
    [] state = "S"   -> do_snoop_S(msg)
    [] state = "E"   -> do_snoop_E(msg)
    [] state = "O"   -> do_snoop_O(msg)
    [] state = "M"   -> do_snoop_M(msg)
    [] state = "IM"  -> do_snoop_IM(msg)
    [] state = "ISE" -> do_snoop_ISE(msg, shared)
    [] state = "SM"  -> do_snoop_SM(msg)
    [] state = "OM"  -> do_snoop_OM(msg, own)
    [] OTHER         -> Fatal(state)

===============================================================================
