---------------------------- MODULE MOSI_protocol ----------------------------
(***************************************************************************)
(* Project3/protocols/MOSI_protocol.cpp: a modified line that is read by   *)
(* another cache stays with its owner (O), who answers every later         *)
(* request; an owner that stores waits in OM and, when its own GETM        *)
(* reaches the bus, answers itself.  "own" says that the snooped request   *)
(* was sent by this cache (request->src_mid = my_table->moduleID).         *)
(***************************************************************************)
EXTENDS Protocol

States == {"I", "S", "O", "M", "IM", "IS", "SM", "OM"}

do_cache_I(msg) == IF msg = "LOAD" THEN To("IS", {"send_GETS"})
                                   ELSE To("IM", {"send_GETM"})
do_cache_S(msg) == IF msg = "LOAD" THEN Hit("S") ELSE To("SM", {"send_GETM"})
do_cache_O(msg) == IF msg = "LOAD" THEN Hit("O") ELSE To("OM", {"send_GETM"})
do_cache_M(msg) == Hit("M")
do_cache_IM(msg) == Fatal("IM")
do_cache_IS(msg) == Fatal("IS")
do_cache_SM(msg) == Fatal("SM")
do_cache_OM(msg) == Fatal("OM")

do_snoop_I(msg) == Ignore("I")
do_snoop_S(msg) ==
  CASE msg = "GETS" -> To("S", {"set_shared_line"})
    [] msg = "GETM" -> To("I", {"set_shared_line"})
    [] OTHER        -> Fatal("S")
\* Mutant: the owner leaves a reader to memory.
do_snoop_O_Silent(msg) ==
  IF msg = "GETS" THEN To("O", {"set_shared_line"}) ELSE Supply("I")
do_snoop_O(msg) ==
  CASE msg = "GETS" -> Supply("O")
    [] msg = "GETM" -> Supply("I")
    [] OTHER        -> Fatal("O")
\* Mutant: the owner gives ownership up to a reader, as in MSI.
do_snoop_M_NoOwner(msg) == IF msg = "GETS" THEN Supply("S") ELSE Supply("I")
do_snoop_M(msg) ==
  CASE msg = "GETS" -> Supply("O")
    [] msg = "GETM" -> Supply("I")
    [] OTHER        -> Fatal("M")
do_snoop_IM(msg) == IF msg = "DATA" THEN Fill("M") ELSE Ignore("IM")
do_snoop_IS(msg) == IF msg = "DATA" THEN Fill("S") ELSE Ignore("IS")
\* Mutant: the sharer that loses the race forgets that it waits.
do_snoop_SM_Forgets(msg) ==
  CASE msg = "GETS" -> To("SM", {"set_shared_line"})
    [] msg = "GETM" -> To("I", {"set_shared_line"})
    [] OTHER        -> Fill("M")
\* A sharer that loses the race for the line waits on as if it had no copy;
\* its own GETM takes the same path.
do_snoop_SM(msg) ==
  CASE msg = "GETS" -> To("SM", {"set_shared_line"})
    [] msg = "GETM" -> To("IM", {"set_shared_line"})
    [] OTHER        -> Fill("M")
do_snoop_OM(msg, own) ==
  CASE msg = "GETS" -> Supply("OM")
    [] msg = "GETM" -> Supply(IF own THEN "OM" ELSE "IM")
    [] OTHER        -> Fill("M")

process_cache_request(state, msg) ==
  CASE state = "I"  -> do_cache_I(msg)
    [] state = "S"  -> do_cache_S(msg)
    [] state = "O"  -> do_cache_O(msg)
    [] state = "M"  -> do_cache_M(msg)
    [] state = "IM" -> do_cache_IM(msg)
    [] state = "IS" -> do_cache_IS(msg)
    [] state = "SM" -> do_cache_SM(msg)
    [] state = "OM" -> do_cache_OM(msg)
    [] OTHER        -> Fatal(state)

process_snoop_request(state, msg, own) ==
  CASE state = "I"  -> do_snoop_I(msg)
    [] state = "S"  -> do_snoop_S(msg)
    [] state = "O"  -> do_snoop_O(msg)
    [] state = "M"  -> do_snoop_M(msg)
    [] state = "IM" -> do_snoop_IM(msg)
    [] state = "IS" -> do_snoop_IS(msg)
    [] state = "SM" -> do_snoop_SM(msg)
    [] state = "OM" -> do_snoop_OM(msg, own)
    [] OTHER        -> Fatal(state)

===============================================================================
