---------------------------- MODULE MESI_protocol ----------------------------
(***************************************************************************)
(* Project3/protocols/MESI_protocol.cpp: a read miss waits in ISE and,     *)
(* when its DATA arrives, becomes S or E according to the bus's shared     *)
(* line; a store to E becomes M without a bus request (silent upgrade).    *)
(***************************************************************************)
EXTENDS Protocol

States == {"I", "S", "E", "M", "IM", "ISE", "SM"}

do_cache_I(msg) == IF msg = "LOAD" THEN To("ISE", {"send_GETS"})
                                   ELSE To("IM", {"send_GETM"})
do_cache_S(msg) == IF msg = "LOAD" THEN Hit("S") ELSE To("SM", {"send_GETM"})
do_cache_E(msg) == IF msg = "LOAD" THEN Hit("E") ELSE Hit("M")
do_cache_M(msg) == Hit("M")
do_cache_IM(msg) == Fatal("IM")
do_cache_ISE(msg) == Fatal("ISE")
do_cache_SM(msg) == Fatal("SM")

do_snoop_I(msg) == Ignore("I")
do_snoop_S(msg) ==
  CASE msg = "GETS" -> To("S", {"set_shared_line"})
    [] msg = "GETM" -> To("I", {"set_shared_line"})
    [] OTHER        -> Fatal("S")
do_snoop_E(msg) ==
  CASE msg = "GETS" -> Supply("S")
    [] msg = "GETM" -> Supply("I")
    [] OTHER        -> Fatal("E")
do_snoop_M(msg) ==
  CASE msg = "GETS" -> Supply("S")
    [] msg = "GETM" -> Supply("I")
    [] OTHER        -> Fatal("M")
do_snoop_IM(msg) == IF msg = "DATA" THEN Fill("M") ELSE Ignore("IM")
\* Mutant: the reader takes the line exclusively when it is shared.
do_snoop_ISE_Swapped(msg, shared) ==
  IF msg = "DATA" THEN IF shared THEN Fill("E") ELSE Fill("S")
                  ELSE Ignore("ISE")
\* The wired-or shared line is set again when it is already set: no effect.
do_snoop_ISE(msg, shared) ==
  IF msg = "DATA" THEN IF shared THEN Fill("S") ELSE Fill("E")
                  ELSE Ignore("ISE")
\* Mutant: the store completes in the state of a load.
do_snoop_SM_Shares(msg) == IF msg = "DATA" THEN Fill("S")
                                           ELSE To("SM", {"set_shared_line"})
do_snoop_SM(msg) == IF msg = "DATA" THEN Fill("M")
                                    ELSE To("SM", {"set_shared_line"})

process_cache_request(state, msg) ==
  CASE state = "I"   -> do_cache_I(msg)
    [] state = "S"   -> do_cache_S(msg)
    [] state = "E"   -> do_cache_E(msg)
    [] state = "M"   -> do_cache_M(msg)
    [] state = "IM"  -> do_cache_IM(msg)
    [] state = "ISE" -> do_cache_ISE(msg)
    [] state = "SM"  -> do_cache_SM(msg)
    [] OTHER         -> Fatal(state)

process_snoop_request(state, msg, shared) ==
  CASE state = "I"   -> do_snoop_I(msg)
    [] state = "S"   -> do_snoop_S(msg)
    [] state = "E"   -> do_snoop_E(msg)
    [] state = "M"   -> do_snoop_M(msg)
    [] state = "IM"  -> do_snoop_IM(msg)
    [] state = "ISE" -> do_snoop_ISE(msg, shared)
    [] state = "SM"  -> do_snoop_SM(msg)
    [] OTHER         -> Fatal(state)

===============================================================================
