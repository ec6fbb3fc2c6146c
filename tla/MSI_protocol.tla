----------------------------- MODULE MSI_protocol -----------------------------
(***************************************************************************)
(* Project3/protocols/MSI_protocol.cpp: readers may share a line (S); a    *)
(* sharer that stores waits in SM for DATA it may have to ask memory for.  *)
(* SM keeps no promise about the sharer's copy: a GETM of another cache    *)
(* that is served first leaves the line in SM.                             *)
(***************************************************************************)
EXTENDS Protocol

States == {"I", "IM", "IS", "M", "S", "SM"}

do_cache_I(msg) == IF msg = "LOAD" THEN To("IS", {"send_GETS"})
                                   ELSE To("IM", {"send_GETM"})
do_cache_IM(msg) == Fatal("IM")
do_cache_IS(msg) == Fatal("IS")
do_cache_M(msg) == Hit("M")
do_cache_S(msg) == IF msg = "LOAD" THEN Hit("S") ELSE To("SM", {"send_GETM"})
do_cache_SM(msg) == Fatal("SM")

do_snoop_I(msg) == Ignore("I")
do_snoop_IM(msg) == IF msg = "DATA" THEN Fill("M") ELSE Ignore("IM")
do_snoop_IS(msg) == IF msg = "DATA" THEN Fill("S") ELSE Ignore("IS")
do_snoop_M(msg) ==
  CASE msg = "GETS" -> Supply("S")
    [] msg = "GETM" -> Supply("I")
    [] OTHER        -> Fatal("M")
\* Mutant: a sharer ignores a writer's request.
do_snoop_S_KeepsCopy(msg) == To("S", {"set_shared_line"})
do_snoop_S(msg) ==
  CASE msg = "GETS" -> To("S", {"set_shared_line"})
    [] msg = "GETM" -> To("I", {"set_shared_line"})
    [] OTHER        -> Fatal("S")
do_snoop_SM(msg) == IF msg = "DATA" THEN Fill("M")
                                    ELSE To("SM", {"set_shared_line"})

process_cache_request(state, msg) ==
  CASE state = "I"  -> do_cache_I(msg)
    [] state = "IM" -> do_cache_IM(msg)
    [] state = "IS" -> do_cache_IS(msg)
    [] state = "M"  -> do_cache_M(msg)
    [] state = "S"  -> do_cache_S(msg)
    [] state = "SM" -> do_cache_SM(msg)
    [] OTHER        -> Fatal(state)

process_snoop_request(state, msg) ==
  CASE state = "I"  -> do_snoop_I(msg)
    [] state = "IM" -> do_snoop_IM(msg)
    [] state = "IS" -> do_snoop_IS(msg)
    [] state = "M"  -> do_snoop_M(msg)
    [] state = "S"  -> do_snoop_S(msg)
    [] state = "SM" -> do_snoop_SM(msg)
    [] OTHER        -> Fatal(state)

===============================================================================
