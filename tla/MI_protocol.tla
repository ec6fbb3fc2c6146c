----------------------------- MODULE MI_protocol -----------------------------
(***************************************************************************)
(* Project3/protocols/MI_protocol.cpp: a line is invalid, or modified in   *)
(* exactly one cache; every miss, of a read too, asks for the line to      *)
(* itself (GETM).                                                          *)
(***************************************************************************)
EXTENDS Protocol

States == {"I", "IM", "M"}

do_cache_I(msg) == To("IM", {"send_GETM"})
do_cache_IM(msg) == Fatal("IM")
do_cache_M(msg) == Hit("M")

do_snoop_I(msg) == Ignore("I")
do_snoop_IM(msg) == IF msg = "DATA" THEN Fill("M") ELSE Ignore("IM")
do_snoop_M(msg) == IF msg = "DATA" THEN Fatal("M") ELSE Supply("I")

process_cache_request(state, msg) ==
  CASE state = "I"  -> do_cache_I(msg)
    [] state = "IM" -> do_cache_IM(msg)
    [] state = "M"  -> do_cache_M(msg)
    [] OTHER        -> Fatal(state)

process_snoop_request(state, msg) ==
  CASE state = "I"  -> do_snoop_I(msg)
    [] state = "IM" -> do_snoop_IM(msg)
    [] state = "M"  -> do_snoop_M(msg)
    [] OTHER        -> Fatal(state)

===============================================================================
