------------------------------- MODULE Protocol -------------------------------
(***************************************************************************)
(* The vocabulary the five snooping protocols share: class Protocol of     *)
(* Project3/protocols/protocol.cpp, whose helpers are the only means a     *)
(* handler has to act on the rest of the simulator.                        *)
(*                                                                         *)
(* A handler do_cache_X or do_snoop_X is a function of the line's state    *)
(* and of the message it is given; what it computes is an Outcome: the     *)
(* state it leaves the line in, and the set of helpers it calls.  A        *)
(* handler calls each helper at most once, and the helpers act on disjoint *)
(* parts of the simulator, so the order of the calls makes no difference.  *)
(* Counters (misses, silent upgrades, transfers) are statistics that       *)
(* nothing reads during a run, and are left out.                           *)
(***************************************************************************)

\* Calls a handler can make; "fatal_error" ends the process.
Effects == {"send_GETS", "send_GETM", "send_DATA_on_bus", "send_DATA_to_proc",
            "set_shared_line", "fatal_error"}

\* Every line state of the five protocols; each protocol uses a part of them.
LineStates == {"I", "S", "E", "O", "M", "IM", "IS", "ISE", "SM", "OM"}

Outcomes == [state: LineStates, does: SUBSET Effects]

\* The handler assigns state s (perhaps the one the line is in) and calls does.
To(s, does) == [state |-> s, does |-> does]

\* fatal_error: the process ends, the line's state no longer matters.
Fatal(s) == To(s, {"fatal_error"})

\* A read or write that hits: the line keeps state s, the processor gets DATA.
Hit(s) == To(s, {"send_DATA_to_proc"})

\* A message the state ignores.
Ignore(s) == To(s, {})

\* The owner of a line answers a request on the bus and goes to state s.
Supply(s) == To(s, {"set_shared_line", "send_DATA_on_bus"})

\* DATA the line was waiting for: pass it to the processor, go to state s.
Fill(s) == To(s, {"send_DATA_to_proc"})

===============================================================================
