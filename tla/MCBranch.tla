------------------------------- MODULE MCBranch -------------------------------
(* Instances of the branch predictors for TLC. *)
EXTENDS BranchInv

All == {BIMODAL, GSHARE, LOCAL_HISTORY, TWO_LEVEL_ADAPTIVE}

B(addr, outcome) == [pc |-> addr, actual |-> outcome]

\* Addresses 1 and 5 share an entry of four; one outcome is neither T nor N.
Four == {B(a, o) : a \in {1, 2, 5}, o \in {TAKEN, NOT_TAKEN}} \cup {B(2, "X")}

\* Two addresses that differ in their lowest bit.
Two == {B(a, o) : a \in {0, 1}, o \in {TAKEN, NOT_TAKEN}}

OnlyBimodal == {BIMODAL}
===============================================================================
