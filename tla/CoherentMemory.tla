---------------------------- MODULE CoherentMemory ----------------------------
(***************************************************************************)
(* What a set of coherent caches promises the processors, whatever         *)
(* protocol, bus and memory bring it about: each node has at most one      *)
(* access under way; a load completes only where the node may read the     *)
(* line, a store only where it may write it; and while one node may write  *)
(* a line no other may so much as read it.                                 *)
(***************************************************************************)
CONSTANTS Nodes, Lines, NULL

VARIABLES
  perm,   \* perm[i][a]: what node i may do with line a
  access  \* access[i]: the access node i has under way, or NULL

Permissions == {"none", "read", "write"}

Coherent(p) ==
  \A a \in Lines : \A i, j \in Nodes :
    i # j /\ p[i][a] = "write" => p[j][a] = "none"

Allows(p, op) == IF op = "LOAD" THEN p # "none" ELSE p = "write"

Init ==
  /\ perm = [i \in Nodes |-> [a \in Lines |-> "none"]]
  /\ access = [i \in Nodes |-> NULL]

Issue(i, op, a) ==
  /\ access[i] = NULL
  /\ access' = [access EXCEPT ![i] = [op |-> op, addr |-> a]]
  /\ UNCHANGED perm

\* Grant, upgrade, downgrade or loss of a permission.
Repermit(i, a, p) ==
  /\ perm' = [perm EXCEPT ![i][a] = p]
  /\ Coherent(perm')
  /\ UNCHANGED access

\* The permission may be granted in the step that uses it.
Complete(i, p) ==
  /\ access[i] # NULL
  /\ Allows(p, access[i].op)
  /\ perm' = [perm EXCEPT ![i][access[i].addr] = p]
  /\ Coherent(perm')
  /\ access' = [access EXCEPT ![i] = NULL]

Next ==
  \E i \in Nodes :
    \/ \E op \in {"LOAD", "STORE"}, a \in Lines : Issue(i, op, a)
    \/ \E a \in Lines, p \in Permissions : Repermit(i, a, p)
    \/ \E p \in Permissions : Complete(i, p)

Spec == Init /\ [][Next]_<<perm, access>>

===============================================================================
