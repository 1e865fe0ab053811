-------------------------- MODULE GraphStoreClaims -------------------------
(***************************************************************************)
(* What the repository's documents and docstrings say of the write path,   *)
(* where the code of GraphStore does something else: the property of a run *)
(* that finds a counterexample.                                            *)
(***************************************************************************)
EXTENDS GraphStore

(* A merge leaves no active entity that only its document contributed and  *)
(* that did not come back in this batch.                                   *)
MergeDropsStale ==
    [][\A t \in Thread :
        DeprecateWrite(t) /\ req[t].op = "merge"
        => \A e \in Entity \ req[t].items :
               ~Atomic!OnlyFrom(rows'[e], req[t].doc)]_vars
=============================================================================
