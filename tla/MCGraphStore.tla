--------------------------- MODULE MCGraphStore ----------------------------
(***************************************************************************)
(* Small instances of GraphStore for TLC: two threads of one process, or   *)
(* of two; two entities and the edge between them; two documents.          *)
(***************************************************************************)
EXTENDS GraphStoreClaims, TLC

CONSTANTS t1, t2, p1, p2, x, y, d1, d2

MCRelation == {<<x, y>>}

Shared == t1 :> p1 @@ t2 :> p1
Split == t1 :> p1 @@ t2 :> p2
Solo == t1 :> p1

R(o, d, its) == [op |-> o, doc |-> d, items |-> its]

Lifecycle == {R("create", NoDoc, {}), R("delete", NoDoc, {})}
Cleanup == {R("deprecate", d1, {}), R("deprecate", d2, {})}

(* Batches that carry the endpoints of their relations.                    *)
Closed == {R("build", d1, {x, y, <<x, y>>}),
           R("merge", d2, {x, y, <<x, y>>}), R("build", NoDoc, {x})}

Merges == {R("merge", d1, {x}), R("build", d1, {y}), R("build", d1, {x})}

MCClosed == Lifecycle \cup Cleanup \cup Closed
MCMerge == Cleanup \cup Merges
=============================================================================
