------------------------- MODULE AtomicGraphStore --------------------------
(***************************************************************************)
(* What the persistence layer promises the application layer about ONE     *)
(* graph: its row in the graphs table, and its entity and relation rows,   *)
(* change by whole store calls.  A merge keeps everything merged before    *)
(* it, and only a document that is the sole source of an entity can        *)
(* deprecate that entity.                                                  *)
(*                                                                         *)
(* A row keeps, of the columns that merging accumulates (evidence,         *)
(* aliases, confidence), the set of docIds its evidence names; the others  *)
(* follow the same rule (union, union, maximum).                           *)
(***************************************************************************)
CONSTANTS Entity,    \* entity identifiers of the graph
          Relation,  \* relation identifiers: <<source, target>>
          Doc,       \* document identifiers
          NoDoc      \* the empty docId of a request that names no document

VARIABLES graph,     \* whether the graphs table has the graph's row
          rows       \* the entity and relation rows of the graph

Item == Entity \cup Relation

Row == [status : {"none", "active", "deprecated"}, docs : SUBSET Doc]

NoRow == [status |-> "none", docs |-> {}]

(* merge_entity / merge_relation after _with_doc_id attached the docId.    *)
MergeRow(existing, doc) ==
    [status |-> "active", docs |-> existing.docs \cup ({doc} \ {NoDoc})]

Deprecated(row) == [row EXCEPT !.status = "deprecated"]

(* "Only contributed by this document": the docIds of an active row's      *)
(* evidence are exactly {doc}.                                             *)
OnlyFrom(row, doc) == row.status = "active" /\ row.docs = {doc}

vars == <<graph, rows>>

Init == graph \in BOOLEAN /\ rows = [x \in Item |-> NoRow]

Create == graph' = TRUE /\ UNCHANGED rows

Delete == graph' = FALSE /\ rows' = [x \in Item |-> NoRow]

Upsert(x, doc) ==
    /\ rows' = [rows EXCEPT ![x] = MergeRow(rows[x], doc)]
    /\ UNCHANGED graph

DeprecateSome(doc, S) ==
    /\ \A x \in S : OnlyFrom(rows[x], doc)
    /\ rows' = [x \in Item |-> IF x \in S THEN Deprecated(rows[x]) ELSE rows[x]]
    /\ UNCHANGED graph

Next ==
    \/ Create
    \/ Delete
    \/ \E x \in Item, doc \in Doc \cup {NoDoc} : Upsert(x, doc)
    \/ \E doc \in Doc, S \in SUBSET Entity : DeprecateSome(doc, S)

Spec == Init /\ [][Next]_vars
=============================================================================
