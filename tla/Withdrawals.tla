---------------------------- MODULE Withdrawals ----------------------------
(***************************************************************************)
(* What a withdrawal of a document (deprecate_doc) has achieved once it    *)
(* has returned: GraphStore with two history variables beside it, which    *)
(* say which documents have been withdrawn and not written since.          *)
(***************************************************************************)
EXTENDS GraphStore

VARIABLES
    clean,      \* the threads whose withdrawal no write of its document overlaps
    withdrawn   \* the documents that such a withdrawal has finished with

history == <<clean, withdrawn>>
allVars == <<vars, history>>

(* The threads that build or merge the document.                           *)
Writes(t, doc) == pc[t] # "idle" /\ req[t].op \in {"build", "merge"} /\ req[t].doc = doc

HistoryInit == Init /\ clean = {} /\ withdrawn = {}

(* A request that writes a document ends its withdrawal.                   *)
Arrive(t) ==
    /\ Accept(t)
    /\ \/ /\ req'[t].op \in {"build", "merge"}
          /\ clean' = {u \in clean : req[u].doc # req'[t].doc}
          /\ withdrawn' = withdrawn \ {req'[t].doc}
       \/ /\ req'[t].op \notin {"build", "merge"}
          /\ UNCHANGED history

Select(t) ==
    /\ DeprecateRead(t)
    /\ clean' = IF req[t].op = "deprecate" /\ \A u \in Thread : ~Writes(u, req[t].doc)
                THEN clean \cup {t} ELSE clean
    /\ UNCHANGED withdrawn

Withdraw(t) ==
    /\ DeprecateWrite(t)
    /\ withdrawn' = IF t \in clean THEN withdrawn \cup {req[t].doc} ELSE withdrawn
    /\ clean' = clean \ {t}

GiveUp(t) ==
    /\ Fail(t)
    /\ clean' = clean \ {t}
    /\ UNCHANGED withdrawn

Elsewhere(t) ==
    /\ \/ Require(t) \/ Reject(t)
       \/ CreateCheck(t) \/ CreateCommit(t) \/ DeleteCheck(t) \/ DeleteCommit(t)
       \/ UpsertEntity(t) \/ UpsertRelation(t) \/ CommitUpsert(t) \/ BatchDone(t)
       \/ ListKeys(t)
    /\ UNCHANGED history

HistoryNext ==
    \/ \E t \in Thread : Arrive(t) \/ Select(t) \/ Withdraw(t) \/ GiveUp(t) \/ Elsewhere(t)
    \/ Quiescent /\ UNCHANGED history

HistorySpec == HistoryInit /\ [][HistoryNext]_allVars

-----------------------------------------------------------------------------
(* The only entities that stay active after all the documents in their     *)
(* evidence were withdrawn are those whose evidence names two of them or   *)
(* more (no withdrawal finds its document alone) and those that a request  *)
(* without a docId contributed to as well: whatever else runs, in one      *)
(* process or in several, and whatever fails.                              *)
OnlySharedSurvive ==
    \A x \in Entity :
        rows[x].status = "active" /\ rows[x].docs # {} /\ rows[x].docs \subseteq withdrawn
        => \/ \E d, e \in rows[x].docs : d # e
           \/ NoDoc \in contributed[x]
=============================================================================
