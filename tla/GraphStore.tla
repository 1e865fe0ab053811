---------------------------- MODULE GraphStore -----------------------------
(***************************************************************************)
(* The write path of the graph engine for ONE graph: GraphEngineService    *)
(* (application/service.py) over the store (persistence/sqlite_store.py,   *)
(* persistence/neo4j_store.py).                                            *)
(*                                                                         *)
(* Threads of server processes serve requests.  A request is a sequence of *)
(* store calls; every store call that writes first reads, under the RLock  *)
(* of its process, and writes in a second step.  With one process the lock *)
(* makes the two steps one.  HTTP, gRPC and Celery workers are separate    *)
(* processes over the same database, each with a lock of its own, and the  *)
(* Neo4j store has no lock at all: there a thread is a process of its own  *)
(* (procOf injective).                                                     *)
(***************************************************************************)
EXTENDS Naturals, FiniteSets

CONSTANTS Thread, Process,
          procOf,       \* the process a thread runs in
          Entity, Relation, Doc, NoDoc,
          Request,      \* the requests clients may send
          NoThread,     \* the owner of a free lock
          NoItem,       \* "no row in hand"
          MaxRequests   \* bound on the number of requests served

Op == {"create", "delete", "build", "merge", "deprecate"}

RequestType ==
    [op : Op, doc : Doc \cup {NoDoc}, items : SUBSET (Entity \cup Relation)]

ASSUME SetupAssumption ==
    /\ procOf \in [Thread -> Process]
    /\ NoThread \notin Thread
    /\ MaxRequests \in Nat

ASSUME DataAssumption ==
    /\ Relation \subseteq Entity \X Entity
    /\ Entity \cap Relation = {}
    /\ NoDoc \notin Doc
    /\ NoItem \notin Entity \cup Relation

(* Records carry no docId and no status of their own: the docId of the     *)
(* request reaches all of them, and they are active.                       *)
ASSUME RequestAssumption == Request \subseteq RequestType

NoRequest == [op |-> "build", doc |-> NoDoc, items |-> {}]

VARIABLES
    graph,        \* whether the graphs table has the graph's row
    rows,         \* the entity and relation rows of the graph
    lock,         \* the thread that holds each process's store lock
    pc, req,      \* per thread: where it is, and the request it serves
    todo,         \* per thread: the records of the batch not written yet
    cur, seen,    \* per thread: the row being upserted and what was read of it
    keys,         \* per thread: the active_keys merge_records computed
    victims,      \* per thread: the entities deprecate_doc_assets selected
    contributed,  \* history: who has upserted each row since the last delete
    raced,        \* history: a delete has overtaken a build in flight
    served        \* how many requests have been accepted

storeVars == <<graph, rows>>
threadVars == <<pc, req, todo, cur, seen, keys, victims>>
vars == <<storeVars, lock, threadVars, contributed, raced, served>>

(* The promise the store makes; also the source of Row, MergeRow ...       *)
Atomic == INSTANCE AtomicGraphStore

Item == Entity \cup Relation
PC == {"idle", "require", "create", "createHeld", "delete", "deleteHeld",
       "upsert", "upsertHeld", "keys", "deprecate", "deprecateHeld"}
Held == {"createHeld", "deleteHeld", "upsertHeld", "deprecateHeld"}
Writing == {"upsert", "upsertHeld"}

Exists(x) == rows[x].status # "none"

Init ==
    /\ graph \in BOOLEAN
    /\ rows = [x \in Item |-> Atomic!NoRow]
    /\ lock = [p \in Process |-> NoThread]
    /\ pc = [t \in Thread |-> "idle"]
    /\ req = [t \in Thread |-> NoRequest]
    /\ todo = [t \in Thread |-> {}]
    /\ cur = [t \in Thread |-> NoItem]
    /\ seen = [t \in Thread |-> Atomic!NoRow]
    /\ keys = [t \in Thread |-> {}]
    /\ victims = [t \in Thread |-> {}]
    /\ contributed = [x \in Item |-> {}]
    /\ raced = FALSE
    /\ served = 0

-----------------------------------------------------------------------------
(* Locking and control.                                                    *)

LockFree(t) == lock[procOf[t]] = NoThread

Acquire(t) == LockFree(t) /\ lock' = [lock EXCEPT ![procOf[t]] = t]

Release(t) == lock' = [lock EXCEPT ![procOf[t]] = NoThread]

Goto(t, label) == pc' = [pc EXCEPT ![t] = label]

(* The handler returns or raises: nothing of the request survives in       *)
(* memory.                                                                 *)
Finish(t) ==
    /\ Goto(t, "idle")
    /\ req' = [req EXCEPT ![t] = NoRequest]
    /\ todo' = [todo EXCEPT ![t] = {}]
    /\ cur' = [cur EXCEPT ![t] = NoItem]
    /\ seen' = [seen EXCEPT ![t] = Atomic!NoRow]
    /\ keys' = [keys EXCEPT ![t] = {}]
    /\ victims' = [victims EXCEPT ![t] = {}]

(* A client's request reaches a thread.                                    *)
Accept(t) ==
    /\ pc[t] = "idle"
    /\ served < MaxRequests
    /\ served' = served + 1
    /\ \E r \in Request :
        /\ req' = [req EXCEPT ![t] = r]
        /\ Goto(t, IF r.op = "create" THEN "create" ELSE "require")
    /\ UNCHANGED <<storeVars, lock, todo, cur, seen, keys, victims,
                   contributed, raced>>

(* Mutant: a build for a missing graph is served like any other.           *)
RequireAnyGraph(t) ==
    /\ pc[t] = "require"
    /\ LockFree(t)
    /\ \/ /\ req[t].op \in {"build", "merge"}
          /\ Goto(t, "upsert")
          /\ todo' = [todo EXCEPT ![t] = req[t].items]
          /\ UNCHANGED <<req, cur, seen, keys, victims>>
       \/ /\ graph
          /\ req[t].op \in {"delete", "deprecate"}
          /\ Goto(t, req[t].op)
          /\ UNCHANGED <<req, todo, cur, seen, keys, victims>>
       \/ /\ ~graph
          /\ Finish(t)
    /\ UNCHANGED <<storeVars, lock, contributed, raced, served>>

(* _require_graph / get_graph_or_raise: one read under the lock.           *)
Require(t) ==
    /\ pc[t] = "require"
    /\ LockFree(t)
    /\ \/ /\ graph
          /\ req[t].op \in {"build", "merge"}
          /\ Goto(t, "upsert")
          /\ todo' = [todo EXCEPT ![t] = req[t].items]
          /\ UNCHANGED <<req, cur, seen, keys, victims>>
       \/ /\ graph
          /\ req[t].op \in {"delete", "deprecate"}
          /\ Goto(t, req[t].op)
          /\ UNCHANGED <<req, todo, cur, seen, keys, victims>>
       \/ /\ ~graph
          /\ Finish(t)
    /\ UNCHANGED <<storeVars, lock, contributed, raced, served>>

(* Schema, type and endpoint validation of the whole batch comes before    *)
(* the first write; it may raise InvalidParamsError.                       *)
Reject(t) ==
    /\ pc[t] = "upsert"
    /\ todo[t] = req[t].items
    /\ Finish(t)
    /\ UNCHANGED <<storeVars, lock, contributed, raced, served>>

(* An exception of the store, or the death of the process (every one of    *)
(* its threads fails): the lock is released, what was committed stays.     *)
Fail(t) ==
    /\ pc[t] # "idle"
    /\ Finish(t)
    /\ IF pc[t] \in Held THEN Release(t) ELSE UNCHANGED lock
    /\ UNCHANGED <<storeVars, contributed, raced, served>>

-----------------------------------------------------------------------------
(* create_graph and delete_graph.                                          *)

(* Mutant: ConflictError leaves with the lock held.                        *)
CreateConflictKeepsLock(t) ==
    /\ pc[t] = "create"
    /\ Acquire(t)
    /\ IF graph THEN Finish(t)
       ELSE /\ Goto(t, "createHeld")
            /\ UNCHANGED <<req, todo, cur, seen, keys, victims>>
    /\ UNCHANGED <<storeVars, contributed, raced, served>>

CreateCheck(t) ==
    /\ pc[t] = "create"
    /\ \/ /\ ~graph
          /\ Acquire(t)
          /\ Goto(t, "createHeld")
          /\ UNCHANGED <<req, todo, cur, seen, keys, victims>>
       \/ /\ graph                                  \* ConflictError
          /\ LockFree(t)
          /\ Finish(t)
          /\ UNCHANGED lock
    /\ UNCHANGED <<storeVars, contributed, raced, served>>

(* Inserting over a row another process inserted meanwhile fails on the    *)
(* primary key (the unique constraint): the row is there either way.       *)
CreateCommit(t) ==
    /\ pc[t] = "createHeld"
    /\ graph' = TRUE
    /\ Release(t)
    /\ Finish(t)
    /\ UNCHANGED <<rows, contributed, raced, served>>

DeleteCheck(t) ==
    /\ pc[t] = "delete"
    /\ \/ /\ graph
          /\ Acquire(t)
          /\ Goto(t, "deleteHeld")
          /\ UNCHANGED <<req, todo, cur, seen, keys, victims>>
       \/ /\ ~graph                                 \* NotFoundError
          /\ LockFree(t)
          /\ Finish(t)
          /\ UNCHANGED lock
    /\ UNCHANGED <<storeVars, contributed, raced, served>>

(* One transaction removes the graph row and every row of the graph.       *)
DeleteCommit(t) ==
    /\ pc[t] = "deleteHeld"
    /\ graph' = FALSE
    /\ rows' = [x \in Item |-> Atomic!NoRow]
    /\ contributed' = [x \in Item |-> {}]
    /\ raced' = (raced \/ \E u \in Thread : pc[u] \in Writing)
    /\ Release(t)
    /\ Finish(t)
    /\ UNCHANGED served

-----------------------------------------------------------------------------
(* build_from_records: the entities of the batch, then its relations, each *)
(* in a store call of its own that never looks at the graphs table.        *)

BeginUpsert(t, x) ==
    /\ Acquire(t)
    /\ cur' = [cur EXCEPT ![t] = x]
    /\ seen' = [seen EXCEPT ![t] = rows[x]]
    /\ Goto(t, "upsertHeld")
    /\ UNCHANGED <<storeVars, req, todo, keys, victims, contributed, raced, served>>

UpsertEntity(t) ==
    /\ pc[t] = "upsert"
    /\ \E x \in todo[t] \cap Entity : BeginUpsert(t, x)

(* Mutant: relations do not wait for the entities of the batch.            *)
UpsertRelationEarly(t) ==
    /\ pc[t] = "upsert"
    /\ \E x \in todo[t] \cap Relation : BeginUpsert(t, x)

UpsertRelation(t) ==
    /\ pc[t] = "upsert"
    /\ todo[t] \cap Entity = {}
    /\ \E x \in todo[t] \cap Relation : BeginUpsert(t, x)

(* The row in hand is written and the call returns.                        *)
WriteRow(t, row) ==
    /\ pc[t] = "upsertHeld"
    /\ rows' = [rows EXCEPT ![cur[t]] = row]
    /\ contributed' = [contributed EXCEPT ![cur[t]] = @ \cup {req[t].doc}]
    /\ todo' = [todo EXCEPT ![t] = @ \ {cur[t]}]
    /\ cur' = [cur EXCEPT ![t] = NoItem]
    /\ seen' = [seen EXCEPT ![t] = Atomic!NoRow]
    /\ Release(t)
    /\ Goto(t, "upsert")
    /\ UNCHANGED <<graph, req, keys, victims, raced, served>>

(* Mutant: the incoming record replaces the row.                           *)
CommitOverwrite(t) == WriteRow(t, Atomic!MergeRow(Atomic!NoRow, req[t].doc))

(* Mutant: a deprecated row that turns up again stays deprecated.          *)
CommitNoRevival(t) ==
    WriteRow(t, [Atomic!MergeRow(seen[t], req[t].doc) EXCEPT
                    !.status = IF seen[t].status = "none" THEN @ ELSE seen[t].status])

CommitUpsert(t) == WriteRow(t, Atomic!MergeRow(seen[t], req[t].doc))

(* The batch is written: a build returns, a merge with a docId goes on to  *)
(* the incremental deprecation.                                            *)
BatchDone(t) ==
    /\ pc[t] = "upsert"
    /\ todo[t] = {}
    /\ \/ /\ req[t].op = "merge"
          /\ req[t].doc # NoDoc
          /\ Goto(t, "keys")
          /\ UNCHANGED <<req, todo, cur, seen, keys, victims>>
       \/ /\ req[t].op = "build" \/ req[t].doc = NoDoc
          /\ Finish(t)
    /\ UNCHANGED <<storeVars, lock, contributed, raced, served>>

-----------------------------------------------------------------------------
(* merge_records (after the build) and deprecate_doc.                      *)

(* Mutant: relations are listed too.                                       *)
ActiveKeysOfItems(doc) ==
    {x \in Item : rows[x].status = "active" /\ doc \in rows[x].docs}

(* active_keys: the active entities that name the document at this moment. *)
ActiveKeys(doc) ==
    {x \in Entity : rows[x].status = "active" /\ doc \in rows[x].docs}

ListKeys(t) ==
    /\ pc[t] = "keys"
    /\ LockFree(t)
    /\ keys' = [keys EXCEPT ![t] = ActiveKeys(req[t].doc)]
    /\ Goto(t, "deprecate")
    /\ UNCHANGED <<storeVars, lock, req, todo, cur, seen, victims,
                   contributed, raced, served>>

(* Mutant: entities other documents contributed to are picked as well.     *)
VictimsShared(t) ==
    {x \in Entity \ keys[t] : rows[x].status = "active" /\ req[t].doc \in rows[x].docs}

(* The rows deprecate_doc_assets picks: entities only, whatever becomes of *)
(* the relations.  deprecate_doc passes no keys.                           *)
Victims(t) ==
    {x \in Entity \ keys[t] : Atomic!OnlyFrom(rows[x], req[t].doc)}

DeprecateRead(t) ==
    /\ pc[t] = "deprecate"
    /\ Acquire(t)
    /\ victims' = [victims EXCEPT ![t] = Victims(t)]
    /\ Goto(t, "deprecateHeld")
    /\ UNCHANGED <<storeVars, req, todo, cur, seen, keys, contributed, raced, served>>

(* Mutant: deprecation deletes the rows.                                   *)
DeprecateDeletes(t) ==
    /\ pc[t] = "deprecateHeld"
    /\ rows' = [x \in Item |-> IF x \in victims[t] THEN Atomic!NoRow ELSE rows[x]]
    /\ Release(t)
    /\ Finish(t)
    /\ UNCHANGED <<graph, contributed, raced, served>>

(* Mutant: the loop over the victims returns after the first.              *)
DeprecateFirst(t) ==
    /\ pc[t] = "deprecateHeld"
    /\ rows' = [x \in Item |-> IF /\ x \in victims[t] /\ Exists(x)
                                   /\ x = CHOOSE v \in victims[t] : TRUE
                               THEN Atomic!Deprecated(rows[x]) ELSE rows[x]]
    /\ Release(t)
    /\ Finish(t)
    /\ UNCHANGED <<graph, contributed, raced, served>>

(* UPDATE ... WHERE entity_id: by identifier, only rows that still exist.  *)
DeprecateWrite(t) ==
    /\ pc[t] = "deprecateHeld"
    /\ rows' = [x \in Item |-> IF x \in victims[t] /\ Exists(x)
                               THEN Atomic!Deprecated(rows[x]) ELSE rows[x]]
    /\ Release(t)
    /\ Finish(t)
    /\ UNCHANGED <<graph, contributed, raced, served>>

-----------------------------------------------------------------------------
Advance(t) ==
    \/ Require(t)
    \/ CreateCheck(t) \/ CreateCommit(t)
    \/ DeleteCheck(t) \/ DeleteCommit(t)
    \/ UpsertEntity(t) \/ UpsertRelation(t) \/ CommitUpsert(t) \/ BatchDone(t)
    \/ ListKeys(t) \/ DeprecateRead(t) \/ DeprecateWrite(t)

(* The bound on requests is used up and every request is answered: the     *)
(* only place where a run may end.                                         *)
Quiescent ==
    /\ served = MaxRequests
    /\ \A t \in Thread : pc[t] = "idle"
    /\ UNCHANGED vars

Next ==
    \/ \E t \in Thread : Accept(t) \/ Advance(t) \/ Reject(t) \/ Fail(t)
    \/ Quiescent

Spec == Init /\ [][Next]_vars

(* A thread that can take its next step eventually does: server threads    *)
(* run, and a store call ends (busy_timeout, connection_timeout).          *)
FairSpec == Spec /\ \A t \in Thread : WF_vars(Advance(t))

-----------------------------------------------------------------------------
(* Properties.                                                             *)

TypeOK ==
    /\ graph \in BOOLEAN
    /\ rows \in [Item -> Atomic!Row]
    /\ lock \in [Process -> Thread \cup {NoThread}]
    /\ pc \in [Thread -> PC]
    /\ req \in [Thread -> RequestType]
    /\ todo \in [Thread -> SUBSET Item]
    /\ cur \in [Thread -> Item \cup {NoItem}]
    /\ seen \in [Thread -> Atomic!Row]
    /\ keys \in [Thread -> SUBSET Entity]
    /\ victims \in [Thread -> SUBSET Entity]
    /\ contributed \in [Item -> SUBSET (Doc \cup {NoDoc})]
    /\ raced \in BOOLEAN
    /\ served \in 0 .. MaxRequests

(* The whole store runs in one process (HTTP only, SQLite): every call     *)
(* shares the RLock.                                                       *)
OneProcess == \A t, u \in Thread : procOf[t] = procOf[u]

(* No contribution is lost and none is invented: with the lock shared, a   *)
(* row exists exactly when somebody upserted it since the last delete, and *)
(* its evidence names exactly the documents that did.                      *)
EvidenceComplete ==
    \A x \in Item :
        /\ rows[x].docs = contributed[x] \ {NoDoc}
        /\ Exists(x) <=> contributed[x] # {}

(* Under any deployment: writes that race may lose evidence, but evidence  *)
(* never names a document that did not contribute, and no row vanishes or  *)
(* appears on its own, unless a delete overtook a build.                   *)
EvidenceSound ==
    ~raced => \A x \in Item : /\ rows[x].docs \subseteq contributed[x]
                              /\ Exists(x) <=> contributed[x] # {}

(* Rows outlive their graph (and turn up in a graph created again under    *)
(* the same kbId) only if a delete overtook a build between its existence  *)
(* check and its last upsert.                                              *)
OrphansOnlyByRace == (~graph /\ ~raced) => \A x \in Item : ~Exists(x)

(* Every batch that carries the endpoints of its relations, as a text      *)
(* build does, leaves no edge without its two entity rows, at any moment:  *)
(* concurrent builds, failures between two upserts and deprecations        *)
(* included; again unless a delete overtook a build.                       *)
EdgesAnchored ==
    ~raced => \A r \in Relation : Exists(r) => Exists(r[1]) /\ Exists(r[2])

(* An entity stops being active only through a deprecation on behalf of    *)
(* the one document that contributed to it.                                *)
DeprecationStep ==
    \A x \in Item :
        rows[x].status = "active" /\ rows'[x].status = "deprecated"
        => \E t \in Thread : /\ pc[t] = "deprecateHeld"
                             /\ contributed[x] \ {NoDoc} = {req[t].doc}

(* DeprecationStep holds of every step: no deprecation hits an entity that *)
(* another document contributed to since the victims were selected.        *)
DeprecationJustified == [][DeprecationStep]_vars

(* The store calls of one process are atomic: the interleaving of read and *)
(* write steps shows a caller nothing that whole calls would not.          *)
Serializable == Atomic!Spec

(* Every request is answered: no thread waits for a lock for ever.         *)
Answered == \A t \in Thread : pc[t] # "idle" ~> pc[t] = "idle"
=============================================================================
