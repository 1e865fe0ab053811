------------------------------- MODULE Reads -------------------------------
(***************************************************************************)
(* Requests that read a graph more than once (application/service.py: page *)
(* after page of list_nodes, validate_graph_ontology, ontology candidates, *)
(* ontology_version_diff), beside builds, withdrawals, snapshots and the   *)
(* deletion of the graph; and the check of a definition, which reads       *)
(* nothing.  A read is one store call.  Types and names of entities are    *)
(* numbers, in the order in which the store sorts them; identifiers of     *)
(* relations too.  A record names its row itself (entityId, relationId):   *)
(* builds may bring one row with another type, name, value or other ends.  *)
(***************************************************************************)
EXTENDS Ontology

CONSTANTS
    Entity, Relation,   \* identifiers
    GraphSchema,    \* graphSchema of the graph
    Batches,        \* what builds bring, see BatchType
    Version, Products,
    Name,           \* what concepts are called, and what they call others
    Requests,
    MaxBuilds, MaxRemovals, MaxPuts   \* bounds

BatchType ==
    [entities : Seq([id : Entity, type : Nat, name : Nat, value : Value]),
     relations : Seq([id : Relation, type : Nat, source : Nat, target : Nat])]

ASSUME IdentifiersAssumption ==
    Entity \subseteq Nat /\ IsFiniteSet(Entity) /\ Relation \subseteq Nat /\ IsFiniteSet(Relation)

ASSUME ReadsAssumption ==
    /\ Batches \subseteq BatchType
    /\ \A q \in Requests : /\ q.op = "pages" => q.size \in Int
                           /\ q.op = "candidates" => q.maxClasses \in Int
                           /\ q.op = "definition" =>
                                 q.concepts \in Seq([id : Name, key : Name, parent : Name])

VARIABLES
    backend,         \* which of the stores runs
    exists, row, edge, snapshots,    \* the store
    build,                           \* the build in flight, if any
    heard,                           \* batches whose builds have answered
    builds, removals, puts,       \* counters of the bounds
    request, stage, progress, result,
    steady,              \* history: entities that kept their place since the first page
    left, came,          \* history: those that others ceased, or came, to precede since then
    changed,             \* history: the rows changed since the first read
    moments              \* history: what a diff would have said since then

storeVars == <<backend, exists, row, edge, snapshots>>
boundVars == <<builds, removals, puts>>
readVars == <<request, stage, progress, result>>
historyVars == <<steady, left, came, changed, moments>>
vars == <<storeVars, build, heard, boundVars, readVars, historyVars>>

NoRow == [status |-> "none", type |-> 0, name |-> 0, value |-> "absent"]
NoEdge == [status |-> "none", type |-> 0, source |-> 0, target |-> 0]
NoBuild == [batch |-> [entities |-> <<>>, relations |-> <<>>], next |-> 0]

Active == {e \in Entity : row[e].status = "active"}
Linked == {r \in Relation : edge[r].status = "active"}

(* "ORDER BY entity_type, name" and "ORDER BY relation_type, relation_id". *)
Precedes(d, e) ==
    \/ row[d].type < row[e].type
    \/ row[d].type = row[e].type /\ row[d].name < row[e].name

PrecedesEdge(q, r) ==
    \/ edge[q].type < edge[r].type
    \/ edge[q].type = edge[r].type /\ q < r

(* All ways to list them: rows of one type and name come in any order.     *)
Listings(rows, ahead) ==
    {order \in Bijection(1..Cardinality(rows), rows) :
        \A i, j \in DOMAIN order : i < j => <<order[j], order[i]>> \notin ahead}

(* list_entities and list_relations.                                       *)
EntityLists ==
    {[i \in DOMAIN order |->
         [id |-> order[i], type |-> row[order[i]].type, value |-> row[order[i]].value]] :
        order \in Listings(Active, {pair \in Active \X Active : Precedes(pair[1], pair[2])})}

RelationLists ==
    {[i \in DOMAIN order |->
         [id |-> order[i], type |-> edge[order[i]].type,
          source |-> edge[order[i]].source, target |-> edge[order[i]].target]] :
        order \in Listings(Linked, {pair \in Linked \X Linked : PrecedesEdge(pair[1], pair[2])})}

Init ==
    /\ backend \in {"sqlite", "neo4j"} /\ exists = TRUE /\ snapshots = <<>>
    /\ row = [e \in Entity |-> NoRow] /\ edge = [r \in Relation |-> NoEdge]
    /\ build = NoBuild /\ heard = {}
    /\ builds = 0 /\ removals = 0 /\ puts = 0
    /\ request \in Requests
    /\ stage = "asked" /\ progress = <<>> /\ result = <<>>
    /\ steady = {} /\ left = {} /\ came = {} /\ changed = FALSE /\ moments = {}

-----------------------------------------------------------------------------
(* The writers, until the request is answered.  Only what the request      *)
(* reads is written: rows, or snapshots, or nothing.                       *)

Open == stage \notin {"done", "failed"}
ReadsRows == request.op \in {"pages", "check", "candidates"}

(* What a write means for the history.  A row has a place of its own if no *)
(* other is of its type and name.                                          *)
Ahead(e) == {d \in Active \ {e} : Precedes(d, e)}
Alone(e) == \A d \in Active \ {e} : Precedes(d, e) \/ Precedes(e, d)

Stays(e) ==
    /\ e \in Active' /\ Alone(e)'
    /\ row'[e].type = row[e].type /\ row'[e].name = row[e].name

Follow ==
    /\ changed' = (stage \in {"proposing", "proposed", "checking"})
    /\ IF stage = "paging"
       THEN /\ steady' = {e \in steady : Stays(e)}
            /\ left' = left \cup {e \in steady : ~(Ahead(e) \subseteq Ahead(e)')}
            /\ came' = came \cup {e \in steady : ~(Ahead(e)' \subseteq Ahead(e))}
       ELSE UNCHANGED <<steady, left, came>>
    /\ UNCHANGED moments

(* A batch with a type the schema does not declare is refused.             *)
Build ==
    /\ Open /\ ReadsRows /\ exists /\ build = NoBuild /\ builds < MaxBuilds
    /\ \E batch \in Batches :
          /\ \A issue \in SchemaCheck(GraphSchema, batch.entities, batch.relations) :
                issue[1] \notin {"type_undeclared", "relation_undeclared"}
          /\ build' = [batch |-> batch, next |-> 1]
    /\ builds' = builds + 1
    /\ UNCHANGED <<storeVars, heard, removals, puts, readVars, historyVars>>

(* merge_entity and merge_relation take everything here from the record    *)
(* that comes in; "ON CONFLICT DO UPDATE" leaves the type of the row and   *)
(* the ends as they are, MERGE and SET do not.                             *)
Keeps(old) == backend = "sqlite" /\ old.status # "none"

MergedEntity(old, new) ==
    [status |-> "active", type |-> IF Keeps(old) THEN old.type ELSE new.type,
     name |-> new.name, value |-> new.value]

MergedRelation(old, new) ==
    LET kept == IF Keeps(old) THEN old ELSE new
    IN  [status |-> "active", type |-> kept.type, source |-> kept.source, target |-> kept.target]

Upsert ==
    LET entities == build.batch.entities
        relations == build.batch.relations
        n == Len(entities)
    IN  /\ Open /\ ReadsRows
        /\ \/ /\ build.next \in 1..n
              /\ LET new == entities[build.next]
                 IN  row' = [row EXCEPT ![new.id] = MergedEntity(row[new.id], new)]
              /\ UNCHANGED edge
           \/ /\ build.next - n \in 1..Len(relations)
              /\ LET new == relations[build.next - n]
                 IN  edge' = [edge EXCEPT ![new.id] = MergedRelation(edge[new.id], new)]
              /\ UNCHANGED row
        /\ build' = [build EXCEPT !.next = @ + 1]
        /\ Follow
        /\ UNCHANGED <<backend, exists, snapshots, heard, boundVars, readVars>>

AnswerBuild ==
    /\ Open /\ ReadsRows
    /\ build # NoBuild /\ build.next > Len(build.batch.entities) + Len(build.batch.relations)
    /\ heard' = heard \cup {build.batch} /\ build' = NoBuild
    /\ UNCHANGED <<storeVars, boundVars, readVars, historyVars>>

(* A store call raises, or the process dies.                               *)
FailBuild ==
    /\ Open /\ ReadsRows /\ build # NoBuild /\ build' = NoBuild
    /\ UNCHANGED <<storeVars, heard, boundVars, readVars, historyVars>>

(* Which entities a document takes along is the matter of GraphStore.      *)
Withdraw ==
    /\ Open /\ ReadsRows /\ exists /\ removals < MaxRemovals
    /\ \E victims \in SUBSET Active \ {{}} :
          row' = [e \in Entity |-> IF e \in victims THEN [row[e] EXCEPT !.status = "deprecated"]
                                   ELSE row[e]]
    /\ removals' = removals + 1
    /\ Follow
    /\ UNCHANGED <<backend, exists, edge, snapshots, build, heard, builds, puts, readVars>>

DeleteGraph ==
    /\ Open /\ request.op # "definition" /\ exists /\ removals < MaxRemovals
    /\ exists' = FALSE /\ removals' = removals + 1
    /\ row' = [e \in Entity |-> NoRow] /\ edge' = [r \in Relation |-> NoEdge]
    /\ snapshots' = <<>>
    /\ Follow
    /\ UNCHANGED <<backend, build, heard, builds, puts, readVars>>

(* What a comparison of the two versions says at this moment, if it can.   *)
DiffOf(held) ==
    IF {request.from, request.to} \subseteq DOMAIN held
    THEN {Diff(held[request.from], held[request.to])} ELSE {}

(* A graph of the same kbId has the same identifier.                       *)
CreateGraph ==
    /\ Open /\ ~exists /\ exists' = TRUE
    /\ UNCHANGED <<backend, row, edge, snapshots, build, heard, boundVars, readVars, historyVars>>

PutSnapshot ==
    /\ Open /\ request.op = "diff" /\ exists /\ puts < MaxPuts
    /\ \E version \in Version, product \in Products :
          snapshots' = [v \in DOMAIN snapshots \cup {version} |->
                           IF v = version THEN product ELSE snapshots[v]]
    /\ puts' = puts + 1
    /\ moments' = IF stage = "asked" THEN moments ELSE moments \cup DiffOf(snapshots')
    /\ UNCHANGED <<backend, exists, row, edge, build, heard, builds, removals, readVars,
                   steady, left, came, changed>>

Write == \/ Build \/ Upsert \/ AnswerBuild \/ FailBuild \/ Withdraw
         \/ DeleteGraph \/ CreateGraph \/ PutSnapshot

-----------------------------------------------------------------------------
(* The reader.                                                             *)

(* _require_graph, at the start of every call of the service.              *)
NotFound ==
    /\ request.op # "definition" /\ stage \in {"asked", "paging", "proposed"} /\ ~exists
    /\ stage' = "failed"
    /\ UNCHANGED <<storeVars, build, heard, boundVars, request, progress, result, historyVars>>

(* A client asks for page after page until it has the last one.            *)
PageSize(n) == IF n < 1 THEN 1 ELSE IF n > 200 THEN 200 ELSE n
TotalPages(total, size) == (total + size - 1) \div size

\* Mutant: pages are counted from 0.
PaginateFromZero(records, page, size) ==
    SubSeq(records, page * size + 1, Min({(page + 1) * size, Len(records)}))

Paginate(records, page, size) ==
    SubSeq(records, (page - 1) * size + 1, Min({page * size, Len(records)}))

ListPage ==
    LET page == IF stage = "asked" THEN 1 ELSE progress.page + 1
        got == IF stage = "asked" THEN <<>> ELSE progress.got
        size == PageSize(request.size)
    IN  /\ request.op = "pages" /\ stage \in {"asked", "paging"} /\ exists
        /\ \E list \in EntityLists :
              /\ progress' = [page |-> page, got |-> got \o Paginate(list, page, size)]
              /\ stage' = IF page >= TotalPages(Len(list), size) THEN "done" ELSE "paging"
        /\ steady' = IF stage = "asked" THEN {e \in Active : Alone(e)} ELSE steady
        /\ UNCHANGED <<storeVars, build, heard, boundVars, request, result,
                       left, came, changed, moments>>

(* The check of a graph and the candidates read its entities and then its  *)
(* relations.  Candidates are followed by a check against them.            *)
ReadEntities ==
    /\ request.op \in {"check", "candidates"} /\ stage \in {"asked", "proposed"} /\ exists
    /\ \E list \in EntityLists :
          progress' = [entities |-> list, relations |-> <<>>,
                       schema |-> IF stage = "proposed" THEN progress.schema ELSE <<>>]
    /\ stage' = IF stage = "asked" /\ request.op = "candidates" THEN "proposing" ELSE "checking"
    /\ UNCHANGED <<storeVars, build, heard, boundVars, request, result, historyVars>>

Propose ==
    /\ stage = "proposing"
    /\ \E list \in RelationLists :
          LET candidates == Candidates(progress.entities, list, request.maxClasses)
          IN  /\ progress' = [entities |-> <<>>, relations |-> <<>>,
                              schema |-> SchemaOf(candidates)]
              /\ result' = [truncated |-> candidates.truncated]
    /\ stage' = "proposed"
    /\ UNCHANGED <<storeVars, build, heard, boundVars, request, historyVars>>

(* validate_graph_ontology, the coverage included.                         *)
Check ==
    /\ stage = "checking"
    /\ LET schema == IF request.op = "check" THEN request.schema ELSE progress.schema
           maxIssues == IF request.op = "check" THEN request.maxIssues ELSE 0
       IN  \E list \in RelationLists :
              /\ progress' = [progress EXCEPT !.relations = list]
              /\ result' = [report |-> Report(schema, progress.entities, list, maxIssues),
                            covered |-> Coverage(DOMAIN schema.entity, progress.entities),
                            truncated |-> request.op = "candidates" /\ result.truncated]
    /\ stage' = "done"
    /\ UNCHANGED <<storeVars, build, heard, boundVars, request, historyVars>>

(* ontology_version_diff reads one version and then the other.             *)
GetSource ==
    /\ request.op = "diff" /\ stage = "asked" /\ exists
    /\ IF request.from \in DOMAIN snapshots
       THEN /\ progress' = [source |-> snapshots[request.from]] /\ stage' = "comparing"
            /\ moments' = DiffOf(snapshots)
       ELSE stage' = "failed" /\ UNCHANGED <<progress, moments>>
    /\ UNCHANGED <<storeVars, build, heard, boundVars, request, result,
                   steady, left, came, changed>>

\* Mutant: the versions are swapped.
GetTargetSwapped ==
    /\ stage = "comparing"
    /\ IF request.to \in DOMAIN snapshots
       THEN result' = [diff |-> Diff(snapshots[request.to], progress.source)] /\ stage' = "done"
       ELSE stage' = "failed" /\ UNCHANGED result
    /\ UNCHANGED <<storeVars, build, heard, boundVars, request, progress, historyVars>>

GetTarget ==
    /\ stage = "comparing"
    /\ IF request.to \in DOMAIN snapshots
       THEN result' = [diff |-> Diff(progress.source, snapshots[request.to])] /\ stage' = "done"
       ELSE stage' = "failed" /\ UNCHANGED result
    /\ UNCHANGED <<storeVars, build, heard, boundVars, request, progress, historyVars>>

(* validate_definition follows the line of parents from every name in turn *)
(* (any order will do: the walks do not meet).                             *)
BeginWalks ==
    /\ request.op = "definition" /\ stage = "asked"
    /\ LET parent == ParentEdges(request.concepts)
       IN  progress' = [parent |-> parent, todo |-> DOMAIN parent, node |-> None,
                        seen |-> <<>>, cycles |-> {}]
    /\ stage' = "walking"
    /\ UNCHANGED <<storeVars, build, heard, boundVars, request, result, historyVars>>

NextWalk ==
    /\ stage = "walking" /\ progress.node = None /\ progress.todo # {}
    /\ LET key == CHOOSE k \in progress.todo : TRUE
       IN  progress' = [progress EXCEPT !.todo = @ \ {key}, !.node = key, !.seen = <<>>]
    /\ UNCHANGED <<storeVars, build, heard, boundVars, request, stage, result, historyVars>>

Met == Contains(progress.seen, progress.node)

\* Mutant: a walk knows only where it started.
WalkFromStart ==
    /\ stage = "walking" /\ progress.node # None
    /\ progress' =
           IF progress.node \notin DOMAIN progress.parent THEN [progress EXCEPT !.node = None]
           ELSE IF Met THEN [progress EXCEPT !.node = None, !.cycles = @ \cup {progress.seen[1]}]
           ELSE [progress EXCEPT !.seen = IF @ = <<>> THEN <<progress.node>> ELSE @,
                                 !.node = progress.parent[progress.node]]
    /\ UNCHANGED <<storeVars, build, heard, boundVars, request, stage, result, historyVars>>

Walk ==
    /\ stage = "walking" /\ progress.node # None
    /\ progress' =
           IF progress.node \notin DOMAIN progress.parent THEN [progress EXCEPT !.node = None]
           ELSE IF Met THEN [progress EXCEPT !.node = None, !.cycles = @ \cup {progress.seen[1]}]
           ELSE [progress EXCEPT !.seen = Append(@, progress.node),
                                 !.node = progress.parent[progress.node]]
    /\ UNCHANGED <<storeVars, build, heard, boundVars, request, stage, result, historyVars>>

EndWalks ==
    /\ stage = "walking" /\ progress.node = None /\ progress.todo = {}
    /\ result' = [cycles |-> progress.cycles,
                  valid |-> /\ progress.cycles = {}
                            /\ Nameless(request.concepts) \cup Dangling(request.concepts) = {}]
    /\ stage' = "done"
    /\ UNCHANGED <<storeVars, build, heard, boundVars, request, progress, historyVars>>

Read == \/ NotFound \/ ListPage \/ ReadEntities \/ Propose \/ Check
        \/ GetSource \/ GetTarget \/ BeginWalks \/ NextWalk \/ Walk \/ EndWalks

Next == Write \/ Read

(* A handler that has started runs on.                                     *)
Spec == Init /\ [][Next]_vars /\ WF_vars(Read)

-----------------------------------------------------------------------------
Times(e) == Cardinality({i \in DOMAIN progress.got : progress.got[i].id = e})

(* Every page is a new reading of the whole list.  Who takes page after    *)
(* page gets an entity that kept its type and its name and shared them     *)
(* with none all the time, unless one listed before it ceased to be        *)
(* (withdrawn, or brought with another name or type); and twice, only if   *)
(* one came to be listed before it.                                        *)
PagesShiftByWrites ==
    (request.op = "pages" /\ stage = "done") =>
        \A e \in steady : /\ Times(e) = 0 => e \in left
                          /\ Times(e) > 1 => e \in came

(* What an issue is about, whatever its place in a list; it is the source  *)
(* that has too many relations.                                            *)
About(issue, entities, relations) ==
    [code |-> issue[1],
     on |-> CASE issue[1] \in {"type_undeclared", "missing_required", "data_type_violation"} ->
                   <<entities[issue[2]].id>>
              [] issue[1] = "cardinality_violation" ->
                   <<relations[issue[2]].type, relations[issue[2]].source>>
              [] OTHER -> <<relations[issue[2]].type, relations[issue[2]].source,
                            relations[issue[2]].target>>]

(* What a build told its caller: the records that upserts return are the   *)
(* ones that came in.                                                      *)
Told(batch) ==
    {About(issue, batch.entities, batch.relations) :
        issue \in SchemaCheck(GraphSchema, batch.entities, batch.relations)}

(* Those of a batch that the store has as the batch brought them, every    *)
(* time it did.                                                            *)
KeptEntities(batch) ==
    {e \in {batch.entities[i].id : i \in DOMAIN batch.entities} :
        \A i \in DOMAIN batch.entities :
            batch.entities[i].id = e =>
                /\ row[e].status = "active"
                /\ row[e].type = batch.entities[i].type /\ row[e].value = batch.entities[i].value}

KeptRelations(batch) ==
    {r \in {batch.relations[i].id : i \in DOMAIN batch.relations} :
        \A i \in DOMAIN batch.relations :
            batch.relations[i].id = r =>
                edge[r] = [status |-> "active", type |-> batch.relations[i].type,
                           source |-> batch.relations[i].source,
                           target |-> batch.relations[i].target]}

(* The store has all that a violation takes as the batch brought it: the   *)
(* entity, the relation and the end of it, two relations of one source.    *)
Holds(batch, about) ==
    LET relations == KeptRelations(batch)
        Triple(r) == <<edge[r].type, edge[r].source, edge[r].target>>
        end == [source_violation |-> "source", target_violation |-> "target"]
    IN  CASE about.code \in {"type_undeclared", "missing_required"} ->
                about.on[1] \in KeptEntities(batch)
          [] about.code = "cardinality_violation" ->
                \E q, r \in relations : /\ q # r /\ <<edge[q].type, edge[q].source>> = about.on
                                        /\ <<edge[r].type, edge[r].source>> = about.on
          [] about.code \in DOMAIN end ->
                \E r \in relations : /\ Triple(r) = about.on
                                     /\ edge[r][end[about.code]] \in KeptEntities(batch)
          [] OTHER -> \E r \in relations : Triple(r) = about.on

(* The schemaCheck of a build and a later check of the graph agree on      *)
(* every violation whose records the store has as the build brought them   *)
(* and that did not change during the check: the check finds it exactly if *)
(* the build counted it.  They may differ on a row that was written since, *)
(* on a relation that a batch brought twice, which a build counts as two,  *)
(* and on a row that the batch brought with another type or other ends     *)
(* than SQLite had stored, which the build checks and SQLite does not      *)
(* store.  Data types are left out of schemaCheck.                         *)
ChecksAgree ==
    (/\ request.op = "check" /\ stage = "done" /\ ~changed /\ request.schema = GraphSchema) =>
        LET found == {About(issue, progress.entities, progress.relations) :
                          issue \in result.report.issues}
        IN  \A batch \in heard :
                \A about \in found \cup Told(batch) :
                    (about.code # "data_type_violation" /\ Holds(batch, about)) =>
                        (about \in found /\ about \in Told(batch))

(* The schema made of a graph's candidates fits the graph, if nothing was  *)
(* written meanwhile: a check against it is valid and finds all entities   *)
(* covered, unless the list of classes was cut.                            *)
CandidatesFit ==
    (request.op = "candidates" /\ stage = "done" /\ ~changed) =>
        /\ result.report.valid <=> ~result.truncated
        /\ result.covered.hit = result.covered.total <=> ~result.truncated

(* A comparison of two versions is one of versions that the graph held at  *)
(* one moment, unless the first was written again or deleted meanwhile.    *)
DiffOfOneMoment ==
    (request.op = "diff" /\ stage = "done") =>
        \/ result.diff \in moments
        \/ request.from \notin DOMAIN snapshots
        \/ snapshots[request.from] # progress.source

(* The line of parents from concept i: the ones that identifiers and names *)
(* lead to, one after the other.                                           *)
Line(concepts, i) ==
    LET line[n \in 0..Len(concepts)] ==
            IF n = 0 THEN concepts[i]
            ELSE IF line[n - 1] # <<>> /\ Known(concepts, line[n - 1].parent)
                 THEN Resolve(concepts, line[n - 1].parent) ELSE <<>>
    IN  line

(* A definition is found to have a cycle at a name exactly if the line of  *)
(* its parents does not end, provided that every concept has a name of its *)
(* own: the check knows concepts by their names.                           *)
FindsCycles ==
    (request.op = "definition" /\ stage = "done") =>
        LET concepts == request.concepts
            endless == {i \in DOMAIN concepts : Line(concepts, i)[Len(concepts)] # <<>>}
        IN  (/\ Nameless(concepts) = {}
             /\ \A i, j \in DOMAIN concepts : concepts[i].key = concepts[j].key => i = j) =>
                result.cycles = {concepts[i].key : i \in endless}

(* Every one of these requests is answered, while writers go on and        *)
(* whatever cycles a definition has.                                       *)
Ends == <>(stage \in {"done", "failed"})
=============================================================================
