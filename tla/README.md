# semantica-graph-server in TLA+

A verification development of the graph engine in `src/graph_engine`: modules
that model it, TLC configurations that check the models on small instances, and
proofs, checked by TLAPS, that hold for every instance.

Contents: [the system](#1-the-system), [the plan](#2-the-plan), [the
modules](#3-the-modules), [the runs](#4-the-runs), [the proofs](#5-the-proofs),
[where code and documents differ](#6-where-code-and-documents-differ), [what is not
modelled](#7-what-is-not-modelled).

## 1. The system

The engine keeps knowledge graphs: entities and relations, extracted from
documents, each row with the evidence (which document, which text) it rests on.
Five surfaces (HTTP, gRPC, Celery, MCP, CLI) share one application layer,
`GraphEngineService`, over one store, SQLite or Neo4j. The SDK is an HTTP client.

| component | state | operations | correct means |
| --- | --- | --- | --- |
| write path, `application/service.py` | none of its own; a request is a sequence of store calls | `create_graph`, `delete_graph`, `build_from_records`, `merge_records`, `deprecate_doc` | nothing contributed is lost, nothing of a deleted graph stays, only what a document alone contributed is deprecated, no edge lacks an endpoint |
| stores, `persistence/` | tables graphs, entities, relations, constraints, ontology, jobs | one call per table operation; an upsert reads, merges in Python, writes | a call is atomic; every call returns |
| SQLite connection | one connection per process, its open transaction and snapshot; the database's write lock | `execute`, `commit`; no `rollback` | a call leaves no transaction behind; a read sees what was committed |
| jobs, `service.py`, `celery_app.py` | the jobs table, the messages at the broker, what each worker runs | submit, dispatch, take, execute, record; `run_job` by hand | carried out at most once, ends, stays ended, is not lost |
| constraint profile, `domain/constraints.py` | one profile per graph | absorb (read, merge, write), apply to candidates and to records | profiles of concurrent builds are all kept; what is blacklisted never enters |
| queries, `persistence/` | none | neighbors, paths, stat, nodes, edges, export | shortest paths are found, a neighbourhood is complete and a graph, no query fails without cause |
| ontology, `domain/ontology.py` | snapshots by version, one per graph and version | validate a definition or a graph, coverage, candidates, put, list and compare snapshots | a cycle is found and the check ends; what a build says of the schema and what a later check says agree; a comparison is of versions that stood side by side |
| core writeback, `adapters/core_writeback.py` | none; core's copy | one POST after a build or a deprecation | core has the store's last write, or the failure is known |
| backend selection, `persistence/__init__.py`, `runtime.py` | the store each process chose | once, at start-up | a client finds what it wrote |
| SPARQL, `adapters/rdf.py` | none; a view built per query | scan, whitelist, bounded execution | only reading forms run; an answer says whether it is cut; a query comes to an end |
| protocol surfaces, `interfaces/` | none | arguments in, envelope or error out | a request means the same on each of them; failures can be told apart |
| SDK, `sdk/python/` | the attempts of a call | send, retry, return an outcome | a call returns, its outcome is true, and nothing is done twice but by a retry |
| extraction, retrieval, semantica adapters, schema and identifiers | none | functions of text or rows | the string processing they specify |

How they interact. A surface calls the service in a thread of its process. The
service calls the store several times per request and holds nothing between the
calls. A SQLite store has one connection and one `RLock` per process; another
process (gRPC server, Celery worker, CLI) has its own over the same file. The
Neo4j store opens a session per call and has no lock. An asynchronous build
writes a jobs row, then sends a message to the broker; a worker runs the same
service and writes the terminal status. After a build or a withdrawal the
service posts the rows to core and waits for the answer. The SDK calls the HTTP
surface and may give an attempt up that the server goes on with.

The hard behaviours are the interleavings of store calls of different requests,
and of the read and the write inside one call where no lock is shared; a delete
beside a build; a crash or an error between two store calls, between the jobs
row and the message, between the task and its status, and inside a
transaction; the busy timeout; a job taken by two agents; requests that read the
graph twice beside writers; answers that are lost and calls that are sent again.
`PROJECT.json` lists
them as hazards, each at its line, with the properties that address it.

## 2. The plan

Written so far, in this order:

1. `GraphStore` over `AtomicGraphStore`: the write path and the stores, the
   centre of the system, with `GraphStoreClaims` for what the documents promise
   beyond it and `GraphStoreProofs` for the theorems.
2. `Jobs` over `JobPromise`: asynchronous builds.
3. `SqliteConnection`: what the lock and the missing rollback do to several
   processes on one file.

4. `Constraints` with `ConstraintsProofs`: absorbing a profile beside other
   requests, applying it to candidates and to records; the lost update within
   one process; the blacklist on both paths.
5. `Queries`: the searches of `paths` and `neighbors` as the code's loops, over
   every small graph, against reference definitions; with rows as `GraphStore`
   leaves them, deprecated endpoints included.

6. `Ontology`, the ontology domain as operators, and `Reads`, the requests that
   read a graph more than once beside the writers: pages, the check of a graph,
   candidates, comparison of versions, and the check of a definition.
7. `Sparql`: the scanner, the whitelist and the budgets of a query.
8. `EndToEnd` over `CallPromise`: the SDK transport, the server with its choice
   of a store, and the write to core in one model.
9. `Surfaces`: what becomes of arguments and failures on each surface.

10. `Withdrawals`: what a withdrawal has achieved once it returned, as history
    beside `GraphStore`.
11. `JobsOverStore`: `Jobs` composed with `GraphStore`, a task opened up into
    its store calls, beside requests that are served at once.

Theorem modules, one per component: `GraphStoreProofs`, `ConstraintsProofs`,
`SqliteConnectionProofs`, `JobsProofs`, `EndToEndProofs`, `SparqlProofs`,
`QueriesProofs`, `ReadsProofs`. The theorems about `Withdrawals` and
`JobsOverStore` are in `GraphStoreProofs`, whose lemmas they rest on. Still worth
proving: what `EvidenceComplete` keeps of its force with several processes.
Liveness stays with TLC.

## 3. The modules

### AtomicGraphStore

What the persistence layer promises, for one graph: its row in the graphs table
and its entity and relation rows change by whole calls. `Create`, `Delete`,
`Upsert` (merging keeps everything merged before) and `DeprecateSome` (only
entities whose single source is the document). A row is its status (`none`
without a row) and `docs`, the documents its evidence names. Aliases and
confidence accumulate by the same rule (union, maximum) and are left out.

### GraphStore

The write path for one graph. A thread serves a request as the handler does:

| code | actions |
| --- | --- |
| request arrives, `_handle` returns or raises | `Accept`, `Finish`, `Fail` |
| `_require_graph`, `get_graph_or_raise` | `Require` |
| validation of the batch | `Reject` |
| `create_graph` | `CreateCheck`, `CreateCommit` |
| `delete_graph` | `DeleteCheck`, `DeleteCommit` |
| `upsert_entity` / `upsert_relation`: read, then merge and write | `UpsertEntity` / `UpsertRelation`, then `CommitUpsert` |
| end of `build_from_records`; `merge_records` goes on with a docId | `BatchDone` |
| `active_keys` of `merge_records` | `ListKeys` |
| `deprecate_doc_assets`: select, then update | `DeprecateRead`, `DeprecateWrite` |

A call that writes acquires `lock[procOf[t]]` with its read and releases it with
its write. `procOf` is the deployment: threads of one process share an `RLock`;
processes over one SQLite file do not; for Neo4j every thread is a process of
its own. `Fail` is an exception of the store or the death of the process.
`contributed`, `raced` and `served` are history: who upserted a row since the
last delete, whether a delete overtook a build, how many requests were accepted.

Restrictions. One graph (identifiers contain the graph's, so graphs share no
rows). Records carry no docId, graphId or status of their own, and records of a
request without a docId carry no evidence. Constraint filtering and text
extraction only choose the batch, which the model chooses freely from `Request`.
The profile they persist is `Constraints`; the write to core that follows is in
`EndToEnd`.

### Withdrawals

`GraphStore` with two history variables: `clean`, the threads whose `deprecate_doc`
selected its victims while nobody was writing the document, and `withdrawn`, the
documents with which such a request has finished and that nobody wrote since.
`Arrive`, `Select`, `Withdraw` and `GiveUp` are the steps of `GraphStore` that
move them; `Elsewhere` are the others. `OnlySharedSurvive` relates what several
requests, one after the other, have done to one row: a withdrawal deprecates an
entity only if its document is alone in the evidence, and evidence is never taken
out of a row, so the last of two withdrawals does not find its document alone.

### GraphStoreClaims

What the documents say of a merge where the code does something else; the
property of the run `claim_merge_stale`.

### Jobs and JobPromise

`JobPromise`: a job is registered, applied at most once, succeeds only when applied,
fails only when not, and stays as it ended. A job that somebody runs by hand
(`manual`) may be applied and end again (`ApplyAgain`, `EndAgain`), and is never
pending again. `Jobs`: `SubmitCheck`, `Register`, `Dispatch`
(`_submit_and_dispatch`: `get_graph`, `submit_job`, `dispatch_job`), `Take` (the
message is acknowledged at once: `acks_late` is not set), `RunByHand` (`run_job`,
which reads the status once), `Begin` (`_require_graph` finds the graph or raises),
`Execute` (the task is applied, whatever becomes of the graph meanwhile, or raises),
`Record` (`update_job` whatever the status is), and the faults `SubmitFault`,
`RecordFault`, `Crash`. A worker writes success outside its `try`, `run_job` inside,
so that only a run by hand can record an applied task as failed (`JobPromise` lets
no other job). `DeleteGraph` leaves the jobs, which find the next graph of the same
kbId (`CreateGraph`). `applied`, `hurt` and `manual` are history.

### JobsOverStore

`Jobs` and `GraphStore` in one model. They share the variable `graph`, and an
agent of `Jobs` (a worker, or a server thread that runs jobs by hand) is a thread
of `GraphStore`; its place in `Jobs` is `stage`, its place in the store `pc`.
Every action joins one of each side, or leaves one side alone:

| action | in `Jobs` | in `GraphStore` |
| --- | --- | --- |
| `TakeUp`, `RunUp` | `Take`, `RunByHand` | `Accept` of the request of the job |
| `Find` | `Begin` | `Require` |
| `Go` | nothing | a store call of the task that is not the last |
| `Return` | `Execute`, which applies | the step the request ends with |
| `Raise` | `Begin` or `Execute`, which raises | `Reject` or `Fail` |
| `Settle` | `Record`, `RecordFault` | nothing: the jobs table is not part of it |
| `Die` | `Crash` | `Fail`, or nothing before and after the task |
| `Present`, `Demolish` | nothing, `DeleteGraph`, `CreateGraph` | the other threads |
| `OverSubmit` | `Submit` | nothing |

`cut` is history: the jobs that were in hand, or a success, when the graph was
deleted. `task` is the payload of each job, the request that it carries out. Tasks
that read (export, candidates, validation) are those of `Jobs` only.

Since every action joins one of each side, the composition refines `Jobs` and
`GraphStore` by the way it is built, and nothing is claimed of that. What it adds
are the properties that relate the two sides: `SuccessIsStored` (a job that says
success has its records in the store) and `WritesWhilePending` (a job that only
workers touched makes its store calls while its status is pending).

### SqliteConnection

Connections of several processes to one file. `Call` enters a store call, `Select`
and `Write` are its statements, `Commit` its end. `Violate`, `Unbindable`, `Busy`
and `Stale` are the ways a statement raises; no call rolls back, so they leave the
transaction as it is. `Violate` is an IntegrityError, of a row that another process
inserted meanwhile or of a confidence that is not a number, which is bound as NULL
where the column takes none. `Unbindable` is a parameter the driver cannot bind (a
lone surrogate in the JSON of a record, an ontology version above 2^63): the driver
opens the transaction first, so that one is left open which never had the lock. It
may happen to any write, wherever its values come from. What SQLite does (snapshots
in WAL mode, one writer, no upgrade of a stale snapshot) is external and modelled in
`Visible`, `Pin`, `MayWrite`. The database is the number of commits. A call with
several write statements counts as one write: after the first, the process has the
write lock, and the others bind identifiers that its SELECT has bound or returned,
so that they cannot fail for these reasons.

### Constraints

The profile of one graph and the requests that add to it and apply it.

| code | actions |
| --- | --- |
| request arrives, is refused or fails | `Accept`, `Require`, `Fail` |
| `_absorb_constraints`: `get_constraints`, `merged` | `AbsorbRead` |
| `put_constraints` of the store: graph exists, then write | `PutCheck`, `PutWrite` |
| the exception that is only logged | `PutFails` |
| end of PUT | `AnswerPut` |
| `apply_candidates` in `build_from_text`, which goes on in `build_from_records` and absorbs the profile again | `ApplyCandidates` |
| `apply_records`, for batches with entityIds only | `ApplyRecords` |
| validation and storing of the batch (`GraphStore`) | `Store` |
| `create_graph`, `delete_graph` | `Create`, `Delete` |

A profile is its rename table and its blacklist; the type tables and the
examples merge by the same two rules, and the list of admitted types, which a
later one replaces if it is not empty, is left out. No lock spans the read and the write, in
no deployment, so there is none in the model. The check and the write of
`put_constraints` are one step in a SQLite process and two sessions in Neo4j;
two steps cover both. `promised`, `due`, `raced` and `unsaved` are history: what
requests brought, what each build must keep out, whether a profile was written
over one its writer had not read, whether a write failed.

### Queries

One query over one graph: which rows there are, which relations and in which
order they come are chosen at the start, any combination of them, because
`GraphStore` leaves relations of deprecated entities active and because Neo4j
reads entities and relations in separate sessions. `Keep`, `Prune` and `Follow`
are the branches of the loop of `paths`, `Answer` its end; `Round` is one level
of `neighbors`. The reference definitions (`Simple`, `Routes`, `Shortest`,
`Near`) speak of sets of paths and know nothing of the search. `Fresh` is the
adjacency list of the current entity without what is on the path, built
relation by relation; `ByLength` is the stable sort, by the place each path has.

### Ontology and Reads

`Ontology` has no state: `ParentEdges` and `Dangling` (`validate_definition`),
`Issues` and `Report` (`validate_graph`), `SchemaCheck`, `Coverage`,
`Candidates` (`generate_candidates`), `SchemaOf` (`derive_graph_schema`), `Diff`
(`diff_products`). A type declares one property, absent, right or wrong in an
entity; wording, labels and the checks of properties and relations of a
definition are left out.

`Reads` has one such request and, until it is answered, writers beside it.

| code | actions |
| --- | --- |
| `build_from_records`: check of the batch, one upsert at a time, the answer or an exception | `Build`, `Upsert`, `AnswerBuild`, `FailBuild` |
| `deprecate_doc`, `delete_graph`, `create_graph`, `put_ontology_snapshot` | `Withdraw`, `DeleteGraph`, `CreateGraph`, `PutSnapshot` |
| `_require_graph` of a reader | `NotFound` |
| `list_nodes`, called page by page | `ListPage` |
| `validate_graph_ontology`, `ontology_coverage`: entities, then relations | `ReadEntities`, `Check` |
| `generate_ontology_candidates`: entities, then relations; the schema of the result is then checked against the graph | `ReadEntities`, `Propose`, `Check` |
| `ontology_version_diff`: one snapshot, then the other | `GetSource`, `GetTarget` |
| the walk of `validate_definition` along the parents | `BeginWalks`, `NextWalk`, `Walk`, `EndWalks` |

A store call is atomic here (`GraphStore` opens it up), and only what the request
reads is written. Identifiers, types and names are numbers in the order in
which the store sorts them. Entities are listed by type and name, relations by type
and identifier; rows of one type and name come in any order, another one at every
reading (`Listings`, `EntityLists`, `RelationLists`). A row has a type, a name, a
value or ends, which a build may bring anew: both stores take the name and the
value from the record that comes in, while SQLite's `ON CONFLICT` leaves the type and the
ends as stored (`Keeps`, `MergedEntity`, `MergedRelation`) and Neo4j overwrites
them; `backend` says which of them runs. A build checks the records that came in,
as the upserts return those. The concepts of a definition are any sequence of
records of names. `steady` (the entities that kept a place of their own), `left`
and `came` (those that others ceased, or came, to precede), `changed` and
`moments` are history.

### Sparql

One query. A text is a sequence of pieces: single characters where the scanner
tells them apart, and runs of others, such as a keyword. `SkipBlank`,
`SkipComment`, `TakeString`, `TakeIri`, `TakeLess` and `TakeWord` are the
branches of the loop in `_significant_tokens`, one turn a step; `FormAllowed` is
`_query_operation`; `Execute`, `TakeRow`, `Return` and `Expire` are
`_bounded_execute`, solutions and triples alike. What the store finds is
external: an error, a boolean, or some number of rows. A turn that does not move
is a step all the same (`turn` changes), so that a scanner that is stuck is busy
and not stopped.

### EndToEnd and CallPromise

`CallPromise`: a call is open until it has an outcome; `ok` says it was done, a
refusal that it was not; it is done once, or as often as it may be sent.
`EndToEnd` has the three parties of a call.

| code | actions |
| --- | --- |
| `Transport.request`, `_send`, `handle_response` (the asynchronous transport is the same) | `Issue`, `Receive`, `GiveUp`, `Unreachable`, `Break` |
| handlers on the store of the process | `Refuse`, `Create`, `Remove`, `Read`, `Write`, `WriteSome` |
| `write_assets`, `_post` | `Posted`, `PostFails`; `Apply` is core's |
| `create_store`, `get_store` of a process that starts again | `Restart` |

A store and core hold, per document, the last call that wrote it; what is in it
is `GraphStore`. An attempt the client gave up may still arrive, be served and
reach core. `adrift` are the requests to core that nobody waits for. `done`,
`wrote` and `tangled` are history. The writeback is taken to be switched on.

### Surfaces

Operations with the arguments they take, and per surface which it offers,
which it drops (`...Drops`), where a zero becomes a default (`ZeroIsDefault`) and
what it shows of a failure (`Shown`). A request is `Enter`ed, possibly queued as
a job and executed by `run_job` or Celery (`ExecuteJob`), and may fail
(`Report`). An argument is missing, zero or given; what is in it is left out.

## 4. The runs

Requests, documents and rows are small sets; two entities with one relation are
enough for an edge to lose an endpoint, two documents for a shared row, two
threads for a race. Each bound below is spent on the case named.

| run | instance | what it shows |
| --- | --- | --- |
| `graph_store_shared` | 2 threads of 1 process, 4 requests out of create, delete, closed build and merge, deprecate; fairness | with the lock shared, evidence is complete, deprecation justified, the calls implement `AtomicGraphStore`, and every request is answered |
| `graph_store_split` | the same with 2 processes | evidence is at least sound, edges anchored, orphans only by a race; all of it holds with a shared lock too, which only takes interleavings away; which entities outlive the withdrawal of all their documents |
| `jobs` | 2 workers, a runner, 2 jobs, 2 faults; fairness of the workers | no job lost without a fault; `JobPromise` holds, so that the status of jobs nobody ran by hand is true; every job its client knows of ends, unless a fault hit the worker that had it |
| `jobs_over_store` | a worker in a process of its own, a runner and a server thread in another, 2 jobs (a merge, a build without docId), 3 requests, a fault | success means stored; a job that only workers touched makes its store calls while its client sees it pending |
| `sqlite_shared` | 3 processes, 6 calls, symmetric | only a row that broke a constraint leaves the write lock behind; only a timeout or a parameter that cannot be bound makes a connection fall behind, and only a restart helps |
| `constraints_shared` | 2 threads, 4 requests, 3 names, 4 profiles, symmetric | the profile accumulates unless a write fails or goes over an unread one; what is banned stays out of builds |
| `queries_all` | 4 entities, up to 4 relations in any order, any rows missing, depths 1 to 3, at most 2 answers | `paths` finds the shortest paths and fails only because of entities that are not active; `neighbors` finds the neighbourhood |
| `sparql_guards` | every text of up to 4 pieces out of 9, 12 longer ones, 4 result sizes, limits and settings above, at and below zero; fairness | the scanner cuts a text as a grammar of lexemes does; only reading forms behind declarations run; `truncated` is true; a query ends unless the scanner is stuck |
| `end_to_end` | 4 scripts of 3 calls by 2 clients about a document, 1 process, 1 retry, 1 restart; fairness of the client | the transport implements `CallPromise`; a client reads its writes short of doubt, removal or another store; core follows the store short of failures and overlaps |
| `surfaces` | every operation of 5 surfaces, every combination of arguments | which arguments change on the way, exactly; where failures can be told apart |
| `reads_beside` | both stores; 3 entities, 2 relations, 3 batches that bring the same rows with other types, names and ends, 2 builds, a removal, 3 snapshots of 2 versions; every definition of 3 concepts; fairness of the reader | what pages skip and repeat, when checks agree, candidates fit, comparisons are of one moment; cycles are found; every request ends |

The bounds are `MaxRequests`, `MaxFaults`, `MaxCalls`, `MaxRetries`, `MaxRestarts`,
`MaxBuilds`, `MaxRemovals`, `MaxPuts` and `MaxPieces`. Three requests are enough for
two that race and one that sees the result, and a fourth can set the scene (a
profile, a row of another document); two faults for a job to be hurt twice or two
jobs once; six calls let one process hold the lock, a second time out, read, fall
behind and write, while the third commits. Deadlock is checked in every run but two:
the models may only stop, or rest, with every request answered. In `Surfaces` a
request ends when it has reached the service, and in `Reads` the writers stop with
the one request they disturb; both runs allow it. SQLite processes are
interchangeable, and so are the threads of `Constraints`: those runs use symmetry;
the runs with liveness properties, of `Jobs` among them, do not. Four relations over
four entities contain a detour before a shortest path, two shortest paths, a
parallel relation, a triangle and a dangling end; two answers instead of ten let the
answer overflow. Four pieces make a declaration-free query, an unclosed string, an
IRI and a bare sign; the longer texts reach declarations, long strings and escapes.
One retry is enough for two attempts of one call in flight, one restart for a change
of the store; the scripts put a write, another write or a removal, and a read in
every order that a client's waiting leaves open. Three concepts make a cycle of one,
two or three, one behind a tail, and duplicate names. Two of three entities are a
page, and the batches rename one across the border of a page, give two one type and
name, and bring a relation twice or with another end. A row limit of a query is
tried above, at and below zero, and so is the setting. In `graph_store_split` four
requests are enough to write an entity for two documents and withdraw both; in
`jobs_over_store` three are both jobs, or one of them twice, and a create, a delete
or a withdrawal between their store calls. The run `claim_merge_stale` looks for a
counterexample (section 6).

Fairness. In `GraphStore`, weak fairness of each thread's next step: server
threads are scheduled, and a store call ends (busy timeout, connection timeout).
Nothing is assumed of `Accept`, `Reject` and `Fail`, nor of who gets a lock
first: requests are bounded, so a waiting thread cannot be overtaken for ever. In
`Jobs`, weak fairness of a worker's taking and working: Celery workers consume
while there are messages and tasks end. A client need not ever run a job. In
`Sparql`, of the service's next step: a thread runs on and a result has finitely
many rows. In `Reads`, of the reader's next step, while writers do as they like.
In `EndToEnd`, of what the client does with a call it has open: its timeouts go
off. Nothing is assumed of the server, the network or core.

Every property has a mutant in the module it speaks of, a plausible bug of the
code (a dropped check, a lost release, a late acknowledgement, a missing
rollback of a rule), under which its run fails. The mutated forms stand before
the definitions they replace, marked "Mutant".

## 5. The proofs

`GraphStoreProofs` proves, from the three assumptions `GraphStore` makes of its
constants (`SetupAssumption`, `DataAssumption`, `RequestAssumption`) and for any
number of threads, processes, entities, relations, documents and requests:

| theorem | statement | under |
| --- | --- | --- |
| `TypeCorrect` | `Spec => []TypeOK` | |
| `Orphans` | `Spec => []OrphansOnlyByRace` | |
| `EvidenceIsSound` | `Spec => []EvidenceSound` | |
| `EdgesAreAnchored` | `Spec => []EdgesAnchored` | `ClosedBatches`: a batch has the endpoints of its relations |
| `EvidenceIsComplete` | `Spec => []EvidenceComplete` | `OneProcess` |
| `DeprecationIsJustified` | `Spec => DeprecationJustified` | `OneProcess` |
| `StoreIsSerializable` | `Spec => Atomic!Spec` | `OneProcess` |

None of the properties is inductive. What carries them:

* `OrphanInv`: without a race, a thread that is writing does so in an existing
  graph; a delete that finds such a thread sets `raced`.
* `SoundInv`: what a thread has read of a row is part of what the row's
  contributors left, and the rows it selected for deprecation exist. Enough to
  show that a racing write loses evidence but invents none.
* `SerialInv`: `LockInv` (a thread between read and write holds its process's
  lock, hence, in one process, is the only one), `FreshInv` (what it read is
  still what is there) and `EvidenceComplete`. From `FreshInv` every second step
  of a call is a step of the abstract store, and every other step a stutter.
* `AnchorInv`: a thread that has turned to the relations of its batch has
  written all its entities, and rows do not vanish without a race.

`ConstraintsProofs` proves, from `ProfileAssumption` and `RequestAssumption` and
for any number of threads, names, profiles and requests, `TypeCorrect` (`Spec =>
[]TypeOK`), `ProfileIsComplete` (`Spec => []ProfileAccumulates`) and
`BansAreKept` (`Spec => []BansHold`). `AbsorbInv` carries the second: between
read and write a thread holds what it read, merged with what it brings.
`BansInv` carries the third: short of a race, what a thread must keep out is
banned by the stored profile or by its request, hence by the profile it goes on
with (`DueInv`); a text build that has filtered its candidates stays filtered
whatever it absorbs the second time (`BatchInv`); and renames lead to rename
targets (`RenamesInv`).

`GraphStoreProofs` also proves the theorems about the two modules over
`GraphStore`, under any deployment:

| theorem | statement |
| --- | --- |
| `WithdrawalsLeaveOnlyShared` | `HistorySpec => []OnlySharedSurvive` |
| `SuccessfulJobsAreStored` | `OverSpec => []SuccessIsStored` |
| `StoreCallsWhilePending` | `OverSpec => []WritesWhilePending` |

`GoneInv` carries the first: as long as a document counts as withdrawn, no thread is
writing it (`Unwritten`), and an active entity whose evidence names it alone has an
anonymous contributor (`Gone`); between the two steps of a withdrawal the same holds
but for its victims. An upsert of another document that writes an old row back is no
exception, because it adds its own document. `SuccessIsStored` is not inductive: it
says nothing of a job before it ends. `StoredInv` does: an agent serves the request
of its job (`AgentServes`), and a record of the batch is either still in its hands
(`Doing`) or stored. That no step but a delete takes a stored record away is
`NothingLost`; what deletes do is why `cut` has the jobs in hand as well as those
that have ended. `HoldInv` carries `WritesWhilePending`: a job is with its client's
request, in the queue or with one worker, never with two of them, and whoever has
it, it is pending or was run by hand (`AtRequest`, `AtQueue`, `AtHands`); by then
its row is there, and only the worker that has it may end it.

Each proof has one step per action. The steps that touch neither the rows nor a
thread's hands are dealt with once (`QuietSteps`, `QuietHands`).

`SqliteConnectionProofs`, from `ConnectionAssumption`, for any number of processes
and calls: `TypeCorrect` (`Spec => []TypeOK`, with `CallsBound`: commits and calls
in flight never exceed the calls made), `LockIsLeftByViolation` (`Spec =>
[]LockLeftByViolation`), `BehindByRaise` (`Spec => []WedgedByRaise`) and the action
property `BehindUntilRestart` (`Spec => WedgedUntilRestart`). `WedgedByRaise` is not
inductive: it says nothing of a connection that is in a transaction and not yet
behind. `SnapshotInv` does: a snapshot belongs to a transaction, whoever is in a
transaction is the writer, or has timed out, or could not bind a parameter, and the
writer's snapshot is the latest commit. `WriterInv` is the same for the lock.

`JobsProofs`, from `JobsAssumption`, for any jobs, workers, runners and faults:
`TypeCorrect`, `PendingAreAccounted` (`Spec => []PendingAccounted`),
`JobsTrueUnlessByHand` (`Spec => []TrueUnlessByHand`), and `JobsKeepPromise`
(`Spec => KeepsPromise`: the refinement of `JobPromise`). A job that nobody runs by
hand has one holder at most and is either in the queue or with its holder
(`OnePlace`), so that it is not applied twice, whatever is run by hand beside it;
that is what running it by hand breaks. What is done to such a job maps to
`ApplyAgain` or `EndAgain`.

`EndToEndProofs`, from `CallAssumption`, for any scripts, processes, retries and
restarts:

| theorem | statement |
| --- | --- |
| `TypeCorrect` | `Spec => []TypeOK` |
| `CallsKeepPromise` | `Spec => Promise!Init /\ [][Promise!Next]_(Promise!vars)`, the safety part of `KeepsPromise` |
| `OwnWritesAreRead` | `Spec => ReadsOwnWrites` |
| `CoreHasLast` | `Spec => []CoreFollows` |

They rest on `Course`, the course of a call: its attempts are sent one after the
other, a second one only if the call may be sent again; what was done and what
is still on its way together are no more than the attempts (`DoneBound`); an
answer that comes back tells what the server did; the outcome is that of the
last attempt; and a client goes on only when a call has one. `CoreHasLast` needs
besides (`CoreInv`) that one store has the last write of a document that is not
tangled, and that core has it too or it is with the one attempt that waits for
core.

`SparqlProofs`, from `SparqlAssumption`, for any texts, results and limits:

| theorem | statement | carried by |
| --- | --- | --- |
| `TypeCorrect` | `Spec => []TypeOK` | `TypeInv`, and what the recursive functions `ShortEnd` and `FormAllowed` return |
| `ExecutesOnlyReads` | `Spec => []OnlyReads` | `FormIsFirst`: a chain of declarations leads from the first token to the form |
| `BudgetIsKept` | `Spec => []AnswersWithinBudget` | `Budgeted`: what has been taken is within the budget, and short of the rows only when it is all of it |
| `LexemesAreCut` | `Spec => []CutsIntoLexemes` | `Scanned`: the tokens are the words of a cutting up to the scanner's place, and every cutting of the text has a cut there |

`LexemesAreCut` has two halves. A turn of the scanner that moves takes a lexeme
(`TurnTakes`): for a short string because the quote the recursion stops at is the
first behind an even number of backslashes (`ShortEndCloses`). And from one place
on there is one lexeme at most (`OneLexeme`) and none from a bare `>` or `,`
(`NoLexeme`), so a text on which the scanner is stuck cannot be cut.

`QueriesProofs`, from `SearchAssumption` (the entities are finitely many), for every
graph, whatever rows are missing and in whatever order the relations come:
`TypeCorrect`, `NeighborhoodIsFound` (`Spec => []FindsNeighborhood`),
`PathsAreShortest` (`Spec => []FindsShortest`) and `FailsOnlyByDetour` (`Spec =>
[]FailsByDetour`). `SearchInv` says what each round of `neighbors` has found: the
rings around the source and the relations that touch them. `PathsInv` is the
invariant of the depth-first search of `paths`: every path on the stack is a walk
without repetitions, those kept are routes, `best` is the length of one of them, and
every walk to the target within the depth goes on from a path of the stack, is
longer than `best`, or is kept (`Covered`). The last is why pruning by the path that
was kept last loses nothing; `FindsShortest` follows when the stack is empty.

`ReadsProofs`, from `IdentifiersAssumption` and `ReadsAssumption`, for either store
and every graph, schema, batch, version and definition:

| theorem | statement | carried by |
| --- | --- | --- |
| `ComparesOneMoment` | `Spec => []DiffOfOneMoment` | `DiffInv`: while the first version stands, what a comparison with the second would say now is among the moments |
| `PagesShiftOnly` | `Spec => []PagesShiftByWrites` | `PageInv`: an entity with a place of its own stands in every listing behind exactly those that precede it; it is behind the pages taken if that place is, unless one that preceded it ceased to; among them at most once, unless one came to |
| `CandidatesFitTheirGraph` | `Spec => []CandidatesFit` | `CandidateInv`: as long as nothing changed, the schema is the one of the lists that the check reads |
| `BuildAndCheckAgree` | `Spec => []ChecksAgree` | `CheckInv`: as long as nothing changed, what the check has read lists the graph as it is; `IssuesAre` and `SameFound`: an issue depends on which rows a list shows, not on where or how often, so that every listing of one graph finds the same, and what a build told of the rows it brought is found where the store has them so |
| `CyclesAreFound` | `Spec => []FindsCycles` | `WalkInv`: the names seen are a trail along the parents without repetitions; the cycles are the walked names with an endless line |

`CyclesAreFound` compares a walk, which stops at the first name it has seen, with
a line that is followed for as many steps as there are concepts: `DeadEnd` (a
trail that ends is shorter than that, as its names differ) and `BackAgain` (a
trail that comes back can be followed for ever).

Several definitions are recursive functions (`ShortEnd`, `FormAllowed`, `Fresh`,
`Line`). The induction theorems of the library take an operator as an argument,
which these provers cannot instantiate, so the proofs go by the least
counterexample instead: natural numbers are well founded (`LeastNumber`, from
`WFMin`), the least number at which a statement fails is not the first, and
before it the statement holds. That a recursive function is the one its
definition says is proved in the same way (`JumpsEnd`, `IteratedExists`).

Proved only: the type invariants of `Constraints`, `Queries` and `Sparql`, which no
run repeats, and `TrueUnlessByHand`, which follows from `KeepsPromise`.

Model-checked only: liveness (`Answered`, `AcceptedEnds`, `EndsUnlessStuck`,
`Ends`, and the part of the `KeepsPromise` of `EndToEnd` that says calls return),
for want of a proof rule for fairness; `ReachesAsMeant` and
`TellsFailures` of `Surfaces`, which has no constants, so that its run is the
whole system and no theorem could say more; and the counterexample.

## 6. Where code and documents differ

Found by a run of its own, with the document quoted in `PROJECT.json`:

* A merge deprecates nothing that is missing from its batch
  (`claim_merge_stale`): the keys to keep are taken from the store, where the
  missing rows still are.

Named as the exact exception in a property that holds: the run shows that it
happens only so, and the property is violated as soon as the exception is left
out.

* A delete beside a build leaves rows of a graph that does not exist
  (`OrphansOnlyByRace`), against `docs/功能清单.md:10`.
* A job run by hand and by a worker is applied twice and its terminal status
  overwritten, and run by hand it may be recorded as failed though it was applied
  (`ApplyAgain` and `EndAgain` in the `KeepsPromise` of `Jobs`).
* Records without entityIds pass the blacklist, against `docs/解决方案.md:217`
  (`BansHold` covers every other batch, see `Due`).
* A connection that hit a busy timeout, or was given a parameter that cannot be
  bound, may serve old data until its process is restarted (`WedgedByRaise`,
  `WedgedUntilRestart`), against `docs/功能清单.md:30`. A row that breaks a
  constraint leaves the write lock with its process until the next call of it that
  commits (`LockLeftByViolation`).
* `PUT` of a profile is a replacement of the whole, answered with a summary, in
  `docs/功能清单.md:23` ("整体替换，返回摘要"); `put_constraints`
  (`service.py:458-464`, as its docstring says) merges the profile that comes in
  into the stored one and returns the merged profile. `ProfileAccumulates` holds of
  `PUT` as of builds; nothing that was stored once can be taken away.
* Of two concurrent updates of a profile one is lost, in one process as in
  several (`ProfileAccumulates`), against `docs/解决方案.md:110`.
* The scanner of a query never leaves a bare `>` or `,` (`EndsUnlessStuck`):
  `FILTER(?x > 5)` runs for ever, takes more memory with every turn and never
  reaches the deadline. It also takes `ASK{` and `SELECT*` for one word each and
  refuses them (`OnlyReads` allows that).
* `write_assets` says that a failed writeback does not keep a build from being
  done (`docs/功能清单.md:61`), but does not catch a response that is cut off or
  not HTTP: a build that is stored answers 500 (`PostFails`; `CallPromise` counts
  that answer as doubt).
* `README.md:62` and `docs/解决方案.md:51` say that the surfaces mean the same.
  gRPC, MCP, CLI and the SDK drop `constraints` and `graphSchema` of a build, CLI
  and Celery make a missing `llm` an off, `run_job` drops `llm` and `constraints`, a
  zero `pageSize`, `depth` or `maxDepth` is a default on gRPC and MCP
  (`ReachesAsMeant` lists them all), and every failure of the CLI exits with 1
  because `_exit_for` raises a TypeError (`TellsFailures`).
* `schemaCheck` leaves data types out, which `docs/功能清单.md:18` names; a build
  counts a relation that its batch has twice as a violation of cardinality, which
  a later check of the graph does not find, and, over SQLite, checks the type and the
  ends a record came in with where the store keeps the ones before (`ChecksAgree`).
* A client that takes page after page may miss an entity, or get one twice, though
  none was added or withdrawn: a build that brings an entity with another name
  moves it in the list (`PagesShiftByWrites`).
* A cycle of concepts that share a name with another may be missed
  (`FindsCycles` asks for names of their own).

Plain from the code and the models:

* deprecate-doc leaves relations active, and entities that several withdrawn
  documents shared or an anonymous build brought back (`OnlySharedSurvive`: no
  others); it deprecates what an anonymous build contributed before (`OnlyFrom`
  looks at the evidence, and such a build leaves none).
* Without a shared lock evidence is lost (`EvidenceComplete` needs `OneProcess`),
  an entity another document just contributed to is deprecated, and a merge may
  deprecate what is in its batch.
* Deleting a graph leaves its jobs, against `docs/功能清单.md:10` (`DeleteGraph` of
  `Jobs`); a pending one is still run, and builds into the next graph of the same kbId
  if there is one by then. A submission that the broker refuses leaves a job nobody
  knows of, and a job whose worker died stays pending (`PendingAccounted` names the
  only ways). The success of a job outlives the graph it speaks of (`cut`), and a job
  that failed half way leaves what it had stored (`SuccessIsStored` has no converse).
* `paths` returns longer paths beside the shortest when it met them first
  (`FindsShortest` allows them; the docstring of the Neo4j store does not), and
  raises KeyError when a path leads through an entity that is not active
  (`FailsByDetour`).
* A rename may lead to a blacklisted name (`RenameTargets`), and a profile without a
  blacklist still drops the relations of a record batch to entities outside it
  (`Records`).
* `merge_entity` takes the properties of the record that comes in and drops the
  ones before (`MergedEntity`); coverage of a schema that declares nothing
  is 0; without a definition, `ontology-validate-graph` checks against nothing,
  whatever schema the graph has, though the help of the CLI says otherwise.
* `docs/解决方案.md:142` says that the job of a worker that raises stays pending, and
  that writing the failure back is future work. `README.md:62-64`, `docs/功能清单.md:36`
  and the code (`celery_app.py:47`) record it as failed (`Record`; `AcceptedEnds`).
* The typed SDK never sends a reqId, so only its reads are sent again, and the
  server does not look at a reqId that `raw` sends: such a build may be carried
  out twice. `get_store` ignores a `db_path` once there is a store, and
  `put_ontology` of Neo4j checks and writes in separate sessions.

## 7. What is not modelled

Text extraction, LLM calls, retrieval scoring and the semantica adapters are
functions of strings or calls of other services, without state of their own; so are
the conversion of records into triples and the export formats. Schema validation and
identifiers: likewise; a failed validation is `Reject`. The dataclasses of the SDK
map fields, its transport fills in `tenantId` and `ownerId` from the identity of the
caller where a call has none, and `jobs.wait` polls until its own deadline.
Configuration, logging, scripts and images fix the deployment, which is a constant
here. Of the queries, filters, counts, analytics and export are not modelled; of a
definition, the checks of its properties and relations are not. Jobs and the store
are composed for the tasks that write; liveness is checked of `Jobs` and of
`GraphStore` apart.
