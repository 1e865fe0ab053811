------------------------------ MODULE Surfaces ------------------------------
(***************************************************************************)
(* How a request reaches the service: through the HTTP, gRPC, MCP or CLI   *)
(* surface (interfaces/*.py) or the SDK, which calls the HTTP one          *)
(* (sdk/python/.../client.py, async_client.py), at once or as a job that   *)
(* run_job or a Celery worker executes later.  Each of them decides which  *)
(* arguments it hands on, and what a missing one or a zero becomes.        *)
(***************************************************************************)
EXTENDS Integers, FiniteSets

Surface == {"http", "sdk", "grpc", "mcp", "cli"}

(* The operations of the service with the arguments a caller may give;     *)
(* "entities" stands for the records, entities and relations.              *)
GraphParams ==
    [create |-> {"graphId", "name", "kbId", "tenantId", "ownerId", "graphSchema"},
     list |-> {"tenantId", "ownerId"}, get |-> {}, delete |-> {},
     build |-> {"text", "title", "docId", "llm", "entities", "constraints",
                "graphSchema"},
     merge |-> {"entities", "docId"}, deprecate |-> {"docId"},
     getConstraints |-> {}, putConstraints |-> {"constraints"}]

QueryParams ==
    [stat |-> {}, nodes |-> {"entityType", "name", "page", "pageSize"},
     edges |-> {"relationType", "page", "pageSize"},
     neighbors |-> {"entityId", "depth"},
     paths |-> {"sourceEntityId", "targetEntityId", "maxDepth"},
     analytics |-> {}, export |-> {"format"}, sparql |-> {"query", "limit"},
     search |-> {"query", "topK"}, indexStatus |-> {}]

OntologyParams ==
    [candidates |-> {"ontologyId", "sources", "maxClasses"},
     validate |-> {"definition"}, ingest |-> {"content", "format"},
     exportOntology |-> {"definition", "format"},
     validateGraph |-> {"definition", "maxIssues", "includeShacl"},
     coverage |-> {"definition"},
     putSnapshot |-> {"ontologyId", "ontologyVersion", "graphSchema"},
     listSnapshots |-> {}, diff |-> {"fromVersion", "toVersion"}]

JobParams == [runJob |-> {}, getJob |-> {}, listJobs |-> {"graphId", "limit"}]

GraphOp == DOMAIN GraphParams
QueryOp == DOMAIN QueryParams
OntologyOp == DOMAIN OntologyParams
JobOp == DOMAIN JobParams
Op == GraphOp \cup QueryOp \cup OntologyOp \cup JobOp

ParamsOf(op) ==
    CASE op \in GraphOp -> GraphParams[op]
      [] op \in QueryOp -> QueryParams[op]
      [] op \in OntologyOp -> OntologyParams[op]
      [] op \in JobOp -> JobParams[op]

(* Arguments whose zero is not the same as none: numbers, and llm, whose   *)
(* zero is FALSE and whose default is a setting of the service.            *)
Number == {"page", "pageSize", "depth", "maxDepth", "topK", "maxClasses",
           "maxIssues", "llm"}

Value == {"default", "zero", "given"}

Arguments(op) ==
    {args \in [ParamsOf(op) -> Value] : \A p \in ParamsOf(op) \ Number : args[p] # "zero"}

-----------------------------------------------------------------------------
(* What each surface offers.                                               *)

HttpOffers ==
    [graph |-> GraphOp, query |-> QueryOp, ontology |-> OntologyOp, job |-> JobOp]

SdkOffers ==
    [graph |-> GraphOp \ {"getConstraints", "putConstraints"}, query |-> QueryOp,
     ontology |-> {}, job |-> JobOp]

GrpcOffers ==
    [graph |-> GraphOp \ {"getConstraints", "putConstraints"},
     query |-> QueryOp \ {"analytics", "search", "indexStatus"},
     ontology |-> OntologyOp, job |-> {"runJob", "getJob"}]

McpOffers ==
    [graph |-> GraphOp \ {"getConstraints", "putConstraints"},
     query |-> QueryOp \ {"analytics"},
     ontology |-> OntologyOp, job |-> {"runJob", "getJob"}]

CliOffers ==
    [graph |-> GraphOp \ {"getConstraints", "putConstraints"},
     query |-> QueryOp \ {"search", "indexStatus"},
     ontology |-> {"candidates", "validate", "exportOntology", "validateGraph"},
     job |-> JobOp]

Offers(s) ==
    LET offered == [http |-> HttpOffers, sdk |-> SdkOffers, grpc |-> GrpcOffers,
                    mcp |-> McpOffers, cli |-> CliOffers][s]
    IN  UNION {offered[group] : group \in DOMAIN offered}

(* The arguments a surface does not hand on.                               *)
HttpDrops == [op \in Op |-> {}]

SdkDrops == [op \in Op |-> IF op = "build" THEN {"constraints", "graphSchema"} ELSE {}]

GrpcDrops == [op \in Op |-> IF op = "build" THEN {"constraints", "graphSchema"} ELSE {}]

McpDrops == [op \in Op |-> IF op = "build" THEN {"constraints", "graphSchema"} ELSE {}]

CliDrops ==
    [op \in Op |-> CASE op = "build" -> {"constraints", "graphSchema"}
                     [] op = "candidates" -> {"sources"}
                     [] op = "validateGraph" -> {"includeShacl"}
                     [] OTHER -> {}]

Drops(s, op) ==
    [http |-> HttpDrops, sdk |-> SdkDrops, grpc |-> GrpcDrops, mcp |-> McpDrops,
     cli |-> CliDrops][s][op]

(* "p.get(...) or default": a zero is as good as none.                     *)
ZeroIsDefault(s) ==
    CASE s \in {"grpc", "mcp"} -> Number \ {"llm"}
      [] s \in {"http", "sdk"} -> {"maxClasses", "maxIssues"}
      [] s = "cli" -> {}

HandOn(args, drops, zeroIsDefault) ==
    [p \in DOMAIN args |-> IF p \in drops \/ (args[p] = "zero" /\ p \in zeroIsDefault)
                           THEN "default" ELSE args[p]]

(* Which build it is.  The CLI looks for records first.                    *)
BuildOf(s, args) ==
    IF s = "cli"
    THEN IF args["entities"] = "given" THEN "buildRecords" ELSE "buildText"
    ELSE IF args["text"] = "given" THEN "buildText" ELSE "buildRecords"

(* The CLI's --llm is a flag, off if it is not set.                        *)
Off(args) == [args EXCEPT !["llm"] = IF @ = "default" THEN "zero" ELSE @]

(* What is left of the arguments of a build: a build from records has no   *)
(* title, no llm and no schema, one from a text no records.                *)
Relevant == [buildText |-> {"text", "title", "docId", "llm", "constraints", "graphSchema"},
             buildRecords |-> {"entities", "docId", "constraints"}]

CallOf(s, op, args) ==
    LET handed == HandOn(args, Drops(s, op), ZeroIsDefault(s))
        kind == BuildOf(s, args)
    IN  IF op # "build" THEN [op |-> op, args |-> handed]
        ELSE [op |-> kind,
              args |-> [p \in Relevant[kind] |->
                           (IF s = "cli" THEN Off(handed) ELSE handed)[p]]]

(* A job keeps the request as it is.  What run_job and the Celery tasks    *)
(* (dispatch_job, then the task) make of it.                               *)
JobDrops ==
    [run_job |-> [buildText |-> {"constraints", "llm"},
                  buildRecords |-> {"constraints"}, candidates |-> {}],
     celery |-> [buildText |-> {}, buildRecords |-> {}, candidates |-> {"sources"}]]

\* Mutant: the worker leaves a missing llm to its setting.
CallOfJobOpen(executor, call) ==
    [op |-> call.op,
     args |-> HandOn(call.args, JobDrops[executor][call.op], {"maxClasses"})]

CallOfJob(executor, call) ==
    LET handed == HandOn(call.args, JobDrops[executor][call.op], {"maxClasses"})
    IN  [op |-> call.op,
         args |-> IF executor = "celery" /\ call.op = "buildText" THEN Off(handed)
                  ELSE handed]

CanBeJob(s, op) ==
    \/ op = "build" /\ s \in {"http", "sdk"}
    \/ op = "candidates" /\ s = "http"

-----------------------------------------------------------------------------
(* What a surface shows of a failure.                                      *)

Failure == {"invalid", "notFound", "conflict", "unavailable", "internal"}

Status == [invalid |-> 400, notFound |-> 404, conflict |-> 409, unavailable |-> 501,
           internal |-> 500]

Code == [invalid |-> 200001, notFound |-> 200404, conflict |-> 200409,
         unavailable |-> 260009, internal |-> 200500]

\* Mutant: MCP handles every error as one that is not the engine's.
ShownByAnyHandler(s, failure) ==
    CASE s = "http" -> <<Status[failure], Code[failure]>>
      [] s \in {"sdk", "grpc"} -> <<0, Code[failure]>>
      [] s = "mcp" -> <<-32603, 0>>
      [] s = "cli" -> <<1, 0>>

(* MCP: the error of the engine carries its code, any other has none.  The *)
(* CLI fails to make its exit code and always exits with 1.                *)
Shown(s, failure) ==
    CASE s = "http" -> <<Status[failure], Code[failure]>>
      [] s \in {"sdk", "grpc"} -> <<0, Code[failure]>>
      [] s = "mcp" -> IF failure = "internal" THEN <<-32603, 0>>
                      ELSE <<-32000, Code[failure]>>
      [] s = "cli" -> <<1, 0>>

-----------------------------------------------------------------------------
VARIABLES
    surface, op, asked,   \* the request
    via,                  \* "direct", or who executes it as a job
    stage,                \* "asked", "queued", "called", "failed"
    call,                 \* what the service is called with
    shown                 \* what the caller sees of a failure

surfaceVars == <<surface, op, asked, via, stage, call, shown>>

NoCall == [op |-> "none", args |-> <<>>]

SurfaceInit ==
    /\ surface \in Surface
    /\ op \in Offers(surface)
    /\ asked \in Arguments(op)
    /\ via = "direct" /\ stage = "asked" /\ call = NoCall /\ shown = <<>>

Enter ==
    /\ stage = "asked"
    /\ call' = CallOf(surface, op, asked)
    /\ stage' \in {"called"} \cup (IF CanBeJob(surface, op) THEN {"queued"} ELSE {})
    /\ UNCHANGED <<surface, op, asked, via, shown>>

ExecuteJob ==
    /\ stage = "queued"
    /\ via' \in {"run_job", "celery"}
    /\ call' = CallOfJob(via', call)
    /\ stage' = "called"
    /\ UNCHANGED <<surface, op, asked, shown>>

(* The call fails, and the caller waits for it.                            *)
Report ==
    /\ stage = "called" /\ via = "direct"
    /\ \E failure \in Failure : shown' = <<failure, Shown(surface, failure)>>
    /\ stage' = "failed"
    /\ UNCHANGED <<surface, op, asked, via, call>>

SurfaceNext == Enter \/ ExecuteJob \/ Report

SurfaceSpec == SurfaceInit /\ [][SurfaceNext]_surfaceVars

-----------------------------------------------------------------------------
(* What a request means: a text, if there is one, and every argument as    *)
(* the caller gave it.                                                     *)
Meant ==
    IF op # "build" THEN [op |-> op, args |-> asked]
    ELSE LET kind == IF asked["text"] = "given" THEN "buildText" ELSE "buildRecords"
         IN  [op |-> kind, args |-> [p \in Relevant[kind] |-> asked[p]]]

(* The arguments that a request loses, or that turn into others, and where *)
(* it happens.  A page of 0 is the first, as one of no number is, but a    *)
(* pageSize, depth or maxDepth of 0 means what it says.                    *)
Lossy(p) ==
    CASE p \in {"constraints", "graphSchema"} /\ asked[p] = "given" ->
            \/ op = "build" /\ surface # "http"
            \/ p = "constraints" /\ via = "run_job"
      [] p = "llm" -> \/ asked[p] = "default" /\ (surface = "cli" \/ via = "celery")
                      \/ asked[p] # "default" /\ via = "run_job"
      [] p = "sources" /\ asked[p] = "given" -> surface = "cli" \/ via = "celery"
      [] p = "includeShacl" /\ asked[p] = "given" -> surface = "cli"
      [] p \in {"page", "pageSize", "depth", "maxDepth", "topK"} /\ asked[p] = "zero" ->
            surface \in {"grpc", "mcp"}
      [] p \in {"maxClasses", "maxIssues"} /\ asked[p] = "zero" -> surface # "cli"
      [] OTHER -> FALSE

(* A request that reaches the service means there what it meant to the     *)
(* caller, argument for argument, but for the losses above; and which      *)
(* build it is depends on the surface only if the CLI is given a text and  *)
(* records, or neither.                                                    *)
ReachesAsMeant ==
    stage = "called" =>
        IF call.op # Meant.op
        THEN surface = "cli" /\ (asked["text"] = "given" <=> asked["entities"] = "given")
        ELSE \A p \in DOMAIN call.args : call.args[p] # Meant.args[p] <=> Lossy(p)

(* A caller can tell the kinds of failure apart, on every surface but the  *)
(* command line.                                                           *)
TellsFailures ==
    stage = "failed" =>
        (surface # "cli" <=>
            \A failure \in Failure : Shown(surface, failure) = shown[2] => failure = shown[1])
=============================================================================
