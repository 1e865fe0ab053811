------------------------------ MODULE EndToEnd ------------------------------
(***************************************************************************)
(* A call of the SDK from end to end: the client's transport with its      *)
(* retries (sdk/python/.../transport.py), the server process that serves   *)
(* an attempt (interfaces/http_app.py, application/service.py) on the      *)
(* store it chose when it started (persistence/__init__.py, runtime.py),   *)
(* and the write that the service makes to core (adapters/                 *)
(* core_writeback.py).  An attempt the client has given up goes on.        *)
(*                                                                         *)
(* What a document's assets are is left to GraphStore: here a store and    *)
(* core each hold the last call that wrote the document.                   *)
(***************************************************************************)
EXTENDS Integers, FiniteSets

CONSTANTS Client, Process, Doc,
          Call,          \* numbered in the order a client makes them
          Script,        \* the calls considered: a request for each, and whose
          NoProcess,
          NoCall,        \* a document nobody has written
          First,         \* the stores a process may have when it starts first
          MaxRetries,    \* max_retries of the client
          MaxRestarts    \* bound on the restarts of server processes

Backend == {"sqlite", "neo4j"}
Method == [create |-> "POST", build |-> "POST", withdraw |-> "POST",
           remove |-> "DELETE", read |-> "GET"]

ASSUME CallAssumption ==
    /\ Call \subseteq Nat /\ IsFiniteSet(Call) /\ NoCall \notin Call
    /\ Script \subseteq [Call -> [client : Client, op : DOMAIN Method, doc : Doc,
                                reqId : BOOLEAN]]
    /\ NoProcess \notin Process /\ First \subseteq Backend
    /\ MaxRetries \in Nat /\ MaxRestarts \in Nat

(* "refused" stands for the codes 200001, 200404 and 200409, "unknown" for *)
(* the errors of the transport: no answer in time, no connection, or an    *)
(* answer without the envelope.                                            *)
Doubt == {"serverError", "unknown"}
Outcome == {"ok", "refused"} \cup Doubt

Attempt == Call \X (0 .. MaxRetries)

VARIABLES
    backend,    \* the store each process has, until it restarts
    graph,      \* per store: the graph exists
    last,       \* per store and document: the last call that wrote it
    core,       \* per document: the last call written to core
    req,        \* per call: the request
    phase,      \* per call: "idle", "open" or its outcome
    try,        \* per call: the attempt the client waits for
    value,      \* per call: what a read returned, and from which store
    stage,      \* per attempt: where it is
    proc,       \* per attempt: the process that serves it
    reply,      \* per attempt: the server's answer
    adrift,     \* the attempts whose request to core is still on the way when
                \* the service no longer waits for it
    restarts,
    done,       \* history: how often a call was done, in whole or in part
    wrote,      \* history: the stores that a call was done in
    tangled     \* history: the documents whose writes to core were not all
                \* answered, or not one after the other

clientVars == <<req, phase, try, value>>
attemptVars == <<stage, proc, reply, adrift>>
storeVars == <<graph, last>>
history == <<done, wrote, tangled>>
vars == <<backend, storeVars, core, clientVars, attemptVars, restarts, history>>

Init ==
    /\ backend \in [Process -> First]
    /\ graph \in [Backend -> BOOLEAN]
    /\ last = [b \in Backend |-> [d \in Doc |-> NoCall]]
    /\ core = [d \in Doc |-> NoCall]
    /\ req \in Script
    /\ phase = [k \in Call |-> "idle"]
    /\ try = [k \in Call |-> 0]
    /\ value = [k \in Call |-> <<NoCall, "none">>]
    /\ stage = [a \in Attempt |-> "none"]
    /\ proc = [a \in Attempt |-> NoProcess]
    /\ reply = [a \in Attempt |-> "ok"]
    /\ adrift = {}
    /\ restarts = 0
    /\ done = [k \in Call |-> 0]
    /\ wrote = [k \in Call |-> {}]
    /\ tangled = {}

Mine(k) == {j \in Call : req[j].client = req[k].client}

-----------------------------------------------------------------------------
(* The client: Transport.request and _send.                                *)

\* Mutant: every POST is sent again.
CanRetryPosts(k) == Method[req[k].op] \in {"GET", "POST"}

(* can_retry: GET, and POST if the body has a reqId.  The server does not  *)
(* look at it.                                                             *)
CanRetry(k) ==
    \/ Method[req[k].op] = "GET"
    \/ Method[req[k].op] = "POST" /\ req[k].reqId

Issue(k) ==
    /\ phase[k] = "idle"
    /\ \A j \in Mine(k) : j < k => phase[j] \in Outcome
    /\ phase' = [phase EXCEPT ![k] = "open"]
    /\ stage' = [stage EXCEPT ![<<k, 0>>] = "sent"]
    /\ UNCHANGED <<backend, storeVars, core, req, try, value, proc, reply, adrift,
                   restarts, history>>

(* The attempt the client waits for.                                       *)
Now(k) == <<k, try[k]>>
Awaited(a) == phase[a[1]] = "open" /\ a = Now(a[1])

Return(k, outcome) == phase' = [phase EXCEPT ![k] = outcome]

\* Mutant: one attempt more than the configured retries.
RetryOrFailOnceMore(k, stageNow) ==
    IF CanRetry(k) /\ try[k] <= MaxRetries
    THEN /\ try' = [try EXCEPT ![k] = @ + 1]
         /\ stage' = [stageNow EXCEPT ![<<k, try[k] + 1>>] = "sent"]
         /\ UNCHANGED phase
    ELSE /\ stage' = stageNow
         /\ Return(k, "unknown")
         /\ UNCHANGED try

(* Another attempt, or no outcome the caller can tell.                     *)
RetryOrFail(k, stageNow) ==
    IF CanRetry(k) /\ try[k] < MaxRetries
    THEN /\ try' = [try EXCEPT ![k] = @ + 1]
         /\ stage' = [stageNow EXCEPT ![<<k, try[k] + 1>>] = "sent"]
         /\ UNCHANGED phase
    ELSE /\ stage' = stageNow
         /\ Return(k, "unknown")
         /\ UNCHANGED try

(* An answer with the envelope: handle_response, exception_from_code.      *)
Receive(k) ==
    /\ phase[k] = "open" /\ stage[Now(k)] = "replied"
    /\ stage' = [stage EXCEPT ![Now(k)] = "over"]
    /\ reply' = [reply EXCEPT ![Now(k)] = "ok"]
    /\ Return(k, reply[Now(k)])
    /\ UNCHANGED <<backend, storeVars, core, req, try, value, proc, adrift,
                   restarts, history>>

(* No answer in time, or a gateway's 502, 503 or 504 in its place.  The    *)
(* attempt goes on without the client, and nobody waits for its answer: of *)
(* a read there is nothing left to follow.                                 *)
GiveUp(k) ==
    /\ phase[k] = "open"
    /\ RetryOrFail(k, [stage EXCEPT ![Now(k)] =
                          IF @ = "replied" \/ req[k].op = "read" THEN "over" ELSE @])
    /\ reply' = [reply EXCEPT ![Now(k)] = "ok"]
    /\ UNCHANGED <<backend, storeVars, core, req, value, proc, adrift, restarts,
                   history>>

(* ConnectError: the attempt has not reached a server.                     *)
Unreachable(k) ==
    /\ phase[k] = "open" /\ stage[Now(k)] = "sent"
    /\ RetryOrFail(k, [stage EXCEPT ![Now(k)] = "over"])
    /\ UNCHANGED <<backend, storeVars, core, req, value, proc, reply, adrift,
                   restarts, history>>

(* Any other error of the transport is final.  It is what the client sees  *)
(* of a process that stops.                                                *)
Break(k) ==
    /\ phase[k] = "open" /\ stage[Now(k)] \notin {"sent", "replied"}
    /\ Return(k, "unknown")
    /\ UNCHANGED <<backend, storeVars, core, req, try, value, attemptVars,
                   restarts, history>>

-----------------------------------------------------------------------------
(* The server.  Process p takes attempt a up when it arrives, if it does,  *)
(* and the store calls of the handler are one step here.                   *)

RequestOf(a) == req[a[1]]

Takes(p, a, ops) == stage[a] = "sent" /\ RequestOf(a).op \in ops

Answer(a, r) ==
    /\ stage' = [stage EXCEPT ![a] = IF Awaited(a) THEN "replied" ELSE "over"]
    /\ reply' = [reply EXCEPT ![a] = IF Awaited(a) THEN r ELSE "ok"]
    /\ proc' = [proc EXCEPT ![a] = NoProcess]

Did(p, a) ==
    /\ done' = [done EXCEPT ![a[1]] = @ + 1]
    /\ wrote' = [wrote EXCEPT ![a[1]] = @ \cup {backend[p]}]

(* Nothing is done: the request is not valid, the graph is missing, or the *)
(* one to create is there.                                                 *)
Refuse(p, a) ==
    /\ Takes(p, a, DOMAIN Method)
    /\ \/ RequestOf(a).op \in {"create", "build"}
       \/ graph[backend[p]] <=> RequestOf(a).op = "create"
    /\ Answer(a, "refused")
    /\ UNCHANGED <<backend, storeVars, core, clientVars, adrift, restarts, history>>

Create(p, a) ==
    /\ Takes(p, a, {"create"}) /\ ~graph[backend[p]]
    /\ graph' = [graph EXCEPT ![backend[p]] = TRUE]
    /\ Answer(a, "ok") /\ Did(p, a)
    /\ UNCHANGED <<backend, last, core, clientVars, adrift, restarts, tangled>>

(* delete_graph: core is not told.                                         *)
Remove(p, a) ==
    /\ Takes(p, a, {"remove"}) /\ graph[backend[p]]
    /\ graph' = [graph EXCEPT ![backend[p]] = FALSE]
    /\ last' = [last EXCEPT ![backend[p]] = [d \in Doc |-> NoCall]]
    /\ tangled' = Doc
    /\ Answer(a, "ok") /\ Did(p, a)
    /\ UNCHANGED <<backend, core, clientVars, adrift, restarts>>

\* Mutant: a read is answered from core's data.
ReadCore(p, a) ==
    /\ Takes(p, a, {"read"}) /\ graph[backend[p]]
    /\ value' = [value EXCEPT ![a[1]] = <<core[RequestOf(a).doc], backend[p]>>]
    /\ Answer(a, "ok") /\ done' = [done EXCEPT ![a[1]] = @ + 1]
    /\ UNCHANGED <<backend, storeVars, core, req, phase, try, adrift, restarts,
                   wrote, tangled>>

Read(p, a) ==
    /\ Takes(p, a, {"read"}) /\ graph[backend[p]]
    /\ value' = [value EXCEPT ![a[1]] =
                    <<last[backend[p]][RequestOf(a).doc], backend[p]>>]
    /\ Answer(a, "ok") /\ done' = [done EXCEPT ![a[1]] = @ + 1]
    /\ UNCHANGED <<backend, storeVars, core, req, phase, try, adrift, restarts,
                   wrote, tangled>>

(* Another attempt waits for core, or its request to core is on the way.   *)
Overlap(a) ==
    \E o \in Attempt \ {a} :
        /\ stage[o] = "stored" \/ o \in adrift
        /\ RequestOf(o).doc = RequestOf(a).doc

OneStore(p, a) ==
    \A b \in Backend \ {backend[p]} : last[b][RequestOf(a).doc] = NoCall

Store(p, a) ==
    /\ Takes(p, a, {"build", "withdraw"}) /\ graph[backend[p]]
    /\ last' = [last EXCEPT ![backend[p]][RequestOf(a).doc] = a[1]]
    /\ Did(p, a)
    /\ UNCHANGED <<backend, graph, core, clientVars, adrift, restarts>>

AwaitCore(p, a) ==
    /\ stage' = [stage EXCEPT ![a] = "stored"]
    /\ proc' = [proc EXCEPT ![a] = p]
    /\ UNCHANGED reply

TangleIf(a, condition) ==
    tangled' = IF condition THEN tangled \cup {RequestOf(a).doc} ELSE tangled

\* Mutant: a withdrawal is not written to core.
WriteNoWithdrawal(p, a) ==
    /\ Store(p, a)
    /\ IF RequestOf(a).op = "withdraw" THEN Answer(a, "ok") ELSE AwaitCore(p, a)
    /\ TangleIf(a, Overlap(a) \/ ~OneStore(p, a))

(* build_from_records, deprecate_doc: the records are written, and the     *)
(* request to core goes out, without records for a withdrawal.             *)
Write(p, a) ==
    /\ Store(p, a)
    /\ AwaitCore(p, a)
    /\ TangleIf(a, Overlap(a) \/ ~OneStore(p, a))

(* The store fails on one of the records: those before it are written.     *)
WriteSome(p, a) ==
    /\ Store(p, a)
    /\ Answer(a, "serverError")
    /\ TangleIf(a, TRUE)

ApplyToCore(a) == core' = [core EXCEPT ![RequestOf(a).doc] = a[1]]

(* Core applies the request and answers, the service with what it stored.  *)
Posted(a) ==
    /\ stage[a] = "stored"
    /\ ApplyToCore(a)
    /\ Answer(a, "ok")
    /\ UNCHANGED <<backend, storeVars, clientVars, adrift, restarts, history>>

(* Core refuses, cannot be reached or does not answer in time: the service *)
(* logs it and answers as before, and the request may still reach core.  A *)
(* response that is cut off, or no HTTP, raises what write_assets does not *)
(* catch: the answer is a 500.                                             *)
PostFails(a) ==
    /\ stage[a] = "stored"
    /\ \E r \in {"ok", "serverError"} : Answer(a, r)
    /\ adrift' \in {adrift, adrift \cup {a}}
    /\ TangleIf(a, TRUE)
    /\ UNCHANGED <<backend, storeVars, core, clientVars, restarts, done, wrote>>

(* Core applies what reaches it, in the order it arrives.                  *)
Apply(a) ==
    /\ a \in adrift
    /\ adrift' = adrift \ {a}
    /\ ApplyToCore(a)
    /\ UNCHANGED <<backend, storeVars, clientVars, stage, proc, reply, restarts,
                   history>>

(* A process stops and starts again: create_store takes SQLite if that is  *)
(* configured or Neo4j cannot be reached, and get_store keeps it.          *)
Restart(p) ==
    /\ restarts < MaxRestarts
    /\ restarts' = restarts + 1
    /\ \E b \in Backend : backend' = [backend EXCEPT ![p] = b]
    /\ LET cut == {a \in Attempt : proc[a] = p}
       IN  /\ stage' = [a \in Attempt |-> IF a \in cut THEN "over" ELSE stage[a]]
           /\ proc' = [a \in Attempt |-> IF a \in cut THEN NoProcess ELSE proc[a]]
           /\ tangled' = tangled \cup {RequestOf(a).doc : a \in cut}
           /\ adrift' \in {adrift, adrift \cup cut}
    /\ UNCHANGED <<storeVars, core, clientVars, reply, done, wrote>>

Serve(a) ==
    \/ \E p \in Process : \/ Refuse(p, a) \/ Create(p, a) \/ Remove(p, a)
                         \/ Read(p, a) \/ Write(p, a) \/ WriteSome(p, a)
    \/ Apply(a) \/ Posted(a) \/ PostFails(a)

(* The client's timeouts go off, whatever the server does.                 *)
Wait(k) == Receive(k) \/ GiveUp(k) \/ Unreachable(k) \/ Break(k)

Rest == (\A k \in Call : phase[k] \in Outcome) /\ UNCHANGED vars

Next ==
    \/ \E k \in Call : Issue(k) \/ Wait(k)
    \/ \E a \in Attempt : Serve(a)
    \/ \E p \in Process : Restart(p)
    \/ Rest

Spec == Init /\ [][Next]_vars /\ \A k \in Call : WF_vars(Wait(k))

-----------------------------------------------------------------------------
(* Every variable has its type.                                            *)
TypeOK ==
    /\ backend \in [Process -> Backend] /\ graph \in [Backend -> BOOLEAN]
    /\ last \in [Backend -> [Doc -> Call \cup {NoCall}]]
    /\ core \in [Doc -> Call \cup {NoCall}]
    /\ req \in Script
    /\ phase \in [Call -> {"idle", "open"} \cup Outcome]
    /\ try \in [Call -> 0 .. MaxRetries]
    /\ value \in [Call -> (Call \cup {NoCall}) \X (Backend \cup {"none"})]
    /\ stage \in [Attempt -> {"none", "sent", "stored", "replied", "over"}]
    /\ proc \in [Attempt -> Process \cup {NoProcess}]
    /\ reply \in [Attempt -> {"ok", "serverError", "refused"}]
    /\ adrift \subseteq Attempt
    /\ restarts \in 0 .. MaxRestarts
    /\ done \in [Call -> 0 .. MaxRetries + 1]
    /\ wrote \in [Call -> SUBSET Backend] /\ tangled \subseteq Doc

(* A call returns; "ok" says that it was done, a refusal that it was not,  *)
(* and nothing is done twice, or after its answer, but by a retry: every   *)
(* other late effect is of a call the client knows to be in doubt.         *)
Promise == INSTANCE CallPromise WITH
               Refusal <- {"refused"}, phase <- phase, done <- done, MaxDone <- MaxRetries + 1,
               allowed <- [k \in Call |-> IF phase[k] = "idle" THEN 0
                                          ELSE IF Method[req[k].op] # "GET"
                                                  /\ ~req[k].reqId
                                          THEN 1 ELSE MaxRetries + 1]

KeepsPromise == Promise!Spec

(* A client reads its own last write, a write of another client, or one of *)
(* its own that was in doubt or sent more than once and came late: only a  *)
(* graph removed meanwhile or a process with another store shows it less.  *)
OwnWrites(k, b) ==
    {j \in Mine(k) : /\ j < k /\ phase[j] = "ok" /\ b \in wrote[j]
                     /\ req[j].op \in {"build", "withdraw"}
                     /\ req[j].doc = req[k].doc}

Explains(k, v, own) ==
    IF v = NoCall
    THEN own = {} \/ \E j \in Call : req[j].op = "remove" /\ done[j] > 0
    ELSE \/ v \notin Mine(k)
         \/ phase[v] \in Doubt \/ try[v] > 0
         \/ v \in own /\ \A j \in own : j <= v

ReadsOwnWrites ==
    [][\A k \in Call : value'[k] # value[k] =>
          Explains(k, value'[k][1], OwnWrites(k, value'[k][2]))]_vars

(* Core has the last write of a document, unless a request to it failed,   *)
(* or two writes of the document overlapped, or they went to two stores,   *)
(* or the graph was removed.                                               *)
CoreFollows ==
    \A d \in Doc \ tangled :
        (\A a \in Attempt : stage[a] = "stored" => RequestOf(a).doc # d)
            => \E b \in Backend : last[b][d] = core[d]
=============================================================================
