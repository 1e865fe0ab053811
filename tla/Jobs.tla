------------------------------- MODULE Jobs --------------------------------
(***************************************************************************)
(* The asynchronous builds of ONE graph.  An HTTP handler checks the       *)
(* graph, registers a job row and hands a message to the Celery broker; a  *)
(* worker takes the message, runs the task and records how it ended.  A    *)
(* client may also run a registered job by hand (POST /jobs/{id}/run, gRPC *)
(* RunJob, the CLI, MCP): run_job, in a server process.                    *)
(*                                                                         *)
(* A job's task is two steps here: it finds the graph, and it is applied,  *)
(* or it raises (JobsOverStore opens it up).                               *)
(***************************************************************************)
EXTENDS Naturals, FiniteSets

CONSTANTS Job,
          Worker,     \* the Celery worker processes
          Runner,     \* server threads that may serve run_job
          NoJob,
          Enabled,    \* GRAPH_ENGINE_CELERY_ENABLED
          MaxFaults   \* bound on crashes and failed store calls

Agent == Worker \cup Runner

ASSUME JobsAssumption ==
    /\ Worker \cap Runner = {}
    /\ NoJob \notin Job
    /\ Enabled \in BOOLEAN
    /\ MaxFaults \in Nat

VARIABLES
    graph,     \* whether the graph exists
    status,    \* the jobs table: the status column, "none" without a row
    request,   \* per job: how far its submission is, and how it was answered
    queue,     \* the messages at the broker
    pc, job,   \* per agent: what it does, and for which job
    outcome,   \* per agent: how the task it ran ended
    applied,   \* history: how often the task of a job was applied
    hurt,      \* history: a fault hit the worker that held the job
    manual,    \* history: the jobs that somebody ran by hand
    faults

agentVars == <<pc, job, outcome>>
vars == <<graph, status, request, queue, agentVars, applied, hurt, manual, faults>>

Terminal == {"success", "failed"}
Holds(a, j) == pc[a] # "idle" /\ job[a] = j

Init ==
    /\ graph \in BOOLEAN
    /\ status = [j \in Job |-> "none"]
    /\ request = [j \in Job |-> "unsent"]
    /\ queue = {}
    /\ pc = [a \in Agent |-> "idle"]
    /\ job = [a \in Agent |-> NoJob]
    /\ outcome = [a \in Agent |-> "none"]
    /\ applied = [j \in Job |-> 0]
    /\ hurt = [j \in Job |-> FALSE]
    /\ manual = {}
    /\ faults = 0

Fault == faults < MaxFaults /\ faults' = faults + 1

-----------------------------------------------------------------------------
(* Submission: _submit_and_dispatch.                                       *)

Answer(j, answer) == request' = [request EXCEPT ![j] = answer]

(* get_graph raises NotFoundError for a missing graph.                     *)
SubmitCheck(j) ==
    /\ request[j] = "unsent"
    /\ Answer(j, IF graph THEN "checked" ELSE "refused")
    /\ UNCHANGED <<graph, status, queue, agentVars, applied, hurt, manual, faults>>

(* Mutant: the row is born in the state the documents call running.        *)
RegisterRunning(j) ==
    /\ request[j] = "checked"
    /\ status' = [status EXCEPT ![j] = "running"]
    /\ Answer(j, "registered")
    /\ UNCHANGED <<graph, queue, agentVars, applied, hurt, manual, faults>>

Register(j) ==
    /\ request[j] = "checked"
    /\ status' = [status EXCEPT ![j] = "pending"]
    /\ Answer(j, "registered")
    /\ UNCHANGED <<graph, queue, agentVars, applied, hurt, manual, faults>>

(* Mutant: the job is reported, its message never sent.                    *)
DispatchForgets(j) ==
    /\ request[j] = "registered"
    /\ Answer(j, "accepted")
    /\ UNCHANGED <<graph, status, queue, agentVars, applied, hurt, manual, faults>>

Dispatch(j) ==
    /\ request[j] = "registered"
    /\ queue' = IF Enabled THEN queue \cup {j} ELSE queue
    /\ Answer(j, "accepted")
    /\ UNCHANGED <<graph, status, agentVars, applied, hurt, manual, faults>>

(* apply_async raises, because the broker cannot be reached, after the row *)
(* is committed; or create_job raised before; or the server died.  The     *)
(* client gets an error and no jobId.                                      *)
SubmitFault(j) ==
    /\ request[j] = "checked" \/ (request[j] = "registered" /\ Enabled)
    /\ Fault
    /\ Answer(j, "refused")
    /\ UNCHANGED <<graph, status, queue, agentVars, applied, hurt, manual>>

-----------------------------------------------------------------------------
(* Execution.                                                              *)

Start(a, j) ==
    /\ pc[a] = "idle"
    /\ pc' = [pc EXCEPT ![a] = "running"]
    /\ job' = [job EXCEPT ![a] = j]
    /\ UNCHANGED outcome

Stop(a) ==
    /\ pc' = [pc EXCEPT ![a] = "idle"]
    /\ job' = [job EXCEPT ![a] = NoJob]
    /\ outcome' = [outcome EXCEPT ![a] = "none"]

(* Mutant: the message is acknowledged only after the task, and turns up   *)
(* again meanwhile.                                                        *)
TakeLateAck(w) ==
    /\ \E j \in queue : Start(w, j)
    /\ UNCHANGED <<graph, status, request, queue, applied, hurt, manual, faults>>

(* The message is acknowledged when the task starts (no acks_late), and    *)
(* the worker never reads the job row.                                     *)
Take(w) ==
    /\ \E j \in queue : Start(w, j) /\ queue' = queue \ {j}
    /\ UNCHANGED <<graph, status, request, applied, hurt, manual, faults>>

(* run_job: a missing job raises, a finished one is returned as it is; the *)
(* status is read this once.                                               *)
RunByHand(r) ==
    /\ \E j \in Job : /\ status[j] = "pending" /\ Start(r, j)
                      /\ manual' = manual \cup {j}
    /\ UNCHANGED <<graph, status, request, queue, applied, hurt, faults>>

End(a, result) ==
    /\ pc' = [pc EXCEPT ![a] = "recording"]
    /\ outcome' = [outcome EXCEPT ![a] = result]

(* The task begins: _require_graph raises for a missing graph.             *)
Begin(a) ==
    /\ pc[a] = "running"
    /\ \/ graph /\ pc' = [pc EXCEPT ![a] = "working"] /\ UNCHANGED outcome
       \/ End(a, "error")
    /\ UNCHANGED <<graph, status, request, queue, job, applied, hurt, manual, faults>>

(* It is applied, whatever becomes of the graph meanwhile, or rejected by  *)
(* validation or a store failure.                                          *)
Execute(a) ==
    /\ pc[a] = "working"
    /\ \/ /\ End(a, "ok")
          /\ applied' = [applied EXCEPT ![job[a]] = @ + 1]
       \/ End(a, "error") /\ UNCHANGED applied
    /\ UNCHANGED <<graph, status, request, queue, job, hurt, manual, faults>>

(* Mutant: only success is written back, as in the first version.          *)
RecordSuccessOnly(a) ==
    /\ pc[a] = "recording"
    /\ status' = IF outcome[a] = "ok" THEN [status EXCEPT ![job[a]] = "success"] ELSE status
    /\ Stop(a)
    /\ UNCHANGED <<graph, request, queue, applied, hurt, manual, faults>>

(* update_job: an UPDATE that looks at nothing but the identifier.         *)
Record(a) ==
    /\ pc[a] = "recording"
    /\ status' = [status EXCEPT ![job[a]] =
                      IF outcome[a] = "ok" THEN "success" ELSE "failed"]
    /\ Stop(a)
    /\ UNCHANGED <<graph, request, queue, applied, hurt, manual, faults>>

(* update_job raises.  _run_job writes success outside its try: the job    *)
(* stays as it is.  run_job writes it inside: the handler then records the *)
(* applied task as failed, if that write goes through.                     *)
RecordFault(a) ==
    /\ pc[a] = "recording"
    /\ Fault
    /\ \/ UNCHANGED status
       \/ /\ a \in Runner
          /\ outcome[a] = "ok"
          /\ status' = [status EXCEPT ![job[a]] = "failed"]
    /\ hurt' = [hurt EXCEPT ![job[a]] = @ \/ a \in Worker]
    /\ Stop(a)
    /\ UNCHANGED <<graph, request, queue, applied, manual>>

Crash(a) ==
    /\ pc[a] # "idle"
    /\ Fault
    /\ hurt' = [hurt EXCEPT ![job[a]] = @ \/ a \in Worker]
    /\ Stop(a)
    /\ UNCHANGED <<graph, status, request, queue, applied, manual>>

-----------------------------------------------------------------------------
(* delete_graph leaves the jobs table alone.                               *)
DeleteGraph ==
    /\ graph
    /\ graph' = FALSE
    /\ UNCHANGED <<status, request, queue, agentVars, applied, hurt, manual, faults>>

(* The same kbId gives the same graphId, and the jobs of the old graph     *)
(* find the new one.                                                       *)
CreateGraph ==
    /\ ~graph
    /\ graph' = TRUE
    /\ UNCHANGED <<status, request, queue, agentVars, applied, hurt, manual, faults>>

(* Every submission is answered, every message taken and every agent idle: *)
(* the only place where a run may end.                                     *)
Quiescent ==
    /\ \A j \in Job : request[j] \in {"accepted", "refused"}
    /\ queue = {} /\ \A a \in Agent : pc[a] = "idle"
    /\ UNCHANGED vars

Submit(j) == SubmitCheck(j) \/ Register(j) \/ Dispatch(j) \/ SubmitFault(j)
Work(a) == Begin(a) \/ Execute(a) \/ Record(a)

Next ==
    \/ \E j \in Job : Submit(j)
    \/ \E w \in Worker : Take(w)
    \/ \E r \in Runner : RunByHand(r)
    \/ \E a \in Agent : Work(a) \/ RecordFault(a) \/ Crash(a)
    \/ DeleteGraph \/ CreateGraph
    \/ Quiescent

Spec == Init /\ [][Next]_vars

(* Workers consume as long as there are messages (Celery restarts them),   *)
(* and a task that runs ends.  Nothing makes a client run a job by hand.   *)
FairSpec == Spec /\ \A w \in Worker : WF_vars(Take(w)) /\ WF_vars(Work(w))

-----------------------------------------------------------------------------
(* Properties.                                                             *)

(* "running" is never written, whatever the documents list.                *)
TypeOK ==
    /\ graph \in BOOLEAN
    /\ status \in [Job -> {"none", "pending"} \cup Terminal]
    /\ request \in [Job -> {"unsent", "checked", "registered", "accepted", "refused"}]
    /\ queue \in SUBSET Job
    /\ pc \in [Agent -> {"idle", "running", "working", "recording"}]
    /\ job \in [Agent -> Job \cup {NoJob}]
    /\ outcome \in [Agent -> {"none", "ok", "error"}]
    /\ applied \in [Job -> Nat]
    /\ hurt \in [Job -> BOOLEAN]
    /\ manual \in SUBSET Job
    /\ faults \in 0 .. MaxFaults

(* A job whose client holds a jobId and that is still pending has not been *)
(* lost: its message is at the broker or a worker has it, unless a fault   *)
(* hit the worker that had it.                                             *)
PendingAccounted ==
    \A j \in Job :
        Enabled /\ request[j] = "accepted" /\ status[j] = "pending" /\ ~hurt[j]
        => j \in queue \/ \E w \in Worker : Holds(w, j)

(* The jobs keep the promise, crashes and failed writes included: a job is *)
(* applied at most once, its terminal status is true, and a finished job   *)
(* stays as it is, whatever is run by hand beside it; and a job that was   *)
(* itself run by hand never goes back from ended to pending.               *)
Promise == INSTANCE JobPromise
KeepsPromise == Promise!Spec

(* A job its client was told about ends, with or without manual runs, in   *)
(* success or failure, unless a fault hit the worker that had it.          *)
AcceptedEnds ==
    \A j \in Job :
        request[j] = "accepted" /\ Enabled ~> status[j] \in Terminal \/ hurt[j]
=============================================================================
