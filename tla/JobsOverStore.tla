--------------------------- MODULE JobsOverStore ----------------------------
(***************************************************************************)
(* Jobs with their tasks opened up: a worker, or a server thread that runs *)
(* a job by hand, serves the request of the job on the write path of       *)
(* GraphStore, beside the threads that serve requests at once.  What was   *)
(* one step in Jobs is the sequence of store calls here, which creates and *)
(* deletes of the graph, and the other threads, come between.              *)
(***************************************************************************)
EXTENDS GraphStore

CONSTANTS Job, Worker, Runner, NoJob, Enabled, MaxFaults,    \* as in Jobs
          task                     \* the request that each job carries out

Agent == Worker \cup Runner
Server == Thread \ Agent           \* the threads that serve requests at once

VARIABLES
    status, request, queue, stage, job, outcome,
    applied, hurt, manual, faults,         \* as in Jobs; its pc is stage
    cut            \* history: jobs whose graph was deleted since they began

Jobs == INSTANCE Jobs WITH pc <- stage

ASSUME TasksAssumption ==
    /\ Worker \cap Runner = {} /\ NoJob \notin Job
    /\ Enabled \in BOOLEAN /\ MaxFaults \in Nat
    /\ task \in [Job -> Request]
    /\ \A j \in Job : task[j].op \in {"build", "merge", "deprecate"}
    /\ Agent \subseteq Thread

(* The variables of each side without the graph, which they share.         *)
jobVars == <<status, request, queue, stage, job, outcome, applied, hurt, manual, faults>>
restOfStore == <<rows, lock, threadVars, contributed, raced, served>>
overVars == <<vars, jobVars, cut>>

OverInit == Init /\ Jobs!Init /\ cut = {}

-----------------------------------------------------------------------------
(* The agent serves the request of the job it has started.                 *)
Serves(a) == Accept(a) /\ req'[a] = task[job'[a]]

\* Mutant: the message is acknowledged only behind the task, and turns up
\* again meanwhile.
TakeUpLateAck(w) == Jobs!TakeLateAck(w) /\ Serves(w) /\ UNCHANGED cut

TakeUp(w) == Jobs!Take(w) /\ Serves(w) /\ UNCHANGED cut

RunUp(r) == Jobs!RunByHand(r) /\ Serves(r) /\ UNCHANGED cut

(* The task finds the graph, or raises.                                    *)
Find(a) ==
    /\ Jobs!Begin(a)
    /\ Require(a)
    /\ stage'[a] = "working" <=> pc'[a] # "idle"
    /\ UNCHANGED cut

(* One of the store calls of the task, but for the last.                   *)
Go(a) ==
    /\ stage[a] = "working"
    /\ Advance(a)
    /\ pc'[a] # "idle"
    /\ UNCHANGED <<jobVars, cut>>

(* The task returns.                                                       *)
Return(a) ==
    /\ Jobs!Execute(a)
    /\ outcome'[a] = "ok"
    /\ Advance(a)
    /\ pc'[a] = "idle"
    /\ UNCHANGED cut

(* Mutant: an exception of the task is logged and forgotten.               *)
RaiseForgotten(a) ==
    /\ Jobs!Execute(a)
    /\ outcome'[a] = "ok"
    /\ Reject(a) \/ Fail(a)
    /\ UNCHANGED cut

(* The task raises: a failed validation, or a store call that raises.      *)
Raise(a) ==
    /\ Jobs!Begin(a) \/ Jobs!Execute(a)
    /\ outcome'[a] = "error"
    /\ Reject(a) \/ Fail(a)
    /\ UNCHANGED cut

Settle(a) == (Jobs!Record(a) \/ Jobs!RecordFault(a)) /\ UNCHANGED <<restOfStore, cut>>

Die(a) ==
    /\ Jobs!Crash(a)
    /\ \/ pc[a] = "idle" /\ UNCHANGED restOfStore
       \/ Fail(a)
    /\ UNCHANGED cut

-----------------------------------------------------------------------------
Present(t) ==
    /\ Accept(t) \/ Reject(t) \/ Fail(t)
       \/ (pc[t] # "deleteHeld" /\ Advance(t))
    /\ UNCHANGED <<jobVars, cut>>

(* delete_graph takes the rows away under the jobs that are being applied, *)
(* and under those that were.                                              *)
Demolish(t) ==
    /\ DeleteCommit(t)
    /\ cut' = cut \cup {j \in Job : status[j] = "success" \/ \E a \in Agent : Jobs!Holds(a, j)}
    /\ UNCHANGED jobVars

OverSubmit(j) == Jobs!Submit(j) /\ UNCHANGED <<restOfStore, cut>>

(* No request may begin any more.                                          *)
Closed ==
    /\ served = MaxRequests
    /\ \A t \in Thread : pc[t] = "idle"
    /\ UNCHANGED overVars

Tend(a) == Find(a) \/ Go(a) \/ Return(a) \/ Raise(a) \/ Settle(a)

OverNext ==
    \/ \E j \in Job : OverSubmit(j)
    \/ \E w \in Worker : TakeUp(w)
    \/ \E r \in Runner : RunUp(r)
    \/ \E a \in Agent : Tend(a) \/ Die(a)
    \/ \E t \in Server : Present(t) \/ Demolish(t)
    \/ Closed

OverSpec == OverInit /\ [][OverNext]_overVars

-----------------------------------------------------------------------------
(* Success means stored: as long as the graph was not deleted since the    *)
(* job began, every record of its batch has a row, to which its document   *)
(* contributed, whatever other jobs and requests do in whatever process,   *)
(* and whatever fails.                                                     *)
Stored(x, doc) == Exists(x) /\ doc \in contributed[x]

SuccessIsStored ==
    \A j \in Job \ cut :
        status[j] = "success" /\ task[j].op \in {"build", "merge"}
        => \A x \in task[j].items : Stored(x, task[j].doc)

(* Whoever waits for a job sees it pending as long as its store calls are  *)
(* under way: a job that has ended writes no more, and none writes before  *)
(* its row is there, whatever dies and whatever raises.  The exception is  *)
(* a job that was run by hand as well, beside its worker.                  *)
WritesWhilePending ==
    \A a \in Agent : pc[a] # "idle" => status[job[a]] = "pending" \/ job[a] \in manual
=============================================================================
