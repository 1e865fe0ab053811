----------------------------- MODULE JobsProofs -----------------------------
(***************************************************************************)
(* What holds of Jobs for every set of jobs, workers and server threads,   *)
(* and every bound on the faults.                                          *)
(***************************************************************************)
EXTENDS Jobs, TLAPS

-----------------------------------------------------------------------------
(* Type correctness: an agent at work works for a job, and a task that has *)
(* ended has an outcome.                                                   *)

Busy(a) == pc[a] # "idle"

AgentsBusy ==
    \A a \in Agent :
        /\ Busy(a) => job[a] \in Job
        /\ pc[a] = "recording" => outcome[a] \in {"ok", "error"}

TypeInv ==
    /\ TypeOK
    /\ AgentsBusy

LEMMA InitTypeInv == Init => TypeInv
BY JobsAssumption DEF Init, TypeInv, TypeOK, AgentsBusy, Busy, Terminal

(* The steps of a submission keep the types.                               *)
LEMMA SubmitTypeInv ==
    ASSUME TypeInv, NEW j \in Job, Submit(j)
    PROVE  TypeInv'
<1> USE JobsAssumption DEF TypeInv, TypeOK, AgentsBusy, Busy, agentVars
<1>1. CASE SubmitCheck(j)
  BY <1>1 DEF SubmitCheck, Answer
<1>2. CASE Register(j)
  BY <1>2 DEF Register, Answer
<1>3. CASE Dispatch(j)
  BY <1>3 DEF Dispatch, Answer
<1>4. CASE SubmitFault(j)
  BY <1>4 DEF SubmitFault, Answer, Fault
<1> QED
  BY <1>1, <1>2, <1>3, <1>4 DEF Submit

(* An agent that starts works for the job it starts.                       *)
LEMMA StartTypes ==
    ASSUME TypeInv, NEW a \in Agent, NEW j \in Job, Start(a, j)
    PROVE  /\ pc' \in [Agent -> {"idle", "running", "working", "recording"}]
           /\ job' \in [Agent -> Job \cup {NoJob}]
           /\ outcome' \in [Agent -> {"none", "ok", "error"}]
           /\ AgentsBusy'
BY DEF TypeInv, TypeOK, AgentsBusy, Busy, Start

LEMMA StopTypes ==
    ASSUME TypeInv, NEW a \in Agent, Stop(a)
    PROVE  /\ pc' \in [Agent -> {"idle", "running", "working", "recording"}]
           /\ job' \in [Agent -> Job \cup {NoJob}]
           /\ outcome' \in [Agent -> {"none", "ok", "error"}]
           /\ AgentsBusy'
BY DEF TypeInv, TypeOK, AgentsBusy, Busy, Stop

(* The steps of an agent keep the types.                                   *)
LEMMA AgentTypeInv ==
    ASSUME TypeInv, NEW a \in Agent,
           Work(a) \/ RecordFault(a) \/ Crash(a)
    PROVE  TypeInv'
<1> USE JobsAssumption DEF TypeInv, TypeOK
<1>0. CASE Begin(a)
  BY <1>0 DEF Begin, End, AgentsBusy, Busy
<1>1. CASE Execute(a)
  BY <1>1 DEF Execute, End, AgentsBusy, Busy
<1>2. CASE Record(a)
  <2>1. Stop(a)
    BY <1>2 DEF Record
  <2>2. status' \in [Job -> {"none", "pending"} \cup Terminal]
    BY <1>2 DEF Record, Terminal
  <2> QED
    BY <1>2, <2>1, <2>2, StopTypes DEF Record
<1>3. CASE RecordFault(a)
  <2>1. Stop(a)
    BY <1>3 DEF RecordFault
  <2>2. status' \in [Job -> {"none", "pending"} \cup Terminal]
    BY <1>3 DEF RecordFault, Terminal
  <2>3. hurt' \in [Job -> BOOLEAN]
    BY <1>3 DEF RecordFault
  <2> QED
    BY <1>3, <2>1, <2>2, <2>3, StopTypes DEF RecordFault, Fault
<1>4. CASE Crash(a)
  <2>1. Stop(a)
    BY <1>4 DEF Crash
  <2>2. hurt' \in [Job -> BOOLEAN]
    BY <1>4 DEF Crash
  <2> QED
    BY <1>4, <2>1, <2>2, StopTypes DEF Crash, Fault
<1> QED
  BY <1>0, <1>1, <1>2, <1>3, <1>4 DEF Work

LEMMA NextTypeInv == TypeInv /\ [Next]_vars => TypeInv'
<1> SUFFICES ASSUME TypeInv, [Next]_vars PROVE TypeInv'
  OBVIOUS
<1>1. CASE \E j \in Job : Submit(j)
  BY <1>1, SubmitTypeInv
<1>2. CASE \E w \in Worker : Take(w)
  <2>1. PICK w \in Worker, j \in queue : Start(w, j) /\ queue' = queue \ {j}
    BY <1>2 DEF Take
  <2>2. w \in Agent /\ j \in Job
    BY DEF Agent, TypeInv, TypeOK
  <2> QED
    BY <1>2, <2>1, <2>2, StartTypes DEF Take, TypeInv, TypeOK
<1>3. CASE \E r \in Runner : RunByHand(r)
  <2>1. PICK r \in Runner, j \in Job : Start(r, j) /\ manual' = manual \cup {j}
    BY <1>3 DEF RunByHand
  <2>2. r \in Agent
    BY DEF Agent
  <2> QED
    BY <1>3, <2>1, <2>2, StartTypes DEF RunByHand, TypeInv, TypeOK
<1>4. CASE \E a \in Agent : Work(a) \/ RecordFault(a) \/ Crash(a)
  BY <1>4, AgentTypeInv
<1>5. CASE DeleteGraph \/ CreateGraph
  BY <1>5 DEF DeleteGraph, CreateGraph, TypeInv, TypeOK, AgentsBusy, Busy, agentVars
<1>6. CASE UNCHANGED vars
  BY <1>6 DEF vars, TypeInv, TypeOK, AgentsBusy, Busy, agentVars
<1> QED
  BY <1>1, <1>2, <1>3, <1>4, <1>5, <1>6 DEF Next, Quiescent

LEMMA TypeInvariance == Spec => []TypeInv
BY InitTypeInv, NextTypeInv, PTL DEF Spec

(* Every value stays in its type: the jobs table never holds "running",    *)
(* which the documents list among the states of a job.                     *)
THEOREM TypeCorrect == Spec => []TypeOK
BY TypeInvariance, PTL DEF TypeInv

-----------------------------------------------------------------------------
(* A pending job has its message or its worker.                            *)

(* What an agent that is no worker does to its own state moves no job out  *)
(* of a worker's hands.                                                    *)
LEMMA StopKeepsOthers ==
    ASSUME TypeInv, NEW a \in Agent, Stop(a), NEW w \in Worker, w # a, NEW j \in Job
    PROVE  Holds(w, j)' <=> Holds(w, j)
BY DEF TypeInv, TypeOK, Agent, Stop, Holds

LEMMA StartKeepsOthers ==
    ASSUME TypeInv, NEW a \in Agent, NEW i \in Job, Start(a, i),
           NEW w \in Worker, w # a, NEW j \in Job
    PROVE  Holds(w, j)' <=> Holds(w, j)
BY DEF TypeInv, TypeOK, Agent, Start, Holds

Accounted(j) == j \in queue \/ \E w \in Worker : Holds(w, j)

(* Whoever stops, the jobs it did not hold stay accounted for.             *)
LEMMA StopAccounted ==
    ASSUME TypeInv, NEW a \in Agent, Stop(a), UNCHANGED queue,
           NEW j \in Job, Accounted(j), a \in Worker => job[a] # j
    PROVE  Accounted(j)'
<1>1. CASE j \in queue
  BY <1>1 DEF Accounted
<1>2. CASE \E w \in Worker : Holds(w, j)
  <2>1. PICK w \in Worker : Holds(w, j)
    BY <1>2
  <2>2. w # a
    BY <2>1 DEF Holds
  <2> QED
    BY <2>1, <2>2, StopKeepsOthers DEF Accounted
<1> QED
  BY <1>1, <1>2 DEF Accounted

LEMMA AgentAccounted ==
    ASSUME TypeInv, PendingAccounted, NEW a \in Agent,
           Work(a) \/ RecordFault(a) \/ Crash(a)
    PROVE  PendingAccounted'
<1> SUFFICES ASSUME NEW j \in Job,
                    Enabled, request'[j] = "accepted", status'[j] = "pending", ~hurt'[j]
             PROVE  Accounted(j)'
  BY DEF PendingAccounted, Accounted
<1>1. CASE Begin(a) \/ Execute(a)
  <2>1. Accounted(j)
    BY <1>1 DEF Begin, Execute, PendingAccounted, Accounted
  <2>2. \A w \in Worker : Holds(w, j) => Holds(w, j)'
    BY <1>1 DEF Begin, Execute, End, Holds, TypeInv, TypeOK, Agent
  <2> QED
    BY <1>1, <2>1, <2>2 DEF Begin, Execute, Accounted
<1>2. CASE Record(a)
  <2>1. job[a] # j /\ status[j] = "pending"
    BY <1>2 DEF Record, TypeInv, TypeOK, AgentsBusy, Busy
  <2>2. Accounted(j)
    BY <1>2, <2>1 DEF Record, PendingAccounted, Accounted
  <2> QED
    BY <1>2, <2>1, <2>2, StopAccounted DEF Record
<1>3. CASE RecordFault(a)
  <2>1. ~hurt[j] /\ (a \in Worker => job[a] # j)
    BY <1>3 DEF RecordFault, TypeInv, TypeOK, AgentsBusy, Busy
  <2>2. status[j] = "pending"
    BY <1>3 DEF RecordFault, TypeInv, TypeOK
  <2>3. Accounted(j)
    BY <1>3, <2>1, <2>2 DEF RecordFault, PendingAccounted, Accounted
  <2> QED
    BY <1>3, <2>1, <2>3, StopAccounted DEF RecordFault
<1>4. CASE Crash(a)
  <2>1. ~hurt[j] /\ (a \in Worker => job[a] # j)
    BY <1>4 DEF Crash, TypeInv, TypeOK, AgentsBusy, Busy
  <2>2. Accounted(j)
    BY <1>4, <2>1 DEF Crash, PendingAccounted, Accounted
  <2> QED
    BY <1>4, <2>1, <2>2, StopAccounted DEF Crash
<1> QED
  BY <1>1, <1>2, <1>3, <1>4 DEF Work

LEMMA NextAccounted == TypeInv /\ PendingAccounted /\ [Next]_vars => PendingAccounted'
<1> SUFFICES ASSUME TypeInv, PendingAccounted, [Next]_vars PROVE PendingAccounted'
  OBVIOUS
<1>1. CASE \E i \in Job : Submit(i)
  <2>1. PICK i \in Job : Submit(i)
    BY <1>1
  <2> SUFFICES ASSUME NEW j \in Job, Enabled, request'[j] = "accepted",
                      status'[j] = "pending", ~hurt'[j]
               PROVE  Accounted(j)'
    BY DEF PendingAccounted, Accounted
  <2>2. UNCHANGED agentVars /\ queue \subseteq queue' /\ UNCHANGED hurt
    BY <2>1 DEF Submit, SubmitCheck, Register, Dispatch, SubmitFault
  <2>3. Accounted(j) => Accounted(j)'
    BY <2>2 DEF Accounted, Holds, agentVars
  <2>4. CASE Dispatch(i) /\ i = j
    BY <2>4 DEF Dispatch, Accounted
  <2>5. CASE ~(Dispatch(i) /\ i = j)
    <3>1. request[j] = "accepted" /\ status[j] = "pending"
      BY <2>1, <2>5 DEF Submit, SubmitCheck, Register, Dispatch, SubmitFault, Answer,
                        TypeInv, TypeOK
    <3> QED
      BY <2>2, <2>3, <3>1 DEF PendingAccounted, Accounted
  <2> QED
    BY <2>4, <2>5
<1>2. CASE \E w \in Worker : Take(w)
  <2>1. PICK w \in Worker, i \in queue : Start(w, i) /\ queue' = queue \ {i}
    BY <1>2 DEF Take
  <2> SUFFICES ASSUME NEW j \in Job, Enabled, request'[j] = "accepted",
                      status'[j] = "pending", ~hurt'[j]
               PROVE  Accounted(j)'
    BY DEF PendingAccounted, Accounted
  <2>2. w \in Agent /\ i \in Job /\ pc[w] = "idle"
    BY <2>1 DEF Agent, TypeInv, TypeOK, Start
  <2>3. Accounted(j)
    BY <1>2 DEF Take, PendingAccounted, Accounted
  <2>4. CASE i = j
    BY <2>1, <2>2, <2>4 DEF Start, Accounted, Holds, TypeInv, TypeOK
  <2>5. CASE i # j
    <3>1. \A v \in Worker : Holds(v, j) => v # w
      BY <2>2 DEF Holds
    <3> QED
      BY <2>1, <2>2, <2>3, <2>5, <3>1, StartKeepsOthers DEF Accounted
  <2> QED
    BY <2>4, <2>5
<1>3. CASE \E r \in Runner : RunByHand(r)
  <2>1. PICK r \in Runner, i \in Job : Start(r, i)
    BY <1>3 DEF RunByHand
  <2>2. r \in Agent /\ r \notin Worker
    BY JobsAssumption DEF Agent
  <2>3. \A w \in Worker, j \in Job : Holds(w, j)' <=> Holds(w, j)
    BY <2>1, <2>2, StartKeepsOthers
  <2> QED
    BY <1>3, <2>3 DEF RunByHand, PendingAccounted
<1>4. CASE \E a \in Agent : Work(a) \/ RecordFault(a) \/ Crash(a)
  BY <1>4, AgentAccounted
<1>5. CASE DeleteGraph \/ CreateGraph
  BY <1>5 DEF DeleteGraph, CreateGraph, PendingAccounted, Holds, agentVars
<1>6. CASE UNCHANGED vars
  BY <1>6 DEF vars, agentVars, PendingAccounted, Holds
<1> QED
  BY <1>1, <1>2, <1>3, <1>4, <1>5, <1>6 DEF Next, Quiescent

(* A pending job a client was told about is never lost between the broker  *)
(* and the workers, however many workers, manual runs and faults there     *)
(* are, unless a fault hit the worker that had it.                         *)
THEOREM PendingAreAccounted == Spec => []PendingAccounted
<1>1. Init => PendingAccounted
  BY DEF Init, PendingAccounted
<1> QED
  BY <1>1, NextAccounted, TypeInvariance, PTL DEF Spec

-----------------------------------------------------------------------------
(* A job that nobody runs by hand is in one place at a time: with the      *)
(* handler that registers it, at the broker, or with one worker; as long   *)
(* as it is, it has not ended, and is applied only if that worker has just *)
(* applied it; and when it has ended its status is true.                   *)

AtHandler ==
    \A j \in Job :
        /\ request[j] \in {"unsent", "checked"} =>
               status[j] = "none" /\ applied[j] = 0 /\ j \notin manual
        /\ request[j] = "registered" /\ j \notin manual =>
               status[j] = "pending" /\ applied[j] = 0

AtBroker ==
    \A j \in queue : /\ request[j] = "accepted"
                     /\ \A w \in Worker : ~Holds(w, j)
                     /\ j \notin manual => status[j] = "pending" /\ applied[j] = 0

Carried(w) == IF pc[w] = "recording" /\ outcome[w] = "ok" THEN 1 ELSE 0

AtWorker ==
    \A w \in Worker :
        Busy(w) => /\ request[job[w]] = "accepted"
                   /\ \A v \in Worker : Busy(v) /\ job[v] = job[w] => v = w
                   /\ job[w] \notin manual =>
                          status[job[w]] = "pending" /\ applied[job[w]] = Carried(w)

(* Server threads hold nothing but jobs that are run by hand.              *)
ByHand == \A r \in Runner : Busy(r) => job[r] \in manual

(* A job nobody runs by hand is applied once at most; success says that it *)
(* was and failure that it was not, whatever is done to other jobs, and    *)
(* whatever crashes and failed writes there are.                           *)
TrueUnlessByHand ==
    \A j \in Job \ manual :
        /\ applied[j] \in {0, 1}
        /\ status[j] = "success" => applied[j] = 1
        /\ status[j] = "failed" => applied[j] = 0

OnePlace == TypeInv /\ AtHandler /\ AtBroker /\ AtWorker /\ ByHand /\ TrueUnlessByHand

LEMMA InitOnePlace == Init => OnePlace
<1>1. Init => AtHandler /\ AtBroker /\ AtWorker /\ ByHand
  BY DEF Init, AtHandler, AtBroker, AtWorker, ByHand, Busy, Agent
<1>2. Init => TrueUnlessByHand
  BY DEF Init, TrueUnlessByHand
<1> QED
  BY <1>1, <1>2, InitTypeInv DEF OnePlace

LEMMA SubmitOnePlace ==
    ASSUME OnePlace, NEW i \in Job, Submit(i)
    PROVE  AtHandler' /\ AtBroker' /\ AtWorker' /\ ByHand' /\ TrueUnlessByHand'
<1> USE DEF OnePlace, TypeInv, TypeOK
<1>0. \A w \in Worker : Busy(w) => job[w] \in Job
  BY DEF AgentsBusy, Agent
<1>1. CASE SubmitCheck(i)
  <2>1. AtHandler'
    BY <1>1 DEF SubmitCheck, Answer, AtHandler
  <2>2. AtBroker'
    BY <1>1 DEF SubmitCheck, Answer, AtBroker, Holds, agentVars
  <2>3. AtWorker'
    BY <1>0, <1>1 DEF SubmitCheck, Answer, AtWorker, Carried, Busy, agentVars
  <2>4. ByHand' /\ TrueUnlessByHand'
    BY <1>1 DEF SubmitCheck, ByHand, TrueUnlessByHand, Busy, agentVars
  <2> QED
    BY <2>1, <2>2, <2>3, <2>4
<1>2. CASE Register(i)
  <2>1. AtHandler'
    BY <1>2 DEF Register, Answer, AtHandler
  <2>2. AtBroker'
    BY <1>2 DEF Register, Answer, AtBroker, Holds, agentVars
  <2>3. AtWorker'
    BY <1>0, <1>2 DEF Register, Answer, AtWorker, Carried, Busy, agentVars
  <2>4. ByHand' /\ TrueUnlessByHand'
    BY <1>2 DEF Register, ByHand, TrueUnlessByHand, Busy, agentVars
  <2> QED
    BY <2>1, <2>2, <2>3, <2>4
<1>3. CASE Dispatch(i)
  <2>1. AtHandler'
    BY <1>3 DEF Dispatch, Answer, AtHandler
  <2>2. \A w \in Worker : ~Holds(w, i)
    BY <1>3 DEF Dispatch, AtWorker, Holds, Busy
  <2>3. AtBroker'
    BY <1>3, <2>2 DEF Dispatch, Answer, AtBroker, AtHandler, Holds, agentVars
  <2>4. AtWorker'
    BY <1>0, <1>3 DEF Dispatch, Answer, AtWorker, Carried, Busy, agentVars
  <2>5. ByHand' /\ TrueUnlessByHand'
    BY <1>3 DEF Dispatch, ByHand, TrueUnlessByHand, Busy, agentVars
  <2> QED
    BY <2>1, <2>3, <2>4, <2>5
<1>4. CASE SubmitFault(i)
  <2>1. AtHandler'
    BY <1>4 DEF SubmitFault, Answer, AtHandler
  <2>2. AtBroker'
    BY <1>4 DEF SubmitFault, Answer, AtBroker, Holds, agentVars
  <2>3. AtWorker'
    BY <1>0, <1>4 DEF SubmitFault, Answer, AtWorker, Carried, Busy, agentVars
  <2>4. ByHand' /\ TrueUnlessByHand'
    BY <1>4 DEF SubmitFault, ByHand, TrueUnlessByHand, Busy, agentVars
  <2> QED
    BY <2>1, <2>2, <2>3, <2>4
<1> QED
  BY <1>1, <1>2, <1>3, <1>4 DEF Submit

LEMMA TakeOnePlace ==
    ASSUME OnePlace, NEW w \in Worker, Take(w)
    PROVE  AtHandler' /\ AtBroker' /\ AtWorker' /\ ByHand' /\ TrueUnlessByHand'
<1> USE DEF OnePlace, TypeInv, TypeOK
<1>1. PICK j \in queue : Start(w, j) /\ queue' = queue \ {j}
  BY DEF Take
<1>2. w \in Agent /\ j \in Job /\ ~Busy(w)
  BY <1>1 DEF Agent, Start, Busy
<1>3. AtHandler'
  BY DEF Take, AtHandler
<1>4. \A i \in queue \ {j}, v \in Worker : ~Holds(v, i)'
  <2> SUFFICES ASSUME NEW i \in queue \ {j}, NEW v \in Worker PROVE ~Holds(v, i)'
    OBVIOUS
  <2>1. CASE v = w
    BY <1>1, <1>2, <2>1 DEF Start, Holds
  <2>2. CASE v # w
    BY <1>1, <1>2, <2>2, StartKeepsOthers DEF AtBroker
  <2> QED
    BY <2>1, <2>2
<1>5. AtBroker'
  BY <1>1, <1>4 DEF Take, AtBroker
<1>6. \A v \in Worker : Busy(v) => job[v] # j
  BY DEF AtBroker, Holds, Busy
<1>7. AtWorker'
  <2>1. \A v \in Worker : v # w => UNCHANGED <<pc[v], job[v], outcome[v]>>
    BY <1>1, <1>2 DEF Start, Agent
  <2>2. job'[w] = j /\ pc'[w] = "running"
    BY <1>1, <1>2 DEF Start
  <2>3. UNCHANGED <<request, status, applied, manual>>
    BY DEF Take
  <2> QED
    BY <1>1, <1>2, <1>6, <2>1, <2>2, <2>3 DEF AtBroker, AtWorker, Carried, Busy
<1>8. ByHand'
  <2>1. w \notin Runner
    BY JobsAssumption
  <2> QED
    BY <1>1, <1>2, <2>1 DEF Take, Start, ByHand, Busy, Agent
<1>9. TrueUnlessByHand'
  BY DEF Take, TrueUnlessByHand
<1> QED
  BY <1>3, <1>5, <1>7, <1>8, <1>9

(* Whoever takes a job by hand makes it one that is run by hand.           *)
LEMMA RunByHandOnePlace ==
    ASSUME OnePlace, NEW r \in Runner, RunByHand(r)
    PROVE  AtHandler' /\ AtBroker' /\ AtWorker' /\ ByHand' /\ TrueUnlessByHand'
<1> USE DEF OnePlace, TypeInv, TypeOK
<1>1. PICK j \in Job : /\ status[j] = "pending" /\ Start(r, j)
                       /\ manual' = manual \cup {j}
  BY DEF RunByHand
<1>2. r \in Agent /\ r \notin Worker
  BY JobsAssumption DEF Agent
<1>3. AtHandler'
  BY <1>1 DEF RunByHand, AtHandler
<1>4. \A w \in Worker, i \in Job : Holds(w, i)' <=> Holds(w, i)
  BY <1>1, <1>2, StartKeepsOthers
<1>5. AtBroker'
  BY <1>1, <1>4 DEF RunByHand, AtBroker
<1>6. \A w \in Worker : UNCHANGED <<pc[w], job[w], outcome[w]>>
  BY <1>1, <1>2 DEF Start, Agent
<1>7. AtWorker'
  BY <1>1, <1>6 DEF RunByHand, AtWorker, Carried, Busy
<1>8. ByHand'
  BY <1>1, <1>2 DEF Start, ByHand, Busy, Agent
<1>9. TrueUnlessByHand'
  BY <1>1 DEF RunByHand, TrueUnlessByHand
<1> QED
  BY <1>3, <1>5, <1>7, <1>8, <1>9

(* A worker that goes on with its task: it alone moves, and its job is     *)
(* applied as its own state says.                                          *)
LEMMA GoOnePlace ==
    ASSUME OnePlace, NEW w \in Worker, Begin(w) \/ Execute(w)
    PROVE  AtHandler' /\ AtBroker' /\ AtWorker' /\ ByHand' /\ TrueUnlessByHand'
<1> USE DEF OnePlace, TypeInv, TypeOK
<1>0. w \in Agent /\ w \notin Runner
  BY JobsAssumption DEF Agent
<1>1. Busy(w) /\ Busy(w)' /\ job[w] \in Job /\ request[job[w]] = "accepted"
  BY <1>0 DEF Begin, Execute, End, Busy, AgentsBusy, AtWorker
<1>2. UNCHANGED <<status, request, queue, job, manual>>
  BY DEF Begin, Execute
<1>3. \A i \in Job : i # job[w] => applied'[i] = applied[i]
  BY DEF Begin, Execute
<1>4. \A v \in Agent : v # w => pc'[v] = pc[v] /\ outcome'[v] = outcome[v]
  BY <1>0 DEF Begin, Execute, End
<1>5. job[w] \notin manual => applied'[job[w]] = Carried(w)'
  <2>1. CASE Begin(w)
    BY <1>0, <1>1, <2>1 DEF Begin, End, AtWorker, Carried
  <2>2. CASE Execute(w)
    BY <1>0, <1>1, <2>2 DEF Execute, End, AtWorker, Carried
  <2> QED
    BY <2>1, <2>2
<1>6. AtHandler'
  BY <1>1, <1>2, <1>3 DEF AtHandler
<1>7. \A v \in Worker, i \in Job : Holds(v, i)' <=> Holds(v, i)
  BY <1>1, <1>2, <1>4 DEF Holds, Busy, Agent
<1>8. \A i \in queue : i # job[w]
  BY <1>1 DEF AtBroker, Holds, Busy
<1>9. AtBroker'
  BY <1>2, <1>3, <1>7, <1>8 DEF AtBroker
<1>10. \A v \in Worker : v # w => /\ Busy(v)' <=> Busy(v)
                                  /\ Carried(v)' = Carried(v)
                                  /\ Busy(v) => job[v] \in Job /\ job[v] # job[w]
  BY <1>1, <1>4 DEF Busy, Carried, Agent, AgentsBusy, AtWorker
<1>11. AtWorker'
  BY <1>1, <1>2, <1>3, <1>5, <1>10 DEF AtWorker
<1>12. ByHand'
  BY <1>0, <1>2, <1>4 DEF ByHand, Busy, Agent
<1>13. TrueUnlessByHand'
  <2>1. job[w] \notin manual => /\ status[job[w]] = "pending"
                                /\ applied'[job[w]] \in {0, 1}
    BY <1>1, <1>5 DEF AtWorker, Carried
  <2> QED
    BY <1>2, <1>3, <2>1 DEF TrueUnlessByHand
<1> QED
  BY <1>6, <1>9, <1>11, <1>12, <1>13

(* A worker that stops leaves its job and the others as they are, or       *)
(* writes down how the task ended.                                         *)
LEMMA StopOnePlace ==
    ASSUME OnePlace, NEW w \in Worker, Record(w) \/ RecordFault(w) \/ Crash(w)
    PROVE  AtHandler' /\ AtBroker' /\ AtWorker' /\ ByHand' /\ TrueUnlessByHand'
<1> USE DEF OnePlace, TypeInv, TypeOK
<1>0. w \in Agent /\ w \notin Runner
  BY JobsAssumption DEF Agent
<1>1. Busy(w) /\ job[w] \in Job /\ request[job[w]] = "accepted"
  BY <1>0 DEF Record, RecordFault, Crash, Busy, AgentsBusy, AtWorker
<1>2. Stop(w) /\ UNCHANGED <<request, queue, applied, manual>>
  BY DEF Record, RecordFault, Crash
<1>3. \A i \in Job : i # job[w] => status'[i] = status[i]
  BY <1>0 DEF Record, RecordFault, Crash
<1>4. \A v \in Agent : v # w => UNCHANGED <<pc[v], job[v], outcome[v]>>
  BY <1>2 DEF Stop
<1>5. ~Busy(w)'
  BY <1>0, <1>2 DEF Stop, Busy
<1>6. AtHandler'
  BY <1>1, <1>2, <1>3 DEF AtHandler
<1>7. \A i \in queue : i # job[w] /\ \A v \in Worker : ~Holds(v, i)'
  BY <1>1, <1>4, <1>5 DEF AtBroker, Holds, Busy, Agent
<1>8. AtBroker'
  BY <1>2, <1>3, <1>7 DEF AtBroker
<1>9. \A v \in Worker : Busy(v)' => /\ v # w /\ Busy(v) /\ job[v] \in Job
                                    /\ job[v] # job[w]
                                    /\ UNCHANGED <<pc[v], job[v], outcome[v]>>
  BY <1>1, <1>4, <1>5 DEF Busy, AtWorker, AgentsBusy, Agent
<1>10. AtWorker'
  BY <1>2, <1>3, <1>9 DEF AtWorker, Carried
<1>11. ByHand'
  BY <1>0, <1>2, <1>4 DEF ByHand, Busy, Agent
<1>12. TrueUnlessByHand'
  <2>1. job[w] \notin manual =>
            \/ status'[job[w]] = "pending"
            \/ /\ pc[w] = "recording"
               /\ status'[job[w]] = IF outcome[w] = "ok" THEN "success" ELSE "failed"
    BY <1>0, <1>1 DEF Record, RecordFault, Crash, AtWorker
  <2>2. job[w] \notin manual => applied[job[w]] = Carried(w)
    BY <1>1 DEF AtWorker
  <2> QED
    BY <1>2, <1>3, <2>1, <2>2 DEF TrueUnlessByHand, Carried
<1> QED
  BY <1>6, <1>8, <1>10, <1>11, <1>12

(* A server thread touches only the job it was told to run.                *)
LEMMA RunnerOnePlace ==
    ASSUME OnePlace, NEW r \in Runner, Work(r) \/ RecordFault(r) \/ Crash(r)
    PROVE  AtHandler' /\ AtBroker' /\ AtWorker' /\ ByHand' /\ TrueUnlessByHand'
<1> USE DEF OnePlace, TypeInv, TypeOK
<1>0. r \in Agent /\ r \notin Worker
  BY JobsAssumption DEF Agent
<1>1. Busy(r) /\ job[r] \in Job /\ job[r] \in manual
  BY <1>0 DEF Work, Begin, Execute, Record, RecordFault, Crash, Busy, AgentsBusy, ByHand
<1>2. UNCHANGED <<request, queue, manual>>
  BY DEF Work, Begin, Execute, Record, RecordFault, Crash
<1>3. \A i \in Job : i # job[r] => status'[i] = status[i] /\ applied'[i] = applied[i]
  BY <1>0 DEF Work, Begin, Execute, Record, RecordFault, Crash
<1>4. \A v \in Agent : v # r => UNCHANGED <<pc[v], job[v], outcome[v]>>
  BY <1>0 DEF Work, Begin, Execute, Record, RecordFault, Crash, End, Stop
<1>5. Busy(r)' => job'[r] = job[r]
  BY <1>0 DEF Work, Begin, Execute, Record, RecordFault, Crash, End, Stop, Busy
<1>6. AtHandler'
  BY <1>1, <1>2, <1>3 DEF AtHandler
<1>7. \A w \in Worker : UNCHANGED <<pc[w], job[w], outcome[w]>>
  BY <1>0, <1>4 DEF Agent
<1>8. AtBroker'
  BY <1>1, <1>2, <1>3, <1>7 DEF AtBroker, Holds
<1>9. AtWorker'
  <2>1. \A w \in Worker : Busy(w) => job[w] \in Job
    BY DEF AgentsBusy, Agent
  <2> QED
    BY <1>1, <1>2, <1>3, <1>7, <2>1 DEF AtWorker, Carried, Busy
<1>10. ByHand'
  BY <1>1, <1>2, <1>4, <1>5 DEF ByHand, Busy, Agent
<1>11. TrueUnlessByHand'
  BY <1>1, <1>2, <1>3 DEF TrueUnlessByHand
<1> QED
  BY <1>6, <1>8, <1>9, <1>10, <1>11

LEMMA NextOnePlace == OnePlace /\ [Next]_vars => OnePlace'
<1> SUFFICES ASSUME OnePlace, [Next]_vars PROVE OnePlace'
  OBVIOUS
<1>1. TypeInv'
  BY NextTypeInv DEF OnePlace
<1>2. CASE \E j \in Job : Submit(j)
  BY <1>1, <1>2, SubmitOnePlace DEF OnePlace
<1>3. CASE \E w \in Worker : Take(w)
  BY <1>1, <1>3, TakeOnePlace DEF OnePlace
<1>4. CASE \E r \in Runner : RunByHand(r)
  BY <1>1, <1>4, RunByHandOnePlace DEF OnePlace
<1>5. CASE \E a \in Agent : Work(a) \/ RecordFault(a) \/ Crash(a)
  BY <1>1, <1>5, GoOnePlace, StopOnePlace, RunnerOnePlace DEF OnePlace, Agent, Work
<1>6. CASE DeleteGraph \/ CreateGraph \/ UNCHANGED vars
  <2>1. UNCHANGED <<status, request, queue, pc, job, outcome, applied, manual>>
    BY <1>6 DEF DeleteGraph, CreateGraph, vars, agentVars
  <2> QED
    BY <1>1, <2>1 DEF OnePlace, AtHandler, AtBroker, AtWorker, ByHand, TrueUnlessByHand,
                      Carried, Busy, Holds
<1> QED
  BY <1>2, <1>3, <1>4, <1>5, <1>6 DEF Next, Quiescent

LEMMA OnePlaceAlways == Spec => []OnePlace
BY InitOnePlace, NextOnePlace, PTL DEF Spec

(* A job that nobody runs by hand is applied once at most, and its status  *)
(* tells the truth, whatever is run by hand besides, and whatever crashes, *)
(* failed writes, deletes and creates of the graph there are.  (A job that *)
(* is run by hand may be applied by both: nothing claims the row.)         *)
THEOREM JobsTrueUnlessByHand == Spec => []TrueUnlessByHand
BY OnePlaceAlways, PTL DEF OnePlace

-----------------------------------------------------------------------------
(* Jobs implements JobPromise.                                             *)

(* What an agent does to the rows: a worker that has the only hold of its  *)
(* job applies it or ends it; for a job that is run by hand, anybody does  *)
(* once more.                                                              *)
LEMMA AgentKeepsPromise ==
    ASSUME OnePlace, NEW a \in Agent, Execute(a) \/ Record(a) \/ RecordFault(a)
    PROVE  Promise!Next \/ UNCHANGED <<status, applied, manual>>
<1> USE DEF OnePlace, TypeInv, TypeOK
<1>1. /\ Busy(a) /\ job[a] \in Job /\ UNCHANGED manual
      /\ a \in Runner => job[a] \in manual
  BY DEF Execute, Record, RecordFault, Busy, AgentsBusy, ByHand
<1>2. CASE job[a] \in manual
  <2>1. CASE Execute(a)
    <3>1. Promise!ApplyAgain(job[a]) \/ UNCHANGED <<status, applied, manual>>
      BY <1>1, <1>2, <2>1 DEF Execute, Promise!ApplyAgain
    <3> QED
      BY <1>1, <3>1 DEF Promise!Next
  <2>2. CASE Record(a) \/ RecordFault(a)
    <3>1. Promise!EndAgain(job[a]) \/ UNCHANGED <<status, applied, manual>>
      BY <1>1, <1>2, <2>2 DEF Record, RecordFault, Promise!EndAgain
    <3> QED
      BY <1>1, <3>1 DEF Promise!Next
  <2> QED
    BY <2>1, <2>2
<1>3. CASE job[a] \notin manual
  <2>1. a \in Worker /\ a \notin Runner
    BY <1>1, <1>3 DEF Agent
  <2>2. status[job[a]] = "pending" /\ applied[job[a]] = Carried(a)
    BY <1>1, <1>3, <2>1 DEF AtWorker
  <2>3. CASE Execute(a)
    <3>1. applied[job[a]] = 0
      BY <2>2, <2>3 DEF Execute, Carried
    <3>2. Promise!Apply(job[a]) \/ UNCHANGED <<status, applied, manual>>
      BY <1>1, <2>2, <2>3, <3>1 DEF Execute, Promise!Apply
    <3> QED
      BY <1>1, <3>2 DEF Promise!Next
  <2>4. CASE Record(a)
    <3>1. applied[job[a]] = IF outcome[a] = "ok" THEN 1 ELSE 0
      BY <2>2, <2>4 DEF Record, Carried
    <3>2. Promise!Succeed(job[a]) \/ Promise!Fail(job[a])
      BY <1>1, <2>2, <2>4, <3>1 DEF Record, Promise!Succeed, Promise!Fail
    <3> QED
      BY <1>1, <3>2 DEF Promise!Next
  <2>5. CASE RecordFault(a)
    BY <1>1, <2>1, <2>5 DEF RecordFault
  <2> QED
    BY <2>3, <2>4, <2>5
<1> QED
  BY <1>2, <1>3

(* The row is written by Register, the task applied by Execute, the end    *)
(* recorded by Record; everything else is a stutter or a run by hand.      *)
LEMMA StepKeepsPromise ==
    ASSUME OnePlace, [Next]_vars
    PROVE  [Promise!Next]_(Promise!vars)
<1> SUFFICES Promise!Next \/ UNCHANGED <<status, applied, manual>>
  BY DEF Promise!vars
<1>1. CASE \E j \in Job : Submit(j)
  <2>1. PICK j \in Job : Submit(j)
    BY <1>1
  <2>2. CASE Register(j)
    <3>1. Promise!Register(j)
      BY <2>2 DEF Register, Promise!Register, OnePlace, AtHandler
    <3> QED
      BY <3>1 DEF Promise!Next
  <2> QED
    BY <2>1, <2>2 DEF Submit, SubmitCheck, Dispatch, SubmitFault
<1>2. CASE \E w \in Worker : Take(w)
  BY <1>2 DEF Take
<1>3. CASE \E r \in Runner : RunByHand(r)
  <2>1. PICK j \in Job : Promise!RunByHand(j)
    BY <1>3 DEF RunByHand, Promise!RunByHand
  <2> QED
    BY <2>1 DEF Promise!Next
<1>4. CASE \E a \in Agent : Work(a) \/ RecordFault(a) \/ Crash(a)
  <2>1. PICK a \in Agent : Work(a) \/ RecordFault(a) \/ Crash(a)
    BY <1>4
  <2>2. CASE Begin(a) \/ Crash(a)
    BY <2>2 DEF Begin, Crash
  <2> QED
    BY <2>1, <2>2, AgentKeepsPromise DEF Work
<1>5. CASE DeleteGraph \/ CreateGraph \/ UNCHANGED vars
  BY <1>5 DEF DeleteGraph, CreateGraph, vars
<1> QED
  BY <1>1, <1>2, <1>3, <1>4, <1>5 DEF Next, Quiescent

(* Workers apply a job at most once, call no job a success that was not    *)
(* applied or a failure that was, and leave a finished job as it is,       *)
(* whatever crashes and failed writes there are; only a job that somebody  *)
(* runs by hand may be applied and end again.                              *)
THEOREM JobsKeepPromise == Spec => KeepsPromise
<1>1. Init => Promise!Init
  BY DEF Init, Promise!Init
<1>2. OnePlace /\ [Next]_vars => [Promise!Next]_(Promise!vars)
  BY StepKeepsPromise
<1> QED
  BY <1>1, <1>2, OnePlaceAlways, PTL DEF Spec, KeepsPromise, Promise!Spec
=============================================================================
