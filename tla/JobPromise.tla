---------------------------- MODULE JobPromise -----------------------------
(***************************************************************************)
(* What a caller of the asynchronous build may expect of a job: its work   *)
(* is applied at most once, a job that succeeded was applied, one that     *)
(* failed was not, and a finished job stays as it is.  Whoever runs a job  *)
(* by hand gives that up for this job, which may then be applied again and *)
(* end again; but it stays ended, and the other jobs keep their promise.   *)
(***************************************************************************)
EXTENDS Naturals

CONSTANT Job

VARIABLES status,   \* the status of each job; "none" before it is registered
          applied,  \* how often the work of each job has been carried out
          manual    \* the jobs that somebody ran by hand

vars == <<status, applied, manual>>

Init ==
    /\ status = [j \in Job |-> "none"]
    /\ applied = [j \in Job |-> 0]
    /\ manual = {}

Register(j) ==
    /\ status[j] = "none"
    /\ status' = [status EXCEPT ![j] = "pending"]
    /\ UNCHANGED <<applied, manual>>

Apply(j) ==
    /\ status[j] = "pending"
    /\ applied[j] = 0
    /\ applied' = [applied EXCEPT ![j] = 1]
    /\ UNCHANGED <<status, manual>>

Succeed(j) ==
    /\ status[j] = "pending"
    /\ applied[j] = 1
    /\ status' = [status EXCEPT ![j] = "success"]
    /\ UNCHANGED <<applied, manual>>

Fail(j) ==
    /\ status[j] = "pending"
    /\ applied[j] = 0
    /\ status' = [status EXCEPT ![j] = "failed"]
    /\ UNCHANGED <<applied, manual>>

RunByHand(j) ==
    /\ status[j] = "pending"
    /\ manual' = manual \cup {j}
    /\ UNCHANGED <<status, applied>>

ApplyAgain(j) ==
    /\ j \in manual
    /\ applied' = [applied EXCEPT ![j] = @ + 1]
    /\ UNCHANGED <<status, manual>>

EndAgain(j) ==
    /\ j \in manual
    /\ \E end \in {"success", "failed"} : status' = [status EXCEPT ![j] = end]
    /\ UNCHANGED <<applied, manual>>

Next ==
    \E j \in Job :
        \/ Register(j) \/ Apply(j) \/ Succeed(j) \/ Fail(j)
        \/ RunByHand(j) \/ ApplyAgain(j) \/ EndAgain(j)

Spec == Init /\ [][Next]_vars
=============================================================================
