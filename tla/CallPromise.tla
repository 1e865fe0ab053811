---------------------------- MODULE CallPromise -----------------------------
(***************************************************************************)
(* What the SDK promises of a call, seen by the program that makes it: the *)
(* call returns; a definite answer tells what was done; and what a call    *)
(* does it does once, or as often as it was allowed to be sent.            *)
(***************************************************************************)
EXTENDS Naturals

CONSTANTS Call, Outcome,
          Refusal,   \* the outcomes that say that nothing was done
          MaxDone    \* how often a call may be done at most

VARIABLES
    phase,     \* per call: "idle", "open" or its outcome
    done,      \* per call: how often the server has done it
    allowed    \* per call: how often it may be done

vars == <<phase, done, allowed>>

Init ==
    /\ phase = [k \in Call |-> "idle"]
    /\ done = [k \in Call |-> 0]
    /\ allowed = [k \in Call |-> 0]

Issue(k) ==
    /\ phase[k] = "idle"
    /\ phase' = [phase EXCEPT ![k] = "open"]
    /\ \E n \in 1 .. MaxDone : allowed' = [allowed EXCEPT ![k] = n]
    /\ UNCHANGED done

(* Also after the call has returned, if it was in doubt or sent again.     *)
Do(k) ==
    /\ phase[k] # "idle"
    /\ phase[k] \in {"ok"} \cup Refusal => allowed[k] > 1
    /\ done[k] < allowed[k]
    /\ done' = [done EXCEPT ![k] = @ + 1]
    /\ UNCHANGED <<phase, allowed>>

Return(k) ==
    /\ phase[k] = "open"
    /\ \E o \in Outcome :
        /\ o = "ok" => done[k] > 0
        /\ o \in Refusal => done[k] = 0 \/ allowed[k] > 1
        /\ phase' = [phase EXCEPT ![k] = o]
    /\ UNCHANGED <<done, allowed>>

Next == \E k \in Call : Issue(k) \/ Do(k) \/ Return(k)

Spec == Init /\ [][Next]_vars /\ \A k \in Call : WF_vars(Return(k))
=============================================================================
