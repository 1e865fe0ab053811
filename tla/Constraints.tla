---------------------------- MODULE Constraints ----------------------------
(***************************************************************************)
(* The extraction constraints of ONE graph (domain/constraints.py): the    *)
(* profile that corrections made by people leave with the graph, how       *)
(* requests add to it (_absorb_constraints of application/service.py), and *)
(* how builds apply it to what they are about to store.                    *)
(*                                                                         *)
(* A profile is its rename table and its blacklist.  The type tables       *)
(* follow the rule of the rename table and the examples that of the        *)
(* blacklist.  Absorbing a profile is a read, a merge in Python, and a     *)
(* write, in separate store calls: no lock spans them, in one process as   *)
(* in several.                                                             *)
(***************************************************************************)
EXTENDS Naturals

CONSTANTS Thread, Name,
          Profile,      \* the profiles requests carry
          Request,      \* the requests clients may send
          MaxRequests   \* bound on the number of requests served

Rename == UNION {[S -> Name] : S \in SUBSET Name}
ProfileType == [renames : Rename, banned : SUBSET Name]

(* The records of a batch: entities by name, those of them that carry an   *)
(* entityId, and relations between entityIds.                              *)
BatchType == [names : SUBSET Name, identified : SUBSET Name,
              edges : SUBSET (Name \X Name)]

Op == {"put", "text", "records"}
Stage == Op \cup {"draft"}
RequestType == [op : Op, profile : Profile, batch : BatchType]

NoProfile == [renames |-> [n \in {} |-> n], banned |-> {}]
NoBatch == [names |-> {}, identified |-> {}, edges |-> {}]

ASSUME ProfileAssumption == Profile \subseteq ProfileType /\ MaxRequests \in Nat
ASSUME RequestAssumption ==
    /\ Request \subseteq RequestType
    /\ \A r \in Request : /\ r.batch.identified \subseteq r.batch.names
                          /\ r.op # "records" => r.batch.identified = {}

VARIABLES
    exists,    \* whether the graph exists
    stored,    \* the profile in the store, NoProfile without a row
    pc,        \* per thread: where it is
    stage,     \* per thread: what it does with the profile once absorbed
    asked,     \* per thread: the profile of its request
    batch,     \* per thread: the batch as it stands
    seen,      \* per thread: the profile it read
    used,      \* per thread: the profile it goes on with
    promised,  \* history: all that requests have added since the last delete
    due,       \* history: per thread, the names it must not let in
    raced,     \* history: a profile was written over one it was not made from
    unsaved,   \* history: a profile could not be written
    served     \* how many requests have been accepted

work == <<stage, asked, batch, seen, used, due>>
vars == <<exists, stored, pc, work, promised, raced, unsaved, served>>

PC == {"idle", "require", "read", "save", "write", "apply", "store"}

-----------------------------------------------------------------------------
(* ExtractionConstraints.                                                  *)

Merged(old, new) ==
    [renames |-> [n \in DOMAIN old.renames \cup DOMAIN new.renames |->
                    IF n \in DOMAIN new.renames THEN new.renames[n]
                                                ELSE old.renames[n]],
     banned |-> old.banned \cup new.banned]

Canonical(p, n) == IF n \in DOMAIN p.renames THEN p.renames[n] ELSE n

(* apply_candidates: the blacklist looks at the name as it was extracted,  *)
(* and a rename is not followed further.  The relations of a text are      *)
(* extracted afterwards, between the entities that are left.               *)
Candidates(p, b) ==
    [names |-> {Canonical(p, n) : n \in b.names \ p.banned},
     identified |-> {}, edges |-> {}]

(* apply_records: the blacklist, and the relations that lost an endpoint.  *)
Records(p, b) ==
    LET kept == b.names \ p.banned
        ids == b.identified \ p.banned
    IN  [names |-> kept, identified |-> ids,
         edges |-> b.edges \cap (ids \X ids)]

-----------------------------------------------------------------------------
Init ==
    /\ exists = TRUE
    /\ stored = NoProfile /\ promised = NoProfile
    /\ pc = [t \in Thread |-> "idle"]
    /\ stage = [t \in Thread |-> "put"]
    /\ asked = [t \in Thread |-> NoProfile]
    /\ batch = [t \in Thread |-> NoBatch]
    /\ seen = [t \in Thread |-> NoProfile]
    /\ used = [t \in Thread |-> NoProfile]
    /\ due = [t \in Thread |-> {}]
    /\ raced = FALSE /\ unsaved = FALSE
    /\ served = 0

Goto(t, l) == pc' = [pc EXCEPT ![t] = l]

(* The answer, whatever it is, leaves nothing with the thread.             *)
Finish(t) ==
    /\ Goto(t, "idle")
    /\ stage' = [stage EXCEPT ![t] = "put"]
    /\ asked' = [asked EXCEPT ![t] = NoProfile]
    /\ batch' = [batch EXCEPT ![t] = NoBatch]
    /\ seen' = [seen EXCEPT ![t] = NoProfile]
    /\ used' = [used EXCEPT ![t] = NoProfile]
    /\ due' = [due EXCEPT ![t] = {}]

(* What a request must not let in.  Records without entityIds are not      *)
(* filtered at all.                                                        *)
Due(r) == IF r.op = "records" /\ r.batch.identified = {}
          THEN {} ELSE stored.banned \cup r.profile.banned

Accept(t) ==
    /\ pc[t] = "idle" /\ served < MaxRequests
    /\ \E r \in Request :
         /\ stage' = [stage EXCEPT ![t] = r.op]
         /\ asked' = [asked EXCEPT ![t] = r.profile]
         /\ batch' = [batch EXCEPT ![t] = r.batch]
         /\ due' = [due EXCEPT ![t] = Due(r)]
    /\ Goto(t, "require")
    /\ served' = served + 1
    /\ UNCHANGED <<exists, stored, seen, used, promised, raced, unsaved>>

(* create_graph and delete_graph.                                          *)
Create ==
    /\ ~exists /\ served < MaxRequests
    /\ exists' = TRUE
    /\ served' = served + 1
    /\ UNCHANGED <<stored, pc, work, promised, raced, unsaved>>

\* Mutant: the profile survives its graph.
DeleteKeepsProfile ==
    /\ exists /\ served < MaxRequests
    /\ exists' = FALSE
    /\ promised' = NoProfile
    /\ due' = [t \in Thread |-> due[t] \cap asked[t].banned]
    /\ served' = served + 1
    /\ UNCHANGED <<stored, pc, stage, asked, batch, seen, used, raced, unsaved>>

Delete ==
    /\ exists /\ served < MaxRequests
    /\ exists' = FALSE
    /\ stored' = NoProfile /\ promised' = NoProfile
    /\ due' = [t \in Thread |-> due[t] \cap asked[t].banned]
    /\ served' = served + 1
    /\ UNCHANGED <<pc, stage, asked, batch, seen, used, raced, unsaved>>

Require(t) ==
    /\ pc[t] = "require"
    /\ IF exists THEN Goto(t, "read") /\ UNCHANGED work ELSE Finish(t)
    /\ UNCHANGED <<exists, stored, promised, raced, unsaved, served>>

-----------------------------------------------------------------------------
(* _absorb_constraints.                                                    *)

\* Mutant: a build goes on with the profile it brought.
AbsorbReadOwn(t) ==
    /\ pc[t] = "read"
    /\ seen' = [seen EXCEPT ![t] = stored]
    /\ used' = [used EXCEPT ![t] = asked[t]]
    /\ Goto(t, IF asked[t] = NoProfile THEN "apply" ELSE "save")
    /\ UNCHANGED <<exists, stored, stage, asked, batch, due, promised, raced,
                   unsaved, served>>

AbsorbRead(t) ==
    /\ pc[t] = "read"
    /\ seen' = [seen EXCEPT ![t] = stored]
    /\ used' = [used EXCEPT ![t] = Merged(stored, asked[t])]
    /\ Goto(t, IF asked[t] = NoProfile THEN "apply" ELSE "save")
    /\ UNCHANGED <<exists, stored, stage, asked, batch, due, promised, raced,
                   unsaved, served>>

(* put_constraints of the store looks for the graph, and then writes.      *)
PutCheck(t) ==
    /\ pc[t] = "save" /\ exists
    /\ Goto(t, "write")
    /\ UNCHANGED <<exists, stored, work, promised, raced, unsaved, served>>

PutWrite(t) ==
    /\ pc[t] = "write"
    /\ stored' = used[t]
    /\ promised' = Merged(promised, asked[t])
    /\ raced' = (raced \/ stored # seen[t] \/ ~exists)
    /\ Goto(t, "apply")
    /\ UNCHANGED <<exists, work, unsaved, served>>

(* The graph is gone, or the store fails: the request goes on as if the    *)
(* profile had been written.                                               *)
PutFails(t) ==
    /\ pc[t] \in {"save", "write"}
    /\ promised' = Merged(promised, asked[t])
    /\ unsaved' = TRUE
    /\ Goto(t, "apply")
    /\ UNCHANGED <<exists, stored, work, raced, served>>

-----------------------------------------------------------------------------
(* What the requests do with the profile.                                  *)

AnswerPut(t) ==
    /\ pc[t] = "apply" /\ stage[t] = "put"
    /\ Finish(t)
    /\ UNCHANGED <<exists, stored, promised, raced, unsaved, served>>

(* build_from_text hands its candidates to build_from_records, which       *)
(* absorbs the profile of the request once more.                           *)
ApplyCandidates(t) ==
    /\ pc[t] = "apply" /\ stage[t] = "text"
    /\ batch' = [batch EXCEPT ![t] = Candidates(used[t], batch[t])]
    /\ stage' = [stage EXCEPT ![t] = "draft"]
    /\ Goto(t, "require")
    /\ UNCHANGED <<exists, stored, asked, seen, used, due, promised, raced,
                   unsaved, served>>

(* Only a batch in which some entity carries an entityId is filtered.      *)
ApplyRecords(t) ==
    /\ pc[t] = "apply" /\ stage[t] \in {"draft", "records"}
    /\ batch' = [batch EXCEPT ![t] =
                   IF used[t] # NoProfile /\ batch[t].identified # {}
                   THEN Records(used[t], batch[t]) ELSE batch[t]]
    /\ Goto(t, "store")
    /\ UNCHANGED <<exists, stored, stage, asked, seen, used, due, promised,
                   raced, unsaved, served>>

(* The batch is validated and stored (GraphStore), or refused.             *)
Store(t) ==
    /\ pc[t] = "store"
    /\ Finish(t)
    /\ UNCHANGED <<exists, stored, promised, raced, unsaved, served>>

(* A store call other than the write of the profile fails.                 *)
Fail(t) ==
    /\ pc[t] \in {"require", "read"}
    /\ Finish(t)
    /\ UNCHANGED <<exists, stored, promised, raced, unsaved, served>>

Advance(t) ==
    \/ Require(t) \/ AbsorbRead(t) \/ PutCheck(t) \/ PutWrite(t) \/ PutFails(t)
    \/ AnswerPut(t) \/ ApplyCandidates(t) \/ ApplyRecords(t) \/ Store(t)

(* Every request has been answered and no more are to come.                *)
Quiescent ==
    /\ served = MaxRequests /\ \A t \in Thread : pc[t] = "idle"
    /\ UNCHANGED vars

Next ==
    \/ Create \/ Delete \/ Quiescent
    \/ \E t \in Thread : Accept(t) \/ Advance(t) \/ Fail(t)

Spec == Init /\ [][Next]_vars

-----------------------------------------------------------------------------
(* Every variable has its type.                                            *)
TypeOK ==
    /\ exists \in BOOLEAN /\ raced \in BOOLEAN /\ unsaved \in BOOLEAN
    /\ stored \in ProfileType /\ promised \in ProfileType
    /\ pc \in [Thread -> PC] /\ stage \in [Thread -> Stage]
    /\ asked \in [Thread -> ProfileType] /\ batch \in [Thread -> BatchType]
    /\ seen \in [Thread -> ProfileType] /\ used \in [Thread -> ProfileType]
    /\ due \in [Thread -> SUBSET Name]
    /\ served \in 0 .. MaxRequests

(* _absorb_constraints: short of a write that did not happen or that went  *)
(* over a profile the writer had not seen, the stored profile is all that  *)
(* the requests since the graph's creation have brought, the later rename  *)
(* before the earlier, and a graph created anew starts without one.  A PUT *)
(* adds to it as a build does.                                             *)
ProfileAccumulates == ~raced /\ ~unsaved => stored = promised

(* The names somebody renames something to.  apply_candidates lets them in *)
(* even when they are blacklisted.                                         *)
RenameTargets ==
    UNION {{p.renames[n] : n \in DOMAIN p.renames} : p \in Profile}

(* apply_candidates and apply_records: what was banned when a build was    *)
(* accepted is not in the batch it stores, nor an endpoint of its          *)
(* relations, whichever profiles were absorbed since, its own second time  *)
(* included; except for names lost to a race and for rename targets.       *)
BansHold ==
    \A t \in Thread : pc[t] = "store" /\ ~raced =>
        /\ batch[t].names \cap due[t] \subseteq RenameTargets
        /\ \A e \in batch[t].edges : {e[1], e[2]} \cap due[t] = {}
=============================================================================
