------------------------- MODULE GraphStoreProofs --------------------------
(***************************************************************************)
(* What holds of GraphStore, and of Withdrawals and JobsOverStore, which   *)
(* extend it, for every set of threads, processes, entities, relations,    *)
(* documents, requests and jobs, and for every bound on the requests.      *)
(***************************************************************************)
EXTENDS Withdrawals, JobsOverStore, TLAPS

-----------------------------------------------------------------------------
(* Type correctness.                                                       *)

(* The row a merge writes is a row.                                        *)
LEMMA MergeRowType ==
    ASSUME NEW row \in Atomic!Row, NEW doc \in Doc \cup {NoDoc}
    PROVE  Atomic!MergeRow(row, doc) \in Atomic!Row
BY DEF Atomic!MergeRow, Atomic!Row

LEMMA NoRowType == Atomic!NoRow \in Atomic!Row
BY DEF Atomic!NoRow, Atomic!Row

LEMMA NoRequestType == NoRequest \in RequestType
BY DEF NoRequest, RequestType, Op

(* Finishing a request keeps the types of what a thread holds.             *)
LEMMA FinishType ==
    ASSUME TypeOK, NEW t \in Thread, Finish(t)
    PROVE  /\ pc' \in [Thread -> PC] /\ req' \in [Thread -> RequestType]
           /\ todo' \in [Thread -> SUBSET Item]
           /\ cur' \in [Thread -> Item \cup {NoItem}]
           /\ seen' \in [Thread -> Atomic!Row]
           /\ keys' \in [Thread -> SUBSET Entity]
           /\ victims' \in [Thread -> SUBSET Entity]
BY NoRowType, NoRequestType DEF TypeOK, Finish, Goto, PC

(* Taking and giving back a lock keep the type of the locks.               *)
LEMMA LockType ==
    ASSUME TypeOK, NEW t \in Thread, Acquire(t) \/ Release(t)
    PROVE  lock' \in [Process -> Thread \cup {NoThread}]
BY DEF TypeOK, Acquire, Release

LEMMA InitType == Init => TypeOK
<1> SUFFICES ASSUME Init PROVE TypeOK
  OBVIOUS
<1>1. served \in 0 .. MaxRequests
  BY SetupAssumption DEF Init
<1>2. graph \in BOOLEAN /\ raced \in BOOLEAN
  BY DEF Init
<1>3. rows \in [Item -> Atomic!Row] /\ seen \in [Thread -> Atomic!Row]
  BY NoRowType DEF Init
<1>4. contributed \in [Item -> SUBSET (Doc \cup {NoDoc})]
  BY DEF Init
<1> QED
  BY <1>1, <1>2, <1>3, <1>4, NoRequestType DEF Init, TypeOK, PC

(* Every step of a thread keeps the types.                                 *)
LEMMA AdvanceType ==
    ASSUME TypeOK, NEW t \in Thread, Advance(t)
    PROVE  TypeOK'
<1>1. CASE Require(t)
  <2>1. req[t].items \subseteq Item
    BY DEF TypeOK, RequestType, Item
  <2>2. CASE Finish(t)
    BY <1>1, <2>2, FinishType DEF TypeOK, Require, storeVars
  <2>3. CASE ~Finish(t)
    BY <1>1, <2>1, <2>3 DEF TypeOK, Require, Goto, PC, storeVars
  <2> QED BY <2>2, <2>3
<1>2. CASE CreateCheck(t)
  <2>1. CASE Finish(t) /\ UNCHANGED lock
    BY <1>2, <2>1, FinishType DEF TypeOK, CreateCheck, storeVars
  <2>2. CASE Acquire(t) /\ Goto(t, "createHeld") /\ UNCHANGED <<req, todo, cur, seen, keys, victims>>
    BY <1>2, <2>2, LockType DEF TypeOK, CreateCheck, Goto, PC, storeVars
  <2> QED BY <1>2, <2>1, <2>2 DEF CreateCheck
<1>3. CASE CreateCommit(t)
  BY <1>3, FinishType, LockType DEF TypeOK, CreateCommit
<1>4. CASE DeleteCheck(t)
  <2>1. CASE Finish(t) /\ UNCHANGED lock
    BY <1>4, <2>1, FinishType DEF TypeOK, DeleteCheck, storeVars
  <2>2. CASE Acquire(t) /\ Goto(t, "deleteHeld") /\ UNCHANGED <<req, todo, cur, seen, keys, victims>>
    BY <1>4, <2>2, LockType DEF TypeOK, DeleteCheck, Goto, PC, storeVars
  <2> QED BY <1>4, <2>1, <2>2 DEF DeleteCheck
<1>5. CASE DeleteCommit(t)
  <2>1. rows' \in [Item -> Atomic!Row]
    BY <1>5, NoRowType DEF DeleteCommit
  <2>2. contributed' \in [Item -> SUBSET (Doc \cup {NoDoc})] /\ raced' \in BOOLEAN /\ graph' \in BOOLEAN
    BY <1>5 DEF DeleteCommit, TypeOK
  <2> QED BY <1>5, <2>1, <2>2, FinishType, LockType DEF TypeOK, DeleteCommit
<1>6. CASE UpsertEntity(t) \/ UpsertRelation(t)
  <2>1. PICK i \in Item : BeginUpsert(t, i)
    BY <1>6 DEF UpsertEntity, UpsertRelation, TypeOK, Item
  <2> QED BY <2>1, LockType DEF BeginUpsert, TypeOK, Goto, PC, storeVars
<1>7. CASE CommitUpsert(t)
  <2>1. Atomic!MergeRow(seen[t], req[t].doc) \in Atomic!Row /\ req[t].doc \in Doc \cup {NoDoc}
    BY MergeRowType DEF TypeOK, RequestType
  <2>2. WriteRow(t, Atomic!MergeRow(seen[t], req[t].doc))
    BY <1>7 DEF CommitUpsert
  <2>3. contributed' \in [Item -> SUBSET (Doc \cup {NoDoc})]
    BY <2>1, <2>2 DEF TypeOK, WriteRow
  <2>4. rows' \in [Item -> Atomic!Row]
    BY <2>1, <2>2 DEF TypeOK, WriteRow
  <2> QED
    BY <2>2, <2>3, <2>4, NoRowType, LockType DEF WriteRow, TypeOK, Goto, PC
<1>8. CASE BatchDone(t)
  <2>1. CASE Finish(t)
    BY <1>8, <2>1, FinishType DEF TypeOK, BatchDone, storeVars
  <2>2. CASE Goto(t, "keys") /\ UNCHANGED <<req, todo, cur, seen, keys, victims>>
    BY <1>8, <2>2 DEF TypeOK, BatchDone, Goto, PC, storeVars
  <2> QED BY <1>8, <2>1, <2>2 DEF BatchDone
<1>9. CASE ListKeys(t)
  BY <1>9 DEF TypeOK, ListKeys, ActiveKeys, Goto, PC, storeVars
<1>10. CASE DeprecateRead(t)
  BY <1>10, LockType DEF TypeOK, DeprecateRead, Victims, Goto, PC, storeVars
<1>11. CASE DeprecateWrite(t)
  <2>1. \A i \in Item : Atomic!Deprecated(rows[i]) \in Atomic!Row
    BY DEF TypeOK, Atomic!Deprecated, Atomic!Row
  <2>2. rows' \in [Item -> Atomic!Row]
    BY <1>11, <2>1 DEF TypeOK, DeprecateWrite
  <2> QED BY <1>11, <2>2, FinishType, LockType DEF TypeOK, DeprecateWrite
<1> QED
  BY <1>1, <1>2, <1>3, <1>4, <1>5, <1>6, <1>7, <1>8, <1>9, <1>10, <1>11 DEF Advance

LEMMA NextType == TypeOK /\ [Next]_vars => TypeOK'
<1> SUFFICES ASSUME TypeOK, [Next]_vars PROVE TypeOK'
  OBVIOUS
<1>1. ASSUME NEW t \in Thread, Accept(t) PROVE TypeOK'
  <2>1. PICK r \in RequestType :
            /\ req' = [req EXCEPT ![t] = r]
            /\ Goto(t, IF r.op = "create" THEN "create" ELSE "require")
    BY <1>1, RequestAssumption DEF Accept
  <2>2. served' \in 0 .. MaxRequests
    BY <1>1, SetupAssumption DEF Accept, TypeOK
  <2> QED BY <1>1, <2>1, <2>2 DEF Accept, TypeOK, Goto, PC, storeVars
<1>2. ASSUME NEW t \in Thread, Reject(t) PROVE TypeOK'
  BY <1>2, FinishType DEF Reject, TypeOK, storeVars
<1>3. ASSUME NEW t \in Thread, Fail(t) PROVE TypeOK'
  BY <1>3, FinishType, LockType DEF Fail, TypeOK, storeVars
<1>4. CASE UNCHANGED vars
  BY <1>4 DEF TypeOK, vars, storeVars, threadVars
<1> QED
  BY <1>1, <1>2, <1>3, <1>4, AdvanceType DEF Next, Quiescent

(* Every variable of the write path keeps its type, for every set of       *)
(* threads, items and requests.                                            *)
THEOREM TypeCorrect == Spec => []TypeOK
BY InitType, NextType, PTL DEF Spec

-----------------------------------------------------------------------------
(* A graph's rows do not outlive it unless a delete overtook a build.      *)

(* A batch that is being written, and a row, both imply the graph: the     *)
(* batch was admitted by an existence check, and only a delete that races  *)
(* with it could have removed the graph since.                             *)
OrphanInv ==
    ~raced => /\ \A t \in Thread : pc[t] \in Writing => graph
              /\ \A i \in Item : Exists(i) => graph

(* Where a finishing thread goes, and which threads stay where they are.   *)
LEMMA FinishPc ==
    ASSUME TypeOK, NEW t \in Thread, Finish(t)
    PROVE  pc'[t] = "idle" /\ \A u \in Thread \ {t} : pc'[u] = pc[u]
BY DEF TypeOK, Finish, Goto

LEMMA OrphanInit == Init => OrphanInv
BY DEF Init, OrphanInv, Exists, Writing, Atomic!NoRow

(* What every step but CreateCommit, DeleteCommit, CommitUpsert and        *)
(* DeprecateWrite has in common: the rows and the history stay, and a      *)
(* thread starts writing only after it has seen the graph.                 *)
QuietStep ==
    /\ UNCHANGED <<storeVars, contributed, raced>>
    /\ \A t \in Thread : pc'[t] \in Writing => pc[t] \in Writing \/ graph

LEMMA QuietSteps ==
    ASSUME TypeOK, NEW t \in Thread,
           \/ Accept(t) \/ Require(t) \/ Reject(t) \/ Fail(t)
           \/ CreateCheck(t) \/ DeleteCheck(t)
           \/ UpsertEntity(t) \/ UpsertRelation(t) \/ BatchDone(t)
           \/ ListKeys(t) \/ DeprecateRead(t)
    PROVE  QuietStep
<1>1. CASE Accept(t)
  BY <1>1 DEF Accept, TypeOK, QuietStep, Goto, Writing
<1>2. CASE Require(t)
  BY <1>2, FinishPc DEF Require, TypeOK, QuietStep, Goto, Writing
<1>3. CASE Reject(t) \/ Fail(t)
  BY <1>3, FinishPc DEF Reject, Fail, TypeOK, QuietStep, Writing
<1>4. CASE CreateCheck(t) \/ DeleteCheck(t)
  BY <1>4, FinishPc DEF CreateCheck, DeleteCheck, TypeOK, QuietStep, Goto, Writing
<1>5. CASE UpsertEntity(t) \/ UpsertRelation(t)
  BY <1>5 DEF UpsertEntity, UpsertRelation, BeginUpsert, TypeOK, QuietStep, Goto, Writing
<1>6. CASE BatchDone(t)
  BY <1>6, FinishPc DEF BatchDone, TypeOK, QuietStep, Goto, Writing
<1>7. CASE ListKeys(t) \/ DeprecateRead(t)
  BY <1>7 DEF ListKeys, DeprecateRead, TypeOK, QuietStep, Goto, Writing
<1> QED BY <1>1, <1>2, <1>3, <1>4, <1>5, <1>6, <1>7

(* Deprecation keeps which rows exist and what documents they name.        *)
LEMMA DeprecateKeepsRows ==
    ASSUME TypeOK, NEW t \in Thread, DeprecateWrite(t), NEW i \in Item
    PROVE  /\ Exists(i)' <=> Exists(i)
           /\ rows'[i].docs = rows[i].docs
BY DEF TypeOK, DeprecateWrite, Exists, Atomic!Deprecated, Atomic!Row

(* A merge makes its row exist and leaves the other rows alone.            *)
LEMMA CommitEffect ==
    ASSUME TypeOK, NEW t \in Thread, CommitUpsert(t), NEW i \in Item
    PROVE  /\ i = cur[t] => rows'[i] = Atomic!MergeRow(seen[t], req[t].doc)
           /\ i # cur[t] => rows'[i] = rows[i]
           /\ Exists(i)' <=> (Exists(i) \/ i = cur[t])
BY DEF TypeOK, CommitUpsert, WriteRow, Exists, Atomic!MergeRow

LEMMA OrphanNext == TypeOK /\ OrphanInv /\ [Next]_vars => OrphanInv'
<1> SUFFICES ASSUME TypeOK, OrphanInv, [Next]_vars, ~raced'
             PROVE  /\ \A t \in Thread : pc'[t] \in Writing => graph'
                    /\ \A i \in Item : Exists(i)' => graph'
  BY DEF OrphanInv
<1>1. CASE QuietStep
  BY <1>1 DEF QuietStep, OrphanInv, storeVars, Exists
<1>2. ASSUME NEW t \in Thread, CreateCommit(t) PROVE graph'
  BY <1>2 DEF CreateCommit
<1>3. ASSUME NEW t \in Thread, DeleteCommit(t)
      PROVE  /\ \A u \in Thread : pc'[u] \notin Writing
             /\ \A i \in Item : ~Exists(i)'
  BY <1>3, FinishPc DEF DeleteCommit, Writing, Exists, Atomic!NoRow
<1>4. ASSUME NEW t \in Thread, CommitUpsert(t) PROVE graph'
  BY <1>4 DEF CommitUpsert, WriteRow, OrphanInv, Writing
<1>5. ASSUME NEW t \in Thread, DeprecateWrite(t)
      PROVE  /\ \A u \in Thread : pc'[u] \in Writing => graph'
             /\ \A i \in Item : Exists(i)' => graph'
  BY <1>5, FinishPc, DeprecateKeepsRows DEF DeprecateWrite, OrphanInv, Writing
<1>6. CASE UNCHANGED vars
  BY <1>6 DEF vars, storeVars, threadVars, OrphanInv, Exists
<1> QED
  BY <1>1, <1>2, <1>3, <1>4, <1>5, <1>6, QuietSteps DEF Next, Advance, Quiescent

(* Rows without a graph appear only if a delete overtook a build, whatever *)
(* the deployment: one process, several, or no lock at all.                *)
THEOREM Orphans == Spec => []OrphansOnlyByRace
<1>1. OrphanInv => OrphansOnlyByRace
  BY DEF OrphanInv, OrphansOnlyByRace
<1> QED BY <1>1, InitType, NextType, OrphanInit, OrphanNext, PTL DEF Spec

-----------------------------------------------------------------------------
(* Evidence is never invented.                                             *)

(* What a thread has read of the row in its hand is still backed by        *)
(* contributions, because contributions only grow between two deletes.     *)
SoundInv ==
    ~raced => /\ EvidenceSound
              /\ \A t \in Thread :
                     pc[t] = "upsertHeld"
                     => cur[t] \in Item /\ seen[t].docs \subseteq contributed[cur[t]]

LEMMA SoundInit == Init => SoundInv
BY DEF Init, SoundInv, EvidenceSound, Exists, Atomic!NoRow

(* How a step changes what is in a thread's hand: a thread that holds a    *)
(* row after a quiet step held it before or has just read it.              *)
LEMMA QuietHands ==
    ASSUME TypeOK, NEW t \in Thread,
           \/ Accept(t) \/ Require(t) \/ Reject(t) \/ Fail(t)
           \/ CreateCheck(t) \/ DeleteCheck(t)
           \/ UpsertEntity(t) \/ UpsertRelation(t) \/ BatchDone(t)
           \/ ListKeys(t) \/ DeprecateRead(t),
           NEW u \in Thread, pc'[u] = "upsertHeld"
    PROVE  \/ pc[u] = "upsertHeld" /\ cur'[u] = cur[u] /\ seen'[u] = seen[u]
           \/ cur'[u] \in Item /\ seen'[u] = rows[cur'[u]]
<1>1. CASE Accept(t)
  BY <1>1 DEF Accept, TypeOK, Goto
<1>2. CASE Require(t)
  BY <1>2 DEF Require, TypeOK, Goto, Finish
<1>3. CASE Reject(t) \/ Fail(t)
  BY <1>3 DEF Reject, Fail, TypeOK, Finish, Goto
<1>4. CASE CreateCheck(t) \/ DeleteCheck(t)
  BY <1>4 DEF CreateCheck, DeleteCheck, TypeOK, Goto, Finish
<1>5. CASE UpsertEntity(t) \/ UpsertRelation(t)
  <2>1. PICK i \in Item : BeginUpsert(t, i)
    BY <1>5 DEF UpsertEntity, UpsertRelation, TypeOK, Item
  <2> QED BY <2>1 DEF BeginUpsert, TypeOK, Goto
<1>6. CASE BatchDone(t)
  BY <1>6 DEF BatchDone, TypeOK, Goto, Finish
<1>7. CASE ListKeys(t) \/ DeprecateRead(t)
  BY <1>7 DEF ListKeys, DeprecateRead, TypeOK, Goto
<1> QED BY <1>1, <1>2, <1>3, <1>4, <1>5, <1>6, <1>7

(* The steps that write leave the hands of the other threads alone and     *)
(* empty the writer's.                                                     *)
LEMMA WriterHands ==
    ASSUME TypeOK, NEW t \in Thread,
           \/ CreateCommit(t) \/ DeleteCommit(t) \/ CommitUpsert(t) \/ DeprecateWrite(t),
           NEW u \in Thread
    PROVE  /\ u = t => pc'[u] \notin Held
           /\ u # t => /\ pc'[u] = pc[u] /\ cur'[u] = cur[u] /\ seen'[u] = seen[u]
                       /\ req'[u] = req[u] /\ todo'[u] = todo[u]
                       /\ victims'[u] = victims[u]
<1>1. CASE CommitUpsert(t)
  BY <1>1 DEF CommitUpsert, WriteRow, TypeOK, Goto, Held
<1>2. CASE CreateCommit(t) \/ DeleteCommit(t) \/ DeprecateWrite(t)
  BY <1>2 DEF CreateCommit, DeleteCommit, DeprecateWrite, TypeOK, Finish, Goto, Held
<1> QED BY <1>1, <1>2

LEMMA SoundNext == TypeOK /\ SoundInv /\ [Next]_vars => SoundInv'
<1> SUFFICES ASSUME TypeOK, TypeOK', SoundInv, [Next]_vars, ~raced'
             PROVE  /\ EvidenceSound'
                    /\ \A t \in Thread :
                           pc'[t] = "upsertHeld"
                           => cur'[t] \in Item /\ seen'[t].docs \subseteq contributed'[cur'[t]]
  BY NextType DEF SoundInv
<1>1. ASSUME NEW t \in Thread,
             \/ Accept(t) \/ Require(t) \/ Reject(t) \/ Fail(t)
             \/ CreateCheck(t) \/ DeleteCheck(t)
             \/ UpsertEntity(t) \/ UpsertRelation(t) \/ BatchDone(t)
             \/ ListKeys(t) \/ DeprecateRead(t)
      PROVE  /\ EvidenceSound'
             /\ \A u \in Thread :
                    pc'[u] = "upsertHeld"
                    => cur'[u] \in Item /\ seen'[u].docs \subseteq contributed'[cur'[u]]
  <2>1. UNCHANGED <<rows, contributed, raced>>
    BY <1>1, QuietSteps DEF QuietStep, storeVars
  <2>2. EvidenceSound /\ ~raced
    BY <2>1 DEF SoundInv
  <2>3. EvidenceSound'
    BY <2>1, <2>2 DEF EvidenceSound, Exists
  <2>4. ASSUME NEW u \in Thread, pc'[u] = "upsertHeld"
        PROVE  cur'[u] \in Item /\ seen'[u].docs \subseteq contributed'[cur'[u]]
    BY <1>1, <2>1, <2>2, <2>4, QuietHands DEF SoundInv, EvidenceSound
  <2> QED BY <2>3, <2>4
<1>2. ASSUME NEW t \in Thread, CreateCommit(t)
      PROVE  /\ EvidenceSound'
             /\ \A u \in Thread :
                    pc'[u] = "upsertHeld"
                    => cur'[u] \in Item /\ seen'[u].docs \subseteq contributed'[cur'[u]]
  <2>1. UNCHANGED <<rows, contributed, raced>>
    BY <1>2 DEF CreateCommit
  <2> QED BY <1>2, <2>1, WriterHands DEF SoundInv, EvidenceSound, Exists, Held
<1>3. ASSUME NEW t \in Thread, DeleteCommit(t)
      PROVE  /\ EvidenceSound'
             /\ \A u \in Thread : pc'[u] # "upsertHeld"
  BY <1>3, FinishPc DEF DeleteCommit, Writing, EvidenceSound, Exists, Atomic!NoRow
<1>4. ASSUME NEW t \in Thread, CommitUpsert(t)
      PROVE  /\ EvidenceSound'
             /\ \A u \in Thread :
                    pc'[u] = "upsertHeld"
                    => cur'[u] \in Item /\ seen'[u].docs \subseteq contributed'[cur'[u]]
  <2>1. ~raced /\ pc[t] = "upsertHeld"
    BY <1>4 DEF CommitUpsert, WriteRow
  <2>2. cur[t] \in Item /\ seen[t].docs \subseteq contributed[cur[t]] /\ EvidenceSound
    BY <2>1 DEF SoundInv
  <2>3. \A i \in Item : contributed'[i] = IF i = cur[t] THEN contributed[i] \cup {req[t].doc}
                                                        ELSE contributed[i]
    BY <1>4 DEF CommitUpsert, WriteRow, TypeOK
  <2>4. EvidenceSound'
    <3> SUFFICES ASSUME NEW i \in Item
                 PROVE  /\ rows'[i].docs \subseteq contributed'[i]
                        /\ Exists(i)' <=> contributed'[i] # {}
      BY DEF EvidenceSound
    <3>1. rows[i].docs \subseteq contributed[i] /\ (Exists(i) <=> contributed[i] # {})
      BY <2>1, <2>2 DEF EvidenceSound
    <3>2. CASE i = cur[t]
      <4>1. rows'[i].docs = seen[t].docs \cup ({req[t].doc} \ {NoDoc})
        <5>1. rows'[i] = Atomic!MergeRow(seen[t], req[t].doc)
          BY <1>4, <3>2, CommitEffect
        <5> QED BY <5>1 DEF Atomic!MergeRow
      <4> QED BY <1>4, <2>2, <2>3, <3>2, <4>1, CommitEffect
    <3>3. CASE i # cur[t]
      BY <1>4, <2>3, <3>1, <3>3, CommitEffect
    <3> QED BY <3>2, <3>3
  <2>5. ASSUME NEW u \in Thread, pc'[u] = "upsertHeld"
        PROVE  cur'[u] \in Item /\ seen'[u].docs \subseteq contributed'[cur'[u]]
    <3>1. u # t /\ pc[u] = "upsertHeld" /\ cur'[u] = cur[u] /\ seen'[u] = seen[u]
      BY <1>4, <2>5, WriterHands DEF Held
    <3> QED BY <2>1, <2>3, <3>1 DEF SoundInv
  <2> QED BY <2>4, <2>5
<1>5. ASSUME NEW t \in Thread, DeprecateWrite(t)
      PROVE  /\ EvidenceSound'
             /\ \A u \in Thread :
                    pc'[u] = "upsertHeld"
                    => cur'[u] \in Item /\ seen'[u].docs \subseteq contributed'[cur'[u]]
  <2>1. UNCHANGED <<contributed, raced>>
    BY <1>5 DEF DeprecateWrite
  <2>2. EvidenceSound'
    BY <1>5, <2>1, DeprecateKeepsRows DEF SoundInv, EvidenceSound
  <2> QED BY <1>5, <2>1, <2>2, WriterHands DEF SoundInv, Held
<1>6. CASE UNCHANGED vars
  BY <1>6 DEF vars, storeVars, threadVars, SoundInv, EvidenceSound, Exists
<1> QED
  BY <1>1, <1>2, <1>3, <1>4, <1>5, <1>6 DEF Next, Advance, Quiescent

(* Evidence names only documents that contributed, and rows come and go    *)
(* with contributions, whatever the deployment, until a delete overtakes a *)
(* build.                                                                  *)
THEOREM EvidenceIsSound == Spec => []EvidenceSound
<1>1. SoundInv => EvidenceSound
  BY DEF SoundInv, EvidenceSound
<1> QED BY <1>1, InitType, NextType, SoundInit, SoundNext, PTL DEF Spec

-----------------------------------------------------------------------------
(* One process: the lock makes the two steps of a store call one.          *)

(* A thread between the two steps of a store call owns the lock.           *)
LockInv == \A t \in Thread : pc[t] \in Held => lock[procOf[t]] = t

(* What a thread read is still true when it writes.                        *)
FreshInv ==
    \A t \in Thread :
        /\ pc[t] = "upsertHeld" => cur[t] \in Item /\ seen[t] = rows[cur[t]]
        /\ pc[t] = "deprecateHeld"
           => \A i \in victims[t] : Atomic!OnlyFrom(rows[i], req[t].doc)

SerialInv == LockInv /\ FreshInv /\ EvidenceComplete

LEMMA AcquireKeepsLocks ==
    ASSUME TypeOK, LockInv, NEW t \in Thread, Acquire(t),
           \A u \in Thread \ {t} : pc'[u] = pc[u]
    PROVE  LockInv'
BY SetupAssumption DEF TypeOK, LockInv, Acquire, LockFree

LEMMA ReleaseKeepsLocks ==
    ASSUME TypeOK, LockInv, NEW t \in Thread, Release(t),
           pc[t] \in Held, pc'[t] \notin Held,
           \A u \in Thread \ {t} : pc'[u] = pc[u]
    PROVE  LockInv'
BY SetupAssumption DEF TypeOK, LockInv, Release

LEMMA OutsideKeepsLocks ==
    ASSUME LockInv, NEW t \in Thread, UNCHANGED lock, pc'[t] \notin Held,
           \A u \in Thread \ {t} : pc'[u] = pc[u]
    PROVE  LockInv'
BY DEF LockInv

(* A step of t leaves the program counters of the other threads alone.     *)
LEMMA OthersStay ==
    ASSUME TypeOK, NEW t \in Thread,
           Accept(t) \/ Advance(t) \/ Reject(t) \/ Fail(t)
    PROVE  \A u \in Thread \ {t} : pc'[u] = pc[u]
<1>1. CASE Accept(t) \/ Reject(t) \/ Fail(t)
  BY <1>1, FinishPc DEF Accept, Reject, Fail, Goto, TypeOK
<1>2. CASE Require(t) \/ BatchDone(t) \/ ListKeys(t) \/ DeprecateRead(t)
  BY <1>2, FinishPc DEF Require, BatchDone, ListKeys, DeprecateRead, Goto, TypeOK
<1>3. CASE CreateCheck(t) \/ DeleteCheck(t)
  BY <1>3, FinishPc DEF CreateCheck, DeleteCheck, Goto, TypeOK
<1>4. CASE UpsertEntity(t) \/ UpsertRelation(t)
  BY <1>4 DEF UpsertEntity, UpsertRelation, BeginUpsert, Goto, TypeOK
<1>5. CASE CreateCommit(t) \/ DeleteCommit(t) \/ CommitUpsert(t) \/ DeprecateWrite(t)
  BY <1>5, WriterHands
<1> QED BY <1>1, <1>2, <1>3, <1>4, <1>5 DEF Advance

LEMMA LockNext == TypeOK /\ LockInv /\ [Next]_vars => LockInv'
<1> SUFFICES ASSUME TypeOK, LockInv, [Next]_vars PROVE LockInv'
  OBVIOUS
<1>1. ASSUME NEW t \in Thread, Accept(t) \/ Require(t) \/ Reject(t) \/ BatchDone(t) \/ ListKeys(t)
      PROVE  LockInv'
  <2>1. UNCHANGED lock
    BY <1>1 DEF Accept, Require, Reject, BatchDone, ListKeys
  <2>2. pc'[t] \notin Held
    BY <1>1, FinishPc DEF Accept, Require, Reject, BatchDone, ListKeys, Goto, TypeOK, Held
  <2> QED BY <1>1, <2>1, <2>2, OthersStay, OutsideKeepsLocks DEF Advance
<1>2. ASSUME NEW t \in Thread, CreateCheck(t) \/ DeleteCheck(t)
      PROVE  LockInv'
  <2>1. \/ Acquire(t)
        \/ UNCHANGED lock /\ Finish(t)
    BY <1>2 DEF CreateCheck, DeleteCheck
  <2>2. \A u \in Thread \ {t} : pc'[u] = pc[u]
    BY <1>2, OthersStay DEF Advance
  <2>3. CASE Acquire(t)
    BY <2>2, <2>3, AcquireKeepsLocks
  <2>4. CASE UNCHANGED lock /\ Finish(t)
    BY <2>2, <2>4, FinishPc, OutsideKeepsLocks DEF Held
  <2> QED BY <2>1, <2>3, <2>4
<1>3. ASSUME NEW t \in Thread, UpsertEntity(t) \/ UpsertRelation(t) \/ DeprecateRead(t)
      PROVE  LockInv'
  <2>1. Acquire(t)
    BY <1>3 DEF UpsertEntity, UpsertRelation, BeginUpsert, DeprecateRead
  <2>2. \A u \in Thread \ {t} : pc'[u] = pc[u]
    BY <1>3, OthersStay DEF Advance
  <2> QED BY <2>1, <2>2, AcquireKeepsLocks
<1>4. ASSUME NEW t \in Thread,
             CreateCommit(t) \/ DeleteCommit(t) \/ CommitUpsert(t) \/ DeprecateWrite(t)
      PROVE  LockInv'
  <2>1. Release(t) /\ pc[t] \in Held
    BY <1>4 DEF CreateCommit, DeleteCommit, CommitUpsert, WriteRow, DeprecateWrite, Held
  <2>2. pc'[t] \notin Held /\ \A u \in Thread \ {t} : pc'[u] = pc[u]
    BY <1>4, WriterHands
  <2> QED BY <2>1, <2>2, ReleaseKeepsLocks
<1>5. ASSUME NEW t \in Thread, Fail(t)
      PROVE  LockInv'
  <2>1. pc'[t] \notin Held /\ \A u \in Thread \ {t} : pc'[u] = pc[u]
    BY <1>5, FinishPc DEF Fail, Held
  <2>2. CASE pc[t] \in Held
    BY <1>5, <2>1, <2>2, ReleaseKeepsLocks DEF Fail
  <2>3. CASE pc[t] \notin Held
    BY <1>5, <2>1, <2>3, OutsideKeepsLocks DEF Fail
  <2> QED BY <2>2, <2>3
<1>6. CASE UNCHANGED vars
  BY <1>6 DEF vars, threadVars, LockInv
<1> QED
  BY <1>1, <1>2, <1>3, <1>4, <1>5, <1>6 DEF Next, Advance, Quiescent

(* In one process two threads are never both inside a store call.          *)
LEMMA Alone ==
    ASSUME OneProcess, LockInv,
           NEW t \in Thread, NEW u \in Thread, pc[t] \in Held, pc[u] \in Held
    PROVE  t = u
<1>1. lock[procOf[t]] = t /\ lock[procOf[u]] = u
  BY DEF LockInv
<1>2. procOf[t] = procOf[u]
  BY DEF OneProcess
<1> QED BY <1>1, <1>2

(* A thread that holds victims after a quiet step held them before or has  *)
(* just selected them.                                                     *)
LEMMA QuietVictims ==
    ASSUME TypeOK, NEW t \in Thread,
           \/ Accept(t) \/ Require(t) \/ Reject(t) \/ Fail(t)
           \/ CreateCheck(t) \/ DeleteCheck(t)
           \/ UpsertEntity(t) \/ UpsertRelation(t) \/ BatchDone(t)
           \/ ListKeys(t) \/ DeprecateRead(t),
           NEW u \in Thread, pc'[u] = "deprecateHeld"
    PROVE  /\ req'[u] = req[u]
           /\ \/ pc[u] = "deprecateHeld" /\ victims'[u] = victims[u]
              \/ victims'[u] = Victims(u)
<1>1. CASE Accept(t)
  BY <1>1 DEF Accept, TypeOK, Goto
<1>2. CASE Require(t)
  BY <1>2 DEF Require, TypeOK, Goto, Finish
<1>3. CASE Reject(t) \/ Fail(t)
  BY <1>3 DEF Reject, Fail, TypeOK, Finish, Goto
<1>4. CASE CreateCheck(t) \/ DeleteCheck(t)
  BY <1>4 DEF CreateCheck, DeleteCheck, TypeOK, Goto, Finish
<1>5. CASE UpsertEntity(t) \/ UpsertRelation(t)
  BY <1>5 DEF UpsertEntity, UpsertRelation, BeginUpsert, TypeOK, Goto
<1>6. CASE BatchDone(t)
  BY <1>6 DEF BatchDone, TypeOK, Goto, Finish
<1>7. CASE ListKeys(t) \/ DeprecateRead(t)
  BY <1>7 DEF ListKeys, DeprecateRead, TypeOK, Goto
<1> QED BY <1>1, <1>2, <1>3, <1>4, <1>5, <1>6, <1>7

LEMMA SerialInit == Init => SerialInv
<1> SUFFICES ASSUME Init PROVE SerialInv
  OBVIOUS
<1>1. LockInv
  BY DEF Init, LockInv, Held
<1>2. FreshInv
  BY DEF Init, FreshInv
<1>3. EvidenceComplete
  BY DEF Init, EvidenceComplete, Exists, Atomic!NoRow
<1> QED BY <1>1, <1>2, <1>3 DEF SerialInv

LEMMA FreshNext ==
    ASSUME OneProcess, TypeOK, LockInv, FreshInv, Next PROVE FreshInv'
<1>1. ASSUME NEW t \in Thread,
             \/ Accept(t) \/ Require(t) \/ Reject(t) \/ Fail(t)
             \/ CreateCheck(t) \/ DeleteCheck(t)
             \/ UpsertEntity(t) \/ UpsertRelation(t) \/ BatchDone(t)
             \/ ListKeys(t) \/ DeprecateRead(t)
      PROVE  FreshInv'
  <2> SUFFICES ASSUME NEW u \in Thread
               PROVE  /\ pc'[u] = "upsertHeld" => cur'[u] \in Item /\ seen'[u] = rows'[cur'[u]]
                      /\ pc'[u] = "deprecateHeld"
                         => \A i \in victims'[u] : Atomic!OnlyFrom(rows'[i], req'[u].doc)
    BY DEF FreshInv, Atomic!OnlyFrom
  <2>1. UNCHANGED rows
    BY <1>1, QuietSteps DEF QuietStep, storeVars
  <2>2. ASSUME pc'[u] = "upsertHeld" PROVE cur'[u] \in Item /\ seen'[u] = rows'[cur'[u]]
    BY <1>1, <2>1, <2>2, QuietHands DEF FreshInv
  <2>3. ASSUME pc'[u] = "deprecateHeld", NEW i \in victims'[u]
        PROVE  Atomic!OnlyFrom(rows'[i], req'[u].doc)
    <3>1. req'[u] = req[u]
      BY <1>1, <2>3, QuietVictims
    <3>2. CASE pc[u] = "deprecateHeld" /\ victims'[u] = victims[u]
      BY <2>1, <2>3, <3>1, <3>2 DEF FreshInv
    <3>3. CASE victims'[u] = Victims(u)
      BY <2>1, <2>3, <3>1, <3>3 DEF Victims
    <3> QED BY <1>1, <2>3, <3>2, <3>3, QuietVictims
  <2> QED BY <2>2, <2>3
<1>2. ASSUME NEW t \in Thread,
             CreateCommit(t) \/ DeleteCommit(t) \/ CommitUpsert(t) \/ DeprecateWrite(t)
      PROVE  FreshInv'
  <2>1. pc[t] \in Held
    BY <1>2 DEF CreateCommit, DeleteCommit, CommitUpsert, WriteRow, DeprecateWrite, Held
  <2>2. \A u \in Thread : pc'[u] \notin Held
    BY <1>2, <2>1, WriterHands, Alone
  <2> QED BY <2>2 DEF FreshInv, Held
<1>3. CASE UNCHANGED vars
  BY <1>3 DEF vars, storeVars, threadVars, FreshInv, Atomic!OnlyFrom
<1> QED BY <1>1, <1>2, <1>3 DEF Next, Advance, Quiescent

LEMMA CompleteNext ==
    ASSUME TypeOK, FreshInv, EvidenceComplete, Next PROVE EvidenceComplete'
<1>1. CASE UNCHANGED <<rows, contributed>>
  BY <1>1 DEF EvidenceComplete, Exists
<1>2. ASSUME NEW t \in Thread, DeleteCommit(t) PROVE EvidenceComplete'
  BY <1>2 DEF DeleteCommit, EvidenceComplete, Exists, Atomic!NoRow
<1>3. ASSUME NEW t \in Thread, CommitUpsert(t) PROVE EvidenceComplete'
  <2> SUFFICES ASSUME NEW i \in Item
               PROVE  /\ rows'[i].docs = contributed'[i] \ {NoDoc}
                      /\ Exists(i)' <=> contributed'[i] # {}
    BY DEF EvidenceComplete
  <2>1. contributed'[i] = IF i = cur[t] THEN contributed[i] \cup {req[t].doc} ELSE contributed[i]
    BY <1>3 DEF CommitUpsert, WriteRow, TypeOK
  <2>2. rows[i].docs = contributed[i] \ {NoDoc} /\ (Exists(i) <=> contributed[i] # {})
    BY DEF EvidenceComplete
  <2>3. CASE i = cur[t]
    <3>1. seen[t] = rows[i]
      BY <1>3, <2>3 DEF FreshInv, CommitUpsert, WriteRow
    <3>2. rows'[i] = Atomic!MergeRow(rows[i], req[t].doc)
      BY <1>3, <2>3, <3>1, CommitEffect
    <3>3. rows'[i].docs = rows[i].docs \cup ({req[t].doc} \ {NoDoc})
      BY <3>2 DEF Atomic!MergeRow
    <3> QED BY <1>3, <2>1, <2>2, <2>3, <3>3, CommitEffect
  <2>4. CASE i # cur[t]
    BY <1>3, <2>1, <2>2, <2>4, CommitEffect
  <2> QED BY <2>3, <2>4
<1>4. ASSUME NEW t \in Thread, DeprecateWrite(t) PROVE EvidenceComplete'
  <2>1. UNCHANGED contributed
    BY <1>4 DEF DeprecateWrite
  <2> QED BY <1>4, <2>1, DeprecateKeepsRows DEF EvidenceComplete
<1>5. ASSUME NEW t \in Thread, CreateCommit(t) PROVE UNCHANGED <<rows, contributed>>
  BY <1>5 DEF CreateCommit
<1> QED
  BY <1>1, <1>2, <1>3, <1>4, <1>5, QuietSteps
  DEF Next, Advance, QuietStep, storeVars, Quiescent, vars

LEMMA SerialNext == OneProcess /\ TypeOK /\ SerialInv /\ [Next]_vars => SerialInv'
<1>1. CASE UNCHANGED vars
  BY <1>1 DEF vars, storeVars, threadVars, SerialInv, LockInv, FreshInv,
              EvidenceComplete, Exists, Atomic!OnlyFrom
<1> QED
  BY <1>1, LockNext, FreshNext, CompleteNext DEF SerialInv

(* In one process no contribution is ever lost: the evidence of a row      *)
(* names exactly the documents that contributed to it.                     *)
THEOREM EvidenceIsComplete == OneProcess => (Spec => []EvidenceComplete)
<1> SUFFICES ASSUME OneProcess PROVE Spec => []EvidenceComplete
  OBVIOUS
<1>1. TypeOK /\ SerialInv /\ [Next]_vars => SerialInv'
  BY SerialNext
<1>2. SerialInv => EvidenceComplete
  BY DEF SerialInv
<1> QED BY <1>1, <1>2, InitType, NextType, SerialInit, PTL DEF Spec

(* In one process an entity is deprecated only on behalf of the one        *)
(* document that contributed to it.                                        *)
THEOREM DeprecationIsJustified == OneProcess => (Spec => DeprecationJustified)
<1> SUFFICES ASSUME OneProcess PROVE Spec => DeprecationJustified
  OBVIOUS
<1>1. TypeOK /\ SerialInv /\ [Next]_vars => SerialInv'
  BY SerialNext
<1>2. TypeOK /\ SerialInv /\ [Next]_vars => [DeprecationStep]_vars
  <2> SUFFICES ASSUME TypeOK, SerialInv, Next,
                      NEW i \in Item, rows[i].status = "active", rows'[i].status = "deprecated"
               PROVE  \E t \in Thread : /\ pc[t] = "deprecateHeld"
                                        /\ contributed[i] \ {NoDoc} = {req[t].doc}
    BY DEF DeprecationStep
  <2>1. rows' # rows
    OBVIOUS
  <2>2. ASSUME NEW t \in Thread, CommitUpsert(t) PROVE FALSE
    <3>1. CASE i = cur[t]
      <4>1. rows'[i] = Atomic!MergeRow(seen[t], req[t].doc)
        BY <2>2, <3>1, CommitEffect
      <4> QED BY <4>1 DEF Atomic!MergeRow
    <3>2. CASE i # cur[t]
      BY <2>2, <3>2, CommitEffect
    <3> QED BY <3>1, <3>2
  <2>3. ASSUME NEW t \in Thread, DeleteCommit(t) PROVE FALSE
    BY <2>3 DEF DeleteCommit, Atomic!NoRow
  <2>4. ASSUME NEW t \in Thread, DeprecateWrite(t)
        PROVE  pc[t] = "deprecateHeld" /\ contributed[i] \ {NoDoc} = {req[t].doc}
    <3>1. pc[t] = "deprecateHeld" /\ i \in victims[t]
      BY <2>4 DEF DeprecateWrite
    <3>2. rows[i].docs = {req[t].doc}
      BY <3>1 DEF SerialInv, FreshInv, Atomic!OnlyFrom
    <3> QED BY <3>1, <3>2 DEF SerialInv, EvidenceComplete
  <2>5. ASSUME NEW t \in Thread, CreateCommit(t) PROVE rows' = rows
    BY <2>5 DEF CreateCommit
  <2> QED
    BY <2>1, <2>2, <2>3, <2>4, <2>5, QuietSteps
    DEF Next, Advance, QuietStep, storeVars, Quiescent, vars
<1> QED
  BY <1>1, <1>2, InitType, NextType, SerialInit, PTL DEF Spec, DeprecationJustified

(* In one process the two-step store calls implement the atomic ones.      *)
THEOREM StoreIsSerializable == OneProcess => (Spec => Serializable)
<1> SUFFICES ASSUME OneProcess PROVE Spec => Serializable
  OBVIOUS
<1>1. TypeOK /\ SerialInv /\ [Next]_vars => SerialInv'
  BY SerialNext
<1>2. Init => Atomic!Init
  BY DEF Init, Atomic!Init, Item, Atomic!Item
<1>3. TypeOK /\ SerialInv /\ [Next]_vars => [Atomic!Next]_(Atomic!vars)
  <2> SUFFICES ASSUME TypeOK, SerialInv, Next, Atomic!vars' # Atomic!vars
               PROVE  Atomic!Next
    BY DEF vars, storeVars, Atomic!vars
  <2>1. ASSUME NEW t \in Thread, CreateCommit(t) PROVE Atomic!Next
    BY <2>1 DEF CreateCommit, Atomic!Next, Atomic!Create
  <2>2. ASSUME NEW t \in Thread, DeleteCommit(t) PROVE Atomic!Next
    BY <2>2 DEF DeleteCommit, Atomic!Next, Atomic!Delete, Item, Atomic!Item
  <2>3. ASSUME NEW t \in Thread, CommitUpsert(t) PROVE Atomic!Next
    <3>1. cur[t] \in Atomic!Item /\ seen[t] = rows[cur[t]]
      BY <2>3 DEF CommitUpsert, WriteRow, SerialInv, FreshInv, Item, Atomic!Item
    <3>2. req[t].doc \in Doc \cup {NoDoc}
      BY DEF TypeOK, RequestType
    <3>3. Atomic!Upsert(cur[t], req[t].doc)
      BY <2>3, <3>1 DEF CommitUpsert, WriteRow, Atomic!Upsert
    <3> QED BY <3>1, <3>2, <3>3 DEF Atomic!Next
  <2>4. ASSUME NEW t \in Thread, DeprecateWrite(t) PROVE Atomic!Next
    <3>1. \A i \in victims[t] : Atomic!OnlyFrom(rows[i], req[t].doc)
      BY <2>4 DEF DeprecateWrite, SerialInv, FreshInv
    <3>2. victims[t] \in SUBSET Entity
      BY DEF TypeOK
    <3>3. rows' = [i \in Item |-> IF i \in victims[t] THEN Atomic!Deprecated(rows[i]) ELSE rows[i]]
      BY <2>4, <3>1 DEF DeprecateWrite, Exists, Atomic!OnlyFrom
    <3>4. Atomic!DeprecateSome(req[t].doc, victims[t])
      BY <2>4, <3>1, <3>3 DEF DeprecateWrite, Atomic!DeprecateSome, Item, Atomic!Item
    <3>5. CASE victims[t] = {}
      <4>1. rows' = rows
        BY <3>3, <3>5 DEF TypeOK
      <4> QED BY <2>4, <4>1 DEF DeprecateWrite, Atomic!vars
    <3>6. CASE victims[t] # {}
      <4>1. PICK i \in victims[t] : rows[i].docs = {req[t].doc}
        BY <3>1, <3>6 DEF Atomic!OnlyFrom
      <4>2. rows[i].docs \in SUBSET Doc
        BY <3>2 DEF TypeOK, Atomic!Row, Item
      <4>3. req[t].doc \in Doc
        BY <4>1, <4>2
      <4> QED BY <3>2, <3>4, <4>3 DEF Atomic!Next
    <3> QED BY <3>5, <3>6
  <2> QED
    BY <2>1, <2>2, <2>3, <2>4, QuietSteps
    DEF Next, Advance, QuietStep, storeVars, Quiescent, vars, Atomic!vars
<1> QED
  BY <1>1, <1>2, <1>3, InitType, NextType, SerialInit, PTL
  DEF Spec, Serializable, Atomic!Spec

-----------------------------------------------------------------------------
(* Edges keep their endpoints, when every batch carries them.              *)

ClosedBatches ==
    \A r \in Request : \A e \in r.items \cap Relation : {e[1], e[2]} \subseteq r.items

(* What a batch in flight has written exists, its relations come last, and *)
(* it names the endpoints of its relations.                                *)
BatchInv(t) ==
    pc[t] \in Writing
    => /\ req[t] \in Request
       /\ todo[t] \subseteq req[t].items
       /\ \A i \in req[t].items \ todo[t] : Exists(i)
       /\ pc[t] = "upsertHeld" => cur[t] \in todo[t]
       /\ pc[t] = "upsertHeld" /\ cur[t] \in Relation => todo[t] \cap Entity = {}

AdmittedInv == \A t \in Thread : pc[t] # "idle" => req[t] \in Request

AnchorInv ==
    /\ AdmittedInv
    /\ ~raced => EdgesAnchored /\ \A t \in Thread : BatchInv(t)

LEMMA AnchorInit == Init => AnchorInv
BY DataAssumption
   DEF Init, AnchorInv, AdmittedInv, EdgesAnchored, BatchInv, Exists, Writing, Atomic!NoRow, Item

(* A request stays with its thread until it is answered.                   *)
LEMMA AdmittedNext == TypeOK /\ AdmittedInv /\ [Next]_vars => AdmittedInv'
<1> SUFFICES ASSUME TypeOK, AdmittedInv, [Next]_vars, NEW u \in Thread, pc'[u] # "idle"
             PROVE  req'[u] \in Request
  BY DEF AdmittedInv
<1>1. ASSUME NEW t \in Thread, Accept(t) PROVE req'[u] \in Request
  BY <1>1 DEF Accept, TypeOK, Goto, AdmittedInv
<1>2. ASSUME NEW t \in Thread, Reject(t) \/ Fail(t) PROVE req'[u] \in Request
  BY <1>2 DEF Reject, Fail, TypeOK, Finish, Goto, AdmittedInv
<1>3. ASSUME NEW t \in Thread, Require(t) \/ BatchDone(t) PROVE req'[u] \in Request
  BY <1>3 DEF Require, BatchDone, TypeOK, Finish, Goto, AdmittedInv
<1>4. ASSUME NEW t \in Thread, CreateCheck(t) \/ DeleteCheck(t) PROVE req'[u] \in Request
  BY <1>4 DEF CreateCheck, DeleteCheck, TypeOK, Finish, Goto, AdmittedInv
<1>5. ASSUME NEW t \in Thread, UpsertEntity(t) \/ UpsertRelation(t) \/ CommitUpsert(t)
      PROVE  req'[u] \in Request
  BY <1>5 DEF UpsertEntity, UpsertRelation, BeginUpsert, CommitUpsert, WriteRow,
              TypeOK, Goto, AdmittedInv
<1>6. ASSUME NEW t \in Thread, ListKeys(t) \/ DeprecateRead(t) PROVE req'[u] \in Request
  BY <1>6 DEF ListKeys, DeprecateRead, TypeOK, Goto, AdmittedInv
<1>7. ASSUME NEW t \in Thread, CreateCommit(t) \/ DeleteCommit(t) \/ DeprecateWrite(t)
      PROVE  req'[u] \in Request
  BY <1>7 DEF CreateCommit, DeleteCommit, DeprecateWrite, TypeOK, Finish, Goto, AdmittedInv
<1>8. CASE UNCHANGED vars
  BY <1>8 DEF vars, threadVars, AdmittedInv
<1> QED
  BY <1>1, <1>2, <1>3, <1>4, <1>5, <1>6, <1>7, <1>8 DEF Next, Advance, Quiescent

(* A step that removes no row leaves the batches of the threads it does    *)
(* not touch as they were.                                                 *)
LEMMA UntouchedBatch ==
    ASSUME NEW u \in Thread, BatchInv(u),
           pc'[u] = pc[u], req'[u] = req[u], todo'[u] = todo[u], cur'[u] = cur[u],
           \A i \in Item : Exists(i) => Exists(i)', TypeOK
    PROVE  BatchInv(u)'
<1>1. req[u].items \subseteq Item
  BY DEF TypeOK, RequestType, Item
<1> QED BY <1>1 DEF BatchInv

LEMMA AnchorNext ==
    ASSUME ClosedBatches PROVE TypeOK /\ AnchorInv /\ [Next]_vars => AnchorInv'
<1> SUFFICES ASSUME TypeOK, AnchorInv, [Next]_vars, AdmittedInv', ~raced'
             PROVE  EdgesAnchored' /\ \A t \in Thread : BatchInv(t)'
  BY AdmittedNext DEF AnchorInv
<1>1. ASSUME NEW t \in Thread,
             \/ Accept(t) \/ Require(t) \/ Reject(t) \/ Fail(t)
             \/ CreateCheck(t) \/ DeleteCheck(t)
             \/ UpsertEntity(t) \/ UpsertRelation(t) \/ BatchDone(t)
             \/ ListKeys(t) \/ DeprecateRead(t)
      PROVE  EdgesAnchored' /\ \A u \in Thread : BatchInv(u)'
  <2>1. UNCHANGED <<rows, raced>>
    BY <1>1, QuietSteps DEF QuietStep, storeVars
  <2>2. EdgesAnchored /\ \A u \in Thread : BatchInv(u)
    BY <2>1 DEF AnchorInv
  <2>3. EdgesAnchored'
    BY <2>1, <2>2 DEF EdgesAnchored, Exists
  <2>4. \A i \in Item : Exists(i) => Exists(i)'
    BY <2>1 DEF Exists
  <2>5. ASSUME NEW u \in Thread \ {t} PROVE BatchInv(u)'
    <3>1. pc'[u] = pc[u]
      BY <1>1, OthersStay DEF Advance
    <3>2. req'[u] = req[u] /\ todo'[u] = todo[u] /\ cur'[u] = cur[u]
      BY <1>1 DEF TypeOK, Accept, Require, Reject, Fail, CreateCheck, DeleteCheck,
                  UpsertEntity, UpsertRelation, BeginUpsert, BatchDone, ListKeys,
                  DeprecateRead, Finish
    <3> QED BY <2>2, <2>4, <3>1, <3>2, UntouchedBatch
  <2>6. BatchInv(t)'
    <3>1. CASE Require(t)
      <4>1. ASSUME pc'[t] \in Writing
            PROVE  pc'[t] = "upsert" /\ req'[t] = req[t] /\ todo'[t] = req[t].items /\ req[t] \in Request
        BY <3>1, <4>1, FinishPc DEF Require, Goto, TypeOK, AnchorInv, AdmittedInv, Writing
      <4> QED BY <4>1 DEF BatchInv
    <3>2. CASE UpsertEntity(t) \/ UpsertRelation(t)
      <4>1. PICK i \in todo[t] :
                /\ BeginUpsert(t, i)
                /\ pc[t] = "upsert"
                /\ i \in Relation => todo[t] \cap Entity = {}
        BY <3>2, DataAssumption DEF UpsertEntity, UpsertRelation
      <4>2. /\ req'[t] = req[t] /\ todo'[t] = todo[t] /\ cur'[t] = i /\ pc'[t] = "upsertHeld"
        BY <4>1 DEF BeginUpsert, Goto, TypeOK
      <4>3. /\ req[t] \in Request /\ todo[t] \subseteq req[t].items
            /\ \A j \in req[t].items \ todo[t] : Exists(j)
        BY <2>2, <4>1 DEF BatchInv, Writing
      <4> QED BY <2>1, <4>1, <4>2, <4>3 DEF BatchInv, Exists
    <3>3. CASE ~Require(t) /\ ~UpsertEntity(t) /\ ~UpsertRelation(t)
      <4>1. pc'[t] \notin Writing
        BY <1>1, <3>3, FinishPc DEF Accept, Reject, Fail, CreateCheck, DeleteCheck, BatchDone,
           ListKeys, DeprecateRead, Goto, TypeOK, Writing
      <4> QED BY <4>1 DEF BatchInv
    <3> QED BY <3>1, <3>2, <3>3
  <2> QED BY <2>3, <2>5, <2>6
<1>2. ASSUME NEW t \in Thread, DeleteCommit(t)
      PROVE  EdgesAnchored' /\ \A u \in Thread : BatchInv(u)'
  <2>1. \A i \in Item : ~Exists(i)'
    BY <1>2 DEF DeleteCommit, Exists, Atomic!NoRow
  <2>2. \A u \in Thread : pc'[u] \notin Writing
    BY <1>2, FinishPc DEF DeleteCommit, Writing
  <2> QED BY <2>1, <2>2 DEF EdgesAnchored, BatchInv, Item
<1>3. ASSUME NEW t \in Thread, CreateCommit(t) \/ DeprecateWrite(t)
      PROVE  EdgesAnchored' /\ \A u \in Thread : BatchInv(u)'
  <2>1. UNCHANGED raced
    BY <1>3 DEF CreateCommit, DeprecateWrite
  <2>2. \A i \in Item : Exists(i)' <=> Exists(i)
    BY <1>3, DeprecateKeepsRows DEF CreateCommit, Exists
  <2>3. EdgesAnchored'
    BY <2>1, <2>2, DataAssumption DEF EdgesAnchored, AnchorInv, Item
  <2>4. ASSUME NEW u \in Thread PROVE BatchInv(u)'
    <3>1. CASE u = t
      BY <1>3, <3>1, WriterHands DEF BatchInv, Held, Writing, CreateCommit, DeprecateWrite,
         Finish, Goto, TypeOK
    <3>2. CASE u # t
      BY <1>3, <2>1, <2>2, <3>2, WriterHands, UntouchedBatch DEF AnchorInv
    <3> QED BY <3>1, <3>2
  <2> QED BY <2>3, <2>4
<1>4. ASSUME NEW t \in Thread, CommitUpsert(t)
      PROVE  EdgesAnchored' /\ \A u \in Thread : BatchInv(u)'
  <2>1. ~raced /\ pc[t] = "upsertHeld"
    BY <1>4 DEF CommitUpsert, WriteRow
  <2>2. EdgesAnchored /\ \A u \in Thread : BatchInv(u)
    BY <2>1 DEF AnchorInv
  <2>3. /\ req[t] \in Request /\ cur[t] \in todo[t] /\ todo[t] \subseteq req[t].items
        /\ \A i \in req[t].items \ todo[t] : Exists(i)
        /\ cur[t] \in Relation => todo[t] \cap Entity = {}
    BY <2>1, <2>2 DEF BatchInv, Writing
  <2>4. \A i \in Item : Exists(i)' <=> (Exists(i) \/ i = cur[t])
    BY <1>4, CommitEffect
  <2>5. EdgesAnchored'
    <3> SUFFICES ASSUME NEW e \in Relation, Exists(e)'
                 PROVE  Exists(e[1])' /\ Exists(e[2])'
      BY DEF EdgesAnchored
    <3>1. e[1] \in Entity /\ e[2] \in Entity /\ e \in Item /\ e[1] \in Item /\ e[2] \in Item
      BY DataAssumption DEF Item
    <3>2. CASE Exists(e)
      BY <2>1, <2>2, <2>4, <3>1, <3>2 DEF EdgesAnchored
    <3>3. CASE e = cur[t]
      <4>1. e[1] \in req[t].items \ todo[t] /\ e[2] \in req[t].items \ todo[t]
        BY <2>3, <3>1, <3>3 DEF ClosedBatches
      <4> QED BY <2>3, <2>4, <3>1, <4>1
    <3> QED BY <2>4, <3>1, <3>2, <3>3
  <2>6. ASSUME NEW u \in Thread \ {t} PROVE BatchInv(u)'
    BY <1>4, <2>2, <2>4, WriterHands, UntouchedBatch
  <2>7. BatchInv(t)'
    <3>1. pc'[t] = "upsert" /\ req'[t] = req[t] /\ todo'[t] = todo[t] \ {cur[t]}
      BY <1>4 DEF CommitUpsert, WriteRow, Goto, TypeOK
    <3>2. req[t].items \subseteq Item
      BY DEF TypeOK, RequestType, Item
    <3>3. \A i \in req[t].items \ (todo[t] \ {cur[t]}) : Exists(i)'
      BY <2>3, <2>4, <3>2
    <3> QED BY <2>3, <3>1, <3>3 DEF BatchInv
  <2> QED BY <2>5, <2>6, <2>7
<1>5. CASE UNCHANGED vars
  BY <1>5 DEF vars, storeVars, threadVars, AnchorInv, EdgesAnchored, BatchInv, Exists
<1> QED
  BY <1>1, <1>2, <1>3, <1>4, <1>5 DEF Next, Advance, Quiescent

(* When every batch carries the endpoints of its relations, no interleaving *)
(* of builds, merges, deprecations and failures leaves an edge without its  *)
(* endpoint rows, in any deployment, until a delete overtakes a build.      *)
THEOREM EdgesAreAnchored == ClosedBatches => (Spec => []EdgesAnchored)
<1> SUFFICES ASSUME ClosedBatches PROVE Spec => []EdgesAnchored
  OBVIOUS
<1>1. TypeOK /\ AnchorInv /\ [Next]_vars => AnchorInv'
  BY AnchorNext
<1>2. AnchorInv => EdgesAnchored
  BY DEF AnchorInv, EdgesAnchored
<1> QED BY <1>1, <1>2, InitType, NextType, AnchorInit, PTL DEF Spec

-----------------------------------------------------------------------------
(* Withdrawals: what is left of a document when its withdrawal has         *)
(* returned.                                                               *)

(* The history variables only watch.                                       *)
LEMMA HistorySteps == [HistoryNext]_allVars => [Next]_vars
BY DEF HistoryNext, Arrive, Select, Withdraw, GiveUp, Elsewhere, Next, Advance, allVars

(* A thread that is writing a batch serves a build or a merge, and nobody  *)
(* else has records to write; only a merge keeps keys from deprecation,    *)
(* and only a delete deletes.                                              *)
ServesInv ==
    \A t \in Thread :
        /\ pc[t] \in Writing => req[t].op \in {"build", "merge"}
        /\ pc[t] \notin Writing => todo[t] = {}
        /\ pc[t] = "keys" => req[t].op = "merge"
        /\ pc[t] \in {"delete", "deleteHeld"} => req[t].op = "delete"
        /\ pc[t] = "idle" \/ req[t].op # "merge" => keys[t] = {}

(* What is left of the document once the withdrawal t has written its      *)
(* victims, if t is still to do so.                                        *)
Gone(doc, but) ==
    \A x \in Entity :
        Atomic!OnlyFrom(rows[x], doc) => NoDoc \in contributed[x] \/ x \in but

Unwritten(doc) == \A t \in Thread : ~Writes(t, doc)

GoneInv ==
    /\ ServesInv
    /\ \A t \in clean : /\ t \in Thread /\ pc[t] = "deprecateHeld"
                        /\ Unwritten(req[t].doc)
                        /\ Gone(req[t].doc, victims[t])
    /\ \A doc \in withdrawn : Unwritten(doc) /\ Gone(doc, {})

LEMMA GoneInit == HistoryInit => GoneInv
<1> SUFFICES ASSUME HistoryInit PROVE ServesInv
  BY DEF HistoryInit, GoneInv
<1> QED BY DEF HistoryInit, Init, ServesInv, Writing, NoRequest

LEMMA ServesNext == TypeOK /\ ServesInv /\ [Next]_vars => ServesInv'
<1> SUFFICES ASSUME TypeOK, ServesInv, [Next]_vars PROVE ServesInv'
  OBVIOUS
<1> USE DEF TypeOK, Goto, Writing
<1>0. ASSUME NEW t \in Thread, Finish(t) PROVE ServesInv'
  BY <1>0 DEF Finish, NoRequest, ServesInv
<1>1. ASSUME NEW t \in Thread, Accept(t) PROVE ServesInv'
  BY <1>1 DEF Accept, ServesInv
<1>2. ASSUME NEW t \in Thread, Require(t) PROVE ServesInv'
  BY <1>0, <1>2 DEF Require, ServesInv
<1>3. ASSUME NEW t \in Thread, Reject(t) \/ Fail(t) PROVE ServesInv'
  BY <1>0, <1>3 DEF Reject, Fail
<1>4. ASSUME NEW t \in Thread, CreateCheck(t) \/ DeleteCheck(t) PROVE ServesInv'
  BY <1>0, <1>4 DEF CreateCheck, DeleteCheck, ServesInv
<1>5. ASSUME NEW t \in Thread, CreateCommit(t) \/ DeleteCommit(t) \/ DeprecateWrite(t)
      PROVE  ServesInv'
  BY <1>0, <1>5 DEF CreateCommit, DeleteCommit, DeprecateWrite
<1>6. ASSUME NEW t \in Thread, UpsertEntity(t) \/ UpsertRelation(t) PROVE ServesInv'
  BY <1>6 DEF UpsertEntity, UpsertRelation, BeginUpsert, ServesInv
<1>7. ASSUME NEW t \in Thread, CommitUpsert(t) PROVE ServesInv'
  BY <1>7 DEF CommitUpsert, WriteRow, ServesInv
<1>8. ASSUME NEW t \in Thread, BatchDone(t) PROVE ServesInv'
  BY <1>0, <1>8 DEF BatchDone, ServesInv
<1>9. ASSUME NEW t \in Thread, ListKeys(t) \/ DeprecateRead(t) PROVE ServesInv'
  BY <1>9 DEF ListKeys, DeprecateRead, ServesInv
<1>10. CASE UNCHANGED vars
  BY <1>10 DEF vars, threadVars, ServesInv
<1> QED
  BY <1>1, <1>2, <1>3, <1>4, <1>5, <1>6, <1>7, <1>8, <1>9, <1>10 DEF Next, Advance, Quiescent

(* Steps after which a thread works for its old document or for none.      *)
LEMMA KeepsUnwritten ==
    ASSUME TypeOK, NEW t \in Thread, Select(t) \/ Withdraw(t) \/ GiveUp(t) \/ Elsewhere(t),
           NEW u \in Thread, NEW doc
    PROVE  /\ Writes(u, doc)' => Writes(u, doc)
           /\ u # t => pc'[u] = pc[u] /\ req'[u] = req[u] /\ victims'[u] = victims[u]
<1> USE DEF TypeOK, Goto, Writes
<1>0. ASSUME Finish(t) PROVE (Writes(u, doc)' => Writes(u, doc)) /\ (u # t => pc'[u] = pc[u] /\ req'[u] = req[u] /\ victims'[u] = victims[u])
  BY <1>0 DEF Finish
<1>1. CASE Select(t)
  BY <1>1 DEF Select, DeprecateRead
<1>2. CASE Withdraw(t) \/ GiveUp(t)
  BY <1>0, <1>2 DEF Withdraw, DeprecateWrite, GiveUp, Fail
<1>3. CASE Require(t)
  BY <1>0, <1>3 DEF Require
<1>4. CASE Reject(t) \/ CreateCommit(t) \/ DeleteCommit(t)
  BY <1>0, <1>4 DEF Reject, CreateCommit, DeleteCommit
<1>5. CASE CreateCheck(t) \/ DeleteCheck(t)
  BY <1>0, <1>5 DEF CreateCheck, DeleteCheck
<1>6. CASE UpsertEntity(t) \/ UpsertRelation(t)
  BY <1>6 DEF UpsertEntity, UpsertRelation, BeginUpsert
<1>7. CASE CommitUpsert(t)
  BY <1>7 DEF CommitUpsert, WriteRow
<1>8. CASE BatchDone(t)
  BY <1>0, <1>8 DEF BatchDone
<1>9. CASE ListKeys(t)
  BY <1>9 DEF ListKeys
<1> QED
  BY <1>1, <1>2, <1>3, <1>4, <1>5, <1>6, <1>7, <1>8, <1>9 DEF Elsewhere

(* Steps that leave alone what is gone, for a document nobody writes.      *)
LEMMA KeepsGone ==
    ASSUME TypeOK, TypeOK', ServesInv, [HistoryNext]_allVars,
           NEW doc, NEW but, Unwritten(doc), Gone(doc, but)
    PROVE  \A x \in Entity :
               Atomic!OnlyFrom(rows'[x], doc) => NoDoc \in contributed'[x] \/ x \in but
<1> SUFFICES ASSUME NEW x \in Entity, Atomic!OnlyFrom(rows'[x], doc)
             PROVE  NoDoc \in contributed'[x] \/ x \in but
  OBVIOUS
<1> x \in Item
  BY DEF Item
<1>1. CASE UNCHANGED <<rows, contributed>>
  BY <1>1 DEF Gone
<1>2. ASSUME NEW t \in Thread, CommitUpsert(t) PROVE NoDoc \in contributed'[x] \/ x \in but
  <2>1. pc[t] = "upsertHeld" /\ req[t].doc # doc
    BY <1>2 DEF CommitUpsert, WriteRow, ServesInv, Writing, Unwritten, Writes
  <2>2. CASE x = cur[t]
    <3>0. rows'[x] = Atomic!MergeRow(seen[t], req[t].doc)
      BY <1>2, <2>2, CommitEffect
    <3>1. rows'[x].docs = seen[t].docs \cup ({req[t].doc} \ {NoDoc})
      BY <3>0 DEF Atomic!MergeRow
    <3>2. req[t].doc = NoDoc
      BY <2>1, <3>1 DEF Atomic!OnlyFrom
    <3> QED BY <1>2, <2>2, <3>2 DEF CommitUpsert, WriteRow, TypeOK
  <2>3. CASE x # cur[t]
    BY <1>2, <2>3, CommitEffect DEF CommitUpsert, WriteRow, TypeOK, Gone
  <2> QED BY <2>2, <2>3
<1>3. ASSUME NEW t \in Thread, DeleteCommit(t) PROVE FALSE
  BY <1>3 DEF DeleteCommit, Atomic!OnlyFrom, Atomic!NoRow
<1>4. ASSUME NEW t \in Thread, DeprecateWrite(t) PROVE NoDoc \in contributed'[x] \/ x \in but
  <2>1. rows'[x] = IF x \in victims[t] /\ Exists(x) THEN Atomic!Deprecated(rows[x]) ELSE rows[x]
    BY <1>4 DEF DeprecateWrite
  <2>2. Atomic!Deprecated(rows[x]).status = "deprecated"
    BY DEF TypeOK, Atomic!Deprecated, Atomic!Row
  <2>3. rows'[x] = rows[x]
    BY <2>1, <2>2 DEF Atomic!OnlyFrom
  <2> QED BY <1>4, <2>3 DEF DeprecateWrite, Gone
<1>5. ASSUME NEW t \in Thread, CreateCommit(t) PROVE UNCHANGED <<rows, contributed>>
  BY <1>5 DEF CreateCommit
<1>6. CASE UNCHANGED vars
  BY <1>6, <1>1 DEF vars, storeVars
<1> QED
  BY <1>1, <1>2, <1>3, <1>4, <1>5, <1>6, HistorySteps, QuietSteps
     DEF Next, Advance, Quiescent, QuietStep, storeVars

(* A withdrawal that selects its victims takes everything that names its   *)
(* document alone.                                                         *)
LEMMA SelectGone ==
    ASSUME TypeOK, ServesInv, NEW t \in Thread, DeprecateRead(t), req[t].op = "deprecate"
    PROVE  /\ pc'[t] = "deprecateHeld" /\ req' = req
           /\ \A x \in Entity : Atomic!OnlyFrom(rows'[x], req[t].doc) => x \in victims'[t]
<1>1. victims'[t] = {x \in Entity : Atomic!OnlyFrom(rows[x], req[t].doc)}
  <2>1. victims'[t] = Victims(t)
    BY DEF DeprecateRead, TypeOK
  <2>2. keys[t] = {}
    BY DEF ServesInv
  <2> QED BY <2>1, <2>2 DEF Victims
<1>2. UNCHANGED <<rows, req>> /\ pc'[t] = "deprecateHeld"
  BY DEF DeprecateRead, storeVars, TypeOK, Goto
<1> QED BY <1>1, <1>2

LEMMA WithdrawGone ==
    ASSUME TypeOK, NEW t \in Thread, DeprecateWrite(t), Gone(req[t].doc, victims[t])
    PROVE  \A x \in Entity : Atomic!OnlyFrom(rows'[x], req[t].doc) => NoDoc \in contributed'[x]
<1> SUFFICES ASSUME NEW x \in Entity, Atomic!OnlyFrom(rows'[x], req[t].doc)
             PROVE  NoDoc \in contributed'[x]
  OBVIOUS
<1>1. rows'[x] = IF x \in victims[t] /\ Exists(x) THEN Atomic!Deprecated(rows[x]) ELSE rows[x]
  BY DEF DeprecateWrite, Item
<1>2. Atomic!Deprecated(rows[x]).status = "deprecated"
  BY DEF TypeOK, Item, Atomic!Deprecated, Atomic!Row
<1>3. rows'[x] = rows[x] /\ ~(x \in victims[t] /\ Exists(x))
  BY <1>1, <1>2 DEF Atomic!OnlyFrom
<1>4. Exists(x)
  BY <1>3 DEF Atomic!OnlyFrom, Exists
<1> QED BY <1>3, <1>4 DEF DeprecateWrite, Gone

LEMMA GoneNext == TypeOK /\ GoneInv /\ [HistoryNext]_allVars => GoneInv'
<1> SUFFICES ASSUME TypeOK, GoneInv, [HistoryNext]_allVars PROVE GoneInv'
  OBVIOUS
<1>1. ServesInv /\ ServesInv'
  BY HistorySteps, ServesNext DEF GoneInv
<1>2. \A doc, but : Unwritten(doc) /\ Gone(doc, but)
          => \A x \in Entity : Atomic!OnlyFrom(rows'[x], doc)
                               => NoDoc \in contributed'[x] \/ x \in but
  BY <1>1, NextType, HistorySteps, KeepsGone
<1>3. \A t \in clean : t \in Thread /\ pc[t] = "deprecateHeld"
  BY DEF GoneInv
<1> DEFINE Stays(t) == pc'[t] = pc[t] /\ req'[t] = req[t] /\ victims'[t] = victims[t]
           Writer(u, doc) == pc'[u] # "idle" /\ req'[u].op \in {"build", "merge"}
                                            /\ req'[u].doc = doc
(* What is watched stays watched, if nobody starts to write it.            *)
<1>4. ASSUME NEW t \in clean, Stays(t), \A u \in Thread : ~Writer(u, req[t].doc)
      PROVE  /\ t \in Thread /\ pc'[t] = "deprecateHeld"
             /\ Unwritten(req[t].doc)'
             /\ Gone(req[t].doc, victims[t])'
  BY <1>2, <1>4 DEF GoneInv, Gone, Unwritten, Writes
<1>5. ASSUME NEW doc \in withdrawn, \A u \in Thread : ~Writer(u, doc)
      PROVE  Unwritten(doc)' /\ Gone(doc, {})'
  <2>1. Unwritten(doc) /\ Gone(doc, {})
    BY DEF GoneInv
  <2>2. \A x \in Entity : Atomic!OnlyFrom(rows'[x], doc)
                        => NoDoc \in contributed'[x] \/ x \in {}
    BY <1>2, <2>1
  <2>3. Gone(doc, {})'
    BY <2>2 DEF Gone
  <2> QED BY <1>5, <2>3 DEF Unwritten, Writes
(* A step that starts no write and is no selection.                        *)
<1>6. ASSUME NEW t \in Thread, Select(t) \/ Withdraw(t) \/ GiveUp(t) \/ Elsewhere(t)
      PROVE  /\ \A doc : \A u \in Thread : Writer(u, doc) => Writes(u, doc)
             /\ \A u \in Thread : u # t => Stays(u)
  BY <1>6, KeepsUnwritten DEF Writes
<1>7. \A doc : Unwritten(doc) <=> \A u \in Thread : ~Writes(u, doc)
  BY DEF Unwritten
<1>8. \A t \in clean : Unwritten(req[t].doc)
  BY DEF GoneInv
<1>9. \A doc \in withdrawn : Unwritten(doc)
  BY DEF GoneInv
<1>10. ASSUME NEW t \in Thread, Arrive(t) PROVE GoneInv'
  <2>1. \A u \in Thread : u # t => Stays(u)
    BY <1>10 DEF Arrive, Accept, TypeOK, Goto
  <2>2. pc[t] = "idle" /\ t \notin clean
    BY <1>3, <1>10 DEF Arrive, Accept
  <2>3. \A doc : \A u \in Thread : u # t /\ Writer(u, doc) => Writes(u, doc)
    BY <2>1 DEF Writes
  <2>4. \A v \in clean' : v \in clean /\ Stays(v) /\ ~Writer(t, req[v].doc)
    BY <1>3, <1>10, <2>1, <2>2 DEF Arrive, history
  <2>5. \A doc \in withdrawn' : doc \in withdrawn /\ ~Writer(t, doc)
    BY <1>10 DEF Arrive, history
  <2>6. \A v \in clean', u \in Thread : ~Writer(u, req[v].doc)
    BY <1>7, <1>8, <2>3, <2>4
  <2>7. \A doc \in withdrawn', u \in Thread : ~Writer(u, doc)
    BY <1>7, <1>9, <2>3, <2>5
  <2> QED BY <1>1, <1>4, <1>5, <2>4, <2>5, <2>6, <2>7 DEF GoneInv
<1>11. ASSUME NEW t \in Thread, Select(t) PROVE GoneInv'
  <2>1. withdrawn' = withdrawn /\ t \notin clean
    BY <1>3, <1>11 DEF Select, DeprecateRead
  <2>2. \A v \in clean' \ {t} : v \in clean /\ Stays(v)
    BY <1>3, <1>6, <1>11 DEF Select
  <2>3. t \in clean' => req[t].op = "deprecate" /\ Unwritten(req[t].doc)
    BY <1>11, <2>1 DEF Select, Unwritten
  <2>4. t \in clean' => /\ pc'[t] = "deprecateHeld" /\ Unwritten(req[t].doc)'
                        /\ Gone(req[t].doc, victims[t])'
    BY <1>1, <1>6, <1>7, <1>11, <2>3, SelectGone DEF Select, Gone, Unwritten, Writes
  <2> QED BY <1>1, <1>4, <1>5, <1>6, <1>7, <1>8, <1>9, <1>11, <2>1, <2>2, <2>4 DEF GoneInv
<1>12. ASSUME NEW t \in Thread, Withdraw(t) \/ GiveUp(t) \/ Elsewhere(t) PROVE GoneInv'
  <2>1. \A v \in clean' : v \in clean /\ v # t /\ Stays(v)
    BY <1>3, <1>6, <1>12 DEF Withdraw, GiveUp, Elsewhere, history, Require, Reject,
       CreateCheck, CreateCommit, DeleteCheck, DeleteCommit, UpsertEntity, UpsertRelation,
       CommitUpsert, WriteRow, BatchDone, ListKeys
  <2>2. ASSUME NEW doc \in withdrawn', doc \notin withdrawn
        PROVE  Unwritten(doc)' /\ Gone(doc, {})'
    <3>1. Withdraw(t) /\ t \in clean /\ doc = req[t].doc
      BY <1>12, <2>2 DEF Withdraw, GiveUp, Elsewhere, history
    <3>2. Unwritten(doc)'
      BY <1>6, <1>7, <1>8, <3>1 DEF Unwritten, Writes
    <3>3. \A x \in Entity : Atomic!OnlyFrom(rows'[x], doc) => NoDoc \in contributed'[x]
      BY <3>1, WithdrawGone DEF GoneInv, Withdraw
    <3> QED BY <3>2, <3>3 DEF Gone
  <2> QED BY <1>1, <1>4, <1>5, <1>6, <1>7, <1>8, <1>9, <1>12, <2>1, <2>2 DEF GoneInv
<1>13. CASE UNCHANGED allVars
  BY <1>13, <1>1, <1>4, <1>5, <1>7, <1>8, <1>9 DEF allVars, vars, threadVars, history, GoneInv, Writes
<1>14. CASE Quiescent /\ UNCHANGED history
  BY <1>13, <1>14 DEF Quiescent, allVars
<1> QED
  BY <1>10, <1>11, <1>12, <1>13, <1>14 DEF HistoryNext

(* An entity stays active after the withdrawal of all the documents that   *)
(* its evidence names only if there are two of them, or if a request       *)
(* without a docId contributed to it: in any deployment, for any requests, *)
(* whatever fails and whatever is deleted.                                 *)
THEOREM WithdrawalsLeaveOnlyShared == HistorySpec => []OnlySharedSurvive
<1>1. HistoryInit => TypeOK
  BY InitType DEF HistoryInit
<1>2. TypeOK /\ [HistoryNext]_allVars => TypeOK'
  BY NextType, HistorySteps
<1>3. GoneInv => OnlySharedSurvive
  <2> SUFFICES ASSUME GoneInv, NEW x \in Entity, rows[x].status = "active",
                      NEW d \in rows[x].docs, rows[x].docs \subseteq withdrawn,
                      \A e \in rows[x].docs : e = d
               PROVE  NoDoc \in contributed[x]
    BY DEF OnlySharedSurvive
  <2>1. Atomic!OnlyFrom(rows[x], d)
    BY DEF Atomic!OnlyFrom
  <2> QED BY <2>1 DEF GoneInv, Gone
<1> QED BY <1>1, <1>2, <1>3, GoneInit, GoneNext, PTL DEF HistorySpec

-----------------------------------------------------------------------------
(* JobsOverStore: jobs whose tasks are requests of GraphStore.             *)

(* What a job does to the store is what a thread does there: everything    *)
(* that is proved of GraphStore holds beside any jobs.                     *)
LEMMA OverStep == [OverNext]_overVars => [Next]_vars
<1> SUFFICES ASSUME [OverNext]_overVars PROVE [Next]_vars
  OBVIOUS
<1> USE TasksAssumption DEF Agent, Server
<1>1. ASSUME UNCHANGED graph, UNCHANGED restOfStore PROVE UNCHANGED vars
  BY <1>1 DEF restOfStore, vars, storeVars
<1>2. ASSUME NEW j \in Job, OverSubmit(j) PROVE UNCHANGED vars
  BY <1>1, <1>2 DEF OverSubmit, Jobs!Submit, Jobs!SubmitCheck, Jobs!Register, Jobs!Dispatch,
                    Jobs!SubmitFault
<1>3. ASSUME NEW w \in Worker, TakeUp(w) PROVE Next
  BY <1>3 DEF TakeUp, Serves, Next
<1>4. ASSUME NEW r \in Runner, RunUp(r) PROVE Next
  BY <1>4 DEF RunUp, Serves, Next
<1>5. ASSUME NEW a \in Agent, Tend(a) \/ Die(a) PROVE [Next]_vars
  <2>1. CASE Find(a)
    BY <1>5, <2>1 DEF Find, Advance, Next
  <2>2. CASE Go(a) \/ Return(a)
    BY <1>5, <2>2 DEF Go, Return, Next
  <2>3. CASE Raise(a)
    BY <1>5, <2>3 DEF Raise, Next
  <2>4. CASE Settle(a)
    BY <1>1, <2>4 DEF Settle, Jobs!Record, Jobs!RecordFault
  <2>5. CASE Die(a)
    BY <1>1, <1>5, <2>5 DEF Die, Jobs!Crash, Next
  <2> QED BY <1>5, <2>1, <2>2, <2>3, <2>4, <2>5 DEF Tend
<1>6. ASSUME NEW t \in Server, Present(t) \/ Demolish(t) PROVE Next
  BY <1>6 DEF Present, Demolish, Next, Advance
<1>7. CASE UNCHANGED overVars
  BY <1>7 DEF overVars
<1> QED
  BY <1>2, <1>3, <1>4, <1>5, <1>6, <1>7 DEF OverNext, Closed

(* Whoever serves a job serves its request, and has stored what it no      *)
(* longer has to do; who has carried a job out has stored everything.      *)
AgentServes(a) ==
    /\ stage[a] # "idle" => job[a] \in Job
    /\ stage[a] # "recording" => outcome[a] = "none"
    /\ stage[a] \in {"running", "working"} => req[a] = task[job[a]]
    /\ stage[a] = "running" <=> pc[a] = "require"
    /\ stage[a] = "working" <=> pc[a] \notin {"idle", "require"}

Writable(j) == j \notin cut /\ task[j].op \in {"build", "merge"}

Doing(a, x) ==
    \/ stage[a] = "running"
    \/ stage[a] = "working" /\ x \in todo[a]
    \/ stage[a] = "recording" /\ outcome[a] # "ok"

StageTypes ==
    /\ stage \in [Agent -> {"idle", "running", "working", "recording"}]
    /\ job \in [Agent -> Job \cup {NoJob}]
    /\ outcome \in [Agent -> {"none", "ok", "error"}]
    /\ status \in [Job -> {"none", "pending", "success", "failed"}]
    /\ queue \in SUBSET Job

StoredInv ==
    /\ StageTypes
    /\ ServesInv
    /\ \A a \in Agent : AgentServes(a)
    /\ \A a \in Agent : stage[a] # "idle" /\ Writable(job[a]) =>
           \A x \in task[job[a]].items : Doing(a, x) \/ Stored(x, task[job[a]].doc)
    /\ SuccessIsStored

LEMMA StoredInit == OverInit => StoredInv
<1> SUFFICES ASSUME OverInit PROVE StoredInv
  OBVIOUS
<1> USE DEF OverInit, Init, Jobs!Init, Jobs!Agent, Agent
<1>1. ServesInv
  BY DEF ServesInv, Writing, NoRequest
<1>2. \A a \in Agent : AgentServes(a)
  BY TasksAssumption DEF AgentServes
<1>3. SuccessIsStored
  BY DEF SuccessIsStored
<1> QED BY <1>1, <1>2, <1>3 DEF StoredInv, StageTypes

(* No step but a delete takes a stored record away.                        *)
NothingLost ==
    \A x \in Item, doc \in Doc \cup {NoDoc} :
        Stored(x, doc) => Exists(x)' /\ doc \in contributed'[x]

LEMMA NothingLostAlone == UNCHANGED <<rows, contributed>> => NothingLost
BY DEF NothingLost, Stored, Exists

LEMMA StoredStays ==
    ASSUME TypeOK, NEW t \in Thread,
           \/ Accept(t) \/ Reject(t) \/ Fail(t)
           \/ Advance(t) /\ pc[t] # "deleteHeld"
    PROVE  NothingLost
<1>1. CASE CreateCommit(t)
  BY <1>1, NothingLostAlone DEF CreateCommit
<1>2. CASE CommitUpsert(t)
  BY <1>2, CommitEffect DEF CommitUpsert, WriteRow, TypeOK, Stored, NothingLost
<1>3. CASE DeprecateWrite(t)
  BY <1>3, DeprecateKeepsRows DEF DeprecateWrite, Stored, NothingLost
<1>4. CASE QuietStep
  BY <1>4, NothingLostAlone DEF QuietStep, storeVars
<1>5. ~DeleteCommit(t) \/ Accept(t) \/ Reject(t) \/ Fail(t)
  BY DEF DeleteCommit
<1> QED BY <1>1, <1>2, <1>3, <1>4, <1>5, QuietSteps DEF Advance

(* A step of t leaves the requests of the others alone.                    *)
LEMMA OthersKeep ==
    ASSUME TypeOK, NEW t \in Thread,
           Accept(t) \/ Advance(t) \/ Reject(t) \/ Fail(t),
           NEW u \in Thread, u # t
    PROVE  pc'[u] = pc[u] /\ req'[u] = req[u] /\ todo'[u] = todo[u]
<1> USE DEF TypeOK, Goto
<1>0. ASSUME Finish(t) PROVE pc'[u] = pc[u] /\ req'[u] = req[u] /\ todo'[u] = todo[u]
  BY <1>0 DEF Finish
<1>1. CASE Accept(t) \/ Reject(t) \/ Fail(t)
  BY <1>0, <1>1 DEF Accept, Reject, Fail
<1>2. CASE Require(t) \/ BatchDone(t) \/ ListKeys(t) \/ DeprecateRead(t)
  BY <1>0, <1>2 DEF Require, BatchDone, ListKeys, DeprecateRead
<1>3. CASE CreateCheck(t) \/ DeleteCheck(t)
  BY <1>0, <1>3 DEF CreateCheck, DeleteCheck
<1>4. CASE UpsertEntity(t) \/ UpsertRelation(t)
  BY <1>4 DEF UpsertEntity, UpsertRelation, BeginUpsert
<1>5. CASE CreateCommit(t) \/ DeleteCommit(t) \/ CommitUpsert(t) \/ DeprecateWrite(t)
  BY <1>5, WriterHands
<1> QED BY <1>1, <1>2, <1>3, <1>4, <1>5 DEF Advance

(* How a request that has found its graph goes on: it stays with its       *)
(* request and drops nothing it has not stored, and ends when nothing is   *)
(* left to write.                                                          *)
LEMMA AdvanceWrites ==
    ASSUME TypeOK, ServesInv, NEW t \in Thread, Advance(t),
           pc[t] \notin {"idle", "require"}, req[t].op \in {"build", "merge", "deprecate"}
    PROVE  /\ pc'[t] # "require"
           /\ pc'[t] # "idle" => req'[t] = req[t]
           /\ pc'[t] = "idle" => todo[t] = {}
           /\ pc'[t] # "idle" =>
                  \A x \in todo[t] \ todo'[t] :
                      x \in Item => Exists(x)' /\ req[t].doc \in contributed'[x]
<1> USE DEF TypeOK, Goto, Writing
<1>0. ASSUME Finish(t) PROVE pc'[t] = "idle"
  BY <1>0 DEF Finish
<1>1. CASE CreateCheck(t) \/ DeleteCheck(t)
  BY <1>0, <1>1 DEF CreateCheck, DeleteCheck, ServesInv
<1>2. CASE CreateCommit(t) \/ DeleteCommit(t) \/ DeprecateWrite(t)
  BY <1>0, <1>2 DEF CreateCommit, DeleteCommit, DeprecateWrite, ServesInv
<1>3. CASE UpsertEntity(t) \/ UpsertRelation(t)
  BY <1>3 DEF UpsertEntity, UpsertRelation, BeginUpsert
<1>4. CASE BatchDone(t)
  BY <1>0, <1>4 DEF BatchDone
<1>5. CASE ListKeys(t) \/ DeprecateRead(t)
  BY <1>5 DEF ListKeys, DeprecateRead
<1>6. CASE CommitUpsert(t)
  <2>1. pc'[t] = "upsert" /\ req'[t] = req[t] /\ todo'[t] = todo[t] \ {cur[t]}
    BY <1>6 DEF CommitUpsert, WriteRow
  <2>2. ASSUME NEW x \in Item, x = cur[t]
        PROVE  Exists(x)' /\ req[t].doc \in contributed'[x]
    BY <1>6, <2>2, CommitEffect DEF CommitUpsert, WriteRow
  <2> QED BY <2>1, <2>2
<1> QED
  BY <1>1, <1>2, <1>3, <1>4, <1>5, <1>6 DEF Advance, Require

(* The agents but one, and the jobs that were a success before.            *)
LEMMA StoredRest ==
    ASSUME TypeOK, StoredInv, NothingLost, UNCHANGED cut,
           NEW S \in SUBSET Agent,
           \A u \in Agent \ S : UNCHANGED <<stage[u], job[u], outcome[u], pc[u], req[u], todo[u]>>
    PROVE  /\ \A u \in Agent \ S : AgentServes(u)'
           /\ \A u \in Agent \ S : stage'[u] # "idle" /\ Writable(job'[u]) =>
                 \A x \in task[job'[u]].items :
                     Doing(u, x)' \/ (Exists(x)' /\ task[job'[u]].doc \in contributed'[x])
           /\ \A j \in Job \ cut :
                 status[j] = "success" /\ task[j].op \in {"build", "merge"}
                 => \A x \in task[j].items : Exists(x)' /\ task[j].doc \in contributed'[x]
<1>1. \A j \in Job : task[j].items \subseteq Item
  BY TasksAssumption, RequestAssumption DEF RequestType, Item
<1>2. \A x \in Item, doc \in Doc \cup {NoDoc} :
          Stored(x, doc) => Exists(x)' /\ doc \in contributed'[x]
  BY DEF NothingLost
<1>3. \A j \in Job : task[j].doc \in Doc \cup {NoDoc}
  BY TasksAssumption, RequestAssumption DEF RequestType
<1>4. \A u \in Agent \ S : AgentServes(u)'
  BY DEF StoredInv, AgentServes
<1>5. ASSUME NEW u \in Agent \ S, stage'[u] # "idle", Writable(job'[u]),
             NEW x \in task[job'[u]].items
      PROVE  Doing(u, x)' \/ (Exists(x)' /\ task[job'[u]].doc \in contributed'[x])
  <2>1. job'[u] = job[u] /\ stage'[u] = stage[u] /\ job[u] \in Job
    BY <1>5 DEF StoredInv, AgentServes
  <2>2. Doing(u, x) \/ Stored(x, task[job[u]].doc)
    BY <1>5, <2>1 DEF StoredInv
  <2>3. Doing(u, x) => Doing(u, x)'
    BY <1>5 DEF Doing
  <2> QED BY <1>1, <1>2, <1>3, <1>5, <2>1, <2>2, <2>3
<1>6. ASSUME NEW j \in Job \ cut, status[j] = "success", task[j].op \in {"build", "merge"},
             NEW x \in task[j].items
      PROVE  Exists(x)' /\ task[j].doc \in contributed'[x]
  BY <1>1, <1>2, <1>3, <1>6 DEF StoredInv, SuccessIsStored
<1> QED BY <1>4, <1>5, <1>6

LEMMA StageNext ==
    ASSUME StageTypes, \A a \in Agent : stage[a] # "idle" => job[a] \in Job,
           [OverNext]_overVars
    PROVE  StageTypes'
<1> USE DEF StageTypes, Agent, Jobs!Agent, Jobs!agentVars
<1>1. ASSUME NEW j \in Job, OverSubmit(j) PROVE StageTypes'
  BY <1>1 DEF OverSubmit, Jobs!Submit, Jobs!SubmitCheck, Jobs!Register, Jobs!Dispatch,
              Jobs!SubmitFault
<1>2. ASSUME NEW w \in Worker, TakeUp(w) PROVE StageTypes'
  BY <1>2 DEF TakeUp, Jobs!Take, Jobs!Start
<1>3. ASSUME NEW r \in Runner, RunUp(r) PROVE StageTypes'
  BY <1>3 DEF RunUp, Jobs!RunByHand, Jobs!Start
<1>4. ASSUME NEW a \in Agent, Jobs!Begin(a) \/ Jobs!Execute(a) PROVE StageTypes'
  BY <1>4 DEF Jobs!Begin, Jobs!Execute, Jobs!End
<1>5. ASSUME NEW a \in Agent, Jobs!Record(a) \/ Jobs!RecordFault(a) \/ Jobs!Crash(a)
      PROVE  StageTypes'
  BY <1>5 DEF Jobs!Record, Jobs!RecordFault, Jobs!Crash, Jobs!Stop
<1>6. CASE UNCHANGED jobVars
  BY <1>6 DEF jobVars
<1> QED
  BY <1>1, <1>2, <1>3, <1>4, <1>5, <1>6
     DEF OverNext, Tend, Find, Go, Return, Raise, Settle, Die, Present, Demolish, Closed, overVars

(* The step of an agent that serves a job: what it has not stored by then  *)
(* is still to do, and it records success only when nothing is.            *)
AgentStored(a) ==
    stage[a] # "idle" /\ Writable(job[a]) =>
        \A x \in task[job[a]].items : Doing(a, x) \/ Stored(x, task[job[a]].doc)

LEMMA AgentStoredNext ==
    ASSUME TypeOK, StoredInv, NEW a \in Agent, Tend(a) \/ Die(a),
           StageTypes'
    PROVE  AgentServes(a)' /\ AgentStored(a)'
<1> USE DEF StoredInv, StageTypes
<1>0. a \in Thread /\ AgentServes(a) /\ AgentStored(a) /\ ServesInv
  BY TasksAssumption DEF Agent, AgentStored
<1>1. ASSUME Finish(a) PROVE pc'[a] = "idle"
  BY <1>0, <1>1, FinishPc
<1>2. CASE Find(a)
  <2>1. job'[a] = job[a] /\ job[a] \in Job /\ stage[a] = "running" /\ UNCHANGED cut
    BY <1>0, <1>2 DEF Find, Jobs!Begin, AgentServes
  <2>2. stage'[a] = "working" \/ (stage'[a] = "recording" /\ outcome'[a] = "error")
    BY <1>0, <1>2 DEF Find, Jobs!Begin, Jobs!End
  <2>3. CASE stage'[a] = "working"
    <3>1. pc'[a] \notin {"idle", "require"} /\ req'[a] = req[a]
      BY <1>0, <1>1, <1>2, <2>3 DEF Find, Require, Goto, TypeOK
    <3>2. req[a].op \in {"build", "merge"} => todo'[a] = req[a].items
      BY <1>0, <1>1, <1>2, <2>3, <3>1 DEF Find, Require, TypeOK
    <3>3. AgentServes(a)'
      <4>1. outcome'[a] = "none"
        BY <1>0, <1>2, <2>1, <2>3 DEF Find, Jobs!Begin, Jobs!End, AgentServes
      <4> QED BY <1>0, <2>1, <2>3, <3>1, <4>1 DEF AgentServes
    <3>4. AgentStored(a)'
      BY <1>0, <2>1, <2>3, <3>2 DEF AgentStored, AgentServes, Writable, Doing
    <3> QED BY <3>3, <3>4
  <2>4. CASE stage'[a] = "recording" /\ outcome'[a] = "error"
    <3>1. pc'[a] = "idle"
      BY <1>2, <2>4 DEF Find
    <3> QED BY <2>1, <2>4, <3>1 DEF AgentServes, AgentStored, Doing
  <2> QED BY <2>2, <2>3, <2>4
<1>3. CASE Go(a) \/ Return(a)
  <2>1. /\ Advance(a) /\ job'[a] = job[a] /\ job[a] \in Job /\ UNCHANGED cut
        /\ stage[a] = "working" /\ pc[a] \notin {"idle", "require"}
        /\ req[a] = task[job[a]]
    BY <1>0, <1>3 DEF Go, Return, Jobs!Execute, jobVars, AgentServes
  <2>2. req[a].op \in {"build", "merge", "deprecate"}
    BY <2>1, TasksAssumption
  <2>3. /\ pc'[a] # "require"
        /\ pc'[a] # "idle" => req'[a] = req[a]
        /\ pc'[a] = "idle" => todo[a] = {}
        /\ pc'[a] # "idle" =>
               \A x \in todo[a] \ todo'[a] :
                   x \in Item => Exists(x)' /\ req[a].doc \in contributed'[x]
    BY <1>0, <2>1, <2>2, AdvanceWrites
  <2>4. \A x \in task[job[a]].items : x \in Item
    BY <2>1, TasksAssumption, RequestAssumption DEF RequestType, Item
  <2>5. pc[a] # "deleteHeld" /\ task[job[a]].doc \in Doc \cup {NoDoc}
    BY <1>0, <2>1, <2>2, TasksAssumption, RequestAssumption DEF ServesInv, RequestType
  <2>6. \A x \in Item : Stored(x, task[job[a]].doc)
            => Exists(x)' /\ task[job[a]].doc \in contributed'[x]
    BY <1>0, <2>1, <2>5, StoredStays DEF NothingLost
  <2>7. CASE Go(a)
    <3>1. stage'[a] = "working" /\ pc'[a] # "idle" /\ outcome'[a] = "none"
      BY <1>0, <2>1, <2>7 DEF Go, jobVars, AgentServes
    <3>2. AgentServes(a)'
      BY <2>1, <2>3, <3>1 DEF AgentServes
    <3>3. ASSUME Writable(job[a]), NEW x \in task[job[a]].items, x \notin todo'[a]
          PROVE  Exists(x)' /\ task[job[a]].doc \in contributed'[x]
      <4>1. x \in todo[a] \/ Stored(x, task[job[a]].doc)
        BY <1>0, <2>1, <3>3 DEF AgentStored, Doing
      <4> QED BY <2>1, <2>3, <2>4, <2>6, <3>1, <3>3, <4>1
    <3>4. AgentStored(a)'
      BY <2>1, <3>1, <3>3 DEF AgentStored, Doing, Writable, Stored
    <3> QED BY <3>2, <3>4
  <2>8. CASE Return(a)
    <3>1. stage'[a] = "recording" /\ pc'[a] = "idle"
      BY <2>8 DEF Return, Jobs!Execute, Jobs!End
    <3>2. AgentServes(a)'
      BY <2>1, <3>1 DEF AgentServes
    <3>3. ASSUME Writable(job[a]), NEW x \in task[job[a]].items
          PROVE  Exists(x)' /\ task[job[a]].doc \in contributed'[x]
      <4>1. Stored(x, task[job[a]].doc)
        BY <1>0, <2>1, <2>3, <3>1, <3>3 DEF AgentStored, Doing
      <4> QED BY <2>4, <2>6, <4>1
    <3>4. AgentStored(a)'
      BY <2>1, <3>1, <3>3 DEF AgentStored, Writable, Stored
    <3> QED BY <3>2, <3>4
  <2> QED BY <1>3, <2>7, <2>8
<1>4. CASE Raise(a)
  <2>1. job'[a] = job[a] /\ job[a] \in Job /\ outcome'[a] = "error"
    BY <1>0, <1>4 DEF Raise, Jobs!Begin, Jobs!Execute, AgentServes
  <2>2. pc'[a] = "idle"
    BY <1>1, <1>4 DEF Raise, Reject, Fail
  <2>3. stage'[a] = "recording"
    BY <1>0, <1>4 DEF Raise, Jobs!Begin, Jobs!Execute, Jobs!End, AgentServes
  <2> QED BY <2>1, <2>2, <2>3 DEF AgentServes, AgentStored, Doing
<1>5. CASE Settle(a) \/ Die(a)
  <2>1. stage'[a] = "idle" /\ outcome'[a] = "none"
    BY <1>5 DEF Settle, Die, Jobs!Record, Jobs!RecordFault, Jobs!Crash, Jobs!Stop
  <2>2. pc'[a] = "idle"
    <3>1. CASE Settle(a)
      BY <1>0, <3>1 DEF Settle, Jobs!Record, Jobs!RecordFault, restOfStore, threadVars, AgentServes
    <3>2. CASE Die(a)
      BY <1>1, <3>2 DEF Die, restOfStore, threadVars, Fail
    <3> QED BY <1>5, <3>1, <3>2
  <2> QED BY <2>1, <2>2 DEF AgentServes, AgentStored
<1> QED BY <1>2, <1>3, <1>4, <1>5 DEF Tend

(* The agents of S act; the rest of the invariant stays.                   *)
BystandersStay(S) ==
    \A u \in Agent \ S : UNCHANGED <<stage[u], job[u], outcome[u], pc[u], req[u], todo[u]>>

ActorsServe(S) == \A a \in S : AgentServes(a)' /\ AgentStored(a)'

SuccessEarned ==
    \A j \in Job \ cut :
        status'[j] = "success" /\ status[j] # "success" /\ task[j].op \in {"build", "merge"}
        => \A x \in task[j].items : Exists(x)' /\ task[j].doc \in contributed'[x]

LEMMA ActorsKeepStored ==
    ASSUME TypeOK, StoredInv, StageTypes', ServesInv', NothingLost, UNCHANGED cut,
           NEW S \in SUBSET Agent, BystandersStay(S), ActorsServe(S), SuccessEarned
    PROVE  StoredInv'
<1>1. /\ \A u \in Agent \ S : AgentServes(u)'
      /\ \A u \in Agent \ S : stage'[u] # "idle" /\ Writable(job'[u]) =>
            \A x \in task[job'[u]].items :
                Doing(u, x)' \/ (Exists(x)' /\ task[job'[u]].doc \in contributed'[x])
      /\ \A j \in Job \ cut :
            status[j] = "success" /\ task[j].op \in {"build", "merge"}
            => \A x \in task[j].items : Exists(x)' /\ task[j].doc \in contributed'[x]
  BY StoredRest DEF BystandersStay
<1>2. SuccessIsStored'
  BY <1>1 DEF SuccessIsStored, Stored, SuccessEarned
<1>3. \A u \in Agent \ S : AgentStored(u)'
  BY <1>1 DEF AgentStored, Stored, Writable
<1> QED BY <1>1, <1>2, <1>3 DEF StoredInv, AgentStored, ActorsServe

LEMMA StoredNext == TypeOK /\ StoredInv /\ [OverNext]_overVars => StoredInv'
<1> SUFFICES ASSUME TypeOK, StoredInv, [OverNext]_overVars PROVE StoredInv'
  OBVIOUS
<1>1. StageTypes' /\ ServesInv'
  BY StageNext, ServesNext, OverStep DEF StoredInv, AgentServes
<1>2. \A a \in Agent : AgentServes(a) /\ AgentStored(a)
  BY DEF StoredInv, AgentStored
(* An agent deletes nothing.                                               *)
<1>3. ASSUME NEW a \in Agent, stage[a] \in {"running", "working"} PROVE pc[a] # "deleteHeld"
  BY <1>2, <1>3, TasksAssumption DEF AgentServes, StoredInv, ServesInv, Agent
<1>5. Agent \subseteq Thread
  BY TasksAssumption
<1>6. ASSUME NEW j \in Job, OverSubmit(j) PROVE StoredInv'
  <2>1. UNCHANGED <<rows, contributed, pc, req, todo, stage, job, outcome, cut>>
    BY <1>6 DEF OverSubmit, restOfStore, threadVars, Jobs!Submit, Jobs!SubmitCheck,
       Jobs!Register, Jobs!Dispatch, Jobs!SubmitFault, Jobs!agentVars
  <2>2. \A i \in Job : status'[i] = "success" => status[i] = "success"
    BY <1>6 DEF OverSubmit, Jobs!Submit, Jobs!SubmitCheck, Jobs!Register, Jobs!Dispatch,
       Jobs!SubmitFault, StoredInv, StageTypes
  <2>3. SuccessEarned
    BY <2>2 DEF SuccessEarned
  <2>4. BystandersStay({}) /\ ActorsServe({})
    BY <2>1 DEF BystandersStay, ActorsServe
  <2> QED BY <1>1, <2>1, <2>3, <2>4, NothingLostAlone, ActorsKeepStored
<1>7. ASSUME NEW a \in Agent, NEW j \in Job, Jobs!Start(a, j), Serves(a), UNCHANGED <<status, cut>>
      PROVE  StoredInv'
  <2>1. NothingLost
    BY <1>5, <1>7, StoredStays DEF Serves
  <2>2. \A u \in Agent \ {a} :
            UNCHANGED <<stage[u], job[u], outcome[u], pc[u], req[u], todo[u]>>
    BY <1>5, <1>7, OthersKeep DEF Serves, Jobs!Start, StoredInv, StageTypes
  <2>3. /\ stage'[a] = "running" /\ job'[a] = j /\ outcome'[a] = outcome[a]
        /\ stage[a] = "idle"
    BY <1>7 DEF Jobs!Start, StoredInv, StageTypes
  <2>4. req'[a] = task[j] /\ pc'[a] = "require"
    BY <1>5, <1>7, <2>3, TasksAssumption DEF Serves, Accept, Goto, TypeOK
  <2>5. AgentServes(a)' /\ AgentStored(a)'
    BY <1>2, <2>3, <2>4 DEF AgentServes, AgentStored, Doing
  <2>6. SuccessEarned
    BY <1>7 DEF SuccessEarned
  <2>7. BystandersStay({a}) /\ ActorsServe({a})
    BY <2>2, <2>5 DEF BystandersStay, ActorsServe
  <2>8. {a} \in SUBSET Agent
    OBVIOUS
  <2> QED BY <1>1, <1>7, <2>1, <2>6, <2>7, <2>8, ActorsKeepStored
<1>8. ASSUME NEW w \in Worker, TakeUp(w) PROVE StoredInv'
  BY <1>7, <1>8 DEF TakeUp, Jobs!Take, Agent, StoredInv, StageTypes
<1>9. ASSUME NEW r \in Runner, RunUp(r) PROVE StoredInv'
  BY <1>7, <1>9 DEF RunUp, Jobs!RunByHand, Agent
<1>10. ASSUME NEW a \in Agent, Tend(a) \/ Die(a) PROVE StoredInv'
  <2>1. AgentServes(a)' /\ AgentStored(a)'
    BY <1>1, <1>10, AgentStoredNext
  <2>2. UNCHANGED cut
    BY <1>10 DEF Tend, Find, Go, Return, Raise, Settle, Die
  <2>3. \/ Advance(a) /\ pc[a] # "deleteHeld"
        \/ Reject(a) \/ Fail(a)
        \/ UNCHANGED <<rows, contributed, pc, req, todo>>
    BY <1>3, <1>10 DEF Tend, Find, Go, Return, Raise, Settle, Die, restOfStore, threadVars,
       Jobs!Begin, Jobs!Execute, Advance
  <2>4. NothingLost
    BY <1>5, <2>3, StoredStays, NothingLostAlone
  <2>5. \A u \in Agent \ {a} : UNCHANGED <<pc[u], req[u], todo[u]>>
    BY <1>5, <2>3, OthersKeep
  <2>6. \A u \in Agent \ {a} : UNCHANGED <<stage[u], job[u], outcome[u]>>
    BY <1>10 DEF Tend, Find, Go, Return, Raise, Settle, Die, Jobs!Begin, Jobs!Execute, Jobs!End,
       Jobs!Record, Jobs!RecordFault, Jobs!Crash, Jobs!Stop, jobVars, StoredInv, StageTypes
  <2>7. ASSUME NEW j \in Job \ cut, status'[j] = "success", status[j] # "success",
               task[j].op \in {"build", "merge"}
        PROVE  \A x \in task[j].items : Exists(x)' /\ task[j].doc \in contributed'[x]
    <3>1. Settle(a) /\ stage[a] = "recording" /\ outcome[a] = "ok" /\ job[a] = j
      BY <1>10, <2>7 DEF Tend, Find, Go, Return, Raise, Settle, Die, Jobs!Begin, Jobs!Execute,
         Jobs!Record, Jobs!RecordFault, Jobs!Crash, jobVars, StoredInv, StageTypes
    <3>2. \A x \in task[j].items : Stored(x, task[j].doc)
      BY <1>2, <2>7, <3>1 DEF AgentStored, Writable, Doing
    <3> QED BY <3>1, <3>2 DEF Settle, restOfStore, Stored, Exists
  <2>8. SuccessEarned
    BY <2>7 DEF SuccessEarned
  <2>9. BystandersStay({a}) /\ ActorsServe({a})
    BY <2>1, <2>5, <2>6 DEF BystandersStay, ActorsServe
  <2>10. {a} \in SUBSET Agent
    OBVIOUS
  <2> QED BY <1>1, <2>2, <2>4, <2>8, <2>9, <2>10, ActorsKeepStored
<1>11. ASSUME NEW t \in Server, Present(t) PROVE StoredInv'
  <2>1. t \in Thread /\ t \notin Agent
    BY DEF Server
  <2>2. NothingLost
    BY <1>11, <2>1, StoredStays DEF Present
  <2>3. \A u \in Agent : UNCHANGED <<pc[u], req[u], todo[u]>>
    BY <1>5, <1>11, <2>1, OthersKeep DEF Present
  <2>4. UNCHANGED <<stage, job, outcome, status, cut>>
    BY <1>11 DEF Present, jobVars
  <2>5. SuccessEarned
    BY <2>4 DEF SuccessEarned
  <2>6. BystandersStay({}) /\ ActorsServe({})
    BY <2>3, <2>4 DEF BystandersStay, ActorsServe
  <2> QED BY <1>1, <2>2, <2>4, <2>5, <2>6, ActorsKeepStored
<1>12. ASSUME NEW t \in Server, Demolish(t) PROVE StoredInv'
  <2>1. t \in Thread /\ t \notin Agent
    BY DEF Server
  <2>2. \A u \in Agent : UNCHANGED <<pc[u], req[u], todo[u]>>
    BY <1>5, <1>12, <2>1, OthersKeep DEF Demolish, Advance
  <2>3. UNCHANGED <<stage, job, outcome, status>>
    BY <1>12 DEF Demolish, jobVars
  <2>4. \A j \in Job \ cut' : status[j] # "success" /\ \A a \in Agent : ~Jobs!Holds(a, j)
    BY <1>12 DEF Demolish
  <2>5. \A a \in Agent : AgentServes(a)'
    BY <1>2, <2>2, <2>3 DEF AgentServes
  <2>6. \A a \in Agent : AgentStored(a)'
    BY <1>2, <2>3, <2>4 DEF AgentStored, AgentServes, Writable, Jobs!Holds
  <2>7. SuccessIsStored'
    BY <2>3, <2>4 DEF SuccessIsStored
  <2> QED BY <1>1, <2>5, <2>6, <2>7 DEF StoredInv, AgentStored
<1>13. CASE UNCHANGED overVars
  <2>1. UNCHANGED <<rows, contributed, pc, req, todo, stage, job, outcome, status, cut>>
    BY <1>13 DEF overVars, vars, storeVars, threadVars, jobVars
  <2>2. SuccessEarned
    BY <2>1 DEF SuccessEarned
  <2>3. BystandersStay({}) /\ ActorsServe({})
    BY <2>1 DEF BystandersStay, ActorsServe
  <2> QED BY <1>1, <2>1, <2>2, <2>3, NothingLostAlone, ActorsKeepStored
<1> QED
  BY <1>6, <1>8, <1>9, <1>10, <1>11, <1>12, <1>13 DEF OverNext, Closed

(* A job that says success has its whole batch in the store, and its       *)
(* document among those that contributed, unless the graph was deleted     *)
(* since it began: for every number of workers, threads and processes, for *)
(* jobs that are run twice, and with crashes, failed calls and requests    *)
(* about the same records in between.                                      *)
THEOREM SuccessfulJobsAreStored == OverSpec => []SuccessIsStored
<1>1. OverInit => TypeOK
  BY InitType DEF OverInit
<1>2. TypeOK /\ [OverNext]_overVars => TypeOK'
  BY NextType, OverStep
<1>3. StoredInv => SuccessIsStored
  BY DEF StoredInv
<1> QED BY <1>1, <1>2, <1>3, StoredInit, StoredNext, PTL DEF OverSpec
-----------------------------------------------------------------------------
(* WritesWhilePending: where a job is, in its client's request, its        *)
(* message, or one worker's hands.                                         *)
Unended(j) == status[j] = "pending" \/ j \in manual

HoldTypes ==
    /\ StageTypes
    /\ request \in [Job -> {"unsent", "checked", "registered", "accepted", "refused"}]
    /\ manual \in SUBSET Job

(* A job is with one of them only, and has not ended by then.              *)
AtRequest == \A j \in Job :
    /\ request[j] \in {"unsent", "checked"} => status[j] = "none" /\ j \notin manual
    /\ request[j] = "registered" => Unended(j)
    /\ request[j] \in {"unsent", "checked", "registered"} =>
          j \notin queue /\ \A w \in Worker : ~Jobs!Holds(w, j)

AtQueue == \A j \in queue : Unended(j) /\ \A w \in Worker : ~Jobs!Holds(w, j)

AtHands ==
    /\ \A a \in Agent : stage[a] # "idle" => job[a] \in Job
    /\ \A w \in Worker : stage[w] # "idle" =>
          /\ Unended(job[w])
          /\ \A v \in Worker \ {w} : ~Jobs!Holds(v, job[w])
    /\ \A r \in Runner : stage[r] # "idle" => job[r] \in manual

HoldInv == HoldTypes /\ AtRequest /\ AtQueue /\ AtHands

LEMMA HoldInit == OverInit => HoldInv
<1> SUFFICES ASSUME OverInit PROVE HoldInv
  OBVIOUS
<1> USE DEF OverInit, Jobs!Init, Jobs!Agent, Agent
<1> QED
  BY DEF HoldInv, HoldTypes, StageTypes, AtRequest, AtQueue, AtHands, Jobs!Holds

(* The steps of a submission.                                              *)
LEMMA HoldSubmit ==
    ASSUME HoldInv, NEW i \in Job, Jobs!Submit(i)
    PROVE  HoldInv'
<1> USE DEF HoldInv, HoldTypes, StageTypes, Jobs!Answer, Jobs!agentVars, Unended, Jobs!Holds
<1>1. CASE Jobs!SubmitCheck(i)
  BY <1>1 DEF Jobs!SubmitCheck, AtRequest, AtQueue, AtHands
<1>2. CASE Jobs!Register(i)
  BY <1>2 DEF Jobs!Register, AtRequest, AtQueue, AtHands, Agent
<1>3. CASE Jobs!Dispatch(i)
  BY <1>3 DEF Jobs!Dispatch, AtRequest, AtQueue, AtHands
<1>4. CASE Jobs!SubmitFault(i)
  BY <1>4 DEF Jobs!SubmitFault, AtRequest, AtQueue, AtHands
<1> QED BY <1>1, <1>2, <1>3, <1>4 DEF Jobs!Submit

(* A worker takes a message, and nobody else has it any more.              *)
LEMMA HoldTake ==
    ASSUME HoldInv, NEW w \in Worker, Jobs!Take(w)
    PROVE  HoldInv'
<1> USE DEF HoldInv, HoldTypes, StageTypes, Unended, Jobs!Holds, Agent
<1>1. PICK j \in queue : Jobs!Start(w, j) /\ queue' = queue \ {j}
  BY DEF Jobs!Take
<1>2. j \in Job /\ w \notin Runner
  BY TasksAssumption
<1>3. UNCHANGED <<status, request, manual>>
  BY DEF Jobs!Take
<1>4. /\ stage' = [stage EXCEPT ![w] = "running"] /\ job' = [job EXCEPT ![w] = j]
      /\ outcome' = outcome
  BY <1>1 DEF Jobs!Start
<1>5. HoldTypes'
  BY <1>1, <1>2, <1>3, <1>4
<1>6. request[j] \notin {"unsent", "checked", "registered"}
  BY <1>2 DEF AtRequest
<1>7. AtRequest'
  BY <1>1, <1>3, <1>4, <1>6 DEF AtRequest
<1>8. AtQueue'
  BY <1>1, <1>3, <1>4 DEF AtQueue
<1>9. AtHands'
  BY <1>2, <1>3, <1>4 DEF AtHands, AtQueue
<1> QED BY <1>5, <1>7, <1>8, <1>9

LEMMA HoldRun ==
    ASSUME HoldInv, NEW r \in Runner, Jobs!RunByHand(r)
    PROVE  HoldInv'
<1> USE DEF HoldInv, HoldTypes, StageTypes, Unended, Jobs!Holds, Agent
<1>1. PICK j \in Job : /\ status[j] = "pending" /\ Jobs!Start(r, j)
                       /\ manual' = manual \cup {j}
  BY DEF Jobs!RunByHand
<1>2. r \notin Worker
  BY TasksAssumption
<1>3. UNCHANGED <<status, request, queue>>
  BY DEF Jobs!RunByHand
<1>4. /\ stage' = [stage EXCEPT ![r] = "running"] /\ job' = [job EXCEPT ![r] = j]
      /\ outcome' = outcome
  BY <1>1 DEF Jobs!Start
<1>5. HoldTypes'
  BY <1>1, <1>3, <1>4
<1>6. AtRequest' /\ AtQueue'
  BY <1>1, <1>2, <1>3, <1>4 DEF AtRequest, AtQueue
<1>7. AtHands'
  BY <1>1, <1>2, <1>3, <1>4 DEF AtHands
<1> QED BY <1>5, <1>6, <1>7

(* An agent goes on with its job.                                          *)
LEMMA HoldGo ==
    ASSUME HoldInv, NEW a \in Agent, Jobs!Begin(a) \/ Jobs!Execute(a)
    PROVE  HoldInv'
<1> USE DEF HoldInv, HoldTypes, StageTypes, Unended, Jobs!Holds, Agent
<1>1. /\ UNCHANGED <<status, request, queue, job, manual>>
      /\ stage[a] # "idle"
      /\ \E s \in {"working", "recording"} : stage' = [stage EXCEPT ![a] = s]
  BY DEF Jobs!Begin, Jobs!Execute, Jobs!End
<1>2. outcome' \in [Agent -> {"none", "ok", "error"}]
  BY DEF Jobs!Begin, Jobs!Execute, Jobs!End
<1> QED BY <1>1, <1>2 DEF AtRequest, AtQueue, AtHands

(* An agent is through with its job, with or without a word about it: the  *)
(* job is with nobody else, or was run by hand.                            *)
LEMMA HoldEnd ==
    ASSUME HoldInv, NEW a \in Agent,
           Jobs!Record(a) \/ Jobs!RecordFault(a) \/ Jobs!Crash(a)
    PROVE  HoldInv'
<1> USE DEF HoldInv, HoldTypes, StageTypes, Unended, Jobs!Holds, Agent
<1>1. /\ UNCHANGED <<request, queue, manual>>
      /\ stage[a] # "idle"
      /\ stage' = [stage EXCEPT ![a] = "idle"] /\ job' = [job EXCEPT ![a] = NoJob]
      /\ outcome' = [outcome EXCEPT ![a] = "none"]
  BY DEF Jobs!Record, Jobs!RecordFault, Jobs!Crash, Jobs!Stop
<1>2. \/ status' = status
      \/ \E s \in {"success", "failed"} : status' = [status EXCEPT ![job[a]] = s]
  BY DEF Jobs!Record, Jobs!RecordFault, Jobs!Crash
<1>3. job[a] \in Job
  BY <1>1 DEF AtHands
<1>4. job[a] \in manual \/ a \in Worker
  BY <1>1 DEF AtHands
<1>5. /\ status' \in [Job -> {"none", "pending", "success", "failed"}]
      /\ \A j \in Job : j # job[a] => status'[j] = status[j]
  BY <1>2, <1>3
<1>6. HoldTypes'
  BY <1>1, <1>5
<1>7. job[a] \notin manual =>
          /\ job[a] \notin queue
          /\ \A w \in Worker \ {a} : ~Jobs!Holds(w, job[a])
          /\ request[job[a]] \notin {"unsent", "checked", "registered"}
  BY <1>1, <1>3, <1>4 DEF AtQueue, AtHands, AtRequest
<1>8. job[a] \in manual => request[job[a]] \notin {"unsent", "checked"}
  BY <1>3 DEF AtRequest
<1>9. AtRequest'
  BY <1>1, <1>5, <1>7, <1>8 DEF AtRequest
<1>10. AtQueue'
  BY <1>1, <1>5, <1>7 DEF AtQueue
<1>11. AtHands'
  BY <1>1, <1>5, <1>7 DEF AtHands
<1> QED BY <1>6, <1>9, <1>10, <1>11

LEMMA HoldNext == HoldInv /\ [OverNext]_overVars => HoldInv'
<1> SUFFICES ASSUME HoldInv, [OverNext]_overVars PROVE HoldInv'
  OBVIOUS
<1>1. ASSUME UNCHANGED jobVars PROVE HoldInv'
  BY <1>1 DEF jobVars, HoldInv, HoldTypes, StageTypes, AtRequest, AtQueue, AtHands,
              Unended, Jobs!Holds
<1>2. ASSUME NEW a \in Agent, Tend(a) \/ Die(a) PROVE HoldInv'
  <2>1. CASE Go(a)
    BY <1>1, <2>1 DEF Go
  <2>2. CASE ~Go(a)
    BY <1>2, <2>2, HoldGo, HoldEnd DEF Tend, Find, Return, Raise, Settle, Die
  <2> QED BY <2>1, <2>2
<1>3. CASE UNCHANGED overVars
  BY <1>1, <1>3 DEF overVars
<1>4. CASE \E t \in Server : Present(t) \/ Demolish(t)
  BY <1>1, <1>4 DEF Present, Demolish
<1> QED
  BY <1>2, <1>3, <1>4, HoldSubmit, HoldTake, HoldRun
     DEF OverNext, Closed, OverSubmit, TakeUp, RunUp

(* No store call is made for a job that has ended, or before its row is    *)
(* there, unless the job was run by hand: for any number of jobs, workers  *)
(* and threads, whatever crashes and whatever raises.                      *)
THEOREM StoreCallsWhilePending == OverSpec => []WritesWhilePending
<1>1. OverInit => TypeOK
  BY InitType DEF OverInit
<1>2. TypeOK /\ [OverNext]_overVars => TypeOK'
  BY NextType, OverStep
<1>3. StoredInv /\ HoldInv => WritesWhilePending
  <2> SUFFICES ASSUME StoredInv, HoldInv, NEW a \in Agent, pc[a] # "idle"
               PROVE  Unended(job[a])
    BY DEF WritesWhilePending, Unended
  <2>1. stage[a] # "idle"
    BY DEF StoredInv, AgentServes
  <2> QED BY <2>1 DEF HoldInv, AtHands, Unended, Agent
<1> QED
  BY <1>1, <1>2, <1>3, StoredInit, StoredNext, HoldInit, HoldNext, PTL DEF OverSpec
=============================================================================
