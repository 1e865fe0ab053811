------------------------- MODULE ConstraintsProofs -------------------------
(***************************************************************************)
(* What holds of Constraints for every set of threads, names, profiles and *)
(* requests, and for every bound on the requests.                          *)
(***************************************************************************)
EXTENDS Constraints, TLAPS

-----------------------------------------------------------------------------
(* The operations on profiles and batches.                                 *)

LEMMA NoProfileType == NoProfile \in ProfileType
<1>1. NoProfile.renames \in [{} -> Name]
  BY DEF NoProfile
<1>2. {} \in SUBSET Name
  OBVIOUS
<1> QED BY <1>1, <1>2 DEF NoProfile, ProfileType, Rename

LEMMA NoBatchType == NoBatch \in BatchType
BY DEF NoBatch, BatchType

(* The type of a rename table, without the set of all of them.             *)
LEMMA RenameType ==
    ASSUME NEW f
    PROVE  f \in Rename <=> /\ DOMAIN f \in SUBSET Name
                            /\ f \in [DOMAIN f -> Name]
BY DEF Rename

(* Merging keeps both blacklists, and renames as one of the two does.      *)
LEMMA MergedType ==
    ASSUME NEW p \in ProfileType, NEW q \in ProfileType
    PROVE  /\ Merged(p, q) \in ProfileType
           /\ Merged(p, q).banned = p.banned \cup q.banned
           /\ DOMAIN Merged(p, q).renames = DOMAIN p.renames \cup DOMAIN q.renames
           /\ \A n \in DOMAIN Merged(p, q).renames :
                 Merged(p, q).renames[n] = IF n \in DOMAIN q.renames
                                           THEN q.renames[n] ELSE p.renames[n]
<1> DEFINE D == DOMAIN p.renames \cup DOMAIN q.renames
           f == [n \in D |-> IF n \in DOMAIN q.renames THEN q.renames[n]
                                                      ELSE p.renames[n]]
<1>1. p.renames \in Rename /\ q.renames \in Rename
  BY DEF ProfileType
<1>2. D \in SUBSET Name /\ f \in [D -> Name]
  BY <1>1, RenameType
<1>3. f \in Rename
  BY <1>2, RenameType
<1>4. Merged(p, q) = [renames |-> f, banned |-> p.banned \cup q.banned]
  BY DEF Merged
<1>5. p.banned \cup q.banned \in SUBSET Name
  BY DEF ProfileType
<1> QED BY <1>2, <1>3, <1>4, <1>5 DEF ProfileType

LEMMA CandidatesType ==
    ASSUME NEW p \in ProfileType, NEW x \in BatchType
    PROVE  Candidates(p, x) \in BatchType
<1>1. p.renames \in [DOMAIN p.renames -> Name]
  BY RenameType DEF ProfileType
<1>2. \A n \in x.names : Canonical(p, n) \in Name
  BY <1>1 DEF Canonical, BatchType
<1> QED BY <1>2 DEF Candidates, BatchType

LEMMA RecordsType ==
    ASSUME NEW p \in ProfileType, NEW x \in BatchType
    PROVE  Records(p, x) \in BatchType
<1>1. /\ x.names \ p.banned \in SUBSET Name
      /\ x.identified \ p.banned \in SUBSET Name
      /\ x.edges \cap ((x.identified \ p.banned) \X (x.identified \ p.banned))
             \in SUBSET (Name \X Name)
  BY DEF BatchType
<1> QED BY <1>1 DEF Records, BatchType

-----------------------------------------------------------------------------
(* Type correctness.                                                       *)

LEMMA FinishType ==
    ASSUME TypeOK, NEW t \in Thread, Finish(t)
    PROVE  /\ pc' \in [Thread -> PC] /\ stage' \in [Thread -> Stage]
           /\ asked' \in [Thread -> ProfileType]
           /\ batch' \in [Thread -> BatchType]
           /\ seen' \in [Thread -> ProfileType]
           /\ used' \in [Thread -> ProfileType]
           /\ due' \in [Thread -> SUBSET Name]
BY NoProfileType, NoBatchType DEF TypeOK, Finish, Goto, PC, Stage, Op

LEMMA InitType == Init => TypeOK
<1> SUFFICES ASSUME Init PROVE TypeOK
  OBVIOUS
<1>1. served \in 0 .. MaxRequests
  BY ProfileAssumption DEF Init
<1> QED
  BY <1>1, NoProfileType, NoBatchType DEF Init, TypeOK, PC, Stage, Op

LEMMA RequestFacts ==
    ASSUME NEW r \in Request
    PROVE  /\ r.op \in Op /\ r.profile \in Profile
           /\ r.profile \in ProfileType /\ r.batch \in BatchType
           /\ r.profile.banned \in SUBSET Name
BY ProfileAssumption, RequestAssumption DEF RequestType, ProfileType

LEMMA AdvanceType ==
    ASSUME TypeOK, NEW t \in Thread, Advance(t)
    PROVE  TypeOK'
<1>1. CASE Require(t)
  <2>1. CASE Finish(t)
    BY <1>1, <2>1, FinishType DEF Require, TypeOK
  <2>2. CASE Goto(t, "read") /\ UNCHANGED work
    BY <1>1, <2>2 DEF Require, TypeOK, Goto, PC, work
  <2> QED BY <1>1, <2>1, <2>2 DEF Require
<1>2. CASE AbsorbRead(t)
  <2>1. Merged(stored, asked[t]) \in ProfileType
    BY MergedType DEF TypeOK
  <2>2. pc' \in [Thread -> PC]
    BY <1>2 DEF AbsorbRead, TypeOK, Goto, PC
  <2> QED BY <1>2, <2>1, <2>2 DEF AbsorbRead, TypeOK
<1>3. CASE PutCheck(t)
  BY <1>3 DEF PutCheck, TypeOK, Goto, PC, work
<1>4. CASE PutWrite(t)
  <2>1. Merged(promised, asked[t]) \in ProfileType
    BY MergedType DEF TypeOK
  <2> QED BY <1>4, <2>1 DEF PutWrite, TypeOK, Goto, PC, work
<1>5. CASE PutFails(t)
  <2>1. Merged(promised, asked[t]) \in ProfileType
    BY MergedType DEF TypeOK
  <2> QED BY <1>5, <2>1 DEF PutFails, TypeOK, Goto, PC, work
<1>6. CASE AnswerPut(t)
  BY <1>6, FinishType DEF AnswerPut, TypeOK
<1>7. CASE ApplyCandidates(t)
  <2>1. Candidates(used[t], batch[t]) \in BatchType
    BY CandidatesType DEF TypeOK
  <2> QED BY <1>7, <2>1 DEF ApplyCandidates, TypeOK, Goto, PC, Stage
<1>8. CASE ApplyRecords(t)
  <2>1. Records(used[t], batch[t]) \in BatchType /\ batch[t] \in BatchType
    BY RecordsType DEF TypeOK
  <2>2. batch' \in [Thread -> BatchType]
    BY <1>8, <2>1 DEF ApplyRecords, TypeOK
  <2> QED BY <1>8, <2>2 DEF ApplyRecords, TypeOK, Goto, PC
<1>9. CASE Store(t)
  BY <1>9, FinishType DEF Store, TypeOK
<1> QED
  BY <1>1, <1>2, <1>3, <1>4, <1>5, <1>6, <1>7, <1>8, <1>9 DEF Advance

LEMMA NextType == TypeOK /\ [Next]_vars => TypeOK'
<1> SUFFICES ASSUME TypeOK, [Next]_vars PROVE TypeOK'
  OBVIOUS
<1>1. CASE Create
  BY <1>1, ProfileAssumption DEF Create, TypeOK, work
<1>2. CASE Delete
  <2>1. due' \in [Thread -> SUBSET Name]
    BY <1>2 DEF Delete, TypeOK
  <2>2. served' \in 0 .. MaxRequests
    BY <1>2, ProfileAssumption DEF Delete, TypeOK
  <2> QED BY <1>2, <2>1, <2>2, NoProfileType DEF Delete, TypeOK
<1>3. ASSUME NEW t \in Thread, Accept(t) PROVE TypeOK'
  <2>1. PICK r \in Request :
            /\ stage' = [stage EXCEPT ![t] = r.op]
            /\ asked' = [asked EXCEPT ![t] = r.profile]
            /\ batch' = [batch EXCEPT ![t] = r.batch]
            /\ due' = [due EXCEPT ![t] = Due(r)]
    BY <1>3 DEF Accept
  <2>2. Due(r) \in SUBSET Name
    BY RequestFacts DEF Due, TypeOK, ProfileType
  <2>3. served' \in 0 .. MaxRequests
    BY <1>3, ProfileAssumption DEF Accept, TypeOK
  <2>4. pc' \in [Thread -> PC]
    BY <1>3 DEF Accept, TypeOK, Goto, PC
  <2>5. stage' \in [Thread -> Stage]
    BY <2>1, RequestFacts DEF TypeOK, Stage
  <2> QED
    BY <1>3, <2>1, <2>2, <2>3, <2>4, <2>5, RequestFacts DEF Accept, TypeOK
<1>4. ASSUME NEW t \in Thread, Fail(t) PROVE TypeOK'
  BY <1>4, FinishType DEF Fail, TypeOK
<1>5. CASE UNCHANGED vars
  BY <1>5 DEF vars, work, TypeOK
<1> QED
  BY <1>1, <1>2, <1>3, <1>4, <1>5, AdvanceType DEF Next, Quiescent

(* The profiles and batches of Constraints keep their types, for every set *)
(* of requests.                                                            *)
THEOREM TypeCorrect == Spec => []TypeOK
BY InitType, NextType, PTL DEF Spec

-----------------------------------------------------------------------------
(* The profile in the store.                                               *)

(* Between the read and the write of the profile a thread holds what it    *)
(* read, merged with what its request brings.                              *)
AbsorbInv ==
    \A t \in Thread : pc[t] \in {"save", "write"} =>
        used[t] = Merged(seen[t], asked[t])

AccumulateInv == AbsorbInv /\ ProfileAccumulates

LEMMA FinishAbsorb ==
    ASSUME TypeOK, AbsorbInv, NEW t \in Thread, Finish(t)
    PROVE  AbsorbInv'
BY DEF AbsorbInv, Finish, Goto, TypeOK

LEMMA AdvanceAccumulate ==
    ASSUME TypeOK, AccumulateInv, NEW t \in Thread, Advance(t)
    PROVE  AccumulateInv'
<1> USE DEF AccumulateInv
<1>1. CASE Require(t)
  <2>1. CASE Finish(t)
    BY <1>1, <2>1, FinishAbsorb DEF Require, ProfileAccumulates
  <2>2. CASE Goto(t, "read") /\ UNCHANGED work
    BY <1>1, <2>2 DEF Require, AbsorbInv, ProfileAccumulates, Goto, work, TypeOK
  <2> QED BY <1>1, <2>1, <2>2 DEF Require
<1>2. CASE AbsorbRead(t)
  BY <1>2 DEF AbsorbRead, AbsorbInv, ProfileAccumulates, Goto, TypeOK
<1>3. CASE PutCheck(t)
  BY <1>3 DEF PutCheck, AbsorbInv, ProfileAccumulates, Goto, work, TypeOK
<1>4. CASE PutWrite(t)
  <2>1. AbsorbInv'
    BY <1>4 DEF PutWrite, AbsorbInv, Goto, work, TypeOK
  <2>2. ~raced' => stored = seen[t] /\ ~raced
    BY <1>4 DEF PutWrite
  <2>3. stored' = Merged(seen[t], asked[t])
    BY <1>4 DEF PutWrite, AbsorbInv
  <2>4. promised' = Merged(promised, asked[t]) /\ unsaved' = unsaved
    BY <1>4 DEF PutWrite
  <2>5. ProfileAccumulates'
    BY <2>2, <2>3, <2>4 DEF ProfileAccumulates
  <2> QED BY <2>1, <2>5
<1>5. CASE PutFails(t)
  BY <1>5 DEF PutFails, AbsorbInv, ProfileAccumulates, Goto, work, TypeOK
<1>6. CASE AnswerPut(t)
  BY <1>6, FinishAbsorb DEF AnswerPut, ProfileAccumulates
<1>7. CASE ApplyCandidates(t)
  BY <1>7 DEF ApplyCandidates, AbsorbInv, ProfileAccumulates, Goto, TypeOK
<1>8. CASE ApplyRecords(t)
  BY <1>8 DEF ApplyRecords, AbsorbInv, ProfileAccumulates, Goto, TypeOK
<1>9. CASE Store(t)
  BY <1>9, FinishAbsorb DEF Store, ProfileAccumulates
<1> QED
  BY <1>1, <1>2, <1>3, <1>4, <1>5, <1>6, <1>7, <1>8, <1>9 DEF Advance

LEMMA NextAccumulate == TypeOK /\ AccumulateInv /\ [Next]_vars => AccumulateInv'
<1> SUFFICES ASSUME TypeOK, AccumulateInv, [Next]_vars PROVE AccumulateInv'
  OBVIOUS
<1> USE DEF AccumulateInv
<1>1. CASE Create
  BY <1>1 DEF Create, work, AbsorbInv, ProfileAccumulates
<1>2. CASE Delete
  BY <1>2 DEF Delete, AbsorbInv, ProfileAccumulates
<1>3. ASSUME NEW t \in Thread, Accept(t) PROVE AccumulateInv'
  BY <1>3 DEF Accept, Goto, AbsorbInv, ProfileAccumulates, TypeOK
<1>4. ASSUME NEW t \in Thread, Fail(t) PROVE AccumulateInv'
  BY <1>4, FinishAbsorb DEF Fail, ProfileAccumulates
<1>5. CASE UNCHANGED vars
  BY <1>5 DEF vars, work, AbsorbInv, ProfileAccumulates
<1> QED
  BY <1>1, <1>2, <1>3, <1>4, <1>5, AdvanceAccumulate DEF Next, Quiescent

(* Whatever the interleaving of builds, updates and deletes, the stored    *)
(* profile is all that requests have brought, as long as no write failed   *)
(* and none went over a profile its writer had not read.                   *)
THEOREM ProfileIsComplete == Spec => []ProfileAccumulates
<1>1. Init => AccumulateInv
  BY DEF Init, AccumulateInv, AbsorbInv, ProfileAccumulates
<1> QED
  BY <1>1, NextAccumulate, TypeCorrect, PTL DEF Spec, AccumulateInv

-----------------------------------------------------------------------------
(* The blacklist.                                                          *)

(* The renames of a profile come from the profiles of requests.            *)
Within(p) == \A n \in DOMAIN p.renames : p.renames[n] \in RenameTargets

RenamesInv ==
    /\ Within(stored)
    /\ \A t \in Thread : Within(asked[t]) /\ Within(used[t])

(* What a thread must not let in is banned by the stored profile or by its *)
(* request, and, once it has absorbed the profile, by the one it uses.     *)
DueInv(t) ==
    /\ due[t] \subseteq stored.banned \cup asked[t].banned
    /\ pc[t] \in {"save", "write", "apply", "store"} =>
          due[t] \subseteq used[t].banned

(* Where its batch stands: not filtered yet, filtered as candidates, or    *)
(* as records.                                                             *)
BatchInv(t) ==
    /\ stage[t] = "draft" =>
          /\ batch[t].identified = {} /\ batch[t].edges = {}
          /\ batch[t].names \cap due[t] \subseteq RenameTargets
    /\ stage[t] = "records" /\ pc[t] # "store" /\ batch[t].identified = {} =>
          due[t] = {}
    /\ pc[t] = "store" =>
          /\ stage[t] \in {"draft", "records"}
          /\ batch[t].names \cap due[t] \subseteq RenameTargets
          /\ \A e \in batch[t].edges : {e[1], e[2]} \cap due[t] = {}

(* Between the read and the write of the profile, see AbsorbInv.           *)
BansInv ==
    /\ AbsorbInv
    /\ RenamesInv
    /\ ~raced => \A t \in Thread : DueInv(t) /\ BatchInv(t)

LEMMA MergedWithin ==
    ASSUME NEW p \in ProfileType, NEW q \in ProfileType, Within(p), Within(q)
    PROVE  Within(Merged(p, q))
BY MergedType DEF Within

LEMMA NoProfileWithin == Within(NoProfile)
BY DEF Within, NoProfile

(* A candidate that is banned was renamed to.                              *)
LEMMA CandidatesClean ==
    ASSUME NEW p, NEW x, NEW D, Within(p), D \subseteq p.banned
    PROVE  Candidates(p, x).names \cap D \subseteq RenameTargets
<1> SUFFICES ASSUME NEW n \in x.names \ p.banned, Canonical(p, n) \in D
             PROVE  Canonical(p, n) \in RenameTargets
  BY DEF Candidates
<1>1. n \notin D
  OBVIOUS
<1>2. n \in DOMAIN p.renames /\ Canonical(p, n) = p.renames[n]
  BY <1>1 DEF Canonical
<1> QED BY <1>2 DEF Within

(* Neither the records nor their relations have anything banned left.      *)
LEMMA RecordsClean ==
    ASSUME NEW p, NEW x, NEW D, D \subseteq p.banned
    PROVE  /\ Records(p, x).names \cap D = {}
           /\ \A e \in Records(p, x).edges : {e[1], e[2]} \cap D = {}
<1>1. Records(p, x).names = x.names \ p.banned
  BY DEF Records
<1>2. \A e \in Records(p, x).edges :
          e[1] \notin p.banned /\ e[2] \notin p.banned
  BY DEF Records
<1> QED BY <1>1, <1>2

(* A finished thread owes nothing, and its end concerns nobody else.       *)
LEMMA FinishBans ==
    ASSUME TypeOK, BansInv, NEW t \in Thread, Finish(t),
           UNCHANGED <<stored, raced>>
    PROVE  BansInv'
<1>1. AbsorbInv'
  BY FinishAbsorb DEF BansInv
<1>2. RenamesInv'
  BY NoProfileWithin DEF BansInv, RenamesInv, Finish, TypeOK
<1>3. ASSUME NEW u \in Thread, ~raced'
      PROVE  DueInv(u)' /\ BatchInv(u)'
  BY <1>3 DEF BansInv, DueInv, BatchInv, Finish, Goto, TypeOK
<1> QED BY <1>1, <1>2, <1>3 DEF BansInv

LEMMA AdvanceBans ==
    ASSUME TypeOK, BansInv, NEW t \in Thread, Advance(t)
    PROVE  BansInv'
<1>1. CASE Require(t)
  <2>1. CASE Finish(t)
    BY <1>1, <2>1, FinishBans DEF Require
  <2>2. CASE Goto(t, "read") /\ UNCHANGED work
    <3>1. AbsorbInv' /\ RenamesInv'
      BY <1>1, <2>2 DEF Require, BansInv, AbsorbInv, RenamesInv, Goto, work, TypeOK
    <3>2. ASSUME NEW u \in Thread, ~raced' PROVE DueInv(u)' /\ BatchInv(u)'
      BY <1>1, <2>2, <3>2 DEF Require, BansInv, DueInv, BatchInv, Goto, work, TypeOK
    <3> QED BY <3>1, <3>2 DEF BansInv
  <2> QED BY <1>1, <2>1, <2>2 DEF Require
<1>2. CASE AbsorbRead(t)
  <2>1. used'[t] = Merged(stored, asked[t])
    BY <1>2 DEF AbsorbRead, TypeOK
  <2>2. used'[t].banned = stored.banned \cup asked[t].banned /\ Within(used'[t])
    <3>1. /\ stored \in ProfileType /\ asked[t] \in ProfileType
          /\ Within(stored) /\ Within(asked[t])
      BY DEF TypeOK, BansInv, RenamesInv
    <3>2. Merged(stored, asked[t]).banned = stored.banned \cup asked[t].banned
      BY <3>1, MergedType
    <3>3. Within(Merged(stored, asked[t]))
      BY <3>1, MergedWithin
    <3> QED BY <2>1, <3>2, <3>3
  <2>3. AbsorbInv'
    BY <1>2 DEF AbsorbRead, BansInv, AbsorbInv, Goto, TypeOK
  <2>4. RenamesInv'
    BY <1>2, <2>2 DEF AbsorbRead, BansInv, RenamesInv, TypeOK
  <2>5. ASSUME NEW u \in Thread, ~raced' PROVE DueInv(u)' /\ BatchInv(u)'
    <3>1. DueInv(u) /\ BatchInv(u)
      BY <1>2, <2>5 DEF AbsorbRead, BansInv
    <3>2. CASE u = t
      BY <1>2, <2>2, <3>1, <3>2 DEF AbsorbRead, DueInv, BatchInv, Goto, TypeOK
    <3>3. CASE u # t
      BY <1>2, <3>1, <3>3 DEF AbsorbRead, DueInv, BatchInv, Goto, TypeOK
    <3> QED BY <3>2, <3>3
  <2> QED BY <2>3, <2>4, <2>5 DEF BansInv
<1>3. CASE PutCheck(t)
  <2>1. AbsorbInv' /\ RenamesInv'
    BY <1>3 DEF PutCheck, BansInv, AbsorbInv, RenamesInv, Goto, work, TypeOK
  <2>2. ASSUME NEW u \in Thread, ~raced' PROVE DueInv(u)' /\ BatchInv(u)'
    BY <1>3, <2>2 DEF PutCheck, BansInv, DueInv, BatchInv, Goto, work, TypeOK
  <2> QED BY <2>1, <2>2 DEF BansInv
<1>4. CASE PutWrite(t)
  <2>1. AbsorbInv' /\ RenamesInv'
    BY <1>4 DEF PutWrite, BansInv, AbsorbInv, RenamesInv, Goto, work, TypeOK
  <2>2. ASSUME NEW u \in Thread, ~raced' PROVE DueInv(u)' /\ BatchInv(u)'
    <3>1. stored = seen[t] /\ ~raced
      BY <1>4, <2>2 DEF PutWrite
    <3>2. stored' = Merged(stored, asked[t])
      BY <1>4, <3>1 DEF PutWrite, BansInv, AbsorbInv
    <3>3. stored.banned \subseteq stored'.banned
      BY <3>2, MergedType DEF TypeOK
    <3>4. DueInv(u) /\ BatchInv(u)
      BY <3>1 DEF BansInv
    <3> QED BY <1>4, <3>3, <3>4 DEF PutWrite, DueInv, BatchInv, Goto, work, TypeOK
  <2> QED BY <2>1, <2>2 DEF BansInv
<1>5. CASE PutFails(t)
  <2>1. AbsorbInv' /\ RenamesInv'
    BY <1>5 DEF PutFails, BansInv, AbsorbInv, RenamesInv, Goto, work, TypeOK
  <2>2. ASSUME NEW u \in Thread, ~raced' PROVE DueInv(u)' /\ BatchInv(u)'
    BY <1>5, <2>2 DEF PutFails, BansInv, DueInv, BatchInv, Goto, work, TypeOK
  <2> QED BY <2>1, <2>2 DEF BansInv
<1>6. CASE AnswerPut(t)
  BY <1>6, FinishBans DEF AnswerPut
<1>7. CASE ApplyCandidates(t)
  <2>1. AbsorbInv' /\ RenamesInv'
    BY <1>7 DEF ApplyCandidates, BansInv, AbsorbInv, RenamesInv, Goto, TypeOK
  <2>2. ASSUME NEW u \in Thread, ~raced' PROVE DueInv(u)' /\ BatchInv(u)'
    <3>1. DueInv(u) /\ BatchInv(u)
      BY <1>7, <2>2 DEF ApplyCandidates, BansInv
    <3>2. CASE u = t
      <4>1. batch'[t] = Candidates(used[t], batch[t])
        BY <1>7 DEF ApplyCandidates, TypeOK
      <4>2. due[t] \subseteq used[t].banned /\ Within(used[t])
        BY <1>7, <3>1, <3>2 DEF ApplyCandidates, DueInv, BansInv, RenamesInv
      <4>3. batch'[t].names \cap due[t] \subseteq RenameTargets
        BY <4>1, <4>2, CandidatesClean
      <4>4. batch'[t].identified = {} /\ batch'[t].edges = {}
        BY <4>1 DEF Candidates
      <4>5. due' = due /\ stage'[t] = "draft" /\ pc'[t] = "require"
        BY <1>7 DEF ApplyCandidates, Goto, TypeOK
      <4>6. DueInv(t)'
        BY <1>7, <3>1, <3>2, <4>5 DEF ApplyCandidates, DueInv
      <4>7. BatchInv(t)'
        BY <4>3, <4>4, <4>5 DEF BatchInv
      <4> QED BY <3>2, <4>6, <4>7
    <3>3. CASE u # t
      BY <1>7, <3>1, <3>3 DEF ApplyCandidates, DueInv, BatchInv, Goto, TypeOK
    <3> QED BY <3>2, <3>3
  <2> QED BY <2>1, <2>2 DEF BansInv
<1>8. CASE ApplyRecords(t)
  <2>1. AbsorbInv' /\ RenamesInv'
    BY <1>8 DEF ApplyRecords, BansInv, AbsorbInv, RenamesInv, Goto, TypeOK
  <2>2. ASSUME NEW u \in Thread, ~raced' PROVE DueInv(u)' /\ BatchInv(u)'
    <3>1. DueInv(u) /\ BatchInv(u)
      BY <1>8, <2>2 DEF ApplyRecords, BansInv
    <3>2. CASE u = t
      <4>1. due' = due /\ stage' = stage /\ pc'[t] = "store" /\ pc[t] = "apply"
            /\ stage[t] \in {"draft", "records"}
        BY <1>8 DEF ApplyRecords, Goto, TypeOK
      <4>2. due[t] \subseteq used[t].banned
        BY <3>1, <3>2, <4>1 DEF DueInv
      <4>3. DueInv(t)'
        BY <1>8, <3>1, <3>2, <4>1 DEF ApplyRecords, DueInv
      <4>4. CASE used[t] # NoProfile /\ batch[t].identified # {}
        <5>1. batch'[t] = Records(used[t], batch[t]) /\ stage[t] = "records"
          BY <1>8, <3>1, <3>2, <4>1, <4>4 DEF ApplyRecords, BatchInv, TypeOK
        <5>2. /\ batch'[t].names \cap due[t] = {}
              /\ \A e \in batch'[t].edges : {e[1], e[2]} \cap due[t] = {}
          BY <5>1, <4>2, RecordsClean
        <5> QED BY <3>2, <4>1, <4>3, <5>1, <5>2 DEF BatchInv
      <4>5. CASE used[t] = NoProfile \/ batch[t].identified = {}
        <5>1. batch'[t] = batch[t]
          BY <1>8, <4>5 DEF ApplyRecords, TypeOK
        <5>2. CASE used[t] = NoProfile
          <6>1. due[t] = {}
            BY <4>2, <5>2 DEF NoProfile
          <6> QED BY <3>1, <3>2, <4>1, <4>3, <5>1, <6>1 DEF BatchInv
        <5>3. CASE batch[t].identified = {}
          BY <3>1, <3>2, <4>1, <4>3, <5>1, <5>3 DEF BatchInv
        <5> QED BY <4>5, <5>2, <5>3
      <4> QED BY <4>4, <4>5
    <3>3. CASE u # t
      BY <1>8, <3>1, <3>3 DEF ApplyRecords, DueInv, BatchInv, Goto, TypeOK
    <3> QED BY <3>2, <3>3
  <2> QED BY <2>1, <2>2 DEF BansInv
<1>9. CASE Store(t)
  BY <1>9, FinishBans DEF Store
<1> QED
  BY <1>1, <1>2, <1>3, <1>4, <1>5, <1>6, <1>7, <1>8, <1>9 DEF Advance

LEMMA AcceptBans ==
    ASSUME TypeOK, BansInv, NEW t \in Thread, Accept(t)
    PROVE  BansInv'
<1>1. PICK r \in Request :
          /\ stage' = [stage EXCEPT ![t] = r.op]
          /\ asked' = [asked EXCEPT ![t] = r.profile]
          /\ batch' = [batch EXCEPT ![t] = r.batch]
          /\ due' = [due EXCEPT ![t] = Due(r)]
  BY DEF Accept
<1>2. pc' = [pc EXCEPT ![t] = "require"] /\ UNCHANGED <<stored, seen, used, raced>>
  BY DEF Accept, Goto
<1>3. Within(r.profile)
  BY RequestFacts DEF Within, RenameTargets
<1>4. AbsorbInv'
  BY <1>1, <1>2 DEF BansInv, AbsorbInv, TypeOK
<1>5. RenamesInv'
  BY <1>1, <1>2, <1>3 DEF BansInv, RenamesInv, TypeOK
<1>6. ASSUME NEW u \in Thread, ~raced' PROVE DueInv(u)' /\ BatchInv(u)'
  <2>1. DueInv(u) /\ BatchInv(u)
    BY <1>2, <1>6 DEF BansInv
  <2>2. CASE u = t
    <3>1. r.op \in Op
      BY RequestFacts
    <3>2. /\ stage'[t] = r.op /\ asked'[t] = r.profile /\ batch'[t] = r.batch
          /\ due'[t] = Due(r) /\ pc'[t] = "require"
      BY <1>1, <1>2 DEF TypeOK
    <3>3. DueInv(t)'
      BY <1>2, <3>2 DEF DueInv, Due
    <3>4. BatchInv(t)'
      BY <3>1, <3>2 DEF BatchInv, Due, Op
    <3> QED BY <2>2, <3>3, <3>4
  <2>3. CASE u # t
    BY <1>1, <1>2, <2>1, <2>3 DEF DueInv, BatchInv, TypeOK
  <2> QED BY <2>2, <2>3
<1> QED BY <1>4, <1>5, <1>6 DEF BansInv

LEMMA NextBans == TypeOK /\ BansInv /\ [Next]_vars => BansInv'
<1> SUFFICES ASSUME TypeOK, BansInv, [Next]_vars PROVE BansInv'
  OBVIOUS
<1>1. CASE Create
  BY <1>1 DEF Create, work, BansInv, AbsorbInv, RenamesInv, DueInv, BatchInv
<1>2. CASE Delete
  <2>1. AbsorbInv' /\ RenamesInv'
    BY <1>2, NoProfileWithin DEF Delete, BansInv, AbsorbInv, RenamesInv
  <2>2. ASSUME NEW u \in Thread, ~raced' PROVE DueInv(u)' /\ BatchInv(u)'
    <3>1. DueInv(u) /\ BatchInv(u)
      BY <1>2, <2>2 DEF Delete, BansInv
    <3>2. due'[u] = due[u] \cap asked[u].banned
      BY <1>2 DEF Delete
    <3>3. DueInv(u)'
      BY <1>2, <3>1, <3>2 DEF Delete, DueInv
    <3>4. BatchInv(u)'
      BY <1>2, <3>1, <3>2 DEF Delete, BatchInv
    <3> QED BY <3>3, <3>4
  <2> QED BY <2>1, <2>2 DEF BansInv
<1>3. ASSUME NEW t \in Thread, Fail(t) PROVE BansInv'
  BY <1>3, FinishBans DEF Fail
<1>4. CASE UNCHANGED vars
  BY <1>4 DEF vars, work, BansInv, AbsorbInv, RenamesInv, DueInv, BatchInv
<1> QED
  BY <1>1, <1>2, <1>3, <1>4, AcceptBans, AdvanceBans DEF Next, Quiescent

(* Whatever the interleaving, a name that was banned when a build was      *)
(* accepted is not stored by it, as long as no profile was lost to a race  *)
(* and nobody renames anything to it.                                      *)
THEOREM BansAreKept == Spec => []BansHold
<1>1. Init => BansInv
  BY NoProfileWithin DEF Init, BansInv, AbsorbInv, RenamesInv, DueInv, BatchInv
<1>2. BansInv => BansHold
  BY DEF BansInv, BatchInv, BansHold
<1> QED
  BY <1>1, <1>2, NextBans, TypeCorrect, PTL DEF Spec
=============================================================================
