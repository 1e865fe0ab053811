---------------------------- MODULE ReadsProofs -----------------------------
(***************************************************************************)
(* Proofs about Reads, for every graph, schema, batch, version and bound:  *)
(* comparisons, pages, candidates, checks of a graph and of a definition,  *)
(* each with the invariant of its request.  What the two functions on      *)
(* numbers and lines compute is shown by their least counterexample.       *)
(***************************************************************************)
EXTENDS Reads, FiniteSetTheorems, TLAPS

-----------------------------------------------------------------------------
(* A comparison of two versions goes through its own stages only.  Between *)
(* its two reads, what it would find with the second one is among the      *)
(* moments since the first: as long as the first version is what was read. *)
DiffStages ==
    /\ request.op = "diff" => stage \in {"asked", "comparing", "done", "failed"}
    /\ stage = "comparing" => request.op = "diff"

SourceStands ==
    request.from \in DOMAIN snapshots /\ snapshots[request.from] = progress.source

DiffCourse ==
    request.op = "diff" =>
        /\ (stage = "comparing" /\ SourceStands /\ request.to \in DOMAIN snapshots) =>
              Diff(progress.source, snapshots[request.to]) \in moments
        /\ (stage = "done" /\ SourceStands) => result.diff \in moments

DiffInv == DiffStages /\ DiffCourse

(* A step of a writer: the comparison stands, but for new snapshots or the *)
(* deletion of all of them.                                                *)
LEMMA WriteDiff ==
    ASSUME DiffInv, Write
    PROVE  DiffInv'
<1>1. UNCHANGED readVars /\ Open
    BY DEF Write, Build, Upsert, AnswerBuild, FailBuild, Withdraw, DeleteGraph, CreateGraph,
           PutSnapshot
<1>2. DiffStages'
    BY <1>1 DEF DiffInv, DiffStages, readVars
<1>3. SUFFICES ASSUME request.op = "diff", stage = "comparing", SourceStands',
                      (request.to \in DOMAIN snapshots)'
               PROVE  (Diff(progress.source, snapshots[request.to]) \in moments)'
    BY <1>1, <1>2 DEF DiffInv, DiffCourse, Open, readVars
<1>4. CASE PutSnapshot
  <2>1. moments' = moments \cup DiffOf(snapshots')
      BY <1>3, <1>4 DEF PutSnapshot
  <2>2. DiffOf(snapshots') = {Diff(snapshots'[request.from], snapshots'[request.to])}
      BY <1>1, <1>3 DEF DiffOf, SourceStands, readVars
  <2>3. snapshots'[request.from] = progress.source
      BY <1>1, <1>3 DEF SourceStands, readVars
  <2>4. QED  BY <1>1, <2>1, <2>2, <2>3 DEF readVars
<1>5. CASE DeleteGraph
  <2>1. DOMAIN snapshots' = {}
      BY <1>5 DEF DeleteGraph
  <2>2. QED  BY <1>3, <2>1
<1>6. CASE Build \/ AnswerBuild \/ FailBuild \/ Upsert \/ Withdraw \/ CreateGraph
  <2>1. UNCHANGED <<snapshots, moments>>
      BY <1>6 DEF Build, AnswerBuild, FailBuild, Upsert, Withdraw, CreateGraph, Follow,
                  storeVars, historyVars
  <2>2. SourceStands /\ request.to \in DOMAIN snapshots
      BY <1>1, <1>3, <2>1 DEF SourceStands, readVars
  <2>3. Diff(progress.source, snapshots[request.to]) \in moments
      BY <1>3, <2>2 DEF DiffInv, DiffCourse
  <2>4. QED  BY <1>1, <2>1, <2>3 DEF readVars
<1>7. QED  BY <1>4, <1>5, <1>6 DEF Write

(* A step of the reader.                                                   *)
LEMMA ReadDiff ==
    ASSUME DiffInv, Read
    PROVE  DiffInv'
<1>1. request' = request
    BY DEF Read, NotFound, ListPage, ReadEntities, Propose, Check, GetSource, GetTarget,
           BeginWalks, NextWalk, Walk, EndWalks
<1>2. snapshots' = snapshots
    BY DEF Read, NotFound, ListPage, ReadEntities, Propose, Check, GetSource, GetTarget,
           BeginWalks, NextWalk, Walk, EndWalks, storeVars
<1>3. CASE GetSource
  <2>1. CASE request.from \in DOMAIN snapshots
    <3>1. /\ progress' = [source |-> snapshots[request.from]] /\ stage' = "comparing"
          /\ moments' = DiffOf(snapshots) /\ request.op = "diff"
        BY <1>3, <2>1 DEF GetSource
    <3>2. request.to \in DOMAIN snapshots =>
              DiffOf(snapshots) = {Diff(snapshots[request.from], snapshots[request.to])}
        BY <2>1 DEF DiffOf
    <3>3. progress'.source = snapshots[request.from]
        BY <3>1
    <3>4. QED
        BY <1>1, <1>2, <3>1, <3>2, <3>3 DEF DiffInv, DiffStages, DiffCourse, SourceStands
  <2>2. CASE request.from \notin DOMAIN snapshots
      BY <1>1, <1>2, <1>3, <2>2 DEF GetSource, DiffInv, DiffStages, DiffCourse
  <2>3. QED  BY <2>1, <2>2
<1>4. CASE GetTarget
  <2>1. request.op = "diff" /\ stage = "comparing"
      BY <1>4 DEF GetTarget, DiffInv, DiffStages
  <2>2. UNCHANGED <<progress, moments>>
      BY <1>4 DEF GetTarget, historyVars
  <2>3. CASE request.to \in DOMAIN snapshots
    <3>1. result' = [diff |-> Diff(progress.source, snapshots[request.to])] /\ stage' = "done"
        BY <1>4, <2>3 DEF GetTarget
    <3>2. result'.diff = Diff(progress.source, snapshots[request.to])
        BY <3>1
    <3>3. SourceStands' => SourceStands
        BY <1>1, <1>2, <2>2 DEF SourceStands
    <3>4. QED
        BY <1>1, <1>2, <2>1, <2>2, <2>3, <3>1, <3>2, <3>3 DEF DiffInv, DiffStages, DiffCourse
  <2>4. CASE request.to \notin DOMAIN snapshots
    <3>1. stage' = "failed"
        BY <1>4, <2>4 DEF GetTarget
    <3>2. QED  BY <1>1, <2>1, <3>1 DEF DiffInv, DiffStages, DiffCourse
  <2>5. QED  BY <2>3, <2>4
<1>5. CASE NotFound
  <2>1. stage' = "failed"
      BY <1>5 DEF NotFound
  <2>2. QED  BY <1>1, <2>1 DEF DiffInv, DiffStages, DiffCourse
<1>6. CASE \/ ListPage \/ ReadEntities \/ BeginWalks
           \/ Propose \/ Check \/ NextWalk \/ Walk \/ EndWalks
  <2>1. request.op # "diff"
      BY <1>6 DEF ListPage, ReadEntities, BeginWalks, Propose, Check, NextWalk, Walk, EndWalks,
                  DiffInv, DiffStages
  <2>2. stage' # "comparing"
      BY <1>6 DEF ListPage, ReadEntities, BeginWalks, Propose, Check, NextWalk, Walk, EndWalks
  <2>3. QED  BY <1>1, <2>1, <2>2 DEF DiffInv, DiffStages, DiffCourse
<1>7. QED  BY <1>3, <1>4, <1>5, <1>6 DEF Read

(* The two versions that a comparison reads, one store call after the      *)
(* other, were held together at some moment of the request, unless the     *)
(* first was written again or deleted before the second was read: whatever *)
(* snapshots are put meanwhile, and however often.                         *)
THEOREM ComparesOneMoment == Spec => []DiffOfOneMoment
<1>1. Init => DiffInv
    BY DEF Init, DiffInv, DiffStages, DiffCourse
<1>2. DiffInv /\ [Next]_vars => DiffInv'
  <2> SUFFICES ASSUME DiffInv, [Next]_vars PROVE DiffInv'
      OBVIOUS
  <2>1. CASE Next
      BY <2>1, WriteDiff, ReadDiff DEF Next
  <2>2. CASE UNCHANGED vars
      BY <2>2 DEF vars, storeVars, readVars, historyVars, DiffInv, DiffStages, DiffCourse,
                  SourceStands
  <2>3. QED  BY <2>1, <2>2
<1>3. DiffInv => DiffOfOneMoment
    BY DEF DiffInv, DiffCourse, DiffOfOneMoment, SourceStands
<1>4. QED  BY <1>1, <1>2, <1>3, PTL DEF Spec

-----------------------------------------------------------------------------
(* Lists.  A listing holds every row at one place, and a row that every    *)
(* other is ahead of or behind stands behind those ahead of it.            *)
LEMMA ListingIs ==
    ASSUME NEW rows, IsFiniteSet(rows), NEW ahead, NEW order \in Listings(rows, ahead)
    PROVE  /\ Cardinality(rows) \in Nat /\ order \in [1 .. Cardinality(rows) -> rows]
           /\ \A i, j \in 1 .. Cardinality(rows) : order[i] = order[j] => i = j
           /\ \A r \in rows : \E i \in 1 .. Cardinality(rows) : order[i] = r
           /\ \A i, j \in 1 .. Cardinality(rows) : i < j => <<order[j], order[i]>> \notin ahead
<1> DEFINE n == Cardinality(rows)
<1>1. n \in Nat
    BY FS_CardinalityType
<1>2. /\ order \in [1 .. n -> rows]
      /\ \A i, j \in DOMAIN order : order[i] = order[j] => i = j
      /\ \A r \in rows : \E i \in 1 .. n : order[i] = r
      /\ \A i, j \in DOMAIN order : i < j => <<order[j], order[i]>> \notin ahead
    BY DEF Listings, Bijection, Injection, Surjection, IsInjective
<1>3. QED  BY <1>1, <1>2

LEMMA ListingPlace ==
    ASSUME NEW rows, IsFiniteSet(rows), NEW ahead, NEW order \in Listings(rows, ahead),
           NEW k \in 1 .. Cardinality(rows),
           \A d \in rows \ {order[k]} : <<d, order[k]>> \in ahead \/ <<order[k], d>> \in ahead
    PROVE  Cardinality({d \in rows \ {order[k]} : <<d, order[k]>> \in ahead}) = k - 1
<1> DEFINE n == Cardinality(rows)
           before == {d \in rows \ {order[k]} : <<d, order[k]>> \in ahead}
           m == k - 1
           f == [i \in 1 .. m |-> order[i]]
<1>1. /\ n \in Nat /\ order \in [1 .. n -> rows]
      /\ \A i, j \in 1 .. n : order[i] = order[j] => i = j
      /\ \A r \in rows : \E i \in 1 .. n : order[i] = r
      /\ \A i, j \in 1 .. n : i < j => <<order[j], order[i]>> \notin ahead
    BY ListingIs
<1> HIDE DEF n
<1>2. k \in 1 .. n /\ m \in Nat /\ \A i \in 1 .. m : i \in 1 .. n /\ i < k
    BY <1>1 DEF n
<1>3. ASSUME NEW i \in 1 .. m PROVE order[i] \in before
  <2>1. order[i] \in rows \ {order[k]}
      BY <1>1, <1>2
  <2>2. <<order[k], order[i]>> \notin ahead
      BY <1>1, <1>2
  <2>3. QED  BY <2>1, <2>2
<1>4. ASSUME NEW d \in before PROVE \E i \in 1 .. m : order[i] = d
  <2>1. PICK i \in 1 .. n : order[i] = d
      BY <1>1
  <2>2. i # k /\ ~(k < i)
      BY <1>1, <1>2, <2>1
  <2>3. i \in 1 .. m
      BY <1>2, <2>2
  <2>4. QED  BY <2>1, <2>3
<1>5. f \in Bijection(1 .. m, before)
  <2> HIDE DEF before, m
  <2>1. f \in [1 .. m -> before]
      BY <1>3
  <2>2. \A i, j \in DOMAIN f : f[i] = f[j] => i = j
      BY <1>1, <1>2
  <2>3. \A d \in before : \E i \in 1 .. m : f[i] = d
      BY <1>4
  <2> HIDE DEF f
  <2>4. QED  BY <2>1, <2>2, <2>3 DEF Bijection, Injection, Surjection, IsInjective
<1> HIDE DEF before, m, f
<1>6. IsFiniteSet(1 .. m) /\ Cardinality(1 .. m) = m
    BY <1>2, FS_Interval
<1>7. Cardinality(before) = m
    BY <1>5, <1>6, FS_Bijection DEF ExistsBijection
<1>8. QED  BY <1>7 DEF before, m

(* The place of an entity in the lists of a graph.                         *)
Place(e) == Cardinality(Ahead(e)) + 1

LEMMA PlaceType ==
    ASSUME IsFiniteSet(Active), NEW e
    PROVE  IsFiniteSet(Ahead(e)) /\ Cardinality(Ahead(e)) \in Nat /\ Place(e) \in Nat \ {0}
<1>1. Ahead(e) \in SUBSET Active
    BY DEF Ahead
<1>2. IsFiniteSet(Ahead(e)) /\ Cardinality(Ahead(e)) \in Nat
    BY <1>1, FS_Subset, FS_CardinalityType
<1>3. QED  BY <1>2 DEF Place

-----------------------------------------------------------------------------
(* The store holds rows of the entities and relations there are, and what  *)
(* builds bring.                                                           *)
Row == [status : {"none", "active", "deprecated"}, type : Nat, name : Nat, value : Value]
EdgeRow == [status : {"none", "active"}, type : Nat, source : Nat, target : Nat]

EntityRecord == [id : Entity, type : Nat, name : Nat, value : Value]
RelationRecord == [id : Relation, type : Nat, source : Nat, target : Nat]

RowsInv ==
    /\ row \in [Entity -> Row] /\ edge \in [Relation -> EdgeRow]
    /\ build \in [batch : BatchType, next : Nat]
    /\ heard \subseteq BatchType
    /\ request \in Requests

LEMMA ElementType ==
    ASSUME NEW S, NEW s \in Seq(S), NEW i \in 1 .. Len(s)
    PROVE  s[i] \in S
    OBVIOUS

LEMMA RowsAreFinite ==
    /\ Active \subseteq Entity /\ IsFiniteSet(Active) /\ Cardinality(Active) \in Nat
    /\ Linked \subseteq Relation /\ IsFiniteSet(Linked) /\ Cardinality(Linked) \in Nat
<1>1. Active \in SUBSET Entity /\ Linked \in SUBSET Relation
    BY DEF Active, Linked
<1>2. IsFiniteSet(Active) /\ IsFiniteSet(Linked)
    BY <1>1, FS_Subset, IdentifiersAssumption
<1>3. QED  BY <1>1, <1>2, FS_CardinalityType

LEMMA RowsInvariant == Spec => []RowsInv
<1>1. NoBuild \in [batch : BatchType, next : Nat]
  <2>1. <<>> \in Seq(EntityRecord) /\ <<>> \in Seq(RelationRecord)
      OBVIOUS
  <2>2. QED  BY <2>1 DEF NoBuild, BatchType, EntityRecord, RelationRecord
<1>2. NoRow \in Row /\ NoEdge \in EdgeRow
    BY DEF NoRow, NoEdge, Row, EdgeRow, Value
<1>3. Init => RowsInv
    BY <1>1, <1>2 DEF Init, RowsInv
<1>4. RowsInv /\ [Next]_vars => RowsInv'
  <2> SUFFICES ASSUME RowsInv, [Next]_vars PROVE RowsInv'
      OBVIOUS
  <2>1. CASE Build
    <3>1. PICK batch \in Batches : build' = [batch |-> batch, next |-> 1]
        BY <2>1 DEF Build
    <3>2. build' \in [batch : BatchType, next : Nat]
        BY <3>1, ReadsAssumption
    <3>3. QED  BY <2>1, <3>2 DEF Build, RowsInv, storeVars, readVars
  <2>2. CASE Upsert
    <3> DEFINE entities == build.batch.entities
               relations == build.batch.relations
               n == Len(entities)
    <3>1. entities \in Seq(EntityRecord) /\ relations \in Seq(RelationRecord) /\ build.next \in Nat
        BY DEF RowsInv, BatchType, EntityRecord, RelationRecord
    <3>2. row' \in [Entity -> Row] /\ edge' \in [Relation -> EdgeRow]
      <4>1. CASE /\ build.next \in 1..n
                 /\ LET new == entities[build.next]
                    IN  row' = [row EXCEPT ![new.id] = MergedEntity(row[new.id], new)]
                 /\ UNCHANGED edge
        <5> DEFINE new == entities[build.next]
        <5>1. new \in EntityRecord
            BY <3>1, <4>1, ElementType
        <5> HIDE DEF new
        <5>2. new.id \in Entity /\ new.type \in Nat /\ new.name \in Nat /\ new.value \in Value
            BY <5>1 DEF EntityRecord
        <5>3. row[new.id].type \in Nat
            BY <5>2 DEF RowsInv, Row
        <5>4. MergedEntity(row[new.id], new) \in Row
            BY <5>2, <5>3 DEF MergedEntity, Row
        <5>5. row' = [row EXCEPT ![new.id] = MergedEntity(row[new.id], new)] /\ UNCHANGED edge
            BY <4>1 DEF new
        <5>6. QED  BY <5>2, <5>4, <5>5 DEF RowsInv
      <4>2. CASE /\ build.next - n \in 1..Len(relations)
                 /\ LET new == relations[build.next - n]
                    IN  edge' = [edge EXCEPT ![new.id] = MergedRelation(edge[new.id], new)]
                 /\ UNCHANGED row
        <5> DEFINE new == relations[build.next - n]
        <5>1. new \in RelationRecord
            BY <3>1, <4>2, ElementType
        <5> HIDE DEF new
        <5>2. /\ new.id \in Relation /\ new.type \in Nat
              /\ new.source \in Nat /\ new.target \in Nat
            BY <5>1 DEF RelationRecord
        <5>3. edge[new.id] \in EdgeRow
            BY <5>2 DEF RowsInv
        <5>4. MergedRelation(edge[new.id], new) \in EdgeRow
            BY <5>2, <5>3 DEF MergedRelation, EdgeRow
        <5>5. edge' = [edge EXCEPT ![new.id] = MergedRelation(edge[new.id], new)] /\ UNCHANGED row
            BY <4>2 DEF new
        <5>6. QED  BY <5>2, <5>4, <5>5 DEF RowsInv
      <4>3. QED  BY <2>2, <4>1, <4>2, Zenon DEF Upsert
    <3>3. build' = [build EXCEPT !.next = @ + 1] /\ UNCHANGED <<heard, request>>
        BY <2>2 DEF Upsert, readVars
    <3>4. build' \in [batch : BatchType, next : Nat]
        BY <3>1, <3>3 DEF RowsInv
    <3>5. QED  BY <3>2, <3>3, <3>4 DEF RowsInv
  <2>3. CASE AnswerBuild \/ FailBuild
    <3>1. build' = NoBuild /\ heard' \subseteq heard \cup {build.batch}
          /\ UNCHANGED <<row, edge, request>>
        BY <2>3 DEF AnswerBuild, FailBuild, storeVars, readVars
    <3>2. QED  BY <1>1, <3>1 DEF RowsInv
  <2>4. CASE Withdraw
    <3>1. PICK victims \in SUBSET Active :
              row' = [e \in Entity |-> IF e \in victims THEN [row[e] EXCEPT !.status = "deprecated"]
                                       ELSE row[e]]
        BY <2>4 DEF Withdraw
    <3>2. \A e \in Entity : [row[e] EXCEPT !.status = "deprecated"] \in Row
        BY DEF RowsInv, Row
    <3>3. row' \in [Entity -> Row]
        BY <3>1, <3>2 DEF RowsInv
    <3>4. QED  BY <2>4, <3>3 DEF Withdraw, RowsInv, readVars
  <2>5. CASE DeleteGraph
      BY <1>2, <2>5 DEF DeleteGraph, RowsInv, readVars
  <2>6. CASE CreateGraph \/ PutSnapshot
      BY <2>6 DEF CreateGraph, PutSnapshot, RowsInv, readVars
  <2>7. CASE Read
      BY <2>7 DEF Read, NotFound, ListPage, ReadEntities, Propose, Check, GetSource, GetTarget,
                  BeginWalks, NextWalk, Walk, EndWalks, RowsInv, storeVars
  <2>8. CASE UNCHANGED vars
      BY <2>8 DEF vars, RowsInv, storeVars, readVars
  <2>9. QED
      BY <2>1, <2>2, <2>3, <2>4, <2>5, <2>6, <2>7, <2>8 DEF Next, Write
<1>5. QED  BY <1>3, <1>4, PTL DEF Spec

(* A list of the active entities: each of them once, and at its place, if  *)
(* that is its own.                                                        *)
Listed == [id : Entity, type : Nat, value : Value]
ListedAs(e) == [id |-> e, type |-> row[e].type, value |-> row[e].value]

LEMMA EntityListIs ==
    ASSUME RowsInv, NEW list \in EntityLists
    PROVE  /\ list \in Seq(Listed) /\ Len(list) = Cardinality(Active)
           /\ \A k \in 1 .. Cardinality(Active) :
                 /\ list[k].id \in Active /\ list[k] = ListedAs(list[k].id)
                 /\ Alone(list[k].id) => Place(list[k].id) = k
           /\ \A j, k \in 1 .. Cardinality(Active) : list[j].id = list[k].id => j = k
           /\ \A e \in Active : \E k \in 1 .. Cardinality(Active) : list[k].id = e
<1> DEFINE n == Cardinality(Active)
           ahead == {pair \in Active \X Active : Precedes(pair[1], pair[2])}
<1>1. PICK order \in Listings(Active, ahead) :
          list = [i \in DOMAIN order |->
                     [id |-> order[i], type |-> row[order[i]].type, value |-> row[order[i]].value]]
    BY DEF EntityLists
<1>2. IsFiniteSet(Active) /\ Active \subseteq Entity
    BY RowsAreFinite
<1>3. \A d, e \in Active : <<d, e>> \in ahead <=> Precedes(d, e)
    OBVIOUS
<1> HIDE DEF ahead
<1>4. /\ n \in Nat /\ order \in [1 .. n -> Active]
      /\ \A i, j \in 1 .. n : order[i] = order[j] => i = j
      /\ \A e \in Active : \E i \in 1 .. n : order[i] = e
    BY <1>2, ListingIs
<1>5. \A e \in Active : ListedAs(e) \in Listed /\ ListedAs(e).id = e
  <2> SUFFICES ASSUME NEW e \in Active PROVE ListedAs(e) \in Listed /\ ListedAs(e).id = e
      OBVIOUS
  <2>1. e \in Entity /\ row[e].type \in Nat /\ row[e].value \in Value
      BY <1>2 DEF RowsInv, Row
  <2>2. QED  BY <2>1 DEF ListedAs, Listed
<1>6. list = [i \in 1 .. n |-> ListedAs(order[i])]
    BY <1>1, <1>4 DEF ListedAs
<1>7. ASSUME NEW k \in 1 .. n, Alone(order[k]) PROVE Place(order[k]) = k
  <2> DEFINE e == order[k]
  <2>1. e \in Active
      BY <1>4
  <2>2. \A d \in Active \ {e} : <<d, e>> \in ahead \/ <<e, d>> \in ahead
      BY <1>3, <1>7, <2>1 DEF Alone
  <2>3. Cardinality({d \in Active \ {e} : <<d, e>> \in ahead}) = k - 1
      BY <1>2, <2>2, ListingPlace
  <2>4. Ahead(e) = {d \in Active \ {e} : <<d, e>> \in ahead}
      BY <1>3, <2>1 DEF Ahead
  <2>5. Place(e) = (k - 1) + 1
      BY <2>3, <2>4 DEF Place
  <2>6. QED  BY <1>4, <2>5
<1> HIDE DEF n
<1>8. ASSUME NEW k \in 1 .. n PROVE list[k] = ListedAs(order[k]) /\ list[k].id = order[k]
    BY <1>4, <1>5, <1>6
<1>9. list \in [1 .. n -> Listed]
    BY <1>4, <1>5, <1>6
<1>10. list \in Seq(Listed) /\ Len(list) = n
    BY <1>4, <1>9
<1>11. \A k \in 1 .. n : /\ list[k].id \in Active /\ list[k] = ListedAs(list[k].id)
                         /\ Alone(list[k].id) => Place(list[k].id) = k
    BY <1>4, <1>7, <1>8
<1>12. QED  BY <1>4, <1>8, <1>10, <1>11 DEF n

-----------------------------------------------------------------------------
(* Pages.  A page holds the records behind those of the pages before it.   *)
LEMMA PageBounds ==
    ASSUME NEW page \in Nat \ {0}, NEW size \in Nat \ {0}
    PROVE  /\ (page - 1) * size \in Nat /\ page * size \in Nat
           /\ page * size = (page - 1) * size + size
    OBVIOUS

IsPage(items, records, lo, hi) ==
    /\ \A i \in DOMAIN items : /\ lo + i \in 1 .. Len(records) /\ lo + i <= hi
                             /\ items[i] = records[lo + i]
    /\ \A k \in 1 .. Len(records) : lo < k /\ k <= hi =>
          k - lo \in DOMAIN items /\ items[k - lo] = records[k]

LEMMA PageItems ==
    ASSUME NEW T, NEW records \in Seq(T), NEW page \in Nat \ {0}, NEW size \in Nat \ {0}
    PROVE  /\ Paginate(records, page, size) \in Seq(T)
           /\ IsPage(Paginate(records, page, size), records, (page - 1) * size, page * size)
<1> DEFINE lo == (page - 1) * size
           hi == page * size
           n == Len(records)
           end == Min({hi, n})
<1>1. lo \in Nat /\ hi \in Nat /\ hi = lo + size
    BY PageBounds
<1>2. n \in Nat
    OBVIOUS
<1> DEFINE items == Paginate(records, page, size)
<1>3. items = SubSeq(records, lo + 1, end)
    BY DEF Paginate
<1> HIDE DEF lo, hi, n
<1>4. end = IF hi <= n THEN hi ELSE n
    BY <1>1, <1>2 DEF Min
<1> HIDE DEF end, items
<1>5. end \in Nat /\ end <= n /\ end <= hi
    BY <1>1, <1>2, <1>4
<1>6. CASE lo + 1 <= end
  <2>1. /\ items \in Seq(T) /\ Len(items) = end - lo
        /\ \A i \in 1 .. end - lo : items[i] = records[lo + i]
      BY <1>1, <1>2, <1>3, <1>5, <1>6 DEF n
  <2>2. DOMAIN items = 1 .. end - lo
      BY <2>1
  <2>3. \A i \in DOMAIN items : lo + i \in 1 .. n /\ lo + i <= hi /\ items[i] = records[lo + i]
      BY <1>1, <1>2, <1>5, <2>1, <2>2, SMTT(30)
  <2>4. \A k \in 1 .. n : lo < k /\ k <= hi =>
            k - lo \in DOMAIN items /\ items[k - lo] = records[k]
    <3> SUFFICES ASSUME NEW k \in 1 .. n, lo < k, k <= hi
                 PROVE  k - lo \in DOMAIN items /\ items[k - lo] = records[k]
        OBVIOUS
    <3>1. k <= end
        BY <1>1, <1>2, <1>4
    <3>2. k - lo \in 1 .. end - lo /\ lo + (k - lo) = k
        BY <1>1, <1>2, <1>5, <3>1
    <3>3. QED  BY <2>1, <2>2, <3>2
  <2>5. IsPage(items, records, lo, hi)
      BY <2>3, <2>4 DEF IsPage, n
  <2>6. QED  BY <2>1, <2>5 DEF lo, hi, items
<1>7. CASE ~(lo + 1 <= end)
  <2>1. items = <<>>
      BY <1>1, <1>2, <1>3, <1>5, <1>7 DEF n
  <2>2. items \in Seq(T) /\ DOMAIN items = {}
      BY <2>1
  <2>3. \A k \in 1 .. n : ~(lo < k /\ k <= hi)
      BY <1>1, <1>2, <1>4, <1>5, <1>7
  <2>4. IsPage(items, records, lo, hi)
      BY <2>2, <2>3 DEF IsPage, n
  <2>5. QED  BY <2>2, <2>4 DEF lo, hi, items
<1>8. QED  BY <1>6, <1>7

LEMMA LastPage ==
    ASSUME NEW total \in Nat, NEW size \in Nat \ {0}, NEW page \in Nat \ {0},
           page >= TotalPages(total, size)
    PROVE  total <= page * size
<1> DEFINE pages == TotalPages(total, size)
<1>1. pages \in Nat /\ total <= pages * size
  <2>1. total + size - 1 \in Nat
      OBVIOUS
  <2>2. /\ (total + size - 1) \div size \in Nat
        /\ total + size - 1 < ((total + size - 1) \div size) * size + size
      BY <2>1, Z3
  <2>3. QED  BY <2>2 DEF TotalPages
<1> HIDE DEF pages
<1>2. pages <= page
    BY <1>1 DEF pages
<1>3. pages * size <= page * size
    BY <1>1, <1>2
<1>4. pages * size \in Nat /\ page * size \in Nat
    BY <1>1
<1>5. QED  BY <1>1, <1>3, <1>4

(* What a client has of an entity, and how far the pages have come.        *)
Shown(e) == \E i \in DOMAIN progress.got : progress.got[i].id = e

Twice(e) == \E i, j \in DOMAIN progress.got :
                i # j /\ progress.got[i].id = e /\ progress.got[j].id = e

Behind == progress.page * PageSize(request.size)

(* An entity that kept its place has it behind the pages until it is shown,*)
(* unless one before it went and drew it back; and once shown its place is *)
(* not behind them, unless one came before it.                             *)
InPlace(e) ==
    /\ e \in Active /\ Alone(e)
    /\ e \notin left => Shown(e) \/ Place(e) > Behind
    /\ e \notin came => ~Twice(e) /\ (Shown(e) => Place(e) <= Behind)

PageStages ==
    /\ request.op = "pages" => stage \in {"asked", "paging", "done", "failed"}
    /\ stage = "paging" => request.op = "pages"

PageCourse ==
    request.op = "pages" =>
        /\ stage \in {"paging", "done"} =>
              /\ progress.page \in Nat \ {0} /\ progress.got \in Seq(Listed)
              /\ \A e \in steady : InPlace(e)
        /\ stage = "done" => \A e \in steady : Place(e) <= Behind

PageInv == PageStages /\ PageCourse

LEMMA BehindType ==
    ASSUME RowsInv, request.op = "pages"
    PROVE  /\ PageSize(request.size) \in Nat \ {0}
           /\ \A page \in Nat \ {0} : page * PageSize(request.size) \in Nat
<1>1. request.size \in Int
    BY ReadsAssumption DEF RowsInv
<1>2. PageSize(request.size) \in Nat \ {0}
    BY <1>1 DEF PageSize
<1> HIDE DEF PageSize
<1>3. QED  BY <1>2

LEMMA PlaceMoves ==
    ASSUME NEW S, NEW T, IsFiniteSet(T), S \subseteq T
    PROVE  Cardinality(S) <= Cardinality(T)
    BY FS_Subset

(* A write between two pages.                                              *)
LEMMA FollowPages ==
    ASSUME PageInv, Follow, Open, UNCHANGED readVars, RowsInv, request.op = "pages"
    PROVE  PageInv'
<1>1. stage \in {"asked", "paging"} /\ UNCHANGED <<stage, progress, request>>
    BY DEF PageInv, PageStages, Open, readVars
<1>2. CASE stage = "asked"
    BY <1>1, <1>2 DEF PageInv, PageStages, PageCourse
<1>3. CASE stage = "paging"
  <2>1. /\ steady' = {e \in steady : Stays(e)}
        /\ left' = left \cup {e \in steady : ~(Ahead(e) \subseteq Ahead(e)')}
        /\ came' = came \cup {e \in steady : ~(Ahead(e)' \subseteq Ahead(e))}
      BY <1>3 DEF Follow
  <2>2. Behind' = Behind /\ Behind \in Nat
    <3>1. progress.page \in Nat \ {0}
        BY <1>3 DEF PageInv, PageCourse
    <3>2. QED  BY <1>1, <3>1, BehindType DEF Behind
  <2>3. ASSUME NEW e \in steady' PROVE InPlace(e)'
    <3>1. e \in steady /\ e \in Active' /\ Alone(e)'
        BY <2>1 DEF Stays
    <3>2. InPlace(e)
        BY <1>3, <3>1 DEF PageInv, PageCourse
    <3>3. IsFiniteSet(Ahead(e)) /\ Cardinality(Ahead(e)) \in Nat
        BY RowsAreFinite, PlaceType
    <3>4. IsFiniteSet(Ahead(e)') /\ Cardinality(Ahead(e)') \in Nat
      <4>1. Ahead(e)' \in SUBSET Entity
          BY DEF Ahead, Active
      <4>2. IsFiniteSet(Ahead(e)')
          BY <4>1, FS_Subset, IdentifiersAssumption
      <4>3. QED  BY <4>2, FS_CardinalityType
    <3>5. Place(e) = Cardinality(Ahead(e)) + 1 /\ Place(e)' = Cardinality(Ahead(e)') + 1
        BY DEF Place
    <3>6. ASSUME e \notin left' PROVE Shown(e) \/ Place(e)' > Behind
      <4>1. Ahead(e) \subseteq Ahead(e)' /\ e \notin left
          BY <2>1, <3>1, <3>6
      <4>2. Cardinality(Ahead(e)) <= Cardinality(Ahead(e)')
          BY <3>4, <4>1, PlaceMoves
      <4>3. Shown(e) \/ Place(e) > Behind
          BY <3>2, <4>1 DEF InPlace
      <4>4. QED  BY <2>2, <3>3, <3>4, <3>5, <4>2, <4>3
    <3>7. ASSUME e \notin came' PROVE ~Twice(e) /\ (Shown(e) => Place(e)' <= Behind)
      <4>1. Ahead(e)' \subseteq Ahead(e) /\ e \notin came
          BY <2>1, <3>1, <3>7
      <4>2. Cardinality(Ahead(e)') <= Cardinality(Ahead(e))
          BY <3>3, <4>1, PlaceMoves
      <4>3. ~Twice(e) /\ (Shown(e) => Place(e) <= Behind)
          BY <3>2, <4>1 DEF InPlace
      <4>4. QED  BY <2>2, <3>3, <3>4, <3>5, <4>2, <4>3
    <3>8. (Shown(e) <=> Shown(e)') /\ (Twice(e) <=> Twice(e)')
        BY <1>1 DEF Shown, Twice
    <3>9. QED  BY <2>2, <3>1, <3>6, <3>7, <3>8 DEF InPlace
  <2>4. QED  BY <1>1, <1>3, <2>3 DEF PageInv, PageStages, PageCourse
<1>4. QED  BY <1>1, <1>2, <1>3

(* One page, of any listing.                                               *)
LEMMA ListPages ==
    ASSUME RowsInv, PageInv, ListPage
    PROVE  PageInv'
<1> DEFINE page == IF stage = "asked" THEN 1 ELSE progress.page + 1
           got == IF stage = "asked" THEN <<>> ELSE progress.got
           size == PageSize(request.size)
<1>0. PICK list \in EntityLists :
          /\ progress' = [page |-> page, got |-> got \o Paginate(list, page, size)]
          /\ stage' = IF page >= TotalPages(Len(list), size) THEN "done" ELSE "paging"
    BY DEF ListPage
<1> DEFINE items == Paginate(list, page, size)
           lo == (page - 1) * size
           hi == page * size
           n == Cardinality(Active)
<1>1. /\ request.op = "pages" /\ stage \in {"asked", "paging"}
      /\ progress' = [page |-> page, got |-> got \o items]
      /\ stage' = IF page >= TotalPages(Len(list), size) THEN "done" ELSE "paging"
      /\ steady' = IF stage = "asked" THEN {e \in Active : Alone(e)} ELSE steady
      /\ UNCHANGED <<row, request, left, came>>
    BY <1>0 DEF ListPage, storeVars
<1>2. size \in Nat \ {0} /\ request' = request
    BY <1>1, BehindType
<1>3. page \in Nat \ {0} /\ got \in Seq(Listed)
    BY <1>1 DEF PageInv, PageCourse
<1>4. /\ list \in Seq(Listed) /\ Len(list) = n /\ n \in Nat
      /\ \A k \in 1 .. n : list[k].id \in Active /\ (Alone(list[k].id) => Place(list[k].id) = k)
      /\ \A j, k \in 1 .. n : list[j].id = list[k].id => j = k
      /\ \A e \in Active : \E k \in 1 .. n : list[k].id = e
    BY EntityListIs, RowsAreFinite
<1>5. /\ items \in Seq(Listed)
      /\ \A i \in DOMAIN items : /\ lo + i \in 1 .. n /\ lo + i <= hi
                               /\ items[i] = list[lo + i]
      /\ \A k \in 1 .. n : lo < k /\ k <= hi =>
            k - lo \in DOMAIN items /\ items[k - lo] = list[k]
  <2> HIDE DEF page, size, n
  <2>1. /\ Paginate(list, page, size) \in Seq(Listed)
        /\ IsPage(Paginate(list, page, size), list, (page - 1) * size, page * size)
      BY <1>2, <1>3, <1>4, PageItems
  <2>2. items \in Seq(Listed) /\ IsPage(items, list, lo, hi)
      BY <2>1
  <2> HIDE DEF items, lo, hi
  <2>3. QED  BY <1>4, <2>2 DEF IsPage
<1>6. lo \in Nat /\ hi \in Nat /\ hi = lo + size
  <2> HIDE DEF page, size
  <2>1. QED  BY <1>2, <1>3, PageBounds
<1>7. stage = "paging" => lo = Behind
  <2> SUFFICES ASSUME stage = "paging" PROVE lo = Behind
      OBVIOUS
  <2>1. progress.page \in Nat \ {0} /\ page = progress.page + 1
      BY <1>1 DEF PageInv, PageCourse
  <2>2. page - 1 = progress.page
      BY <2>1
  <2>3. QED  BY <2>2 DEF Behind
<1>8. stage = "asked" => lo = 0
  <2> SUFFICES ASSUME stage = "asked" PROVE lo = 0
      OBVIOUS
  <2>1. page - 1 = 0
      OBVIOUS
  <2>2. QED  BY <1>2, <2>1
<1>9. progress'.page = page /\ progress'.got = got \o items /\ Behind' = hi
    BY <1>1 DEF Behind
<1> HIDE DEF page, size, items, lo, hi, n
<1>10. /\ got \o items \in Seq(Listed)
       /\ DOMAIN (got \o items) = 1 .. Len(got) + Len(items)
       /\ \A i \in 1 .. Len(got) : (got \o items)[i] = got[i]
       /\ \A i \in 1 .. Len(items) : (got \o items)[Len(got) + i] = items[i]
       /\ Len(got) \in Nat /\ Len(items) \in Nat
       /\ DOMAIN got = 1 .. Len(got) /\ DOMAIN items = 1 .. Len(items)
  <2> HIDE DEF got
  <2>1. QED  BY <1>3, <1>5
<1> DEFINE ShownBefore(e) == \E i \in DOMAIN got : got[i].id = e
           OnPage(e) == \E i \in DOMAIN items : items[i].id = e
           TwiceBefore(e) == \E i, j \in DOMAIN got : i # j /\ got[i].id = e /\ got[j].id = e
<1>11. ASSUME NEW e \in Active, Alone(e)
       PROVE  /\ Place(e) \in 1 .. n
              /\ OnPage(e) <=> lo < Place(e) /\ Place(e) <= hi
  <2>1. PICK k \in 1 .. n : list[k].id = e
      BY <1>4
  <2>2. Place(e) = k
      BY <1>4, <1>11, <2>1
  <2>3. ASSUME NEW i \in DOMAIN items, items[i].id = e PROVE lo < k /\ k <= hi
    <3>1. lo + i = k /\ i \in 1 .. Len(items)
        BY <1>4, <1>5, <1>10, <2>1, <2>3
    <3>2. QED  BY <1>5, <1>6, <1>10, <3>1
  <2>4. ASSUME lo < k, k <= hi PROVE OnPage(e)
      BY <1>5, <2>1, <2>4
  <2>5. QED  BY <2>1, <2>2, <2>3, <2>4
<1>12. ASSUME NEW e PROVE Shown(e)' <=> ShownBefore(e) \/ OnPage(e)
  <2>1. Shown(e)' <=> \E i \in 1 .. Len(got) + Len(items) : (got \o items)[i].id = e
      BY <1>9, <1>10 DEF Shown
  <2>2. ASSUME NEW i \in 1 .. Len(got) + Len(items), (got \o items)[i].id = e
        PROVE  ShownBefore(e) \/ OnPage(e)
    <3>1. CASE i <= Len(got)
        BY <1>10, <2>2, <3>1
    <3>2. CASE ~(i <= Len(got))
      <4>1. i - Len(got) \in 1 .. Len(items) /\ Len(got) + (i - Len(got)) = i
          BY <1>10, <3>2, SMTT(30)
      <4>2. items[i - Len(got)].id = e
          BY <1>10, <2>2, <4>1
      <4>3. QED  BY <1>10, <4>1, <4>2
    <3>3. QED  BY <3>1, <3>2
  <2>3. ASSUME ShownBefore(e) PROVE \E i \in 1 .. Len(got) + Len(items) : (got \o items)[i].id = e
    <3>1. PICK i \in 1 .. Len(got) : got[i].id = e
        BY <1>10, <2>3
    <3>2. i \in 1 .. Len(got) + Len(items)
        BY <1>10
    <3>3. QED  BY <1>10, <3>1, <3>2
  <2>4. ASSUME OnPage(e) PROVE \E i \in 1 .. Len(got) + Len(items) : (got \o items)[i].id = e
    <3>1. PICK i \in 1 .. Len(items) : items[i].id = e
        BY <1>10, <2>4
    <3>2. Len(got) + i \in 1 .. Len(got) + Len(items)
        BY <1>10
    <3>3. (got \o items)[Len(got) + i] = items[i]
        BY <1>10
    <3>4. QED  BY <3>1, <3>2, <3>3
  <2>5. QED  BY <2>1, <2>2, <2>3, <2>4
<1>13. ASSUME NEW e, Twice(e)' PROVE TwiceBefore(e) \/ (ShownBefore(e) /\ OnPage(e))
  <2>1. PICK i \in 1 .. Len(got) + Len(items), j \in 1 .. Len(got) + Len(items) :
            i # j /\ (got \o items)[i].id = e /\ (got \o items)[j].id = e
      BY <1>9, <1>10, <1>13 DEF Twice
  <2>2. ASSUME NEW k \in 1 .. Len(got) + Len(items), (got \o items)[k].id = e
        PROVE  \/ k \in 1 .. Len(got) /\ got[k].id = e
               \/ k - Len(got) \in 1 .. Len(items) /\ items[k - Len(got)].id = e
    <3>1. CASE k <= Len(got)
      <4>1. k \in 1 .. Len(got)
          BY <1>10, <3>1
      <4>2. QED  BY <1>10, <2>2, <4>1
    <3>2. CASE ~(k <= Len(got))
      <4>1. k - Len(got) \in 1 .. Len(items) /\ Len(got) + (k - Len(got)) = k
          BY <1>10, <3>2
      <4>2. (got \o items)[Len(got) + (k - Len(got))] = items[k - Len(got)]
          BY <1>10, <4>1
      <4>3. QED  BY <2>2, <4>1, <4>2
    <3>3. QED  BY <3>1, <3>2
  <2>3. \A a, b \in 1 .. Len(items) : items[a].id = items[b].id => a = b
    <3> SUFFICES ASSUME NEW a \in 1 .. Len(items), NEW b \in 1 .. Len(items),
                        items[a].id = items[b].id
                 PROVE  a = b
        OBVIOUS
    <3>1. lo + a \in 1 .. n /\ lo + b \in 1 .. n
          /\ list[lo + a].id = list[lo + b].id
        BY <1>5, <1>10
    <3>2. lo + a = lo + b
        BY <1>4, <3>1
    <3>3. QED  BY <1>6, <1>10, <3>2
  <2>4. CASE i - Len(got) \in 1 .. Len(items) /\ j - Len(got) \in 1 .. Len(items)
             /\ items[i - Len(got)].id = e /\ items[j - Len(got)].id = e
    <3>1. i - Len(got) = j - Len(got)
        BY <2>3, <2>4
    <3>2. QED  BY <1>10, <2>1, <3>1
  <2>5. CASE \/ i \in 1 .. Len(got) /\ got[i].id = e
             \/ j \in 1 .. Len(got) /\ got[j].id = e
    <3>1. ShownBefore(e)
        BY <1>10, <2>5
    <3>2. CASE OnPage(e)
        BY <3>1, <3>2
    <3>3. CASE ~OnPage(e)
      <4>1. i \in 1 .. Len(got) /\ got[i].id = e /\ j \in 1 .. Len(got) /\ got[j].id = e
          BY <1>10, <2>1, <2>2, <3>3
      <4>2. QED  BY <1>10, <2>1, <4>1
    <3>4. QED  BY <3>2, <3>3
  <2>6. QED  BY <2>1, <2>2, <2>4, <2>5
<1>14. ASSUME NEW e \in steady' PROVE InPlace(e)'
  <2>1. Active' = Active /\ Alone(e)' = Alone(e) /\ Place(e)' = Place(e)
    <3>1. Active' = Active
        BY <1>1 DEF Active
    <3>2. Ahead(e)' = Ahead(e)
        BY <1>1, <3>1 DEF Ahead, Precedes
    <3>3. Alone(e)' = Alone(e)
        BY <1>1, <3>1 DEF Alone, Precedes
    <3>4. QED  BY <3>1, <3>2, <3>3 DEF Place
  <2>2. /\ e \in Active /\ Alone(e)
        /\ e \notin left => ShownBefore(e) \/ Place(e) > lo
        /\ e \notin came => ~TwiceBefore(e) /\ (ShownBefore(e) => Place(e) <= lo)
    <3>1. CASE stage = "asked"
      <4>1. e \in Active /\ Alone(e) /\ got = <<>>
          BY <1>1, <3>1 DEF got
      <4>2. ~ShownBefore(e) /\ ~TwiceBefore(e)
          BY <4>1
      <4>3. Place(e) \in 1 .. n
          BY <1>11, <4>1
      <4>4. Place(e) > lo
          BY <1>4, <1>8, <3>1, <4>3
      <4>5. QED  BY <4>1, <4>2, <4>4
    <3>2. CASE stage = "paging"
      <4>1. e \in steady /\ got = progress.got
          BY <1>1, <3>2 DEF got
      <4>2. InPlace(e)
          BY <1>1, <3>2, <4>1 DEF PageInv, PageCourse
      <4>3. lo = Behind
          BY <1>7, <3>2
      <4>4. QED  BY <4>1, <4>2, <4>3 DEF InPlace, Shown, Twice
    <3>3. QED  BY <1>1, <3>1, <3>2
  <2>3. Place(e) \in 1 .. n /\ (OnPage(e) <=> lo < Place(e) /\ Place(e) <= hi)
      BY <1>11, <2>2
  <2>4. Shown(e)' <=> ShownBefore(e) \/ (lo < Place(e) /\ Place(e) <= hi)
      BY <1>12, <2>3
  <2>5. Twice(e)' => TwiceBefore(e) \/ (ShownBefore(e) /\ lo < Place(e))
      BY <1>13, <2>3
  <2> HIDE DEF ShownBefore, TwiceBefore, OnPage
  <2>6. e \notin left => Shown(e)' \/ Place(e) > hi
      BY <1>4, <1>6, <2>2, <2>3, <2>4
  <2>7. e \notin came => ~Twice(e)' /\ (Shown(e)' => Place(e) <= hi)
      BY <1>2, <1>4, <1>6, <2>2, <2>3, <2>4, <2>5
  <2>8. UNCHANGED <<left, came>>
      BY <1>1
  <2>9. QED  BY <1>9, <2>1, <2>2, <2>6, <2>7, <2>8 DEF InPlace
<1>15. ASSUME stage' = "done", NEW e \in steady' PROVE (Place(e) <= Behind)'
  <2>1. InPlace(e)'
      BY <1>14
  <2>2. Active' = Active /\ Alone(e)' = Alone(e) /\ Place(e)' = Place(e)
    <3>1. Active' = Active
        BY <1>1 DEF Active
    <3>2. Ahead(e)' = Ahead(e)
        BY <1>1, <3>1 DEF Ahead, Precedes
    <3>3. Alone(e)' = Alone(e)
        BY <1>1, <3>1 DEF Alone, Precedes
    <3>4. QED  BY <3>1, <3>2, <3>3 DEF Place
  <2>3. e \in Active /\ Alone(e)
      BY <2>1, <2>2 DEF InPlace
  <2>4. Place(e) \in 1 .. n
      BY <1>11, <2>3
  <2>5. n <= hi
    <3>1. page >= TotalPages(n, size)
        BY <1>1, <1>4, <1>15
    <3>2. QED  BY <1>2, <1>3, <1>4, <3>1, LastPage DEF hi
  <2>6. QED  BY <1>4, <1>6, <1>9, <2>2, <2>4, <2>5
<1>16. stage' \in {"paging", "done"}
    BY <1>1
<1>17. progress'.page \in Nat \ {0} /\ progress'.got \in Seq(Listed)
    BY <1>3, <1>9, <1>10
<1>18. QED
    BY <1>1, <1>2, <1>14, <1>15, <1>16, <1>17 DEF PageInv, PageStages, PageCourse

(* How often an entity is shown, counted and not.                          *)
LEMMA TimesShown ==
    ASSUME progress.got \in Seq(Listed), NEW e
    PROVE  (Times(e) = 0 => ~Shown(e)) /\ (Times(e) > 1 => Twice(e))
<1> DEFINE places == {i \in DOMAIN progress.got : progress.got[i].id = e}
<1>1. DOMAIN progress.got = 1 .. Len(progress.got) /\ Len(progress.got) \in Nat
    OBVIOUS
<1>2. IsFiniteSet(DOMAIN progress.got)
    BY <1>1, FS_Interval
<1>3. places \in SUBSET DOMAIN progress.got
    OBVIOUS
<1>4. IsFiniteSet(places)
    BY <1>2, <1>3, FS_Subset
<1>5. Times(e) = Cardinality(places) /\ Cardinality(places) \in Nat
    BY <1>4, FS_CardinalityType DEF Times
<1>6. Times(e) = 0 => ~Shown(e)
    BY <1>4, <1>5, FS_EmptySet DEF Shown
<1>7. ASSUME Times(e) > 1 PROVE Twice(e)
  <2> DEFINE k == Cardinality(places)
  <2>1. k \in Nat /\ k # 0 /\ k # 1
      BY <1>5, <1>7
  <2>2. PICK i \in places : TRUE
    <3> SUFFICES ASSUME places = {} PROVE FALSE
        OBVIOUS
    <3>1. k = Cardinality({})
        OBVIOUS
    <3>2. QED  BY <2>1, <3>1, FS_EmptySet
  <2>3. places # {i}
    <3> SUFFICES ASSUME places = {i} PROVE FALSE
        OBVIOUS
    <3>1. k = Cardinality({i})
        OBVIOUS
    <3>2. QED  BY <2>1, <3>1, FS_Singleton
  <2>4. PICK j \in places : j # i
      BY <2>2, <2>3
  <2>5. QED  BY <2>2, <2>4 DEF Twice
<1>8. QED  BY <1>6, <1>7

(* A client that asks for page after page, while builds and withdrawals    *)
(* change the rows between two pages in any order, misses an entity that   *)
(* kept its type and name and shared them with none all the time only if   *)
(* one listed before it ceased to be, and gets it twice only if one came   *)
(* to be listed before it: whatever the size of a page, out of range too,  *)
(* on both stores and in whatever order they list equal rows.              *)
THEOREM PagesShiftOnly == Spec => []PagesShiftByWrites
<1>1. Init => PageInv
    BY DEF Init, PageInv, PageStages, PageCourse
<1>2. RowsInv /\ RowsInv' /\ PageInv /\ [Next]_vars => PageInv'
  <2> SUFFICES ASSUME RowsInv, RowsInv', PageInv, [Next]_vars PROVE PageInv'
      OBVIOUS
  <2>1. CASE Upsert \/ Withdraw \/ DeleteGraph
    <3>1. Follow /\ Open /\ UNCHANGED readVars
        BY <2>1 DEF Upsert, Withdraw, DeleteGraph
    <3>2. CASE request.op = "pages"
        BY <3>1, <3>2, FollowPages
    <3>3. CASE request.op # "pages"
        BY <3>1, <3>3 DEF PageInv, PageStages, PageCourse, readVars
    <3>4. QED  BY <3>2, <3>3
  <2>2. CASE Build \/ AnswerBuild \/ FailBuild \/ CreateGraph \/ UNCHANGED vars
    <3>1. UNCHANGED <<row, request, stage, progress, steady, left, came>>
        BY <2>2 DEF Build, AnswerBuild, FailBuild, CreateGraph, vars, storeVars, readVars,
                    historyVars
    <3>2. UNCHANGED <<Active, Behind>> /\ \A e : Shown(e)' = Shown(e) /\ Twice(e)' = Twice(e)
        BY <3>1 DEF Active, Behind, Shown, Twice
    <3>3. \A e : Ahead(e)' = Ahead(e) /\ Alone(e)' = Alone(e)
        BY <3>1, <3>2 DEF Ahead, Alone, Precedes
    <3>4. \A e : InPlace(e)' = InPlace(e) /\ Place(e)' = Place(e)
        BY <3>1, <3>2, <3>3 DEF InPlace, Place
    <3>5. QED  BY <3>1, <3>2, <3>4 DEF PageInv, PageStages, PageCourse
  <2>3. CASE ListPage
      BY <2>3, ListPages
  <2>4. CASE NotFound
    <3>1. stage' = "failed" /\ UNCHANGED request
        BY <2>4 DEF NotFound
    <3>2. QED  BY <3>1 DEF PageInv, PageStages, PageCourse
  <2>5. CASE \/ PutSnapshot \/ ReadEntities \/ Propose \/ Check \/ GetSource \/ GetTarget
             \/ BeginWalks \/ NextWalk \/ Walk \/ EndWalks
    <3>1. request' = request /\ stage' # "paging"
        BY <2>5 DEF PutSnapshot, ReadEntities, Propose, Check, GetSource, GetTarget, BeginWalks,
                    NextWalk, Walk, EndWalks, readVars, PageInv, PageStages
    <3>2. request.op # "pages"
        BY <2>5 DEF PutSnapshot, ReadEntities, Propose, Check, GetSource, GetTarget, BeginWalks,
                    NextWalk, Walk, EndWalks, PageInv, PageStages
    <3>3. QED  BY <3>1, <3>2 DEF PageInv, PageStages, PageCourse
  <2>6. QED
      BY <2>1, <2>2, <2>3, <2>4, <2>5 DEF Next, Write, Read
<1>3. RowsInv /\ PageInv => PagesShiftByWrites
  <2> SUFFICES ASSUME RowsInv, PageInv, request.op = "pages", stage = "done", NEW e \in steady
               PROVE  (Times(e) = 0 => e \in left) /\ (Times(e) > 1 => e \in came)
      BY DEF PagesShiftByWrites
  <2>1. InPlace(e) /\ Place(e) <= Behind
      BY DEF PageInv, PageCourse
  <2>2. Place(e) \in Nat /\ Behind \in Nat
    <3>1. progress.page \in Nat \ {0}
        BY DEF PageInv, PageCourse
    <3>2. QED  BY <3>1, RowsAreFinite, PlaceType, BehindType DEF Behind
  <2>3. (Times(e) = 0 => ~Shown(e)) /\ (Times(e) > 1 => Twice(e))
      BY TimesShown DEF PageInv, PageCourse
  <2>4. QED  BY <2>1, <2>2, <2>3 DEF InPlace
<1>4. QED  BY <1>1, <1>2, <1>3, RowsInvariant, PTL DEF Spec

-----------------------------------------------------------------------------
(* Candidates.  A set of natural numbers has a least one.                  *)
LEMMA LeastNumber ==
    ASSUME NEW T \in SUBSET Nat, T # {}
    PROVE  \E n \in T : \A m \in T : n <= m
<1> DEFINE R == OpToRel(<, Nat)
<1>1. R = {pair \in Nat \X Nat : pair[1] < pair[2]}
    BY Zenon DEF OpToRel
<1>2. IsWellFoundedOn(R, Nat)
    BY Zenon, NatLessThanWellFounded
<1> HIDE DEF R
<1>3. PICK n \in T : \A m \in T : ~(<<m, n>> \in R)
    BY <1>2, WFMin
<1>4. ASSUME NEW m \in T PROVE n <= m
  <2>1. m < n => <<m, n>> \in R
      BY <1>1
  <2>2. ~(m < n)
      BY <1>3, <2>1
  <2>3. QED  BY <2>2
<1>5. QED  BY <1>4

LEMMA SubsetOfInterval ==
    ASSUME NEW n \in Nat, NEW S \in SUBSET (1 .. n)
    PROVE  IsFiniteSet(S) /\ Cardinality(S) \in Nat /\ Cardinality(S) <= n
<1> DEFINE interval == 1 .. n
<1>1. IsFiniteSet(interval) /\ Cardinality(interval) = n
    BY FS_Interval
<1>2. S \in SUBSET interval
    OBVIOUS
<1> HIDE DEF interval
<1>3. IsFiniteSet(S) /\ Cardinality(S) <= n
    BY <1>1, <1>2, FS_Subset
<1>4. QED  BY <1>3, FS_CardinalityType

(* A graph with entities has candidates: the first of its most frequent    *)
(* types is one, however few are asked for.                                *)
LEMMA SomeClass ==
    ASSUME NEW entities \in Seq(Listed), NEW maxClasses \in Int, TypesOf(entities) # {}
    PROVE  Classes(entities, maxClasses) # {}
<1> DEFINE n == Len(entities)
           types == TypesOf(entities)
           Count(type) == Cardinality({i \in DOMAIN entities : entities[i].type = type})
<1>1. n \in Nat /\ DOMAIN entities = 1 .. n /\ IsFiniteSet(1 .. n) /\ Cardinality(1 .. n) = n
  <2>1. n \in Nat /\ DOMAIN entities = 1 .. n
      OBVIOUS
  <2> HIDE DEF n
  <2>2. QED  BY <2>1, FS_Interval
<1>2. types \in SUBSET Nat
  <2>1. \A i \in DOMAIN entities : entities[i] \in Listed
      BY ElementType
  <2>2. QED  BY <2>1 DEF TypesOf, Listed
<1>3. ASSUME NEW t PROVE n - Count(t) \in Nat /\ Count(t) \in Nat
  <2> DEFINE places == {i \in DOMAIN entities : entities[i].type = t}
  <2>1. places \in SUBSET (1 .. n)
      BY <1>1
  <2>2. Cardinality(places) \in Nat /\ Cardinality(places) <= n
    <3> HIDE DEF places, n
    <3>1. QED  BY <1>1, <2>1, SubsetOfInterval
  <2> HIDE DEF n
  <2>3. QED  BY <1>1, <2>2
<1> HIDE DEF Count, n, types
<1> DEFINE gaps == {n - Count(t) : t \in types}
<1>4. PICK gap \in gaps : \A other \in gaps : gap <= other
  <2>1. gaps \in SUBSET Nat /\ gaps # {}
      BY <1>3 DEF types
  <2> HIDE DEF gaps
  <2>2. QED  BY <2>1, LeastNumber
<1> DEFINE top == {t \in types : n - Count(t) = gap}
<1>5. PICK t \in top : \A u \in top : t <= u
  <2>1. top \in SUBSET Nat /\ top # {}
      BY <1>2
  <2> HIDE DEF top
  <2>2. QED  BY <2>1, LeastNumber
<1>6. \A u \in types : ~Before(entities, u, t)
  <2> SUFFICES ASSUME NEW u \in types PROVE ~Before(entities, u, t)
      OBVIOUS
  <2>1. Count(u) \in Nat /\ Count(t) \in Nat /\ n \in Nat /\ u \in Nat /\ t \in Nat
      BY <1>1, <1>2, <1>3
  <2>2. n - Count(t) <= n - Count(u)
      BY <1>4
  <2>3. Count(u) = Count(t) => t <= u
      BY <1>5
  <2>4. Before(entities, u, t) <=> Count(u) > Count(t) \/ (Count(u) = Count(t) /\ u < t)
      BY DEF Before, Count
  <2>5. QED  BY <2>1, <2>2, <2>3, <2>4
<1>7. Clamp(maxClasses, 40, 200) > 0
    BY DEF Clamp
<1>8. t \in Classes(entities, maxClasses)
  <2>1. {u \in types : Before(entities, u, t)} = {}
      BY <1>6
  <2>2. Cardinality({u \in types : Before(entities, u, t)}) = 0
      BY <2>1, FS_EmptySet
  <2>3. 0 < Clamp(maxClasses, 40, 200)
      BY <1>7
  <2>4. t \in types
      BY <1>5
  <2>5. QED  BY <2>2, <2>3, <2>4 DEF Classes, types
<1>9. QED  BY <1>8

(* The schema made of the candidates of some entities and relations: what  *)
(* a check of these against it reports.                                    *)
Related == [id : Relation, type : Nat, source : Nat, target : Nat]

LEMMA OwnIssues ==
    ASSUME NEW entities \in Seq(Listed), NEW relations \in Seq(Related), NEW maxClasses \in Int,
           NEW schema, schema = SchemaOf(Candidates(entities, relations, maxClasses)),
           NEW classes, classes = Classes(entities, maxClasses)
    PROVE  /\ DOMAIN schema.entity = classes
           /\ \A issue \in Issues(schema, entities, relations) :
                 /\ issue[1] = "type_undeclared"
                 /\ \E i \in DOMAIN entities : entities[i].type \notin classes
           /\ \A i \in DOMAIN entities :
                 (classes # {} /\ entities[i].type \notin classes) =>
                     \E issue \in Issues(schema, entities, relations) :
                         issue[1] = "type_undeclared"
<1>1. /\ schema.entity = [t \in classes |-> NoProperty]
      /\ schema.relation = [t \in TypesOf(relations) |->
                              [sources |-> EndTypes(entities, relations, t, "source"),
                               targets |-> EndTypes(entities, relations, t, "target"),
                               single |-> FALSE]]
    BY DEF SchemaOf, Candidates
<1>2. ASSUME NEW i \in DOMAIN entities
      PROVE  EntityIssue(schema, entities[i]) =
                IF classes # {} /\ entities[i].type \notin classes THEN {"type_undeclared"} ELSE {}
  <2> DEFINE type == entities[i].type
  <2>1. DOMAIN schema.entity = classes
      BY <1>1
  <2>2. CASE type \in classes
    <3>1. ~schema.entity[type].required /\ ~schema.entity[type].typed
        BY <1>1, <2>2 DEF NoProperty
    <3>2. {code \in {"missing_required"} : schema.entity[type].required} = {}
        BY <3>1
    <3>3. {code \in {"data_type_violation"} : schema.entity[type].typed} = {}
        BY <3>1
    <3>4. QED  BY <2>1, <2>2, <3>2, <3>3 DEF EntityIssue
  <2>3. CASE type \notin classes
      BY <2>1, <2>3 DEF EntityIssue
  <2>4. QED  BY <2>2, <2>3
<1>3. ASSUME NEW j \in DOMAIN relations
      PROVE  /\ ~Undeclared(schema, relations[j])
             /\ ~EndIssue(schema.relation[relations[j].type].sources, entities,
                          relations[j].source)
             /\ ~EndIssue(schema.relation[relations[j].type].targets, entities,
                          relations[j].target)
             /\ ~schema.relation[relations[j].type].single
  <2>1. relations[j].type \in TypesOf(relations)
      BY DEF TypesOf
  <2>2. ~Undeclared(schema, relations[j])
      BY <1>1, <2>1 DEF Undeclared
  <2>3. /\ schema.relation[relations[j].type].sources =
               EndTypes(entities, relations, relations[j].type, "source")
        /\ schema.relation[relations[j].type].targets =
               EndTypes(entities, relations, relations[j].type, "target")
        /\ schema.relation[relations[j].type].single = FALSE
      BY <1>1, <2>1
  <2>4. \A i \in DOMAIN entities : entities[i].id = relations[j].source =>
            entities[i].type \in EndTypes(entities, relations, relations[j].type, "source")
      BY DEF EndTypes
  <2>5. \A i \in DOMAIN entities : entities[i].id = relations[j].target =>
            entities[i].type \in EndTypes(entities, relations, relations[j].type, "target")
      BY DEF EndTypes
  <2>6. QED  BY <2>2, <2>3, <2>4, <2>5 DEF EndIssue
<1>4. Issues(schema, entities, relations) =
          UNION {{<<code, i>> : code \in EntityIssue(schema, entities[i])} :
                     i \in DOMAIN entities}
    BY <1>3 DEF Issues
<1>5. ASSUME NEW issue \in Issues(schema, entities, relations)
      PROVE  /\ issue[1] = "type_undeclared"
             /\ \E i \in DOMAIN entities : entities[i].type \notin classes
  <2>1. PICK i \in DOMAIN entities : \E code \in EntityIssue(schema, entities[i]) :
                                         issue = <<code, i>>
      BY <1>4
  <2>2. PICK code \in EntityIssue(schema, entities[i]) : issue = <<code, i>>
      BY <2>1
  <2>3. code = "type_undeclared" /\ entities[i].type \notin classes
      BY <1>2
  <2>4. QED  BY <2>2, <2>3
<1>6. ASSUME NEW i \in DOMAIN entities, classes # {}, entities[i].type \notin classes
      PROVE  \E issue \in Issues(schema, entities, relations) : issue[1] = "type_undeclared"
  <2>1. "type_undeclared" \in EntityIssue(schema, entities[i])
      BY <1>2, <1>6
  <2>2. <<"type_undeclared", i>> \in Issues(schema, entities, relations)
      BY <1>4, <2>1
  <2>3. QED  BY <2>2
<1>7. QED  BY <1>1, <1>5, <1>6

(* It fits them, unless the list of classes was cut.                       *)
LEMMA OwnSchema ==
    ASSUME NEW entities \in Seq(Listed), NEW relations \in Seq(Related), NEW maxClasses \in Int,
           NEW candidates, candidates = Candidates(entities, relations, maxClasses),
           NEW schema, schema = SchemaOf(candidates),
           NEW maxIssues,
           NEW covered, covered = Coverage(DOMAIN schema.entity, entities)
    PROVE  /\ Report(schema, entities, relations, maxIssues).valid <=> ~candidates.truncated
           /\ covered.hit = covered.total <=> ~candidates.truncated
<1> DEFINE classes == Classes(entities, maxClasses)
           types == TypesOf(entities)
           issues == Issues(schema, entities, relations)
           n == Len(entities)
           hits == {i \in 1 .. n : entities[i].type \in classes}
<1>1. candidates.truncated <=> classes # types
    BY DEF Candidates
<1>2. classes \in SUBSET types
    BY DEF Classes
<1>3. n \in Nat /\ DOMAIN entities = 1 .. n
    OBVIOUS
<1>4. /\ DOMAIN schema.entity = classes
      /\ \A issue \in issues : /\ issue[1] = "type_undeclared"
                               /\ \E i \in DOMAIN entities : entities[i].type \notin classes
      /\ \A i \in DOMAIN entities :
            (classes # {} /\ entities[i].type \notin classes) =>
                \E issue \in issues : issue[1] = "type_undeclared"
  <2> HIDE DEF issues, classes
  <2>1. schema = SchemaOf(Candidates(entities, relations, maxClasses))
      OBVIOUS
  <2>2. QED  BY <2>1, OwnIssues DEF issues, classes
<1>5. types # {} => classes # {}
    BY SomeClass
<1>6. types = {entities[i].type : i \in 1 .. n}
    BY <1>3 DEF TypesOf
<1>7. /\ covered.hit = Cardinality(hits) /\ covered.total = n
  <2> DEFINE counted == {i \in DOMAIN entities : entities[i].type \in DOMAIN schema.entity}
  <2>1. covered.hit = Cardinality(counted) /\ covered.total = n
      BY DEF Coverage
  <2>2. counted = hits
      BY <1>3, <1>4
  <2> HIDE DEF counted, hits
  <2>3. QED  BY <2>1, <2>2
<1>8. hits \in SUBSET (1 .. n) /\ (Cardinality(hits) = n <=> hits = 1 .. n)
  <2> DEFINE interval == 1 .. n
  <2>1. hits \in SUBSET interval
      OBVIOUS
  <2> HIDE DEF n
  <2>2. IsFiniteSet(interval) /\ Cardinality(interval) = n
      BY <1>3, FS_Interval
  <2> HIDE DEF interval, hits
  <2>3. Cardinality(interval) = Cardinality(hits) => interval = hits
      BY <2>1, <2>2, FS_Subset
  <2>4. QED  BY <2>1, <2>2, <2>3 DEF interval
<1>9. Report(schema, entities, relations, maxIssues).valid
          <=> \A issue \in issues : issue[1] = "data_type_violation"
    BY DEF Report
<1> HIDE DEF issues, hits, classes, types, n
<1>10. CASE classes = types
  <2>1. \A i \in 1 .. n : entities[i].type \in classes
      BY <1>6, <1>10
  <2>2. issues = {} /\ hits = 1 .. n
      BY <1>3, <1>4, <2>1 DEF hits
  <2>3. QED  BY <1>1, <1>7, <1>8, <1>9, <1>10, <2>2
<1>11. CASE classes # types
  <2>1. PICK i \in 1 .. n : entities[i].type \notin classes
      BY <1>2, <1>6, <1>11
  <2>2. classes # {}
      BY <1>5, <1>11
  <2>3. \E issue \in issues : issue[1] = "type_undeclared"
      BY <1>3, <1>4, <2>1, <2>2
  <2>4. hits # 1 .. n
      BY <2>1 DEF hits
  <2>5. QED  BY <1>1, <1>7, <1>8, <1>9, <1>11, <2>3, <2>4
<1>12. QED  BY <1>10, <1>11

LEMMA RelationListIs ==
    ASSUME RowsInv, NEW list \in RelationLists
    PROVE  /\ list \in Seq(Related)
           /\ \A j \in DOMAIN list :
                 /\ list[j].id \in Linked
                 /\ list[j] = [id |-> list[j].id, type |-> edge[list[j].id].type,
                               source |-> edge[list[j].id].source,
                               target |-> edge[list[j].id].target]
           /\ \A r \in Linked : \E j \in DOMAIN list : list[j].id = r
<1> DEFINE n == Cardinality(Linked)
           ahead == {pair \in Linked \X Linked : PrecedesEdge(pair[1], pair[2])}
           As(r) == [id |-> r, type |-> edge[r].type,
                     source |-> edge[r].source, target |-> edge[r].target]
<1>1. PICK order \in Listings(Linked, ahead) : list = [i \in DOMAIN order |-> As(order[i])]
    BY DEF RelationLists
<1> HIDE DEF ahead
<1>2. /\ n \in Nat /\ order \in [1 .. n -> Linked]
      /\ \A r \in Linked : \E i \in 1 .. n : order[i] = r
    BY RowsAreFinite, ListingIs
<1> HIDE DEF n
<1>3. list = [i \in 1 .. n |-> As(order[i])]
    BY <1>1, <1>2
<1>4. ASSUME NEW r \in Linked PROVE As(r) \in Related
  <2>1. r \in Relation /\ edge[r] \in EdgeRow
      BY RowsAreFinite DEF RowsInv
  <2>2. QED  BY <2>1 DEF EdgeRow, Related
<1>5. \A r : As(r).id = r
    OBVIOUS
<1> HIDE DEF As
<1>6. list \in [1 .. n -> Related]
    BY <1>2, <1>3, <1>4
<1>7. list \in Seq(Related) /\ DOMAIN list = 1 .. n
    BY <1>2, <1>6
<1>8. \A i \in 1 .. n : list[i].id = order[i] /\ list[i] = As(order[i])
    BY <1>3, <1>5
<1>9. \A j \in DOMAIN list : list[j].id \in Linked /\ list[j] = As(list[j].id)
    BY <1>2, <1>7, <1>8
<1>10. \A r \in Linked : \E j \in DOMAIN list : list[j].id = r
    BY <1>2, <1>7, <1>8
<1>11. QED  BY <1>7, <1>9, <1>10 DEF As

(* The orders in which a store may list the rows.                          *)
EntityOrders == Listings(Active, {pair \in Active \X Active : Precedes(pair[1], pair[2])})
RelationOrders == Listings(Linked, {pair \in Linked \X Linked : PrecedesEdge(pair[1], pair[2])})

LEMMA SameLists ==
    ASSUME UNCHANGED <<row, edge>>
    PROVE  UNCHANGED <<EntityLists, RelationLists>>
<1>1. row' = row /\ edge' = edge
    OBVIOUS
<1>2. Active' = Active /\ Linked' = Linked
    BY <1>1 DEF Active, Linked
<1>3. {pair \in Active \X Active : Precedes(pair[1], pair[2])}'
          = {pair \in Active \X Active : Precedes(pair[1], pair[2])}
    BY <1>1, <1>2 DEF Precedes
<1>4. {pair \in Linked \X Linked : PrecedesEdge(pair[1], pair[2])}'
          = {pair \in Linked \X Linked : PrecedesEdge(pair[1], pair[2])}
    BY <1>1, <1>2 DEF PrecedesEdge
<1>5. EntityOrders' = EntityOrders /\ RelationOrders' = RelationOrders
    BY <1>2, <1>3, <1>4 DEF EntityOrders, RelationOrders
<1>6. EntityLists = {[i \in DOMAIN order |-> [id |-> order[i], type |-> row[order[i]].type,
                                              value |-> row[order[i]].value]] :
                        order \in EntityOrders}
    BY DEF EntityLists, EntityOrders
<1>7. EntityLists' = {[i \in DOMAIN order |-> [id |-> order[i], type |-> row'[order[i]].type,
                                               value |-> row'[order[i]].value]] :
                         order \in EntityOrders'}
    BY DEF EntityLists, EntityOrders
<1>8. EntityLists' = EntityLists
    BY <1>1, <1>5, <1>6, <1>7
<1>9. RelationLists = {[i \in DOMAIN order |->
                           [id |-> order[i], type |-> edge[order[i]].type,
                            source |-> edge[order[i]].source, target |-> edge[order[i]].target]] :
                          order \in RelationOrders}
    BY DEF RelationLists, RelationOrders
<1>10. RelationLists' = {[i \in DOMAIN order |->
                             [id |-> order[i], type |-> edge'[order[i]].type,
                              source |-> edge'[order[i]].source,
                              target |-> edge'[order[i]].target]] :
                            order \in RelationOrders'}
    BY DEF RelationLists, RelationOrders
<1>11. RelationLists' = RelationLists
    BY <1>1, <1>5, <1>9, <1>10
<1>12. QED  BY <1>8, <1>11

(* Two lists of the same rows have the same types, and of each as many.    *)
LEMMA SameCounts ==
    ASSUME RowsInv, NEW list \in EntityLists, NEW t
    PROVE  Cardinality({i \in DOMAIN list : list[i].type = t})
               = Cardinality({e \in Active : row[e].type = t})
<1> DEFINE n == Cardinality(Active)
           places == {i \in DOMAIN list : list[i].type = t}
           those == {e \in Active : row[e].type = t}
           f == [i \in places |-> list[i].id]
<1>1. /\ n \in Nat /\ DOMAIN list = 1 .. n
      /\ \A k \in 1 .. n : list[k].id \in Active /\ list[k] = ListedAs(list[k].id)
      /\ \A j, k \in 1 .. n : list[j].id = list[k].id => j = k
      /\ \A e \in Active : \E k \in 1 .. n : list[k].id = e
    BY RowsAreFinite, EntityListIs
<1>2. \A e : ListedAs(e).type = row[e].type
    BY DEF ListedAs
<1> HIDE DEF n
<1>3. \A k \in 1 .. n : list[k].type = row[list[k].id].type
    BY <1>1, <1>2
<1>4. f \in Bijection(places, those)
  <2>1. \A i \in places : list[i].id \in those
      BY <1>1, <1>3
  <2>2. \A e \in those : \E i \in places : list[i].id = e
      BY <1>1, <1>3
  <2>3. \A i, j \in places : list[i].id = list[j].id => i = j
      BY <1>1
  <2> HIDE DEF places, those
  <2>4. f \in [places -> those]
      BY <2>1
  <2>5. QED  BY <2>2, <2>3, <2>4 DEF Bijection, Injection, Surjection, IsInjective
<1>5. IsFiniteSet(places)
  <2>1. places \in SUBSET (1 .. n) /\ IsFiniteSet(1 .. n)
      BY <1>1, FS_Interval
  <2>2. QED  BY <2>1, FS_Subset
<1> HIDE DEF places, those, f
<1>6. Cardinality(places) = Cardinality(those)
    BY <1>4, <1>5, FS_Bijection DEF ExistsBijection
<1>7. QED  BY <1>6 DEF places, those

(* What is proposed depends on the rows and not on the order of the lists. *)
EndsOf(t, end) == {d \in Active : \E r \in Linked : edge[r].type = t /\ edge[r][end] = d}

LEMMA SameTypes ==
    ASSUME RowsInv, NEW entities1 \in EntityLists, NEW entities2 \in EntityLists,
           NEW relations1 \in RelationLists, NEW relations2 \in RelationLists
    PROVE  /\ TypesOf(entities1) = TypesOf(entities2)
           /\ TypesOf(relations1) = TypesOf(relations2)
           /\ \A t : /\ EndTypes(entities1, relations1, t, "source")
                           = EndTypes(entities2, relations2, t, "source")
                     /\ EndTypes(entities1, relations1, t, "target")
                           = EndTypes(entities2, relations2, t, "target")
<1>1. ASSUME NEW list \in EntityLists
      PROVE  /\ \A i \in DOMAIN list : /\ list[i].id \in Active
                                       /\ list[i].type = row[list[i].id].type
             /\ \A e \in Active : \E i \in DOMAIN list : /\ list[i].id = e
                                                         /\ list[i].type = row[e].type
  <2>1. \A e : ListedAs(e).type = row[e].type
      BY DEF ListedAs
  <2>2. /\ DOMAIN list = 1 .. Cardinality(Active)
        /\ \A k \in 1 .. Cardinality(Active) :
              list[k].id \in Active /\ list[k] = ListedAs(list[k].id)
        /\ \A e \in Active : \E k \in 1 .. Cardinality(Active) : list[k].id = e
      BY EntityListIs, RowsAreFinite
  <2>3. QED  BY <2>1, <2>2
<1>2. ASSUME NEW list \in RelationLists
      PROVE  /\ \A j \in DOMAIN list :
                   /\ list[j].id \in Linked /\ list[j].type = edge[list[j].id].type
                   /\ list[j]["source"] = edge[list[j].id]["source"]
                   /\ list[j]["target"] = edge[list[j].id]["target"]
             /\ \A r \in Linked : \E j \in DOMAIN list : list[j].id = r
  <2>1. /\ \A j \in DOMAIN list :
              /\ list[j].id \in Linked
              /\ list[j] = [id |-> list[j].id, type |-> edge[list[j].id].type,
                            source |-> edge[list[j].id].source,
                            target |-> edge[list[j].id].target]
        /\ \A r \in Linked : \E j \in DOMAIN list : list[j].id = r
      BY RelationListIs
  <2>2. QED  BY <2>1
<1>3. TypesOf(entities1) = TypesOf(entities2)
    BY <1>1 DEF TypesOf
<1>4. TypesOf(relations1) = TypesOf(relations2)
    BY <1>2 DEF TypesOf
<1>5. ASSUME NEW entities \in EntityLists, NEW relations \in RelationLists,
             NEW t, NEW end \in {"source", "target"}
      PROVE  EndTypes(entities, relations, t, end) = {row[d].type : d \in EndsOf(t, end)}
  <2>1. \A j \in DOMAIN relations : relations[j][end] = edge[relations[j].id][end]
      BY <1>2, <1>5
  <2>2. \A d : (\E j \in DOMAIN relations : relations[j].type = t /\ relations[j][end] = d)
                  <=> \E r \in Linked : edge[r].type = t /\ edge[r][end] = d
      BY <1>2, <2>1
  <2> DEFINE places == {j \in DOMAIN entities : \E k \in DOMAIN relations :
                           relations[k].type = t /\ relations[k][end] = entities[j].id}
  <2>3. \A i \in places : /\ entities[i].id \in EndsOf(t, end)
                          /\ entities[i].type = row[entities[i].id].type
      BY <1>1, <2>2 DEF EndsOf
  <2>4. \A d \in EndsOf(t, end) : \E i \in places : entities[i].type = row[d].type
    <3> SUFFICES ASSUME NEW d \in EndsOf(t, end)
                 PROVE  \E i \in places : entities[i].type = row[d].type
        OBVIOUS
    <3>1. d \in Active /\ \E r \in Linked : edge[r].type = t /\ edge[r][end] = d
        BY DEF EndsOf
    <3>2. PICK i \in DOMAIN entities : entities[i].id = d /\ entities[i].type = row[d].type
        BY <1>1, <3>1
    <3>3. \E j \in DOMAIN relations : relations[j].type = t /\ relations[j][end] = d
        BY <2>2, <3>1
    <3>4. QED  BY <3>2, <3>3
  <2>5. EndTypes(entities, relations, t, end) = {entities[i].type : i \in places}
      BY Zenon DEF EndTypes
  <2> HIDE DEF places
  <2>6. QED  BY <2>3, <2>4, <2>5
<1>6. ASSUME NEW t
      PROVE  /\ EndTypes(entities1, relations1, t, "source")
                   = EndTypes(entities2, relations2, t, "source")
             /\ EndTypes(entities1, relations1, t, "target")
                   = EndTypes(entities2, relations2, t, "target")
  <2>1. ASSUME NEW end \in {"source", "target"}
        PROVE  EndTypes(entities1, relations1, t, end) = EndTypes(entities2, relations2, t, end)
    <3>1. EndTypes(entities1, relations1, t, end) = {row[d].type : d \in EndsOf(t, end)}
        BY <1>5
    <3>2. EndTypes(entities2, relations2, t, end) = {row[d].type : d \in EndsOf(t, end)}
        BY <1>5
    <3>3. QED  BY <3>1, <3>2
  <2>2. "source" \in {"source", "target"} /\ "target" \in {"source", "target"}
      OBVIOUS
  <2>3. QED  BY <2>1, <2>2
<1>7. QED  BY <1>3, <1>4, <1>6

LEMMA SameCandidates ==
    ASSUME RowsInv, NEW entities1 \in EntityLists, NEW entities2 \in EntityLists,
           NEW relations1 \in RelationLists, NEW relations2 \in RelationLists, NEW maxClasses
    PROVE  Candidates(entities1, relations1, maxClasses)
               = Candidates(entities2, relations2, maxClasses)
<1>1. \A t, u : Before(entities1, t, u) <=> Before(entities2, t, u)
  <2> SUFFICES ASSUME NEW t, NEW u PROVE Before(entities1, t, u) <=> Before(entities2, t, u)
      OBVIOUS
  <2> DEFINE Count1(type) == Cardinality({i \in DOMAIN entities1 : entities1[i].type = type})
             Count2(type) == Cardinality({i \in DOMAIN entities2 : entities2[i].type = type})
  <2>1. Count1(t) = Count2(t) /\ Count1(u) = Count2(u)
      BY SameCounts
  <2>2. /\ Before(entities1, t, u)
              <=> (Count1(t) > Count1(u) \/ (Count1(t) = Count1(u) /\ t < u))
        /\ Before(entities2, t, u)
              <=> (Count2(t) > Count2(u) \/ (Count2(t) = Count2(u) /\ t < u))
      BY DEF Before
  <2> HIDE DEF Count1, Count2
  <2>3. QED  BY <2>1, <2>2
<1>2. TypesOf(entities1) = TypesOf(entities2) /\ TypesOf(relations1) = TypesOf(relations2)
    BY SameTypes
<1>3. Classes(entities1, maxClasses) = Classes(entities2, maxClasses)
  <2>1. \A t : {u \in TypesOf(entities1) : Before(entities1, u, t)}
                   = {u \in TypesOf(entities2) : Before(entities2, u, t)}
      BY <1>1, <1>2
  <2>2. QED  BY <1>2, <2>1, Zenon DEF Classes
<1>4. \A t : /\ EndTypes(entities1, relations1, t, "source")
                   = EndTypes(entities2, relations2, t, "source")
             /\ EndTypes(entities1, relations1, t, "target")
                   = EndTypes(entities2, relations2, t, "target")
    BY SameTypes
<1>5. QED  BY <1>2, <1>3, <1>4 DEF Candidates

(* The course of a proposal and of the check that follows: as long as      *)
(* nothing was written, what was read is what the graph holds.             *)
ProposalStands ==
    \E entities \in EntityLists, relations \in RelationLists :
        LET candidates == Candidates(entities, relations, request.maxClasses)
        IN  /\ progress.schema = SchemaOf(candidates)
            /\ result.truncated <=> candidates.truncated

CandidateStages ==
    /\ request.op = "candidates" =>
          stage \in {"asked", "proposing", "proposed", "checking", "done", "failed"}
    /\ stage \in {"proposing", "proposed"} => request.op = "candidates"

CandidateCourse ==
    (request.op = "candidates" /\ ~changed) =>
        /\ stage \in {"proposing", "checking"} => progress.entities \in EntityLists
        /\ stage \in {"proposed", "checking"} => ProposalStands
        /\ stage = "done" => /\ result.report.valid <=> ~result.truncated
                             /\ result.covered.hit = result.covered.total <=> ~result.truncated

CandidateInv == CandidateStages /\ CandidateCourse

LEMMA WriteCandidates ==
    ASSUME CandidateInv, Write
    PROVE  CandidateInv'
<1>1. UNCHANGED readVars /\ Open
    BY DEF Write, Build, Upsert, AnswerBuild, FailBuild, Withdraw, DeleteGraph, CreateGraph,
           PutSnapshot
<1>2. UNCHANGED <<request, stage, progress, result>>
    BY <1>1 DEF readVars
<1>3. CandidateStages'
    BY <1>2 DEF CandidateInv, CandidateStages
<1>4. CASE Upsert \/ Withdraw \/ DeleteGraph
  <2>1. changed' = (stage \in {"proposing", "proposed", "checking"})
      BY <1>4 DEF Upsert, Withdraw, DeleteGraph, Follow
  <2>2. QED  BY <1>1, <1>2, <1>3, <2>1 DEF CandidateInv, CandidateCourse, Open
<1>5. CASE Build \/ AnswerBuild \/ FailBuild \/ CreateGraph \/ PutSnapshot
  <2>1. UNCHANGED <<row, edge, changed>>
      BY <1>5 DEF Build, AnswerBuild, FailBuild, CreateGraph, PutSnapshot, storeVars, historyVars
  <2>2. UNCHANGED <<EntityLists, RelationLists>>
      BY <2>1, SameLists
  <2>3. ProposalStands => ProposalStands'
      BY <1>2, <2>2 DEF ProposalStands
  <2>4. QED
      BY <1>2, <1>3, <2>1, <2>2, <2>3 DEF CandidateInv, CandidateCourse
<1>6. QED  BY <1>4, <1>5 DEF Write

LEMMA ReadCandidates ==
    ASSUME RowsInv, CandidateInv, Read
    PROVE  CandidateInv'
<1>1. UNCHANGED <<request, row, edge, changed>>
    BY DEF Read, NotFound, ListPage, ReadEntities, Propose, Check, GetSource, GetTarget,
           BeginWalks, NextWalk, Walk, EndWalks, storeVars, historyVars
<1>2. UNCHANGED <<EntityLists, RelationLists>>
    BY <1>1, SameLists
<1>3. CASE ReadEntities
  <2>1. PICK list \in EntityLists :
            progress' = [entities |-> list, relations |-> <<>>,
                         schema |-> IF stage = "proposed" THEN progress.schema ELSE <<>>]
      BY <1>3 DEF ReadEntities
  <2>2. /\ progress'.entities \in EntityLists
        /\ stage = "proposed" => progress'.schema = progress.schema
      BY <2>1
  <2>3. /\ request.op \in {"check", "candidates"} /\ stage \in {"asked", "proposed"}
        /\ stage' = IF stage = "asked" /\ request.op = "candidates"
                    THEN "proposing" ELSE "checking"
        /\ UNCHANGED result
      BY <1>3 DEF ReadEntities
  <2>4. CandidateStages'
      BY <1>1, <2>3 DEF CandidateStages
  <2>5. stage = "proposed" /\ ProposalStands => ProposalStands'
      BY <1>1, <1>2, <2>2, <2>3 DEF ProposalStands
  <2>6. CandidateCourse'
      BY <1>1, <1>2, <2>2, <2>3, <2>5 DEF CandidateInv, CandidateCourse
  <2>7. QED  BY <2>4, <2>6 DEF CandidateInv
<1>4. CASE Propose
  <2>1. /\ stage = "proposing" /\ stage' = "proposed" /\ request.op = "candidates"
      BY <1>4 DEF Propose, CandidateInv, CandidateStages
  <2>2. CandidateStages'
      BY <1>1, <2>1 DEF CandidateStages
  <2>3. ASSUME ~changed PROVE ProposalStands'
    <3>1. progress.entities \in EntityLists
        BY <2>1, <2>3 DEF CandidateInv, CandidateCourse
    <3>2. PICK list \in RelationLists :
             LET candidates == Candidates(progress.entities, list, request.maxClasses)
             IN  /\ progress' = [entities |-> <<>>, relations |-> <<>>,
                                 schema |-> SchemaOf(candidates)]
                 /\ result' = [truncated |-> candidates.truncated]
        BY <1>4 DEF Propose
    <3> DEFINE candidates == Candidates(progress.entities, list, request.maxClasses)
    <3>3. progress'.schema = SchemaOf(candidates) /\ result'.truncated = candidates.truncated
        BY <3>2
    <3>4. candidates = Candidates(progress.entities, list, request'.maxClasses)
        BY <1>1
    <3> HIDE DEF candidates
    <3>5. QED  BY <1>2, <3>1, <3>3, <3>4 DEF ProposalStands
  <2>4. QED  BY <1>1, <2>1, <2>2, <2>3 DEF CandidateInv, CandidateCourse
<1>5. CASE Check
  <2>1. stage = "checking" /\ stage' = "done"
      BY <1>5 DEF Check
  <2>2. CandidateStages'
      BY <1>1, <2>1 DEF CandidateStages
  <2>3. ASSUME request.op = "candidates", ~changed
        PROVE  /\ result'.report.valid <=> ~result'.truncated
               /\ result'.covered.hit = result'.covered.total <=> ~result'.truncated
    <3>1. progress.entities \in EntityLists /\ ProposalStands
        BY <2>1, <2>3 DEF CandidateInv, CandidateCourse
    <3>2. PICK list \in RelationLists :
             result' = [report |-> Report(progress.schema, progress.entities, list, 0),
                        covered |-> Coverage(DOMAIN progress.schema.entity, progress.entities),
                        truncated |-> request.op = "candidates" /\ result.truncated]
        BY <1>5, <2>3 DEF Check
    <3> DEFINE report == Report(progress.schema, progress.entities, list, 0)
               covered == Coverage(DOMAIN progress.schema.entity, progress.entities)
               candidates == Candidates(progress.entities, list, request.maxClasses)
    <3>3. progress.schema = SchemaOf(candidates) /\ (result.truncated <=> candidates.truncated)
      <4>1. PICK entities \in EntityLists, relations \in RelationLists :
               /\ progress.schema = SchemaOf(Candidates(entities, relations, request.maxClasses))
               /\ result.truncated
                     <=> Candidates(entities, relations, request.maxClasses).truncated
          BY <3>1 DEF ProposalStands
      <4>2. candidates = Candidates(entities, relations, request.maxClasses)
          BY <3>1, SameCandidates
      <4> HIDE DEF candidates
      <4>3. QED  BY <4>1, <4>2
    <3>4. /\ progress.entities \in Seq(Listed) /\ list \in Seq(Related)
          /\ request.maxClasses \in Int
        BY <2>3, <3>1, EntityListIs, RelationListIs, ReadsAssumption DEF RowsInv
    <3>5. /\ report.valid <=> ~candidates.truncated
          /\ covered.hit = covered.total <=> ~candidates.truncated
      <4> DEFINE entities == progress.entities
                 maxClasses == request.maxClasses
                 schema == progress.schema
                 hit == Coverage(DOMAIN schema.entity, entities)
      <4>1. candidates = Candidates(entities, list, maxClasses) /\ schema = SchemaOf(candidates)
          BY <3>3
      <4>2. /\ entities \in Seq(Listed) /\ list \in Seq(Related) /\ maxClasses \in Int
            /\ hit = Coverage(DOMAIN schema.entity, entities)
          BY <3>4
      <4> HIDE DEF entities, maxClasses, schema, hit, candidates
      <4>3. /\ Report(schema, entities, list, 0).valid <=> ~candidates.truncated
            /\ hit.hit = hit.total <=> ~candidates.truncated
          BY <4>1, <4>2, OwnSchema
      <4>4. QED  BY <4>3 DEF entities, schema, hit
    <3> HIDE DEF report, covered, candidates
    <3>6. /\ result'.report = report /\ result'.covered = covered
          /\ result'.truncated <=> result.truncated
        BY <2>3, <3>2 DEF report, covered
    <3>7. QED  BY <3>3, <3>5, <3>6
  <2>4. QED  BY <1>1, <2>1, <2>2, <2>3 DEF CandidateInv, CandidateCourse
<1>6. CASE NotFound
  <2>1. stage' = "failed"
      BY <1>6 DEF NotFound
  <2>2. QED  BY <1>1, <2>1 DEF CandidateInv, CandidateStages, CandidateCourse
<1>7. CASE \/ ListPage \/ GetSource \/ GetTarget \/ BeginWalks \/ NextWalk \/ Walk \/ EndWalks
  <2>1. request.op # "candidates"
      BY <1>7 DEF ListPage, GetSource, GetTarget, BeginWalks, NextWalk, Walk, EndWalks,
                  CandidateInv, CandidateStages
  <2>2. stage' \notin {"proposing", "proposed"}
      BY <1>7 DEF ListPage, GetSource, GetTarget, BeginWalks, NextWalk, Walk, EndWalks
  <2>3. QED  BY <1>1, <2>1, <2>2 DEF CandidateInv, CandidateStages, CandidateCourse
<1>8. QED  BY <1>3, <1>4, <1>5, <1>6, <1>7 DEF Read

(* A check of a graph against the schema of its own candidates is valid    *)
(* and finds every entity covered exactly if the list of classes was not   *)
(* cut, provided that nothing was written from the first read to the last: *)
(* for every graph and every number of classes asked for.                  *)
THEOREM CandidatesFitTheirGraph == Spec => []CandidatesFit
<1>1. Init => CandidateInv
    BY DEF Init, CandidateInv, CandidateStages, CandidateCourse
<1>2. RowsInv /\ CandidateInv /\ [Next]_vars => CandidateInv'
  <2> SUFFICES ASSUME RowsInv, CandidateInv, [Next]_vars PROVE CandidateInv'
      OBVIOUS
  <2>1. CASE Next
      BY <2>1, WriteCandidates, ReadCandidates DEF Next
  <2>2. CASE UNCHANGED vars
    <3>1. UNCHANGED <<row, edge, request, stage, progress, result, changed>>
        BY <2>2 DEF vars, storeVars, readVars, historyVars
    <3>2. UNCHANGED <<EntityLists, RelationLists>>
        BY <3>1, SameLists
    <3>3. ProposalStands => ProposalStands'
        BY <3>1, <3>2 DEF ProposalStands
    <3>4. QED  BY <3>1, <3>2, <3>3 DEF CandidateInv, CandidateStages, CandidateCourse
  <2>3. QED  BY <2>1, <2>2
<1>3. CandidateInv => CandidatesFit
    BY DEF CandidateInv, CandidateCourse, CandidatesFit
<1>4. QED  BY <1>1, <1>2, <1>3, RowsInvariant, PTL DEF Spec

-----------------------------------------------------------------------------
(* The check of a build and the check of the graph.  An issue is about the *)
(* same as a record that it is found for, whatever the place of that.      *)
Triple(r) == <<r.type, r.source, r.target>>

EntityCodes == {"type_undeclared", "missing_required", "data_type_violation"}

EntityFound(schema, entities, code, on) ==
    \E i \in DOMAIN entities : /\ on = <<entities[i].id>>
                               /\ code \in EntityIssue(schema, entities[i])

UndeclaredFound(schema, relations, on) ==
    \E j \in DOMAIN relations : on = Triple(relations[j]) /\ Undeclared(schema, relations[j])

SourceFound(schema, entities, relations, on) ==
    \E j \in DOMAIN relations :
        /\ on = Triple(relations[j]) /\ Declared(schema, relations[j])
        /\ EndIssue(schema.relation[relations[j].type].sources, entities, relations[j].source)

TargetFound(schema, entities, relations, on) ==
    \E j \in DOMAIN relations :
        /\ on = Triple(relations[j]) /\ Declared(schema, relations[j])
        /\ EndIssue(schema.relation[relations[j].type].targets, entities, relations[j].target)

TooManyFound(schema, relations, on) ==
    \E j \in DOMAIN relations :
        /\ on = <<relations[j].type, relations[j].source>>
        /\ Declared(schema, relations[j]) /\ schema.relation[relations[j].type].single
        /\ \E k \in 1 .. (j - 1) : SameSource(relations[k], relations[j])

IssueFound(schema, entities, relations, code, on) ==
    \/ code \in EntityCodes /\ EntityFound(schema, entities, code, on)
    \/ code = "relation_undeclared" /\ UndeclaredFound(schema, relations, on)
    \/ code = "source_violation" /\ SourceFound(schema, entities, relations, on)
    \/ code = "target_violation" /\ TargetFound(schema, entities, relations, on)
    \/ code = "cardinality_violation" /\ TooManyFound(schema, relations, on)

LEMMA IssuesAre ==
    ASSUME NEW schema, NEW entities, NEW relations, NEW issue
    PROVE  issue \in Issues(schema, entities, relations) <=>
              \/ \E i \in DOMAIN entities : \E code \in EntityIssue(schema, entities[i]) :
                     issue = <<code, i>>
              \/ \E j \in DOMAIN relations : /\ Undeclared(schema, relations[j])
                                             /\ issue = <<"relation_undeclared", j>>
              \/ \E j \in DOMAIN relations :
                     /\ Declared(schema, relations[j])
                     /\ EndIssue(schema.relation[relations[j].type].sources, entities,
                                 relations[j].source)
                     /\ issue = <<"source_violation", j>>
              \/ \E j \in DOMAIN relations :
                     /\ Declared(schema, relations[j])
                     /\ EndIssue(schema.relation[relations[j].type].targets, entities,
                                 relations[j].target)
                     /\ issue = <<"target_violation", j>>
              \/ \E j \in DOMAIN relations :
                     /\ Declared(schema, relations[j])
                     /\ schema.relation[relations[j].type].single
                     /\ \E k \in 1 .. (j - 1) : SameSource(relations[k], relations[j])
                     /\ issue = <<"cardinality_violation", j>>
<1> DEFINE ofEntities == UNION {{<<code, i>> : code \in EntityIssue(schema, entities[i])} :
                                    i \in DOMAIN entities}
           undeclared == {j \in DOMAIN relations : Undeclared(schema, relations[j])}
           sources == {j \in DOMAIN relations :
                         /\ Declared(schema, relations[j])
                         /\ EndIssue(schema.relation[relations[j].type].sources, entities,
                                     relations[j].source)}
           targets == {j \in DOMAIN relations :
                         /\ Declared(schema, relations[j])
                         /\ EndIssue(schema.relation[relations[j].type].targets, entities,
                                     relations[j].target)}
           many == {j \in DOMAIN relations :
                         /\ Declared(schema, relations[j])
                         /\ schema.relation[relations[j].type].single
                         /\ \E k \in 1 .. (j - 1) : SameSource(relations[k], relations[j])}
<1>1. issue \in ofEntities <=> \E i \in DOMAIN entities :
          \E code \in EntityIssue(schema, entities[i]) : issue = <<code, i>>
    OBVIOUS
<1>2. Issues(schema, entities, relations) =
          ofEntities \cup {<<"relation_undeclared", i>> : i \in undeclared}
          \cup {<<"source_violation", i>> : i \in sources}
          \cup {<<"target_violation", i>> : i \in targets}
          \cup {<<"cardinality_violation", i>> : i \in many}
    BY Zenon DEF Issues
<1> HIDE DEF ofEntities, undeclared, sources, targets, many
<1>3. issue \in Issues(schema, entities, relations) <=>
          \/ issue \in ofEntities
          \/ \E j \in undeclared : issue = <<"relation_undeclared", j>>
          \/ \E j \in sources : issue = <<"source_violation", j>>
          \/ \E j \in targets : issue = <<"target_violation", j>>
          \/ \E j \in many : issue = <<"cardinality_violation", j>>
    BY <1>2
<1>4. \A j : /\ j \in undeclared <=> j \in DOMAIN relations /\ Undeclared(schema, relations[j])
             /\ j \in sources <=>
                   /\ j \in DOMAIN relations /\ Declared(schema, relations[j])
                   /\ EndIssue(schema.relation[relations[j].type].sources, entities,
                               relations[j].source)
             /\ j \in targets <=>
                   /\ j \in DOMAIN relations /\ Declared(schema, relations[j])
                   /\ EndIssue(schema.relation[relations[j].type].targets, entities,
                               relations[j].target)
             /\ j \in many <=>
                   /\ j \in DOMAIN relations /\ Declared(schema, relations[j])
                   /\ schema.relation[relations[j].type].single
                   /\ \E k \in 1 .. (j - 1) : SameSource(relations[k], relations[j])
    BY DEF undeclared, sources, targets, many
<1>5. QED  BY <1>1, <1>3, <1>4

LEMMA IssueIsFound ==
    ASSUME NEW schema, NEW entities, NEW relations, NEW issue \in Issues(schema, entities, relations)
    PROVE  /\ About(issue, entities, relations).code = issue[1]
           /\ IssueFound(schema, entities, relations, issue[1],
                         About(issue, entities, relations).on)
<1> DEFINE on == About(issue, entities, relations).on
<1>1. About(issue, entities, relations).code = issue[1]
    BY DEF About
<1>2. CASE \E i \in DOMAIN entities : \E code \in EntityIssue(schema, entities[i]) :
               issue = <<code, i>>
  <2>1. PICK i \in DOMAIN entities : \E code \in EntityIssue(schema, entities[i]) :
             issue = <<code, i>>
      BY <1>2
  <2> DEFINE code == issue[1]
  <2>2. code \in EntityIssue(schema, entities[i]) /\ issue = <<code, i>>
      BY <2>1
  <2> HIDE DEF code
  <2>3. code \in EntityCodes
      BY <2>2 DEF EntityIssue, EntityCodes
  <2>4. on = <<entities[i].id>>
      BY <2>2, <2>3 DEF About, EntityCodes
  <2>5. QED  BY <1>1, <2>2, <2>3, <2>4 DEF IssueFound, EntityFound, code
<1>3. ASSUME NEW j \in DOMAIN relations,
             issue[1] \in {"relation_undeclared", "source_violation", "target_violation"},
             issue[2] = j
      PROVE  on = Triple(relations[j])
    BY <1>3 DEF About, Triple
<1>4. CASE \E j \in DOMAIN relations : /\ Undeclared(schema, relations[j])
                                       /\ issue = <<"relation_undeclared", j>>
    BY <1>1, <1>3, <1>4 DEF IssueFound, UndeclaredFound
<1>5. CASE \E j \in DOMAIN relations :
               /\ Declared(schema, relations[j])
               /\ EndIssue(schema.relation[relations[j].type].sources, entities,
                           relations[j].source)
               /\ issue = <<"source_violation", j>>
    BY <1>1, <1>3, <1>5 DEF IssueFound, SourceFound
<1>6. CASE \E j \in DOMAIN relations :
               /\ Declared(schema, relations[j])
               /\ EndIssue(schema.relation[relations[j].type].targets, entities,
                           relations[j].target)
               /\ issue = <<"target_violation", j>>
    BY <1>1, <1>3, <1>6 DEF IssueFound, TargetFound
<1>7. CASE \E j \in DOMAIN relations :
               /\ Declared(schema, relations[j]) /\ schema.relation[relations[j].type].single
               /\ \E k \in 1 .. (j - 1) : SameSource(relations[k], relations[j])
               /\ issue = <<"cardinality_violation", j>>
  <2>1. PICK j \in DOMAIN relations :
               /\ Declared(schema, relations[j]) /\ schema.relation[relations[j].type].single
               /\ \E k \in 1 .. (j - 1) : SameSource(relations[k], relations[j])
               /\ issue = <<"cardinality_violation", j>>
      BY <1>7
  <2>2. on = <<relations[j].type, relations[j].source>>
      BY <2>1 DEF About
  <2>3. QED  BY <1>1, <2>1, <2>2 DEF IssueFound, TooManyFound
<1>8. QED  BY <1>2, <1>4, <1>5, <1>6, <1>7, IssuesAre

LEMMA FoundIsIssue ==
    ASSUME NEW schema, NEW entities, NEW relations, NEW code, NEW on,
           IssueFound(schema, entities, relations, code, on)
    PROVE  \E issue \in Issues(schema, entities, relations) :
              issue[1] = code /\ About(issue, entities, relations) = [code |-> code, on |-> on]
<1>1. CASE code \in EntityCodes /\ EntityFound(schema, entities, code, on)
  <2>1. PICK i \in DOMAIN entities : /\ on = <<entities[i].id>>
                                     /\ code \in EntityIssue(schema, entities[i])
      BY <1>1 DEF EntityFound
  <2>2. <<code, i>> \in Issues(schema, entities, relations)
      BY <2>1, IssuesAre
  <2>3. About(<<code, i>>, entities, relations) = [code |-> code, on |-> on]
      BY <1>1, <2>1 DEF About, EntityCodes
  <2>4. QED  BY <2>2, <2>3
<1>2. CASE code = "relation_undeclared" /\ UndeclaredFound(schema, relations, on)
  <2>1. PICK j \in DOMAIN relations : on = Triple(relations[j]) /\ Undeclared(schema, relations[j])
      BY <1>2 DEF UndeclaredFound
  <2>2. <<code, j>> \in Issues(schema, entities, relations)
      BY <1>2, <2>1, IssuesAre
  <2>3. About(<<code, j>>, entities, relations) = [code |-> code, on |-> on]
      BY <1>2, <2>1 DEF About, Triple
  <2>4. QED  BY <2>2, <2>3
<1>3. CASE code = "source_violation" /\ SourceFound(schema, entities, relations, on)
  <2>1. PICK j \in DOMAIN relations :
             /\ on = Triple(relations[j]) /\ Declared(schema, relations[j])
             /\ EndIssue(schema.relation[relations[j].type].sources, entities,
                         relations[j].source)
      BY <1>3 DEF SourceFound
  <2>2. <<code, j>> \in Issues(schema, entities, relations)
      BY <1>3, <2>1, IssuesAre
  <2>3. About(<<code, j>>, entities, relations) = [code |-> code, on |-> on]
      BY <1>3, <2>1 DEF About, Triple
  <2>4. QED  BY <2>2, <2>3
<1>4. CASE code = "target_violation" /\ TargetFound(schema, entities, relations, on)
  <2>1. PICK j \in DOMAIN relations :
             /\ on = Triple(relations[j]) /\ Declared(schema, relations[j])
             /\ EndIssue(schema.relation[relations[j].type].targets, entities,
                         relations[j].target)
      BY <1>4 DEF TargetFound
  <2>2. <<code, j>> \in Issues(schema, entities, relations)
      BY <1>4, <2>1, IssuesAre
  <2>3. About(<<code, j>>, entities, relations) = [code |-> code, on |-> on]
      BY <1>4, <2>1 DEF About, Triple
  <2>4. QED  BY <2>2, <2>3
<1>5. CASE code = "cardinality_violation" /\ TooManyFound(schema, relations, on)
  <2>1. PICK j \in DOMAIN relations :
             /\ on = <<relations[j].type, relations[j].source>>
             /\ Declared(schema, relations[j]) /\ schema.relation[relations[j].type].single
             /\ \E k \in 1 .. (j - 1) : SameSource(relations[k], relations[j])
      BY <1>5 DEF TooManyFound
  <2>2. <<code, j>> \in Issues(schema, entities, relations)
      BY <1>5, <2>1, IssuesAre
  <2>3. About(<<code, j>>, entities, relations) = [code |-> code, on |-> on]
      BY <1>5, <2>1 DEF About
  <2>4. QED  BY <2>2, <2>3
<1>6. QED  BY <1>1, <1>2, <1>3, <1>4, <1>5 DEF IssueFound

(* A list shows rows of the store: each is in it, and only as it is.       *)
ShowsEntities(entities, ids) ==
    /\ \E n \in Nat : DOMAIN entities = 1 .. n
    /\ \A e \in ids : \E i \in DOMAIN entities : entities[i].id = e
    /\ \A i \in DOMAIN entities : entities[i].id \in ids =>
           /\ entities[i].type = row[entities[i].id].type
           /\ entities[i].value = row[entities[i].id].value

ShowsRelations(relations, numbers) ==
    /\ \E n \in Nat : DOMAIN relations = 1 .. n
    /\ \A r \in numbers : \E j \in DOMAIN relations : relations[j].id = r
    /\ \A j \in DOMAIN relations : relations[j].id \in numbers =>
           /\ relations[j].type = edge[relations[j].id].type
           /\ relations[j].source = edge[relations[j].id].source
           /\ relations[j].target = edge[relations[j].id].target

TripleOf(r) == <<edge[r].type, edge[r].source, edge[r].target>>

(* All that a violation takes is among these rows.                         *)
Complete(ids, numbers, code, on) ==
    /\ code \in {"type_undeclared", "missing_required"} => on[1] \in ids
    /\ code \in {"relation_undeclared", "source_violation", "target_violation"} =>
          \E r \in numbers : /\ on = TripleOf(r)
                             /\ code = "source_violation" => edge[r].source \in ids
                             /\ code = "target_violation" => edge[r].target \in ids
    /\ code = "cardinality_violation" =>
          \E q, r \in numbers : /\ q # r
                                /\ on = <<edge[q].type, edge[q].source>>
                                /\ on = <<edge[r].type, edge[r].source>>

(* Some places of a list have a last one among them.                       *)
LEMMA LastPlace ==
    ASSUME NEW n \in Nat, NEW places \in SUBSET (1 .. n), places # {}
    PROVE  \E x \in places : \A y \in places : x >= y
<1> DEFINE mirror == {n - i : i \in places}
<1>1. mirror \in SUBSET Nat /\ mirror # {}
  <2>1. \A i \in places : n - i \in Nat /\ n - i \in mirror
      OBVIOUS
  <2>2. \A k \in mirror : \E i \in places : k = n - i
      OBVIOUS
  <2> HIDE DEF mirror
  <2>3. QED  BY <2>1, <2>2
<1>2. PICK m \in mirror : \A k \in mirror : m <= k
  <2> HIDE DEF mirror
  <2>1. QED  BY <1>1, LeastNumber
<1>3. PICK i \in places : m = n - i
    BY <1>2
<1>4. ASSUME NEW j \in places PROVE i >= j
  <2>1. n - i <= n - j
      BY <1>2, <1>3
  <2>2. i \in Int /\ j \in Int
      OBVIOUS
  <2>3. QED  BY <2>1, <2>2
<1>5. QED  BY <1>3, <1>4

(* What an end is found to be, if it is one of the entities shown.         *)
LEMMA EndByEntities ==
    ASSUME NEW entities, NEW ids, ShowsEntities(entities, ids), NEW allowed, NEW e \in ids
    PROVE  EndIssue(allowed, entities, e) <=> allowed # {} /\ row[e].type \notin allowed
<1> DEFINE places == {i \in DOMAIN entities : entities[i].id = e}
<1>1. PICK n \in Nat : DOMAIN entities = 1 .. n
    BY DEF ShowsEntities
<1>2. \A i \in places : entities[i].type = row[e].type
    BY DEF ShowsEntities
<1>3. places \in SUBSET (1 .. n) /\ places # {}
    BY <1>1 DEF ShowsEntities
<1>4. PICK i \in places : \A j \in places : i >= j
  <2> HIDE DEF places
  <2>1. QED  BY <1>3, LastPlace
<1>5. ASSUME NEW j \in DOMAIN entities, j > i PROVE entities[j].id # e
  <2>1. j \notin places
      BY <1>1, <1>3, <1>4, <1>5
  <2>2. QED  BY <2>1
<1>6. i \in DOMAIN entities /\ entities[i].id = e /\ entities[i].type = row[e].type
    BY <1>2
<1>7. EndIssue(allowed, entities, e) => allowed # {} /\ row[e].type \notin allowed
    BY <1>2 DEF EndIssue
<1>8. allowed # {} /\ row[e].type \notin allowed => EndIssue(allowed, entities, e)
    BY <1>5, <1>6 DEF EndIssue
<1>9. QED  BY <1>7, <1>8

(* What is found of an entity that a list shows is a matter of its row.    *)
LEMMA EntityFoundIs ==
    ASSUME NEW entities, NEW ids, ShowsEntities(entities, ids),
           NEW schema, NEW code, NEW on, on[1] \in ids
    PROVE  EntityFound(schema, entities, code, on) <=>
              on = <<on[1]>> /\ code \in EntityIssue(schema, ListedAs(on[1]))
<1>1. ASSUME NEW i \in DOMAIN entities, entities[i].id = on[1]
      PROVE  EntityIssue(schema, entities[i]) = EntityIssue(schema, ListedAs(on[1]))
  <2>1. entities[i].type = row[on[1]].type /\ entities[i].value = row[on[1]].value
      BY <1>1 DEF ShowsEntities
  <2>2. ListedAs(on[1]).type = row[on[1]].type /\ ListedAs(on[1]).value = row[on[1]].value
      BY DEF ListedAs
  <2>3. QED  BY <2>1, <2>2 DEF EntityIssue
<1>2. ASSUME NEW i \in DOMAIN entities, on = <<entities[i].id>> PROVE entities[i].id = on[1]
    BY <1>2
<1>3. PICK i \in DOMAIN entities : entities[i].id = on[1]
    BY DEF ShowsEntities
<1>4. QED  BY <1>1, <1>2, <1>3 DEF EntityFound

(* So is what is found of a relation, with what its ends are found to be.  *)
LEMMA RelationFoundIs ==
    ASSUME NEW relations, NEW numbers, ShowsRelations(relations, numbers), NEW r \in numbers,
           NEW on, on = TripleOf(r), NEW entities, NEW schema,
           NEW type, type = edge[r].type
    PROVE  /\ UndeclaredFound(schema, relations, on) <=>
                  (DOMAIN schema.relation # {} /\ type \notin DOMAIN schema.relation)
           /\ SourceFound(schema, entities, relations, on) <=>
                  /\ type \in DOMAIN schema.relation
                  /\ EndIssue(schema.relation[type].sources, entities, edge[r].source)
           /\ TargetFound(schema, entities, relations, on) <=>
                  /\ type \in DOMAIN schema.relation
                  /\ EndIssue(schema.relation[type].targets, entities, edge[r].target)
<1>1. \A j \in DOMAIN relations : on = Triple(relations[j]) =>
          /\ relations[j].type = type /\ relations[j].source = edge[r].source
          /\ relations[j].target = edge[r].target
    BY DEF Triple, TripleOf
<1>2. PICK j \in DOMAIN relations : relations[j].id = r
    BY DEF ShowsRelations
<1>3. /\ on = Triple(relations[j]) /\ relations[j].type = type
      /\ relations[j].source = edge[r].source /\ relations[j].target = edge[r].target
    BY <1>2 DEF ShowsRelations, Triple, TripleOf
<1>4. UndeclaredFound(schema, relations, on) <=>
          (DOMAIN schema.relation # {} /\ type \notin DOMAIN schema.relation)
    BY <1>1, <1>3 DEF UndeclaredFound, Undeclared
<1>5. SourceFound(schema, entities, relations, on) <=>
          /\ type \in DOMAIN schema.relation
          /\ EndIssue(schema.relation[type].sources, entities, edge[r].source)
    BY <1>1, <1>3 DEF SourceFound, Declared
<1>6. TargetFound(schema, entities, relations, on) <=>
          /\ type \in DOMAIN schema.relation
          /\ EndIssue(schema.relation[type].targets, entities, edge[r].target)
    BY <1>1, <1>3 DEF TargetFound, Declared
<1>7. QED  BY <1>4, <1>5, <1>6

(* Two rows of one type and one source are too many in every list that     *)
(* shows them, in whatever order.                                          *)
LEMMA TooManyFoundIs ==
    ASSUME NEW relations, NEW numbers, ShowsRelations(relations, numbers),
           NEW q \in numbers, NEW r \in numbers, q # r, NEW schema, NEW on,
           on = <<edge[q].type, edge[q].source>>, on = <<edge[r].type, edge[r].source>>
    PROVE  TooManyFound(schema, relations, on) <=>
              edge[q].type \in DOMAIN schema.relation /\ schema.relation[edge[q].type].single
<1> DEFINE type == edge[q].type
<1>1. PICK n \in Nat : DOMAIN relations = 1 .. n
    BY DEF ShowsRelations
<1>2. PICK i \in DOMAIN relations : relations[i].id = q
    BY DEF ShowsRelations
<1>3. PICK j \in DOMAIN relations : relations[j].id = r
    BY DEF ShowsRelations
<1>4. /\ relations[i].type = type /\ relations[i].source = edge[q].source
      /\ relations[j].type = edge[r].type /\ relations[j].source = edge[r].source
    BY <1>2, <1>3 DEF ShowsRelations
<1>5. edge[r].type = type /\ edge[r].source = edge[q].source
    OBVIOUS
<1>6. /\ on = <<relations[i].type, relations[i].source>>
      /\ on = <<relations[j].type, relations[j].source>>
      /\ SameSource(relations[i], relations[j]) /\ SameSource(relations[j], relations[i])
    BY <1>4, <1>5 DEF SameSource
<1>7. i \in 1 .. n /\ j \in 1 .. n /\ i # j
    BY <1>1, <1>2, <1>3
<1>8. \E k \in DOMAIN relations : /\ on = <<relations[k].type, relations[k].source>>
                                  /\ relations[k].type = type
                                  /\ \E l \in 1 .. (k - 1) : SameSource(relations[l], relations[k])
  <2>1. CASE i < j
    <3>1. i \in 1 .. (j - 1)
        BY <1>7, <2>1
    <3>2. QED  BY <1>4, <1>5, <1>6, <3>1
  <2>2. CASE j < i
    <3>1. j \in 1 .. (i - 1)
        BY <1>7, <2>2
    <3>2. QED  BY <1>4, <1>6, <3>1
  <2>3. QED  BY <1>7, <2>1, <2>2
<1>9. \A k \in DOMAIN relations : on = <<relations[k].type, relations[k].source>> =>
          relations[k].type = type
    OBVIOUS
<1>10. QED  BY <1>8, <1>9 DEF TooManyFound, Declared

IssueCodes == {"type_undeclared", "missing_required", "relation_undeclared", "source_violation",
               "target_violation", "cardinality_violation"}

(* Two lists that show the same rows find the same, of what is complete.   *)
LEMMA SameFound ==
    ASSUME NEW ids, NEW numbers,
           NEW entities1, ShowsEntities(entities1, ids),
           NEW entities2, ShowsEntities(entities2, ids),
           NEW relations1, ShowsRelations(relations1, numbers),
           NEW relations2, ShowsRelations(relations2, numbers),
           NEW schema, NEW code \in IssueCodes, NEW on, Complete(ids, numbers, code, on)
    PROVE  IssueFound(schema, entities1, relations1, code, on)
              <=> IssueFound(schema, entities2, relations2, code, on)
<1>1. CASE code \in {"type_undeclared", "missing_required"}
  <2>1. on[1] \in ids
      BY <1>1 DEF Complete
  <2>2. EntityFound(schema, entities1, code, on) <=> EntityFound(schema, entities2, code, on)
      BY <2>1, EntityFoundIs
  <2>3. QED  BY <1>1, <2>2 DEF IssueFound, EntityCodes
<1>2. CASE code \in {"relation_undeclared", "source_violation", "target_violation"}
  <2>1. PICK r \in numbers : /\ on = TripleOf(r)
                             /\ code = "source_violation" => edge[r].source \in ids
                             /\ code = "target_violation" => edge[r].target \in ids
      BY <1>2 DEF Complete
  <2> DEFINE type == edge[r].type
  <2>2. /\ UndeclaredFound(schema, relations1, on) <=>
               (DOMAIN schema.relation # {} /\ type \notin DOMAIN schema.relation)
        /\ SourceFound(schema, entities1, relations1, on) <=>
               /\ type \in DOMAIN schema.relation
               /\ EndIssue(schema.relation[type].sources, entities1, edge[r].source)
        /\ TargetFound(schema, entities1, relations1, on) <=>
               /\ type \in DOMAIN schema.relation
               /\ EndIssue(schema.relation[type].targets, entities1, edge[r].target)
      BY <2>1, RelationFoundIs
  <2>3. /\ UndeclaredFound(schema, relations2, on) <=>
               (DOMAIN schema.relation # {} /\ type \notin DOMAIN schema.relation)
        /\ SourceFound(schema, entities2, relations2, on) <=>
               /\ type \in DOMAIN schema.relation
               /\ EndIssue(schema.relation[type].sources, entities2, edge[r].source)
        /\ TargetFound(schema, entities2, relations2, on) <=>
               /\ type \in DOMAIN schema.relation
               /\ EndIssue(schema.relation[type].targets, entities2, edge[r].target)
      BY <2>1, RelationFoundIs
  <2>4. ASSUME NEW allowed, NEW e \in ids
        PROVE  EndIssue(allowed, entities1, e) <=> EndIssue(allowed, entities2, e)
      BY EndByEntities
  <2>5. QED  BY <1>2, <2>1, <2>2, <2>3, <2>4 DEF IssueFound, EntityCodes
<1>3. CASE code = "cardinality_violation"
  <2>1. PICK q \in numbers, r \in numbers :
             /\ q # r
             /\ on = <<edge[q].type, edge[q].source>> /\ on = <<edge[r].type, edge[r].source>>
      BY <1>3 DEF Complete
  <2>2. TooManyFound(schema, relations1, on) <=> TooManyFound(schema, relations2, on)
      BY <2>1, TooManyFoundIs
  <2>3. QED  BY <1>3, <2>2 DEF IssueFound, EntityCodes
<1>4. QED  BY <1>1, <1>2, <1>3 DEF IssueCodes

(* Every list of the graph shows any of its rows, and what a batch brought *)
(* shows those that the store keeps as it did.                             *)
LEMMA GraphShows ==
    ASSUME RowsInv, NEW ids, ids \subseteq Active, NEW numbers, numbers \subseteq Linked,
           NEW entities \in EntityLists, NEW relations \in RelationLists
    PROVE  ShowsEntities(entities, ids) /\ ShowsRelations(relations, numbers)
<1>1. ShowsEntities(entities, ids)
  <2> DEFINE n == Cardinality(Active)
  <2>1. /\ entities \in Seq(Listed) /\ Len(entities) = n /\ n \in Nat
        /\ \A k \in 1 .. n : entities[k] = ListedAs(entities[k].id)
        /\ \A e \in Active : \E k \in 1 .. n : entities[k].id = e
      BY EntityListIs, RowsAreFinite
  <2> HIDE DEF n
  <2>2. DOMAIN entities = 1 .. n
      BY <2>1
  <2>3. \A e : ListedAs(e).type = row[e].type /\ ListedAs(e).value = row[e].value
      BY DEF ListedAs
  <2>4. \A i \in DOMAIN entities : /\ entities[i].type = row[entities[i].id].type
                                   /\ entities[i].value = row[entities[i].id].value
      BY <2>1, <2>2, <2>3
  <2>5. \A e \in ids : \E i \in DOMAIN entities : entities[i].id = e
      BY <2>1, <2>2
  <2>6. QED  BY <2>1, <2>2, <2>4, <2>5 DEF ShowsEntities
<1>2. ShowsRelations(relations, numbers)
  <2>1. /\ relations \in Seq(Related)
        /\ \A j \in DOMAIN relations :
              relations[j] = [id |-> relations[j].id, type |-> edge[relations[j].id].type,
                              source |-> edge[relations[j].id].source,
                              target |-> edge[relations[j].id].target]
        /\ \A r \in Linked : \E j \in DOMAIN relations : relations[j].id = r
      BY RelationListIs
  <2>2. Len(relations) \in Nat /\ DOMAIN relations = 1 .. Len(relations)
      BY <2>1
  <2>3. \A j \in DOMAIN relations : /\ relations[j].type = edge[relations[j].id].type
                                    /\ relations[j].source = edge[relations[j].id].source
                                    /\ relations[j].target = edge[relations[j].id].target
    <3> SUFFICES ASSUME NEW j \in DOMAIN relations
                 PROVE  /\ relations[j].type = edge[relations[j].id].type
                        /\ relations[j].source = edge[relations[j].id].source
                        /\ relations[j].target = edge[relations[j].id].target
        OBVIOUS
    <3> DEFINE old == edge[relations[j].id]
    <3>1. relations[j] = [id |-> relations[j].id, type |-> old.type,
                          source |-> old.source, target |-> old.target]
        BY <2>1
    <3> HIDE DEF old
    <3>2. /\ relations[j].type = old.type /\ relations[j].source = old.source
          /\ relations[j].target = old.target
        BY <3>1
    <3>3. QED  BY <3>2 DEF old
  <2>4. QED  BY <2>1, <2>2, <2>3 DEF ShowsRelations
<1>3. QED  BY <1>1, <1>2

LEMMA BatchShows ==
    ASSUME NEW batch \in BatchType
    PROVE  /\ KeptEntities(batch) \subseteq Active /\ KeptRelations(batch) \subseteq Linked
           /\ ShowsEntities(batch.entities, KeptEntities(batch))
           /\ ShowsRelations(batch.relations, KeptRelations(batch))
<1> DEFINE entities == batch.entities
           relations == batch.relations
<1>1. entities \in Seq(EntityRecord) /\ relations \in Seq(RelationRecord)
    BY DEF BatchType, EntityRecord, RelationRecord
<1>2. /\ Len(entities) \in Nat /\ DOMAIN entities = 1 .. Len(entities)
      /\ Len(relations) \in Nat /\ DOMAIN relations = 1 .. Len(relations)
    BY <1>1
<1>3. /\ \A i \in DOMAIN entities : entities[i].id \in Entity
      /\ \A i \in DOMAIN relations : relations[i].id \in Relation
  <2>1. /\ \A i \in DOMAIN entities : entities[i] \in EntityRecord
        /\ \A i \in DOMAIN relations : relations[i] \in RelationRecord
      BY <1>1, <1>2, ElementType
  <2>2. QED  BY <2>1 DEF EntityRecord, RelationRecord
<1>4. \A e \in KeptEntities(batch) : \E i \in DOMAIN entities :
          entities[i].id = e /\ row[e].status = "active"
    BY DEF KeptEntities
<1>5. \A i \in DOMAIN entities : entities[i].id \in KeptEntities(batch) =>
          /\ entities[i].type = row[entities[i].id].type
          /\ entities[i].value = row[entities[i].id].value
    BY DEF KeptEntities
<1>6. \A i \in DOMAIN relations : relations[i].id \in KeptRelations(batch) =>
          edge[relations[i].id] = [status |-> "active", type |-> relations[i].type,
                                   source |-> relations[i].source,
                                   target |-> relations[i].target]
    BY DEF KeptRelations
<1>7. \A r \in KeptRelations(batch) : \E i \in DOMAIN relations : relations[i].id = r
    BY DEF KeptRelations
<1>8. \A i \in DOMAIN relations : relations[i].id \in KeptRelations(batch) =>
          /\ edge[relations[i].id].status = "active"
          /\ relations[i].type = edge[relations[i].id].type
          /\ relations[i].source = edge[relations[i].id].source
          /\ relations[i].target = edge[relations[i].id].target
  <2> SUFFICES ASSUME NEW i \in DOMAIN relations, relations[i].id \in KeptRelations(batch)
               PROVE  /\ edge[relations[i].id].status = "active"
                      /\ relations[i].type = edge[relations[i].id].type
                      /\ relations[i].source = edge[relations[i].id].source
                      /\ relations[i].target = edge[relations[i].id].target
      OBVIOUS
  <2> DEFINE new == relations[i]
             old == edge[new.id]
  <2>1. old = [status |-> "active", type |-> new.type,
               source |-> new.source, target |-> new.target]
      BY <1>6
  <2> HIDE DEF new, old
  <2>2. /\ old.status = "active" /\ new.type = old.type
        /\ new.source = old.source /\ new.target = old.target
      BY <2>1
  <2>3. QED  BY <2>2 DEF new, old
<1>9. KeptEntities(batch) \subseteq Active /\ KeptRelations(batch) \subseteq Linked
    BY <1>3, <1>4, <1>7, <1>8 DEF Active, Linked
<1>10. ShowsEntities(entities, KeptEntities(batch))
    BY <1>2, <1>4, <1>5 DEF ShowsEntities
<1>11. ShowsRelations(relations, KeptRelations(batch))
    BY <1>2, <1>7, <1>8 DEF ShowsRelations
<1>12. QED  BY <1>9, <1>10, <1>11

LEMMA HoldsAll ==
    ASSUME NEW batch, NEW about, Holds(batch, about), about.code \in IssueCodes
    PROVE  Complete(KeptEntities(batch), KeptRelations(batch), about.code, about.on)
<1> DEFINE code == about.code
           on == about.on
           ids == KeptEntities(batch)
           numbers == KeptRelations(batch)
<1>1. CASE code \in {"type_undeclared", "missing_required"}
  <2>1. on[1] \in ids
      BY <1>1 DEF Holds
  <2> HIDE DEF on, ids, numbers
  <2>2. QED  BY <1>1, <2>1 DEF Complete, ids, numbers, on
<1>2. CASE code = "source_violation"
  <2>1. \E r \in numbers : on = TripleOf(r) /\ edge[r].source \in ids
      BY <1>2 DEF Holds, TripleOf
  <2>2. QED  BY <1>2, <2>1 DEF Complete
<1>3. CASE code = "target_violation"
  <2>1. \E r \in numbers : on = TripleOf(r) /\ edge[r].target \in ids
      BY <1>3 DEF Holds, TripleOf
  <2>2. QED  BY <1>3, <2>1 DEF Complete
<1>4. CASE code = "relation_undeclared"
  <2>1. \E r \in numbers : on = TripleOf(r)
      BY <1>4 DEF Holds, TripleOf
  <2>2. QED  BY <1>4, <2>1 DEF Complete
<1>5. CASE code = "cardinality_violation"
  <2>1. \E q, r \in numbers : /\ q # r /\ on = <<edge[q].type, edge[q].source>>
                              /\ on = <<edge[r].type, edge[r].source>>
      BY <1>5 DEF Holds
  <2>2. QED  BY <1>5, <2>1 DEF Complete
<1>6. QED  BY <1>1, <1>2, <1>3, <1>4, <1>5 DEF IssueCodes

(* The course of a check of the graph: as long as nothing was written, it  *)
(* finds the issues of what the graph holds.                               *)
CheckStages ==
    /\ request.op = "check" => stage \in {"asked", "checking", "done", "failed"}
    /\ stage = "checking" => request.op \in {"check", "candidates"}

CheckCourse ==
    (request.op = "check" /\ ~changed) =>
        /\ stage \in {"checking", "done"} => progress.entities \in EntityLists
        /\ stage = "checking" => {"entities", "relations"} \subseteq DOMAIN progress
        /\ stage = "done" =>
              /\ progress.relations \in RelationLists
              /\ result.report.issues
                    = Issues(request.schema, progress.entities, progress.relations)

CheckInv == CheckStages /\ CheckCourse

LEMMA WriteCheck ==
    ASSUME CheckInv, Write
    PROVE  CheckInv'
<1>1. UNCHANGED readVars /\ Open
    BY DEF Write, Build, Upsert, AnswerBuild, FailBuild, Withdraw, DeleteGraph, CreateGraph,
           PutSnapshot
<1>2. UNCHANGED <<request, stage, progress, result>>
    BY <1>1 DEF readVars
<1>3. CheckStages'
    BY <1>2 DEF CheckInv, CheckStages
<1>4. CASE Upsert \/ Withdraw \/ DeleteGraph
  <2>1. changed' = (stage \in {"proposing", "proposed", "checking"})
      BY <1>4 DEF Upsert, Withdraw, DeleteGraph, Follow
  <2>2. QED  BY <1>1, <1>2, <1>3, <2>1 DEF CheckInv, CheckCourse, Open
<1>5. CASE Build \/ AnswerBuild \/ FailBuild \/ CreateGraph \/ PutSnapshot
  <2>1. UNCHANGED <<row, edge, changed>>
      BY <1>5 DEF Build, AnswerBuild, FailBuild, CreateGraph, PutSnapshot, storeVars, historyVars
  <2>2. UNCHANGED <<EntityLists, RelationLists>>
      BY <2>1, SameLists
  <2>3. QED  BY <1>1, <1>2, <1>3, <2>1, <2>2 DEF CheckInv, CheckCourse, Open
<1>6. QED  BY <1>4, <1>5 DEF Write

LEMMA ReadCheck ==
    ASSUME CheckInv, Read
    PROVE  CheckInv'
<1>1. UNCHANGED <<request, row, edge, changed>>
    BY DEF Read, NotFound, ListPage, ReadEntities, Propose, Check, GetSource, GetTarget,
           BeginWalks, NextWalk, Walk, EndWalks, storeVars, historyVars
<1>2. UNCHANGED <<EntityLists, RelationLists>>
    BY <1>1, SameLists
<1>3. CASE ReadEntities
  <2>1. PICK list \in EntityLists :
            progress' = [entities |-> list, relations |-> <<>>,
                         schema |-> IF stage = "proposed" THEN progress.schema ELSE <<>>]
      BY <1>3 DEF ReadEntities
  <2>2. /\ progress'.entities \in EntityLists
        /\ {"entities", "relations"} \subseteq DOMAIN progress'
      BY <2>1
  <2>3. /\ request.op \in {"check", "candidates"} /\ stage \in {"asked", "proposed"}
        /\ stage' = IF stage = "asked" /\ request.op = "candidates"
                    THEN "proposing" ELSE "checking"
      BY <1>3 DEF ReadEntities
  <2>4. QED  BY <1>1, <1>2, <2>2, <2>3 DEF CheckInv, CheckStages, CheckCourse
<1>4. CASE Check
  <2>1. stage = "checking" /\ stage' = "done"
      BY <1>4 DEF Check
  <2>2. ASSUME request.op = "check", ~changed
        PROVE  /\ progress'.entities \in EntityLists /\ progress'.relations \in RelationLists
               /\ result'.report.issues
                     = Issues(request.schema, progress'.entities, progress'.relations)
    <3>1. progress.entities \in EntityLists
        BY <2>1, <2>2 DEF CheckInv, CheckCourse
    <3>2. PICK list \in RelationLists :
             /\ progress' = [progress EXCEPT !.relations = list]
             /\ result' = [report |-> Report(request.schema, progress.entities, list,
                                             request.maxIssues),
                           covered |-> Coverage(DOMAIN request.schema.entity,
                                                progress.entities),
                           truncated |-> request.op = "candidates" /\ result.truncated]
        BY <1>4, <2>2 DEF Check
    <3> DEFINE report == Report(request.schema, progress.entities, list, request.maxIssues)
    <3>3. report.issues = Issues(request.schema, progress.entities, list)
        BY DEF Report
    <3> HIDE DEF report
    <3>4. result'.report = report
        BY <3>2 DEF report
    <3>5. progress'.entities = progress.entities /\ progress'.relations = list
      <4>1. {"entities", "relations"} \subseteq DOMAIN progress
          BY <2>1, <2>2 DEF CheckInv, CheckCourse
      <4>2. QED  BY <3>2, <4>1
    <3>6. QED  BY <3>1, <3>2, <3>3, <3>4, <3>5
  <2>3. CheckStages'
      BY <1>1, <2>1 DEF CheckStages
  <2>4. QED  BY <1>1, <1>2, <2>1, <2>2, <2>3 DEF CheckInv, CheckCourse
<1>5. CASE NotFound
  <2>1. stage' = "failed"
      BY <1>5 DEF NotFound
  <2>2. QED  BY <1>1, <2>1 DEF CheckInv, CheckStages, CheckCourse
<1>6. CASE \/ ListPage \/ Propose \/ GetSource \/ GetTarget \/ BeginWalks \/ NextWalk \/ Walk
           \/ EndWalks
  <2>1. request.op # "check"
      BY <1>6 DEF ListPage, Propose, GetSource, GetTarget, BeginWalks, NextWalk, Walk, EndWalks,
                  CheckInv, CheckStages
  <2>2. stage' # "checking"
      BY <1>6 DEF ListPage, Propose, GetSource, GetTarget, BeginWalks, NextWalk, Walk, EndWalks
  <2>3. QED  BY <1>1, <2>1, <2>2 DEF CheckInv, CheckStages, CheckCourse
<1>7. QED  BY <1>3, <1>4, <1>5, <1>6 DEF Read

(* What the schemaCheck of a build counted and what a check of the graph   *)
(* against the same schema finds are the same issues, of those that the    *)
(* store has all the records of as the build brought them, as long as      *)
(* nothing is written during the check: over both stores, whatever the     *)
(* order of their lists, for every schema, every batch and whatever else   *)
(* the graph holds.                                                        *)
THEOREM BuildAndCheckAgree == Spec => []ChecksAgree
<1>1. Init => CheckInv
    BY DEF Init, CheckInv, CheckStages, CheckCourse
<1>2. CheckInv /\ [Next]_vars => CheckInv'
  <2> SUFFICES ASSUME CheckInv, [Next]_vars PROVE CheckInv'
      OBVIOUS
  <2>1. CASE Next
      BY <2>1, WriteCheck, ReadCheck DEF Next
  <2>2. CASE UNCHANGED vars
    <3>1. UNCHANGED <<row, edge, request, stage, progress, result, changed>>
        BY <2>2 DEF vars, storeVars, readVars, historyVars
    <3>2. UNCHANGED <<EntityLists, RelationLists>>
        BY <3>1, SameLists
    <3>3. QED  BY <3>1, <3>2 DEF CheckInv, CheckStages, CheckCourse
  <2>3. QED  BY <2>1, <2>2
<1>3. RowsInv /\ CheckInv => ChecksAgree
  <2> DEFINE listed == progress.entities
             linked == progress.relations
             found == {About(issue, listed, linked) :
                          issue \in Issues(GraphSchema, listed, linked)}
  <2> SUFFICES ASSUME RowsInv, CheckInv, request.op = "check", stage = "done", ~changed,
                      request.schema = GraphSchema,
                      NEW batch \in heard,
                      NEW about \in found \cup Told(batch),
                      about.code # "data_type_violation", Holds(batch, about)
               PROVE  about \in found /\ about \in Told(batch)
    <3>1. ASSUME CheckInv, request.op = "check", stage = "done", ~changed,
                 request.schema = GraphSchema
          PROVE  {About(issue, progress.entities, progress.relations) :
                      issue \in result.report.issues} = found
      <4>1. result.report.issues = Issues(GraphSchema, listed, linked)
          BY <3>1 DEF CheckInv, CheckCourse
      <4>2. QED  BY <4>1
    <3> HIDE DEF found
    <3>2. QED  BY <3>1 DEF ChecksAgree
  <2> DEFINE entities == batch.entities
             relations == batch.relations
             code == about.code
             on == about.on
  <2>1. batch \in BatchType /\ listed \in EntityLists /\ linked \in RelationLists
      BY DEF RowsInv, CheckInv, CheckCourse
  <2>2. ASSUME NEW E, NEW R, NEW a
        PROVE  (a.code # "data_type_violation" /\ a = [code |-> a.code, on |-> a.on]) =>
                  (a \in {About(issue, E, R) : issue \in Issues(GraphSchema, E, R)}
                      <=> IssueFound(GraphSchema, E, R, a.code, a.on))
      BY IssueIsFound, FoundIsIssue
  <2>3. Told(batch) = {About(issue, entities, relations) :
                          issue \in SchemaCheck(GraphSchema, entities, relations)}
      BY DEF Told
  <2>4. about \in Told(batch) <=>
            about \in {About(issue, entities, relations) :
                          issue \in Issues(GraphSchema, entities, relations)}
    <3>1. \A issue : About(issue, entities, relations).code = issue[1]
        BY DEF About
    <3>2. QED  BY <2>3, <3>1 DEF SchemaCheck
  <2>5. about = [code |-> code, on |-> on]
    <3>1. ASSUME NEW issue, NEW E, NEW R
          PROVE  About(issue, E, R) = [code |-> About(issue, E, R).code,
                                       on |-> About(issue, E, R).on]
        BY DEF About
    <3>2. (\E issue : about = About(issue, listed, linked))
          \/ (\E issue : about = About(issue, entities, relations))
        BY <2>4
    <3>3. QED  BY <3>1, <3>2
  <2>6. /\ about \in found <=> IssueFound(GraphSchema, listed, linked, code, on)
        /\ about \in Told(batch) <=> IssueFound(GraphSchema, entities, relations, code, on)
    <3> HIDE DEF entities, relations, listed, linked
    <3>1. QED  BY <2>2, <2>4, <2>5
  <2>7. code \in IssueCodes
      BY <2>6 DEF IssueFound, IssueCodes, EntityCodes
  <2>8. Complete(KeptEntities(batch), KeptRelations(batch), code, on)
      BY <2>7, HoldsAll
  <2>9. /\ KeptEntities(batch) \subseteq Active /\ KeptRelations(batch) \subseteq Linked
        /\ ShowsEntities(entities, KeptEntities(batch))
        /\ ShowsRelations(relations, KeptRelations(batch))
      BY <2>1, BatchShows
  <2>10. /\ ShowsEntities(listed, KeptEntities(batch))
         /\ ShowsRelations(linked, KeptRelations(batch))
      BY <2>1, <2>9, GraphShows
  <2>11. IssueFound(GraphSchema, entities, relations, code, on)
            <=> IssueFound(GraphSchema, listed, linked, code, on)
    <3> HIDE DEF entities, relations, listed, linked, code, on
    <3>1. QED  BY <2>7, <2>8, <2>9, <2>10, SameFound
  <2>12. QED  BY <2>6, <2>11
<1>4. QED  BY <1>1, <1>2, <1>3, RowsInvariant, PTL DEF Spec

(* The check of a definition.  A walk along the parents of a name comes to *)
(* an end or back to a name it has seen, and that says whether the line of *)
(* parents is endless: FindsCycles.                                        *)
Concept == [id : Name, key : Name, parent : Name]

(* Every concept has a name of its own.                                    *)
Unique(concepts) ==
    /\ Nameless(concepts) = {}
    /\ \A i, j \in DOMAIN concepts : concepts[i].key = concepts[j].key => i = j

Endless(concepts) ==
    {concepts[i].key : i \in {j \in DOMAIN concepts : Line(concepts, j)[Len(concepts)] # <<>>}}

LEMMA LastIsThere ==
    ASSUME NEW n \in Nat, NEW places \in SUBSET (1 .. n), places # {}
    PROVE  Max(places) \in places
<1>1. \E x \in places : \A y \in places : x >= y
    BY LastPlace
<1>2. QED  BY <1>1 DEF Max

LEMMA LastOfIs ==
    ASSUME NEW concepts \in Seq(Concept), NEW places \in SUBSET DOMAIN concepts,
           NEW field, NEW name \in DOMAIN LastOf(concepts, places, field)
    PROVE  \E j \in places : /\ LastOf(concepts, places, field)[name] = concepts[j]
                             /\ concepts[j][field] = name
<1> DEFINE with == {i \in places : concepts[i][field] = name}
           n == Len(concepts)
<1>1. n \in Nat /\ DOMAIN concepts = 1 .. n
    OBVIOUS
<1>2. name \in {concepts[i][field] : i \in places}
    BY DEF LastOf
<1>3. with # {}
    BY <1>2
<1>4. with \in SUBSET (1 .. n)
    BY <1>1
<1>5. Max(with) \in with
  <2> HIDE DEF with, n
  <2>1. QED  BY <1>1, <1>3, <1>4, LastIsThere
<1>6. LastOf(concepts, places, field)[name] = concepts[Max(with)]
    BY DEF LastOf
<1>7. QED  BY <1>5, <1>6

(* What a reference means is one of the concepts.                          *)
LEMMA ResolvedIs ==
    ASSUME NEW concepts \in Seq(Concept), NEW ref, Known(concepts, ref)
    PROVE  \E j \in DOMAIN concepts : Resolve(concepts, ref) = concepts[j]
<1> DEFINE places == DOMAIN concepts
<1>1. places \in SUBSET DOMAIN concepts
    OBVIOUS
<1>2. CASE ref \in DOMAIN ById(concepts)
  <2>1. Resolve(concepts, ref) = LastOf(concepts, places, "id")[ref]
      BY <1>2 DEF Resolve, ById
  <2>2. ref \in DOMAIN LastOf(concepts, places, "id")
      BY <1>2 DEF ById
  <2> HIDE DEF places
  <2>3. \E j \in places : LastOf(concepts, places, "id")[ref] = concepts[j]
      BY <1>1, <2>2, LastOfIs
  <2>4. QED  BY <2>1, <2>3 DEF places
<1>3. CASE ref \notin DOMAIN ById(concepts)
  <2>1. Resolve(concepts, ref) = LastOf(concepts, places, "key")[ref]
      BY <1>3 DEF Resolve, ByKey
  <2>2. ref \in DOMAIN LastOf(concepts, places, "key")
      BY <1>3 DEF ByKey, Known
  <2> HIDE DEF places
  <2>3. \E j \in places : LastOf(concepts, places, "key")[ref] = concepts[j]
      BY <1>1, <2>2, LastOfIs
  <2>4. QED  BY <2>1, <2>3 DEF places
<1>4. QED  BY <1>2, <1>3

(* The names of a definition's edges are those of the concepts with a      *)
(* known parent, each with its parent's name.                              *)
LEMMA EdgesAre ==
    ASSUME NEW concepts \in Seq(Concept), Unique(concepts)
    PROVE  /\ \A i \in DOMAIN concepts :
                 /\ concepts[i].key # None
                 /\ concepts[i].key \in DOMAIN ParentEdges(concepts)
                       <=> Known(concepts, concepts[i].parent)
                 /\ Known(concepts, concepts[i].parent) =>
                       ParentEdges(concepts)[concepts[i].key]
                           = Resolve(concepts, concepts[i].parent).key
           /\ \A key \in DOMAIN ParentEdges(concepts) :
                 \E i \in DOMAIN concepts : concepts[i].key = key
<1> DEFINE places == {i \in DOMAIN concepts : HasParent(concepts, concepts[i])}
           children == LastOf(concepts, places, "key")
<1>1. ParentEdges(concepts) = [key \in DOMAIN children |->
                                  Resolve(concepts, children[key].parent).key]
    BY DEF ParentEdges
<1>2. places \in SUBSET DOMAIN concepts
    OBVIOUS
<1>3. \A i \in DOMAIN concepts : concepts[i].key # None
    BY DEF Unique, Nameless
<1>4. ASSUME NEW i \in DOMAIN concepts
      PROVE  i \in places <=> Known(concepts, concepts[i].parent)
  <2>1. Known(concepts, concepts[i].parent) =>
            Resolve(concepts, concepts[i].parent).key # None
      BY <1>3, ResolvedIs
  <2>2. QED  BY <1>3, <2>1 DEF HasParent
<1> HIDE DEF places
<1>5. DOMAIN children = {concepts[i].key : i \in places}
  <2>1. DOMAIN children = {concepts[i]["key"] : i \in places} \ {None}
      BY DEF LastOf
  <2>2. QED  BY <1>2, <1>3, <2>1
<1>6. ASSUME NEW i \in places PROVE children[concepts[i].key] = concepts[i]
  <2> DEFINE key == concepts[i].key
  <2>1. key \in DOMAIN LastOf(concepts, places, "key")
      BY <1>5
  <2> HIDE DEF key
  <2>2. PICK j \in places : /\ LastOf(concepts, places, "key")[key] = concepts[j]
                            /\ concepts[j]["key"] = key
      BY <1>2, <2>1, LastOfIs
  <2>3. j = i
      BY <1>2, <2>2 DEF Unique, key
  <2>4. QED  BY <2>2, <2>3 DEF key
<1> HIDE DEF children
<1>7. ASSUME NEW i \in DOMAIN concepts
      PROVE  concepts[i].key \in DOMAIN children <=> Known(concepts, concepts[i].parent)
  <2>1. \A j \in places : concepts[j].key = concepts[i].key => j = i
      BY <1>2 DEF Unique
  <2>2. QED  BY <1>4, <1>5, <2>1
<1>8. ASSUME NEW i \in DOMAIN concepts, Known(concepts, concepts[i].parent)
      PROVE  ParentEdges(concepts)[concepts[i].key] = Resolve(concepts, concepts[i].parent).key
  <2>1. i \in places
      BY <1>4, <1>8
  <2>2. children[concepts[i].key] = concepts[i] /\ concepts[i].key \in DOMAIN children
      BY <1>5, <1>6, <2>1
  <2>3. QED  BY <1>1, <2>2
<1>9. \A key \in DOMAIN ParentEdges(concepts) : \E i \in DOMAIN concepts : concepts[i].key = key
    BY <1>1, <1>2, <1>5
<1>10. DOMAIN ParentEdges(concepts) = DOMAIN children
    BY <1>1
<1>11. QED  BY <1>3, <1>7, <1>8, <1>9, <1>10

-----------------------------------------------------------------------------
(* What a function leads to in so many steps.                              *)
LEMMA IteratedExists ==
    ASSUME NEW n \in Nat, NEW S, NEW a \in S, NEW G \in [S -> S]
    PROVE  \E f \in [0 .. n -> S] : f[0] = a /\ \A k \in 1 .. n : f[k] = G[f[k - 1]]
<1> DEFINE UpTo(m) == \E f \in [0 .. m -> S] :
                         f[0] = a /\ \A k \in 1 .. m : f[k] = G[f[k - 1]]
           bad == {m \in 0 .. n : ~UpTo(m)}
<1>1. UpTo(0)
  <2> DEFINE f == [k \in 0 .. 0 |-> a]
  <2>1. f \in [0 .. 0 -> S] /\ f[0] = a /\ \A k \in 1 .. 0 : f[k] = G[f[k - 1]]
      OBVIOUS
  <2>2. QED  BY <2>1
<1>2. ASSUME NEW m \in 1 .. n, UpTo(m - 1) PROVE UpTo(m)
  <2>1. PICK f \in [0 .. m - 1 -> S] :
            f[0] = a /\ \A k \in 1 .. m - 1 : f[k] = G[f[k - 1]]
      BY <1>2
  <2> DEFINE g == [k \in 0 .. m |-> IF k = m THEN G[f[m - 1]] ELSE f[k]]
  <2>2. /\ m - 1 \in 0 .. m - 1 /\ 0 \in 0 .. m /\ m # 0 /\ m \in 0 .. m
        /\ \A k \in 0 .. m : k = m \/ k \in 0 .. m - 1
      OBVIOUS
  <2>3. G[f[m - 1]] \in S
      BY <2>1, <2>2
  <2>4. g \in [0 .. m -> S]
      BY <2>1, <2>2, <2>3
  <2>5. g[0] = a
      BY <2>1, <2>2
  <2>6. ASSUME NEW k \in 1 .. m PROVE g[k] = G[g[k - 1]]
    <3>1. k - 1 \in 0 .. m /\ k - 1 # m /\ k \in 0 .. m
        OBVIOUS
    <3>2. g[k - 1] = f[k - 1]
        BY <3>1
    <3>3. CASE k = m
        BY <3>1, <3>2, <3>3
    <3>4. CASE k # m
      <4>1. k \in 1 .. m - 1
          BY <3>4
      <4>2. g[k] = f[k] /\ f[k] = G[f[k - 1]]
          BY <2>1, <3>1, <3>4, <4>1
      <4> HIDE DEF g
      <4>3. QED  BY <3>2, <4>2
    <3>5. QED  BY <3>3, <3>4
  <2> HIDE DEF g
  <2>7. QED  BY <2>4, <2>5, <2>6
<1> HIDE DEF UpTo
<1>3. bad = {}
  <2> SUFFICES ASSUME bad # {} PROVE FALSE
      OBVIOUS
  <2>1. bad \in SUBSET Nat
      OBVIOUS
  <2>2. PICK m \in bad : \A k \in bad : m <= k
    <3> HIDE DEF bad
    <3>1. QED  BY <2>1, LeastNumber
  <2>3. m \in 1 .. n /\ ~UpTo(m) /\ m - 1 \in 0 .. n
      BY <1>1, <2>2
  <2>4. UpTo(m - 1)
      BY <2>2, <2>3
  <2>5. QED  BY <1>2, <2>3, <2>4
<1>4. UpTo(n)
    BY <1>3
<1>5. QED  BY <1>4 DEF UpTo

(* The line of parents leads from concept to concept, until there is none. *)
LEMMA LineIs ==
    ASSUME NEW concepts \in Seq(Concept), NEW i \in DOMAIN concepts,
           NEW line, line = Line(concepts, i)
    PROVE  /\ line[0] = concepts[i]
           /\ \A k \in 1 .. Len(concepts) :
                 line[k] = IF line[k - 1] # <<>> /\ Known(concepts, line[k - 1].parent)
                           THEN Resolve(concepts, line[k - 1].parent) ELSE <<>>
           /\ \A k \in 0 .. Len(concepts) :
                 line[k] # <<>> => \E j \in DOMAIN concepts : line[k] = concepts[j]
           /\ \A j \in DOMAIN concepts : concepts[j] # <<>>
<1> DEFINE Onward(x) == IF x # <<>> /\ Known(concepts, x.parent)
                        THEN Resolve(concepts, x.parent) ELSE <<>>
           S == {concepts[j] : j \in DOMAIN concepts} \cup {<<>>}
           G == [x \in S |-> Onward(x)]
           n == Len(concepts)
<1>1. n \in Nat
    OBVIOUS
<1>2. concepts[i] \in S
    OBVIOUS
<1>3. G \in [S -> S]
  <2>1. ASSUME NEW x PROVE Onward(x) \in S
    <3>1. CASE x # <<>> /\ Known(concepts, x.parent)
      <4>1. PICK j \in DOMAIN concepts : Resolve(concepts, x.parent) = concepts[j]
          BY <3>1, ResolvedIs
      <4>2. QED  BY <3>1, <4>1
    <3>2. CASE ~(x # <<>> /\ Known(concepts, x.parent))
        BY <3>2
    <3>3. QED  BY <3>1, <3>2
  <2> HIDE DEF Onward, S
  <2>2. QED  BY <2>1
<1>4. PICK f \in [0 .. n -> S] : f[0] = concepts[i] /\ \A k \in 1 .. n : f[k] = G[f[k - 1]]
  <2> DEFINE a == concepts[i]
  <2>1. a \in S
      BY <1>2
  <2> HIDE DEF n, S, G, a
  <2>2. \E f \in [0 .. n -> S] : f[0] = a /\ \A k \in 1 .. n : f[k] = G[f[k - 1]]
    <3>1. \A T : \A b \in T : \A H \in [T -> T] :
              \E f \in [0 .. n -> T] : f[0] = b /\ \A k \in 1 .. n : f[k] = H[f[k - 1]]
        BY <1>1, IteratedExists
    <3>2. \A b \in S : \A H \in [S -> S] :
              \E f \in [0 .. n -> S] : f[0] = b /\ \A k \in 1 .. n : f[k] = H[f[k - 1]]
        BY <3>1
    <3>3. \A H \in [S -> S] :
              \E f \in [0 .. n -> S] : f[0] = a /\ \A k \in 1 .. n : f[k] = H[f[k - 1]]
        BY <2>1, <3>2
    <3>4. QED  BY <1>3, <3>3
  <2>3. QED  BY <2>2 DEF a
<1>5. \A k \in 1 .. n : f[k] = Onward(f[k - 1])
  <2>1. \A k \in 1 .. n : f[k - 1] \in S
    <3> HIDE DEF S
    <3>1. QED  BY <1>1, <1>4
  <2> HIDE DEF S, Onward
  <2>2. QED  BY <1>4, <2>1
<1>6. f = [k \in 0 .. Len(concepts) |->
              IF k = 0 THEN concepts[i]
              ELSE IF f[k - 1] # <<>> /\ Known(concepts, f[k - 1].parent)
                   THEN Resolve(concepts, f[k - 1].parent) ELSE <<>>]
  <2> DEFINE g == [k \in 0 .. Len(concepts) |->
                      IF k = 0 THEN concepts[i]
                      ELSE IF f[k - 1] # <<>> /\ Known(concepts, f[k - 1].parent)
                           THEN Resolve(concepts, f[k - 1].parent) ELSE <<>>]
  <2>1. ASSUME NEW k \in 0 .. n PROVE f[k] = g[k]
    <3>1. CASE k = 0
        BY <1>4, <3>1
    <3>2. CASE k # 0
      <4>1. k \in 1 .. n
          BY <1>1, <3>2
      <4>2. g[k] = Onward(f[k - 1])
          BY <3>2
      <4>3. QED  BY <1>5, <4>1, <4>2
    <3>3. QED  BY <3>1, <3>2
  <2>2. f = [k \in 0 .. n |-> f[k]] /\ g = [k \in 0 .. n |-> g[k]]
      BY <1>4
  <2> HIDE DEF g
  <2>3. [k \in 0 .. n |-> f[k]] = [k \in 0 .. n |-> g[k]]
      BY <2>1
  <2>4. f = g
      BY <2>2, <2>3, Zenon
  <2>5. QED  BY <2>4 DEF g
<1> DEFINE own[k \in 0 .. Len(concepts)] ==
               IF k = 0 THEN concepts[i]
               ELSE IF own[k - 1] # <<>> /\ Known(concepts, own[k - 1].parent)
                    THEN Resolve(concepts, own[k - 1].parent) ELSE <<>>
<1>7. own = [k \in 0 .. Len(concepts) |->
                IF k = 0 THEN concepts[i]
                ELSE IF own[k - 1] # <<>> /\ Known(concepts, own[k - 1].parent)
                     THEN Resolve(concepts, own[k - 1].parent) ELSE <<>>]
    BY <1>6, Zenon
<1>8. line = own
    BY DEF Line
<1> HIDE DEF own
<1>9. line[0] = concepts[i]
    BY <1>1, <1>7, <1>8
<1>10. ASSUME NEW k \in 1 .. n
       PROVE  line[k] = IF line[k - 1] # <<>> /\ Known(concepts, line[k - 1].parent)
                        THEN Resolve(concepts, line[k - 1].parent) ELSE <<>>
  <2>1. k \in 0 .. Len(concepts) /\ k # 0
      BY <1>1
  <2>2. own[k] = IF own[k - 1] # <<>> /\ Known(concepts, own[k - 1].parent)
                 THEN Resolve(concepts, own[k - 1].parent) ELSE <<>>
      BY <1>7, <2>1
  <2>3. QED  BY <1>8, <2>2
<1>11. ASSUME NEW k \in 0 .. n, line[k] # <<>>
       PROVE  \E j \in DOMAIN concepts : line[k] = concepts[j]
  <2>1. CASE k = 0
      BY <1>9, <2>1
  <2>2. CASE k # 0
    <3>1. k \in 1 .. n
        BY <1>1, <2>2
    <3>2. Known(concepts, line[k - 1].parent) /\ line[k] = Resolve(concepts, line[k - 1].parent)
        BY <1>10, <1>11, <3>1
    <3>3. QED  BY <3>2, ResolvedIs
  <2>3. QED  BY <2>1, <2>2
<1>12. ASSUME NEW j \in DOMAIN concepts PROVE concepts[j] # <<>>
  <2> DEFINE concept == concepts[j]
  <2>1. concept \in Concept
      OBVIOUS
  <2> HIDE DEF concept
  <2>2. DOMAIN concept = {"id", "key", "parent"}
      BY <2>1 DEF Concept
  <2>3. DOMAIN <<>> = {}
      OBVIOUS
  <2>4. "id" \in DOMAIN concept /\ "id" \notin DOMAIN <<>>
      BY <2>2, <2>3
  <2>5. QED  BY <2>4 DEF concept
<1>13. QED  BY <1>9, <1>10, <1>11, <1>12

(* A set of numbers that has, with each but the last, the next one.        *)
LEMMA StepByStep ==
    ASSUME NEW m \in Nat, NEW n \in Nat, NEW T, m \in T,
           \A k \in m + 1 .. n : k - 1 \in T => k \in T
    PROVE  \A k \in m .. n : k \in T
<1> DEFINE bad == {k \in m .. n : k \notin T}
<1> SUFFICES ASSUME bad # {} PROVE FALSE
    OBVIOUS
<1>1. bad \in SUBSET Nat
    OBVIOUS
<1>2. PICK k \in bad : \A l \in bad : k <= l
  <2> HIDE DEF bad
  <2>1. QED  BY <1>1, LeastNumber
<1>3. k \in m + 1 .. n /\ k \notin T /\ k - 1 \in m .. n
    BY <1>2
<1>4. k - 1 \in T
    BY <1>2, <1>3
<1>5. QED  BY <1>3, <1>4

-----------------------------------------------------------------------------
(* A line goes on with the parent, if there is one.                        *)
LEMMA LineGoesOn ==
    ASSUME NEW concepts \in Seq(Concept), Unique(concepts),
           NEW i \in DOMAIN concepts, NEW line, line = Line(concepts, i),
           NEW k \in 1 .. Len(concepts), NEW j \in DOMAIN concepts, line[k - 1] = concepts[j]
    PROVE  /\ concepts[j].key \notin DOMAIN ParentEdges(concepts) => line[k] = <<>>
           /\ concepts[j].key \in DOMAIN ParentEdges(concepts) =>
                 \E l \in DOMAIN concepts :
                    /\ line[k] = concepts[l]
                    /\ concepts[l].key = ParentEdges(concepts)[concepts[j].key]
<1>1. line[k] = IF line[k - 1] # <<>> /\ Known(concepts, line[k - 1].parent)
                THEN Resolve(concepts, line[k - 1].parent) ELSE <<>>
    BY LineIs
<1>2. concepts[j] # <<>>
    BY LineIs
<1>3. line[k] = IF Known(concepts, concepts[j].parent)
                THEN Resolve(concepts, concepts[j].parent) ELSE <<>>
    BY <1>1, <1>2
<1>4. /\ concepts[j].key \in DOMAIN ParentEdges(concepts) <=> Known(concepts, concepts[j].parent)
      /\ Known(concepts, concepts[j].parent) =>
            ParentEdges(concepts)[concepts[j].key] = Resolve(concepts, concepts[j].parent).key
    BY EdgesAre
<1>5. Known(concepts, concepts[j].parent) =>
          \E l \in DOMAIN concepts : Resolve(concepts, concepts[j].parent) = concepts[l]
    BY ResolvedIs
<1>6. QED  BY <1>3, <1>4, <1>5

(* The names that a walk from a name has come by, the last of them perhaps *)
(* for the second time.                                                    *)
Keys(concepts) == {concepts[i].key : i \in DOMAIN concepts}

Trail(concepts, key, trail) ==
    /\ trail \in Seq(Keys(concepts)) /\ trail # <<>> /\ trail[1] = key
    /\ \A k \in 1 .. Len(trail) - 1 :
          /\ trail[k] \in DOMAIN ParentEdges(concepts)
          /\ trail[k + 1] = ParentEdges(concepts)[trail[k]]
    /\ \A k, l \in 1 .. Len(trail) - 1 : trail[k] = trail[l] => k = l

(* A walk that ends has come by every name of a line that ends.            *)
LEMMA DeadEnd ==
    ASSUME NEW concepts \in Seq(Concept), Unique(concepts), NEW key, NEW trail,
           Trail(concepts, key, trail), trail[Len(trail)] \notin DOMAIN ParentEdges(concepts)
    PROVE  key \notin Endless(concepts)
<1> DEFINE n == Len(concepts)
           m == Len(trail)
           parent == ParentEdges(concepts)
<1>1. /\ n \in Nat /\ DOMAIN concepts = 1 .. n
      /\ m \in Nat \ {0} /\ \A k \in 1 .. m : trail[k] \in Keys(concepts)
    BY DEF Trail
<1>2. /\ trail[1] = key
      /\ \A k \in 1 .. m - 1 : trail[k] \in DOMAIN parent /\ trail[k + 1] = parent[trail[k]]
      /\ \A k, l \in 1 .. m - 1 : trail[k] = trail[l] => k = l
      /\ trail[m] \notin DOMAIN parent
    BY DEF Trail
<1> HIDE DEF n, m, parent
<1>3. ASSUME NEW k \in 1 .. m, NEW l \in 1 .. m, trail[k] = trail[l]
      PROVE  k = l
  <2>1. \A x \in 1 .. m : x = m \/ x \in 1 .. m - 1
      BY <1>1
  <2>2. QED  BY <1>2, <1>3, <2>1
<1>4. m <= n
  <2> DEFINE f == [k \in 1 .. m |-> CHOOSE i \in 1 .. n : concepts[i].key = trail[k]]
  <2>1. ASSUME NEW k \in 1 .. m PROVE f[k] \in 1 .. n /\ concepts[f[k]].key = trail[k]
    <3>1. \E i \in 1 .. n : concepts[i].key = trail[k]
        BY <1>1 DEF Keys
    <3>2. QED  BY <3>1
  <2>2. f \in [1 .. m -> 1 .. n] /\ DOMAIN f = 1 .. m
      BY <2>1
  <2>3. ASSUME NEW k \in 1 .. m, NEW l \in 1 .. m, f[k] = f[l] PROVE k = l
    <3>1. trail[k] = trail[l]
        BY <2>1, <2>3
    <3>2. QED  BY <1>3, <3>1
  <2> HIDE DEF f
  <2>4. f \in Injection(1 .. m, 1 .. n)
      BY <2>2, <2>3 DEF Injection, IsInjective
  <2>5. /\ IsFiniteSet(1 .. n) /\ Cardinality(1 .. n) = n /\ Cardinality(1 .. m) = m
      BY <1>1, FS_Interval
  <2>6. Cardinality(1 .. m) <= Cardinality(1 .. n)
      BY <2>4, <2>5, FS_Injection
  <2>7. QED  BY <2>5, <2>6
<1>5. SUFFICES ASSUME NEW i \in DOMAIN concepts, concepts[i].key = key,
                      NEW line, line = Line(concepts, i)
               PROVE  line[n] = <<>>
    BY DEF Endless, n
<1>6. ASSUME NEW k \in 1 .. n, NEW j \in DOMAIN concepts, line[k - 1] = concepts[j]
      PROVE  /\ concepts[j].key \notin DOMAIN parent => line[k] = <<>>
             /\ concepts[j].key \in DOMAIN parent =>
                   \E l \in DOMAIN concepts :
                      line[k] = concepts[l] /\ concepts[l].key = parent[concepts[j].key]
    BY <1>5, <1>6, LineGoesOn DEF n, parent
<1> DEFINE met == {k \in 1 .. m : \E j \in DOMAIN concepts :
                                     line[k - 1] = concepts[j] /\ concepts[j].key = trail[k]}
           over == {k \in m .. n : line[k] = <<>>}
<1>7. 1 \in met
  <2>1. line[0] = concepts[i]
      BY <1>5, LineIs
  <2>2. 1 \in 1 .. m /\ 1 - 1 = 0
      BY <1>1
  <2>3. QED  BY <1>2, <1>5, <2>1, <2>2
<1>8. ASSUME NEW k \in 2 .. m, k - 1 \in met PROVE k \in met
  <2>1. k - 1 \in 1 .. m - 1 /\ k - 1 \in 1 .. n /\ (k - 1) + 1 = k /\ k \in 1 .. m
      BY <1>1, <1>4
  <2>2. PICK j \in DOMAIN concepts : line[(k - 1) - 1] = concepts[j]
                                        /\ concepts[j].key = trail[k - 1]
      BY <1>8
  <2>3. concepts[j].key \in DOMAIN parent /\ parent[concepts[j].key] = trail[k]
      BY <1>2, <2>1, <2>2
  <2>4. \E l \in DOMAIN concepts : line[k - 1] = concepts[l] /\ concepts[l].key = trail[k]
      BY <1>6, <2>1, <2>2, <2>3
  <2>5. QED  BY <2>1, <2>4
<1>9. m \in met
  <2> HIDE DEF met
  <2>1. \A k \in 1 .. m : k \in met
    <3>1. 1 \in Nat /\ m \in Nat /\ 1 + 1 = 2
        BY <1>1
    <3>2. \A k \in 1 + 1 .. m : k - 1 \in met => k \in met
        BY <1>8
    <3>3. QED  BY <1>7, <3>1, <3>2, StepByStep
  <2>2. QED  BY <1>1, <2>1
<1>10. m \in over
  <2>1. PICK j \in DOMAIN concepts : line[m - 1] = concepts[j] /\ concepts[j].key = trail[m]
      BY <1>9
  <2>2. m \in 1 .. n /\ m \in m .. n
      BY <1>1, <1>4
  <2>3. QED  BY <1>2, <1>6, <2>1, <2>2
<1>11. ASSUME NEW k \in m + 1 .. n, k - 1 \in over PROVE k \in over
  <2>1. k \in 1 .. n /\ k \in m .. n /\ line[k - 1] = <<>>
      BY <1>1, <1>11
  <2>2. line[k] = IF line[k - 1] # <<>> /\ Known(concepts, line[k - 1].parent)
                  THEN Resolve(concepts, line[k - 1].parent) ELSE <<>>
      BY <1>5, <2>1, LineIs DEF n
  <2>3. QED  BY <2>1, <2>2
<1>12. n \in over
  <2> HIDE DEF over
  <2>1. m \in Nat /\ n \in Nat /\ n \in m .. n
      BY <1>1, <1>4
  <2>2. \A k \in m .. n : k \in over
      BY <1>10, <1>11, <2>1, StepByStep
  <2>3. QED  BY <2>1, <2>2
<1>13. QED  BY <1>12

(* A walk that comes back is on a line without an end.                     *)
LEMMA BackAgain ==
    ASSUME NEW concepts \in Seq(Concept), Unique(concepts), NEW key, NEW trail,
           Trail(concepts, key, trail),
           \E k \in 1 .. Len(trail) - 1 : trail[k] = trail[Len(trail)]
    PROVE  key \in Endless(concepts)
<1> DEFINE n == Len(concepts)
           m == Len(trail)
           parent == ParentEdges(concepts)
<1>1. /\ n \in Nat /\ DOMAIN concepts = 1 .. n
      /\ m \in Nat \ {0} /\ \A k \in 1 .. m : trail[k] \in Keys(concepts)
    BY DEF Trail
<1>2. /\ trail[1] = key
      /\ \A k \in 1 .. m - 1 : trail[k] \in DOMAIN parent /\ trail[k + 1] = parent[trail[k]]
      /\ \E k \in 1 .. m - 1 : trail[k] = trail[m]
    BY DEF Trail
<1> HIDE DEF n, m, parent
<1>3. 1 \in 1 .. m - 1
    BY <1>1, <1>2
<1>4. PICK i \in DOMAIN concepts : concepts[i].key = key
  <2>1. key \in Keys(concepts)
      BY <1>1, <1>2, <1>3
  <2>2. QED  BY <2>1 DEF Keys
<1>5. PICK line : line = Line(concepts, i)
    OBVIOUS
<1> DEFINE seen == {k \in 0 .. n : \E j \in DOMAIN concepts :
                                      /\ line[k] = concepts[j]
                                      /\ \E l \in 1 .. m - 1 : concepts[j].key = trail[l]}
<1>6. 0 \in seen
  <2>1. line[0] = concepts[i]
      BY <1>5, LineIs
  <2>2. QED  BY <1>1, <1>2, <1>3, <1>4, <2>1
<1>7. ASSUME NEW k \in 1 .. n, k - 1 \in seen PROVE k \in seen
  <2>1. PICK j \in DOMAIN concepts : /\ line[k - 1] = concepts[j]
                                     /\ \E l \in 1 .. m - 1 : concepts[j].key = trail[l]
      BY <1>7
  <2>2. PICK l \in 1 .. m - 1 : concepts[j].key = trail[l]
      BY <2>1
  <2>3. concepts[j].key \in DOMAIN parent /\ parent[concepts[j].key] = trail[l + 1]
      BY <1>2, <2>2
  <2>4. PICK x \in DOMAIN concepts : line[k] = concepts[x]
                                        /\ concepts[x].key = parent[concepts[j].key]
      BY <1>5, <2>1, <2>3, LineGoesOn DEF n, parent
  <2>5. concepts[x].key = trail[l + 1]
      BY <2>3, <2>4
  <2>6. l + 1 \in 1 .. m - 1 \/ l + 1 = m
      BY <1>1
  <2>7. \E y \in 1 .. m - 1 : concepts[x].key = trail[y]
      BY <1>2, <2>5, <2>6
  <2>8. k \in 0 .. n
      BY <1>1
  <2>9. QED  BY <2>4, <2>7, <2>8
<1>8. n \in seen
  <2> HIDE DEF seen
  <2>1. 0 \in Nat /\ 0 + 1 = 1 /\ n \in 0 .. n
      BY <1>1
  <2>2. \A k \in 0 + 1 .. n : k - 1 \in seen => k \in seen
      BY <1>7
  <2>3. \A k \in 0 .. n : k \in seen
      BY <1>1, <1>6, <2>1, <2>2, StepByStep
  <2>4. QED  BY <2>1, <2>3
<1>9. line[n] # <<>>
  <2>1. PICK j \in DOMAIN concepts : line[n] = concepts[j]
      BY <1>8
  <2>2. concepts[j] # <<>>
      BY LineIs
  <2>3. QED  BY <2>1, <2>2
<1>10. QED  BY <1>4, <1>5, <1>9 DEF Endless, n

LEMMA TrailBegins ==
    ASSUME NEW concepts, NEW key \in Keys(concepts)
    PROVE  Trail(concepts, key, <<key>>)
<1> DEFINE trail == <<key>>
<1>1. trail \in Seq(Keys(concepts)) /\ Len(trail) = 1 /\ trail[1] = key /\ trail # <<>>
    OBVIOUS
<1> HIDE DEF trail
<1>2. \A k \in 1 .. Len(trail) - 1 : FALSE
    BY <1>1
<1>3. Trail(concepts, key, trail)
    BY <1>1, <1>2 DEF Trail
<1>4. QED  BY <1>3 DEF trail

LEMMA ParentIsKey ==
    ASSUME NEW concepts \in Seq(Concept), Unique(concepts),
           NEW key \in DOMAIN ParentEdges(concepts)
    PROVE  key \in Keys(concepts) /\ ParentEdges(concepts)[key] \in Keys(concepts)
<1>1. PICK i \in DOMAIN concepts : concepts[i].key = key
    BY EdgesAre
<1>2. /\ Known(concepts, concepts[i].parent)
      /\ ParentEdges(concepts)[key] = Resolve(concepts, concepts[i].parent).key
    BY <1>1, EdgesAre
<1>3. PICK j \in DOMAIN concepts : Resolve(concepts, concepts[i].parent) = concepts[j]
    BY <1>2, ResolvedIs
<1>4. QED  BY <1>1, <1>2, <1>3 DEF Keys

LEMMA TrailGoesOn ==
    ASSUME NEW concepts \in Seq(Concept), Unique(concepts), NEW key,
           NEW seen \in Seq(Keys(concepts)), NEW node \in DOMAIN ParentEdges(concepts),
           Trail(concepts, key, Append(seen, node)),
           \A k \in 1 .. Len(seen) : seen[k] # node
    PROVE  Trail(concepts, key, Append(Append(seen, node), ParentEdges(concepts)[node]))
<1> DEFINE parent == ParentEdges(concepts)
           m == Len(seen)
           K == Keys(concepts)
           trail == Append(seen, node)
           up == parent[node]
           longer == Append(trail, up)
<1>1. node \in K /\ up \in K
    BY ParentIsKey
<1>2. m \in Nat /\ seen \in Seq(K)
    OBVIOUS
<1>3. /\ trail \in Seq(K) /\ Len(trail) = m + 1 /\ trail[m + 1] = node
      /\ \A k \in 1 .. m : trail[k] = seen[k]
  <2> HIDE DEF K
  <2>1. QED  BY <1>1, <1>2
<1>4. /\ trail[1] = key
      /\ \A k \in 1 .. m : trail[k] \in DOMAIN parent /\ trail[k + 1] = parent[trail[k]]
      /\ \A k, l \in 1 .. m : trail[k] = trail[l] => k = l
  <2>1. Len(trail) - 1 = m
      BY <1>2, <1>3
  <2>2. Trail(concepts, key, trail)
      OBVIOUS
  <2> HIDE DEF m, trail
  <2>3. QED  BY <2>1, <2>2 DEF Trail
<1>5. node \in DOMAIN parent /\ \A k \in 1 .. m : trail[k] # node
    BY <1>3
<1> HIDE DEF parent, K, trail, up
<1>6. /\ longer \in Seq(K) /\ Len(longer) = m + 2 /\ longer[m + 2] = up /\ longer # <<>>
      /\ \A k \in 1 .. m + 1 : longer[k] = trail[k]
    BY <1>1, <1>2, <1>3
<1> HIDE DEF m, longer
<1>7. Len(longer) - 1 = m + 1
    BY <1>2, <1>6
<1>8. ASSUME NEW k \in 1 .. m + 1
      PROVE  longer[k] \in DOMAIN parent /\ longer[k + 1] = parent[longer[k]]
  <2>1. CASE k = m + 1
    <3>1. longer[k] = node /\ longer[k + 1] = up
      <4>1. k + 1 = m + 2
          BY <1>2, <2>1
      <4>2. QED  BY <1>3, <1>6, <2>1, <4>1
    <3>2. QED  BY <1>5, <3>1 DEF up
  <2>2. CASE k # m + 1
    <3>1. k \in 1 .. m /\ k + 1 \in 1 .. m + 1
        BY <1>2, <2>2
    <3>2. QED  BY <1>4, <1>6, <3>1
  <2>3. QED  BY <2>1, <2>2
<1>9. ASSUME NEW k \in 1 .. m + 1, NEW l \in 1 .. m + 1, longer[k] = longer[l]
      PROVE  k = l
  <2>1. \A x \in 1 .. m + 1 : x = m + 1 \/ x \in 1 .. m
      BY <1>2
  <2>2. QED  BY <1>3, <1>4, <1>5, <1>6, <1>9, <2>1
<1>10. longer[1] = key
    BY <1>2, <1>4, <1>6
<1>11. Trail(concepts, key, longer)
    BY <1>6, <1>7, <1>8, <1>9, <1>10 DEF Trail, K, parent
<1>12. QED  BY <1>11 DEF longer, trail, up, parent

-----------------------------------------------------------------------------
(* The check goes through its own stages only.  The names it has walked    *)
(* from and found a cycle at are those with an endless line; the one it is *)
(* walking from is left out until the walk is over.                        *)
WalkStages ==
    /\ request \in Requests
    /\ request.op = "definition" => stage \in {"asked", "walking", "done"}
    /\ stage = "walking" => request.op = "definition"

Walked == DOMAIN ParentEdges(request.concepts) \ progress.todo

WalkCourse ==
    (request.op = "definition" /\ Unique(request.concepts)) =>
        /\ stage = "walking" =>
              /\ progress \in [parent : {ParentEdges(request.concepts)},
                               todo : SUBSET DOMAIN ParentEdges(request.concepts),
                               node : Keys(request.concepts) \cup {None},
                               seen : Seq(Keys(request.concepts)),
                               cycles : SUBSET Keys(request.concepts)]
              /\ progress.node = None =>
                    progress.cycles = Endless(request.concepts) \cap Walked
              /\ progress.node # None =>
                    \E key \in Walked :
                        /\ Trail(request.concepts, key, Append(progress.seen, progress.node))
                        /\ progress.cycles = Endless(request.concepts) \cap (Walked \ {key})
        /\ stage = "done" => result.cycles = Endless(request.concepts)

WalkInv == WalkStages /\ WalkCourse

(* Nothing but the check itself touches it.                                *)
LEMMA OthersLeaveWalks ==
    ASSUME WalkInv, Next \/ UNCHANGED vars, ~BeginWalks, ~NextWalk, ~Walk, ~EndWalks
    PROVE  WalkInv'
<1>1. CASE UNCHANGED readVars
  <2>1. UNCHANGED <<request, stage, progress, result>>
      BY <1>1 DEF readVars
  <2>2. QED  BY <2>1 DEF WalkInv, WalkStages, WalkCourse, Walked
<1>2. CASE NotFound \/ ListPage \/ ReadEntities \/ Propose \/ Check \/ GetSource \/ GetTarget
  <2>1. request' = request
      BY <1>2 DEF NotFound, ListPage, ReadEntities, Propose, Check, GetSource, GetTarget
  <2>2. request.op # "definition" /\ stage' # "walking"
      BY <1>2 DEF NotFound, ListPage, ReadEntities, Propose, Check, GetSource, GetTarget,
                  WalkInv, WalkStages
  <2>3. QED  BY <2>1, <2>2 DEF WalkInv, WalkStages, WalkCourse
<1>3. CASE Write
  <2>1. UNCHANGED readVars
      BY <1>3 DEF Write, Build, Upsert, AnswerBuild, FailBuild, Withdraw, DeleteGraph,
                  CreateGraph, PutSnapshot
  <2>2. QED  BY <1>1, <2>1
<1>4. UNCHANGED vars => UNCHANGED readVars
    BY DEF vars
<1>5. QED  BY <1>1, <1>2, <1>3, <1>4 DEF Next, Read

LEMMA AskedConcepts ==
    ASSUME WalkStages, request.op = "definition"
    PROVE  request.concepts \in Seq(Concept)
BY ReadsAssumption DEF WalkStages, Concept

LEMMA KeysAreNames ==
    ASSUME NEW concepts \in Seq(Concept), Unique(concepts)
    PROVE  None \notin Keys(concepts) /\ DOMAIN ParentEdges(concepts) \subseteq Keys(concepts)
BY EdgesAre DEF Keys

LEMMA EndlessAreWalked ==
    ASSUME NEW concepts \in Seq(Concept), Unique(concepts)
    PROVE  Endless(concepts) \subseteq DOMAIN ParentEdges(concepts)
<1> SUFFICES ASSUME NEW key \in Endless(concepts), key \notin DOMAIN ParentEdges(concepts)
             PROVE  FALSE
    OBVIOUS
<1>1. key \in Keys(concepts)
    BY DEF Endless, Keys
<1> DEFINE trail == <<key>>
<1>2. Trail(concepts, key, trail)
    BY <1>1, TrailBegins
<1>3. trail[Len(trail)] = key
    OBVIOUS
<1> HIDE DEF trail
<1>4. QED  BY <1>2, <1>3, DeadEnd

LEMMA WalksBegin ==
    ASSUME WalkInv, BeginWalks
    PROVE  WalkInv'
<1>1. /\ request' = request /\ stage' = "walking" /\ request.op = "definition"
      /\ progress' = [parent |-> ParentEdges(request.concepts),
                      todo |-> DOMAIN ParentEdges(request.concepts), node |-> None,
                      seen |-> <<>>, cycles |-> {}]
    BY DEF BeginWalks
<1>2. WalkStages'
    BY <1>1 DEF WalkInv, WalkStages
<1>3. Walked' = {}
    BY <1>1 DEF Walked
<1>4. progress' \in [parent : {ParentEdges(request.concepts)},
                     todo : SUBSET DOMAIN ParentEdges(request.concepts),
                     node : Keys(request.concepts) \cup {None},
                     seen : Seq(Keys(request.concepts)),
                     cycles : SUBSET Keys(request.concepts)]
    BY <1>1
<1>5. progress'.cycles = {} /\ progress'.node = None
    BY <1>1
<1>6. WalkCourse'
    BY <1>1, <1>3, <1>4, <1>5 DEF WalkCourse
<1>7. QED  BY <1>2, <1>6 DEF WalkInv

LEMMA WalkBegins ==
    ASSUME WalkInv, NextWalk
    PROVE  WalkInv'
<1> DEFINE concepts == request.concepts
           key == CHOOSE k \in progress.todo : TRUE
<1>1. /\ request' = request /\ stage' = stage /\ result' = result /\ stage = "walking"
      /\ progress.node = None /\ progress.todo # {}
      /\ progress' = [progress EXCEPT !.todo = @ \ {key}, !.node = key, !.seen = <<>>]
    BY DEF NextWalk
<1>2. WalkStages'
    BY <1>1 DEF WalkInv, WalkStages
<1>3. request.op = "definition" /\ concepts \in Seq(Concept)
    BY <1>1, AskedConcepts DEF WalkInv, WalkStages
<1>4. key \in progress.todo
    BY <1>1
<1> HIDE DEF key
<1>5. SUFFICES ASSUME Unique(concepts)
               PROVE  WalkCourse'
    BY <1>1, <1>2, <1>3 DEF WalkInv, WalkCourse
<1>6. /\ progress \in [parent : {ParentEdges(concepts)},
                       todo : SUBSET DOMAIN ParentEdges(concepts),
                       node : Keys(concepts) \cup {None},
                       seen : Seq(Keys(concepts)),
                       cycles : SUBSET Keys(concepts)]
      /\ progress.cycles = Endless(concepts) \cap Walked
    BY <1>1, <1>3, <1>5 DEF WalkInv, WalkCourse
<1>7. key \in DOMAIN ParentEdges(concepts) /\ key \in Keys(concepts) /\ key # None
    BY <1>3, <1>4, <1>5, <1>6, KeysAreNames
<1>8. Walked' = Walked \cup {key} /\ key \notin Walked
    BY <1>1, <1>4, <1>6, <1>7 DEF Walked
<1>9. /\ progress' \in [parent : {ParentEdges(concepts)},
                        todo : SUBSET DOMAIN ParentEdges(concepts),
                        node : Keys(concepts) \cup {None},
                        seen : Seq(Keys(concepts)),
                        cycles : SUBSET Keys(concepts)]
      /\ progress'.node = key /\ progress'.seen = <<>> /\ progress'.cycles = progress.cycles
  <2> DEFINE P == ParentEdges(concepts)
             K == Keys(concepts)
  <2>1. progress \in [parent : {P}, todo : SUBSET DOMAIN P, node : K \cup {None},
                      seen : Seq(K), cycles : SUBSET K]
      BY <1>6
  <2>2. key \in K
      BY <1>7
  <2> HIDE DEF P, K
  <2>3. /\ progress' \in [parent : {P}, todo : SUBSET DOMAIN P, node : K \cup {None},
                          seen : Seq(K), cycles : SUBSET K]
        /\ progress'.node = key /\ progress'.seen = <<>> /\ progress'.cycles = progress.cycles
    <3>1. /\ progress.todo \in SUBSET DOMAIN P /\ progress.cycles \in SUBSET K
          /\ progress.parent = P
        BY <2>1
    <3>2. progress' = [parent |-> progress.parent, todo |-> progress.todo \ {key},
                       node |-> key, seen |-> <<>>, cycles |-> progress.cycles]
        BY <1>1, <2>1
    <3>3. <<>> \in Seq(K) /\ progress.todo \ {key} \in SUBSET DOMAIN P
        BY <3>1
    <3>4. QED  BY <2>2, <3>1, <3>2, <3>3
  <2>4. QED  BY <2>3 DEF P, K
<1>10. Trail(concepts, key, Append(progress'.seen, progress'.node))
  <2>1. Append(progress'.seen, progress'.node) = <<key>>
      BY <1>9
  <2>2. QED  BY <1>7, <2>1, TrailBegins
<1>11. progress'.cycles = Endless(concepts) \cap (Walked' \ {key})
    BY <1>6, <1>8, <1>9
<1>12. key \in Walked'
    BY <1>8
<1>13. QED  BY <1>1, <1>7, <1>9, <1>10, <1>11, <1>12 DEF WalkCourse

LEMMA WalkGoes ==
    ASSUME WalkInv, Walk
    PROVE  WalkInv'
<1> DEFINE concepts == request.concepts
           parent == ParentEdges(concepts)
           node == progress.node
           seen == progress.seen
           trail == Append(seen, node)
<1>1. request' = request /\ stage' = stage /\ result' = result /\ stage = "walking" /\ node # None
    BY DEF Walk
<1>2. WalkStages'
    BY <1>1 DEF WalkInv, WalkStages
<1>3. request.op = "definition" /\ concepts \in Seq(Concept)
    BY <1>1, AskedConcepts DEF WalkInv, WalkStages
<1>4. SUFFICES ASSUME Unique(concepts)
               PROVE  WalkCourse'
    BY <1>1, <1>2, <1>3 DEF WalkInv, WalkCourse
<1>5. progress \in [parent : {parent}, todo : SUBSET DOMAIN parent,
                    node : Keys(concepts) \cup {None}, seen : Seq(Keys(concepts)),
                    cycles : SUBSET Keys(concepts)]
    BY <1>1, <1>3, <1>4 DEF WalkInv, WalkCourse
<1>6. PICK key \in Walked :
          Trail(concepts, key, trail) /\ progress.cycles = Endless(concepts) \cap (Walked \ {key})
    BY <1>1, <1>3, <1>4 DEF WalkInv, WalkCourse
<1>7. node \in Keys(concepts) /\ seen \in Seq(Keys(concepts)) /\ progress.parent = parent
    BY <1>1, <1>5
<1>8. /\ Len(trail) = Len(seen) + 1 /\ trail[Len(seen) + 1] = node /\ Len(seen) \in Nat
      /\ \A k \in 1 .. Len(seen) : trail[k] = seen[k]
    BY <1>7
<1>9. key \in Keys(concepts)
    BY <1>3, <1>4, <1>6, KeysAreNames DEF Walked
<1>10. None \notin Keys(concepts)
    BY <1>3, <1>4, KeysAreNames
<1>11. CASE node \notin DOMAIN parent
  <2>1. progress' = [progress EXCEPT !.node = None]
      BY <1>7, <1>11 DEF Walk
  <2>2. /\ progress' \in [parent : {parent}, todo : SUBSET DOMAIN parent,
                          node : Keys(concepts) \cup {None}, seen : Seq(Keys(concepts)),
                          cycles : SUBSET Keys(concepts)]
        /\ progress'.node = None /\ progress'.cycles = progress.cycles
        /\ progress'.todo = progress.todo
      BY <1>5, <2>1
  <2>3. Walked' = Walked
      BY <1>1, <2>2 DEF Walked
  <2>4. key \notin Endless(concepts)
    <3>1. trail[Len(trail)] \notin DOMAIN ParentEdges(concepts)
        BY <1>8, <1>11
    <3> HIDE DEF trail
    <3>2. QED  BY <1>3, <1>4, <1>6, <3>1, DeadEnd
  <2>5. progress'.cycles = Endless(concepts) \cap Walked'
      BY <1>6, <2>2, <2>3, <2>4
  <2>6. QED  BY <1>1, <2>2, <2>5 DEF WalkCourse
<1>12. CASE node \in DOMAIN parent /\ Met
  <2>1. progress' = [progress EXCEPT !.node = None, !.cycles = @ \cup {seen[1]}]
      BY <1>7, <1>12 DEF Walk
  <2>2. PICK k \in 1 .. Len(seen) : seen[k] = node
      BY <1>12 DEF Met, Contains
  <2>3. seen[1] = key
    <3>1. 1 \in 1 .. Len(seen)
        BY <1>8, <2>2
    <3>2. trail[1] = key
        BY <1>6 DEF Trail
    <3>3. QED  BY <1>8, <3>1, <3>2
  <2>4. /\ progress' \in [parent : {parent}, todo : SUBSET DOMAIN parent,
                          node : Keys(concepts) \cup {None}, seen : Seq(Keys(concepts)),
                          cycles : SUBSET Keys(concepts)]
        /\ progress'.node = None /\ progress'.cycles = progress.cycles \cup {key}
        /\ progress'.todo = progress.todo
      BY <1>5, <1>9, <2>1, <2>3
  <2>5. Walked' = Walked
      BY <1>1, <2>4 DEF Walked
  <2>6. key \in Endless(concepts)
    <3>1. k \in 1 .. Len(trail) - 1 /\ trail[k] = trail[Len(trail)]
        BY <1>8, <2>2
    <3> HIDE DEF trail
    <3>2. \E l \in 1 .. Len(trail) - 1 : trail[l] = trail[Len(trail)]
        BY <3>1
    <3>3. QED  BY <1>3, <1>4, <1>6, <3>2, BackAgain
  <2>7. progress'.cycles = Endless(concepts) \cap Walked'
      BY <1>6, <2>4, <2>5, <2>6
  <2>8. QED  BY <1>1, <2>4, <2>7 DEF WalkCourse
<1>13. CASE node \in DOMAIN parent /\ ~Met
  <2>1. progress' = [progress EXCEPT !.seen = Append(seen, node), !.node = parent[node]]
      BY <1>7, <1>13 DEF Walk
  <2>2. \A k \in 1 .. Len(seen) : seen[k] # node
      BY <1>13 DEF Met, Contains
  <2>3. parent[node] \in Keys(concepts)
      BY <1>3, <1>4, <1>13, ParentIsKey
  <2>4. trail \in Seq(Keys(concepts))
      BY <1>7
  <2>5. /\ progress' \in [parent : {parent}, todo : SUBSET DOMAIN parent,
                          node : Keys(concepts) \cup {None}, seen : Seq(Keys(concepts)),
                          cycles : SUBSET Keys(concepts)]
        /\ progress'.node = parent[node] /\ progress'.cycles = progress.cycles
        /\ progress'.todo = progress.todo /\ progress'.seen = trail
    <3> HIDE DEF parent
    <3>1. QED  BY <1>5, <2>1, <2>3, <2>4
  <2>6. Walked' = Walked
      BY <1>1, <2>5 DEF Walked
  <2>7. Trail(concepts, key, Append(progress'.seen, progress'.node))
    <3>1. Trail(concepts, key, Append(Append(seen, node), ParentEdges(concepts)[node]))
        BY <1>3, <1>4, <1>6, <1>7, <1>13, <2>2, TrailGoesOn
    <3>2. QED  BY <2>5, <3>1
  <2>8. progress'.cycles = Endless(concepts) \cap (Walked' \ {key}) /\ key \in Walked'
      BY <1>6, <2>5, <2>6
  <2>9. progress'.node # None
      BY <1>10, <2>3, <2>5
  <2>10. QED  BY <1>1, <2>5, <2>7, <2>8, <2>9 DEF WalkCourse
<1>14. QED  BY <1>11, <1>12, <1>13

LEMMA WalksEnd ==
    ASSUME WalkInv, EndWalks
    PROVE  WalkInv'
<1> DEFINE concepts == request.concepts
<1>1. /\ request' = request /\ stage' = "done" /\ stage = "walking"
      /\ progress.node = None /\ progress.todo = {}
      /\ result'.cycles = progress.cycles
    BY DEF EndWalks
<1>2. WalkStages'
    BY <1>1 DEF WalkInv, WalkStages
<1>3. request.op = "definition" /\ concepts \in Seq(Concept)
    BY <1>1, AskedConcepts DEF WalkInv, WalkStages
<1>4. ASSUME Unique(concepts) PROVE result'.cycles = Endless(concepts)
  <2>1. progress.cycles = Endless(concepts) \cap Walked
      BY <1>1, <1>3, <1>4 DEF WalkInv, WalkCourse
  <2>2. Walked = DOMAIN ParentEdges(concepts)
      BY <1>1 DEF Walked
  <2>3. QED  BY <1>1, <1>3, <1>4, <2>1, <2>2, EndlessAreWalked
<1>5. QED  BY <1>1, <1>2, <1>3, <1>4 DEF WalkInv, WalkCourse

(* A definition in which every concept has a name of its own is found to   *)
(* have a cycle at exactly the names whose line of parents does not end:   *)
(* the check reports every cycle, and none that is not there.              *)
THEOREM CyclesAreFound == Spec => []FindsCycles
<1>1. Init => WalkInv
    BY DEF Init, WalkInv, WalkStages, WalkCourse
<1>2. WalkInv /\ [Next]_vars => WalkInv'
    BY OthersLeaveWalks, WalksBegin, WalkBegins, WalkGoes, WalksEnd
<1>3. WalkInv => FindsCycles
    BY DEF WalkInv, WalkCourse, FindsCycles, Unique, Endless
<1>4. QED  BY <1>1, <1>2, <1>3, PTL DEF Spec
=============================================================================
