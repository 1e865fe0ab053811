---------------------------- MODULE QueriesProofs ----------------------------
(***************************************************************************)
(* Proofs about the two searches of Queries, for every graph: any entities,*)
(* rows and relations, in any order.  Of neighbors, what each round has    *)
(* found.  Of paths, that no walk is lost: SearchInv and PathsInv.         *)
(***************************************************************************)
EXTENDS Queries, FiniteSetTheorems, WellFoundedInduction, TLAPS

(* The entities within a round and within two rounds of the source.        *)
Ring(centers) == {n \in Nodes : \E m \in centers : Linked(m, n)}
First == {Source} \cup Ring({Source})
Second == First \cup Ring(Ring({Source}))

(* The relations with one end among the centers, the other one active.     *)
Touching(centers) ==
    {i \in DOMAIN edges : \E n \in Nodes : \E m \in centers : edges[i] \in {<<m, n>>, <<n, m>>}}

NoRounds == pc = "start" => covered = {}

(* What the rounds that are over have found.                               *)
RoundsDone ==
    pc \in {"neighbors", "around"} =>
        /\ depth \in {1, 2} /\ left \in 0 .. depth
        /\ pc = "around" => left = 0
        /\ left = depth => /\ frontier = {Source} /\ reachable = {Source} /\ covered = {}
        /\ left = depth - 1 => /\ frontier = Ring({Source}) /\ reachable = First
                               /\ covered = Touching({Source})
        /\ left = depth - 2 => reachable = Second /\ covered = Touching(First)

RowsOK ==
    /\ edges \in Seq(Entity \X Entity)
    /\ Source \in Entity

SearchInv == RowsOK /\ NoRounds /\ RoundsDone

-----------------------------------------------------------------------------
(* A round reaches the ring around its frontier, over the relations that   *)
(* touch it.                                                               *)
LEMMA RoundReaches ==
    ASSUME RowsOK, frontier \subseteq Entity
    PROVE  /\ UNION {Reached(edges[i]) : i \in DOMAIN edges} = Ring(frontier)
           /\ {i \in DOMAIN edges : Reached(edges[i]) # {}} = Touching(frontier)
<1>1. ASSUME NEW i \in DOMAIN edges, NEW n
      PROVE  n \in Reached(edges[i]) <=>
                n \in Nodes /\ \E m \in frontier : edges[i] \in {<<m, n>>, <<n, m>>}
  <2>1. edges[i] \in Entity \X Entity
      BY DEF RowsOK
  <2>2. PICK a \in Entity, b \in Entity : edges[i] = <<a, b>>
      BY <2>1
  <2>3. edges[i][1] = a /\ edges[i][2] = b
      BY <2>2
  <2>4. \A m : edges[i] \in {<<m, n>>, <<n, m>>} <=> (a = m /\ b = n) \/ (a = n /\ b = m)
      BY <2>2
  <2>5. QED  BY <2>3, <2>4 DEF Reached
<1>2. UNION {Reached(edges[i]) : i \in DOMAIN edges} = Ring(frontier)
  <2>1. \A n : n \in UNION {Reached(edges[i]) : i \in DOMAIN edges}
                  <=> \E i \in DOMAIN edges : n \in Reached(edges[i])
      OBVIOUS
  <2>2. \A n : n \in Ring(frontier)
                  <=> n \in Nodes /\ \E i \in DOMAIN edges :
                          \E m \in frontier : edges[i] \in {<<m, n>>, <<n, m>>}
      BY DEF Ring, Linked
  <2>3. QED  BY <1>1, <2>1, <2>2
<1>3. {i \in DOMAIN edges : Reached(edges[i]) # {}} = Touching(frontier)
  <2>1. ASSUME NEW i \in DOMAIN edges
        PROVE  Reached(edges[i]) # {} <=> i \in Touching(frontier)
      BY <1>1 DEF Touching
  <2>2. QED  BY <2>1 DEF Touching
<1>4. QED  BY <1>2, <1>3

(* The reference by paths: the entities within no step, one or two.        *)
LEMMA NearNone ==
    ASSUME RowsOK
    PROVE  Near(0) = {Source}
<1>1. ASSUME NEW n \in Near(0) PROVE n = Source
  <2>1. PICK p \in Simple(n, 1) : TRUE
      BY DEF Near
  <2>2. PICK l \in 1 .. 1 : p \in [1 .. l -> Entity]
      BY <2>1 DEF Simple
  <2>3. p \in [1 .. 1 -> Entity]
      BY <2>2
  <2>4. Len(p) = 1
      BY <2>3
  <2>5. QED  BY <2>1, <2>4 DEF Simple
<1>2. Source \in Near(0)
  <2> DEFINE p == [i \in 1 .. 1 |-> Source]
  <2>1. p \in [1 .. 1 -> Entity] /\ Len(p) = 1 /\ p[1] = Source
      BY DEF RowsOK
  <2>2. IsInjective(p)
      BY DEF IsInjective
  <2>3. p \in Simple(Source, 1)
      BY <2>1, <2>2 DEF Simple
  <2>4. ToSet(p) = {Source}
      BY <2>1 DEF ToSet
  <2>5. QED  BY <2>3, <2>4 DEF Near, RowsOK
<1>3. QED  BY <1>1, <1>2

(* A step along a relation, from the source or from an entity next to it,  *)
(* is a simple path, or leads back to where a shorter one does.            *)
LEMMA StepIsPath ==
    ASSUME RowsOK, NEW n \in Nodes, n # Source, Linked(Source, n), NEW bound \in Nat, bound > 1
    PROVE  \E p \in Simple(n, bound) : ToSet(p) \ {Source} \subseteq Nodes
<1> DEFINE p == [i \in 1 .. 2 |-> IF i = 1 THEN Source ELSE n]
<1>1. p \in [1 .. 2 -> Entity] /\ Len(p) = 2 /\ p[1] = Source /\ p[2] = n /\ DOMAIN p = 1 .. 2
    BY DEF RowsOK, Nodes
<1> HIDE DEF p
<1>2. IsInjective(p)
    BY <1>1 DEF IsInjective
<1>3. \A i \in 1 .. Len(p) - 1 : Linked(p[i], p[i + 1])
    BY <1>1
<1>4. p \in UNION {[1 .. l -> Entity] : l \in 1 .. bound}
  <2>1. 2 \in 1 .. bound
      OBVIOUS
  <2>2. QED  BY <1>1, <2>1
<1>5. p \in Simple(n, bound)
    BY <1>1, <1>2, <1>3, <1>4 DEF Simple
<1>6. ToSet(p) \ {Source} \subseteq Nodes
    BY <1>1 DEF ToSet
<1>7. QED  BY <1>5, <1>6

LEMMA StepsArePath ==
    ASSUME RowsOK, NEW m \in Nodes, NEW n \in Nodes, m # Source, n # Source, m # n,
           Linked(Source, m), Linked(m, n)
    PROVE  \E p \in Simple(n, 3) : ToSet(p) \ {Source} \subseteq Nodes
<1> DEFINE p == [i \in 1 .. 3 |-> IF i = 1 THEN Source ELSE IF i = 2 THEN m ELSE n]
<1>1. /\ p \in [1 .. 3 -> Entity] /\ Len(p) = 3 /\ DOMAIN p = 1 .. 3
      /\ p[1] = Source /\ p[2] = m /\ p[3] = n
    BY DEF RowsOK, Nodes
<1> HIDE DEF p
<1>2. IsInjective(p)
    BY <1>1 DEF IsInjective
<1>3. \A i \in 1 .. Len(p) - 1 : Linked(p[i], p[i + 1])
    BY <1>1
<1>4. p \in UNION {[1 .. l -> Entity] : l \in 1 .. 3}
    BY <1>1
<1>5. p \in Simple(n, 3)
    BY <1>1, <1>2, <1>3, <1>4 DEF Simple
<1>6. ToSet(p) \ {Source} \subseteq Nodes
    BY <1>1 DEF ToSet
<1>7. QED  BY <1>5, <1>6

LEMMA SourceIsNear ==
    ASSUME RowsOK, NEW bound \in Nat \ {0}
    PROVE  \E p \in Simple(Source, bound) : ToSet(p) \ {Source} \subseteq Nodes
<1> DEFINE p == [i \in 1 .. 1 |-> Source]
<1>1. p \in [1 .. 1 -> Entity] /\ Len(p) = 1 /\ p[1] = Source /\ DOMAIN p = 1 .. 1
    BY DEF RowsOK
<1> HIDE DEF p
<1>2. IsInjective(p)
    BY <1>1 DEF IsInjective
<1>3. p \in UNION {[1 .. l -> Entity] : l \in 1 .. bound}
  <2>1. 1 \in 1 .. bound
      OBVIOUS
  <2>2. QED  BY <1>1, <2>1
<1>4. \A i \in 1 .. Len(p) - 1 : Linked(p[i], p[i + 1])
    BY <1>1
<1>5. p[Len(p)] = Source
    BY <1>1
<1>6. p \in Simple(Source, bound)
    BY <1>1, <1>2, <1>3, <1>4, <1>5 DEF Simple
<1>7. ToSet(p) \ {Source} \subseteq Nodes
    BY <1>1 DEF ToSet
<1>8. QED  BY <1>6, <1>7

(* What a simple path of up to three entities is.                          *)
LEMMA ShortPath ==
    ASSUME NEW n, NEW bound \in 1 .. 3, NEW p \in Simple(n, bound),
           ToSet(p) \ {Source} \subseteq Nodes
    PROVE  /\ n = Source \/ n \in Nodes
           /\ Len(p) \in 1 .. bound
           /\ Len(p) = 1 => n = Source
           /\ Len(p) = 2 => n \in Ring({Source})
           /\ Len(p) = 3 => n \in Ring(Ring({Source}))
<1>1. PICK l \in 1 .. bound : p \in [1 .. l -> Entity]
    BY DEF Simple
<1>2. Len(p) = l /\ DOMAIN p = 1 .. l /\ l \in 1 .. 3
    BY <1>1
<1>3. /\ p[1] = Source /\ p[l] = n /\ IsInjective(p)
      /\ \A i \in 1 .. l - 1 : Linked(p[i], p[i + 1])
    BY <1>2 DEF Simple
<1>4. \A i \in 1 .. l : p[i] = Source \/ p[i] \in Nodes
    BY <1>2 DEF ToSet
<1>5. \A i \in 1 .. l : i # 1 => p[i] \in Nodes
    BY <1>2, <1>3, <1>4 DEF IsInjective
<1>6. l = 2 => n \in Ring({Source})
    BY <1>3, <1>5 DEF Ring
<1>7. l = 3 => n \in Ring(Ring({Source}))
  <2> SUFFICES ASSUME l = 3 PROVE n \in Ring(Ring({Source}))
      OBVIOUS
  <2>1. Linked(p[1], p[2]) /\ Linked(p[2], p[3]) /\ p[2] \in Nodes /\ p[3] \in Nodes
      BY <1>3, <1>5
  <2>2. p[2] \in Ring({Source})
      BY <1>3, <2>1 DEF Ring
  <2>3. QED  BY <1>3, <2>1, <2>2 DEF Ring
<1>8. QED  BY <1>1, <1>2, <1>3, <1>4, <1>6, <1>7

LEMMA NearOne ==
    ASSUME RowsOK
    PROVE  Near(1) = First
<1>1. ASSUME NEW n \in Near(1) PROVE n \in First
  <2>1. PICK p \in Simple(n, 2) : ToSet(p) \ {Source} \subseteq Nodes
      BY DEF Near
  <2>2. /\ Len(p) \in 1 .. 2
        /\ Len(p) = 1 => n = Source
        /\ Len(p) = 2 => n \in Ring({Source})
        /\ Len(p) = 3 => n \in Ring(Ring({Source}))
    <3> DEFINE bound == 2
    <3>1. bound \in 1 .. 3 /\ p \in Simple(n, bound)
        BY <2>1
    <3> HIDE DEF bound
    <3>2. QED  BY <2>1, <3>1, ShortPath DEF bound
  <2>3. QED  BY <2>2 DEF First
<1>2. ASSUME NEW n \in First PROVE n \in Near(1)
  <2>1. n \in Entity
      BY DEF First, Ring, Nodes, RowsOK
  <2>2. \E p \in Simple(n, 2) : ToSet(p) \ {Source} \subseteq Nodes
    <3>1. CASE n = Source
        BY <3>1, SourceIsNear
    <3>2. CASE n # Source
        BY <3>2, StepIsPath DEF First, Ring
    <3>3. QED  BY <3>1, <3>2
  <2>3. QED  BY <2>1, <2>2 DEF Near
<1>3. QED  BY <1>1, <1>2

LEMMA NearTwo ==
    ASSUME RowsOK
    PROVE  Near(2) = Second
<1>1. ASSUME NEW n \in Near(2) PROVE n \in Second
  <2>1. PICK p \in Simple(n, 3) : ToSet(p) \ {Source} \subseteq Nodes
      BY DEF Near
  <2>2. /\ Len(p) \in 1 .. 3
        /\ Len(p) = 1 => n = Source
        /\ Len(p) = 2 => n \in Ring({Source})
        /\ Len(p) = 3 => n \in Ring(Ring({Source}))
    <3> DEFINE bound == 3
    <3>1. bound \in 1 .. 3 /\ p \in Simple(n, bound)
        BY <2>1
    <3> HIDE DEF bound
    <3>2. QED  BY <2>1, <3>1, ShortPath DEF bound
  <2>3. QED  BY <2>2 DEF First, Second
<1>2. ASSUME NEW n \in Second PROVE n \in Near(2)
  <2>1. n \in Entity
      BY DEF First, Second, Ring, Nodes, RowsOK
  <2>2. \E p \in Simple(n, 3) : ToSet(p) \ {Source} \subseteq Nodes
    <3>1. CASE n = Source
        BY <3>1, SourceIsNear
    <3>2. CASE n # Source /\ n \in Ring({Source})
        BY <3>2, StepIsPath DEF Ring
    <3>3. CASE n # Source /\ n \notin Ring({Source}) /\ n \in Ring(Ring({Source}))
      <4>1. PICK m \in Ring({Source}) : n \in Nodes /\ Linked(m, n)
          BY <3>3 DEF Ring
      <4>2. m \in Nodes /\ Linked(Source, m) /\ m # n
          BY <3>3 DEF Ring
      <4>3. m # Source
          BY <3>3, <4>1 DEF Ring
      <4>4. QED  BY <3>3, <4>1, <4>2, <4>3, StepsArePath
    <3>4. QED  BY <3>1, <3>2, <3>3 DEF First, Second
  <2>3. QED  BY <2>1, <2>2 DEF Near
<1>3. QED  BY <1>1, <1>2

-----------------------------------------------------------------------------
(* What the relations that touch the centers lead to.                      *)
LEMMA TouchingEnds ==
    ASSUME RowsOK, NEW centers \in SUBSET Entity, NEW i \in DOMAIN edges
    PROVE  /\ i \in Touching(centers) <=>
                 \E j, k \in {1, 2} : /\ j # k /\ edges[i][j] \in centers
                                      /\ edges[i][k] \in Nodes
           /\ i \in Touching(centers) => ToSet(edges[i]) \subseteq centers \cup Ring(centers)
<1>1. PICK a \in Entity, b \in Entity : edges[i] = <<a, b>>
  <2>1. edges[i] \in Entity \X Entity
      BY DEF RowsOK
  <2>2. QED  BY <2>1
<1>2. edges[i][1] = a /\ edges[i][2] = b /\ ToSet(edges[i]) = {a, b}
    BY <1>1 DEF ToSet
<1>3. i \in Touching(centers) <=> (a \in centers /\ b \in Nodes) \/ (b \in centers /\ a \in Nodes)
  <2>1. \A m, n : edges[i] \in {<<m, n>>, <<n, m>>} <=> (a = m /\ b = n) \/ (a = n /\ b = m)
      BY <1>1
  <2>2. QED  BY <2>1 DEF Touching
<1>4. (\E j, k \in {1, 2} : /\ j # k /\ edges[i][j] \in centers /\ edges[i][k] \in Nodes)
          <=> (a \in centers /\ b \in Nodes) \/ (b \in centers /\ a \in Nodes)
    BY <1>2
<1>5. Linked(a, b) /\ Linked(b, a)
    BY <1>1 DEF Linked
<1>6. i \in Touching(centers) => {a, b} \subseteq centers \cup Ring(centers)
    BY <1>3, <1>5 DEF Ring
<1>7. QED  BY <1>2, <1>3, <1>4, <1>6

LEMMA RingsAre ==
    ASSUME RowsOK
    PROVE  /\ {Source} \subseteq Entity /\ First \subseteq Entity
           /\ Ring({Source}) \subseteq Entity
           /\ First \cup Ring(First) = Second
           /\ Touching({Source}) \cup Touching(Ring({Source})) = Touching(First)
<1>1. \A centers : Ring(centers) \subseteq Entity
    BY DEF Ring, Nodes
<1>2. Ring(First) = Ring({Source}) \cup Ring(Ring({Source}))
    BY DEF Ring, First
<1>3. Touching({Source}) \cup Touching(Ring({Source})) = Touching(First)
    BY DEF Touching, First
<1>4. QED  BY <1>1, <1>2, <1>3 DEF First, Second, RowsOK

(* neighbors answers with the entities that simple paths of active         *)
(* entities lead to within its depth, the source included, with the        *)
(* relations that leave one short of that depth, and with both ends of     *)
(* each of them: for every graph, whichever way its relations point and    *)
(* however many of its rows are not active.                                *)
THEOREM NeighborhoodIsFound == Spec => []FindsNeighborhood
<1>1. Init => SearchInv
  <2> SUFFICES ASSUME Init PROVE SearchInv
      OBVIOUS
  <2>1. PICK m \in 0 .. MaxEdges : edges \in [1 .. m -> Candidate]
      BY DEF Init, BoundedSeq, SeqOf
  <2>2. edges \in Seq(Entity \X Entity)
    <3>1. edges \in [1 .. m -> Entity \X Entity] /\ m \in Nat
        BY <2>1, SearchAssumption
    <3>2. QED  BY <3>1
  <2>3. QED  BY <2>2, SearchAssumption DEF Init, SearchInv, RowsOK, NoRounds, RoundsDone
<1>2. SearchInv /\ [Next]_vars => SearchInv'
  <2> SUFFICES ASSUME SearchInv, [Next]_vars PROVE SearchInv'
      OBVIOUS
  <2>1. UNCHANGED <<status, edges, depth>>
      BY DEF Next, StartPaths, Keep, Prune, Follow, Answer, StartNeighbors, Round,
             AnswerNeighbors, Rest, rowVars, vars
  <2>2. RowsOK'
      BY <2>1 DEF SearchInv, RowsOK
  <2>3. Nodes' = Nodes
      BY <2>1 DEF Nodes
  <2>4. /\ First' = First /\ Second' = Second /\ Ring({Source})' = Ring({Source})
        /\ Touching({Source})' = Touching({Source}) /\ Touching(First)' = Touching(First)
      BY <2>1, <2>3 DEF First, Second, Ring, Touching, Linked
  <2>5. CASE StartNeighbors
    <3>1. /\ pc' = "neighbors" /\ depth \in {1, 2} /\ left' = depth
          /\ frontier' = {Source} /\ reachable' = {Source} /\ UNCHANGED covered
          /\ pc = "start"
        BY <2>5 DEF StartNeighbors
    <3>2. left' = depth' /\ left' # depth' - 1 /\ left' # depth' - 2 /\ left' \in 0 .. depth'
        BY <2>1, <3>1
    <3>3. covered' = {}
        BY <3>1 DEF SearchInv, NoRounds, RoundsDone
    <3>4. QED  BY <2>1, <2>2, <3>1, <3>2, <3>3 DEF SearchInv, NoRounds, RoundsDone
  <2>6. CASE Round
    <3>1. /\ pc = "neighbors" /\ UNCHANGED pc /\ left > 0 /\ left' = left - 1
          /\ frontier' = UNION {Reached(edges[i]) : i \in DOMAIN edges}
          /\ reachable' = reachable \cup frontier'
          /\ covered' = covered \cup {i \in DOMAIN edges : Reached(edges[i]) # {}}
        BY <2>6 DEF Round
    <3>2. depth \in {1, 2} /\ left \in 0 .. depth
        BY <3>1 DEF SearchInv, NoRounds, RoundsDone
    <3>3. CASE left = depth
      <4>1. frontier = {Source} /\ reachable = {Source} /\ covered = {}
          BY <3>1, <3>3 DEF SearchInv, NoRounds, RoundsDone
      <4>2. /\ frontier' = Ring({Source}) /\ reachable' = First
            /\ covered' = Touching({Source})
          BY <3>1, <4>1, RoundReaches DEF SearchInv, RowsOK, First
      <4>3. /\ left' = depth' - 1 /\ left' # depth' /\ left' # depth' - 2
            /\ depth' \in {1, 2} /\ left' \in 0 .. depth'
          BY <2>1, <3>1, <3>2, <3>3
      <4>4. QED  BY <2>2, <2>4, <3>1, <3>2, <4>2, <4>3 DEF SearchInv, NoRounds, RoundsDone
    <3>4. CASE left # depth
      <4>1. left = 1 /\ depth = 2
          BY <3>1, <3>2, <3>4
      <4>2. frontier = Ring({Source}) /\ reachable = First /\ covered = Touching({Source})
          BY <3>1, <4>1 DEF SearchInv, NoRounds, RoundsDone
      <4>3. frontier \subseteq Entity
          BY <4>2, RingsAre DEF SearchInv
      <4>4. frontier' = Ring(Ring({Source})) /\ covered' = Touching({Source}) \cup Touching(Ring({Source}))
          BY <3>1, <4>2, <4>3, RoundReaches DEF SearchInv
      <4>5. reachable' = Second /\ covered' = Touching(First)
          BY <3>1, <4>2, <4>4, RingsAre DEF SearchInv, Second
      <4>6. left' = 0 /\ depth' = 2
          BY <2>1, <3>1, <4>1
      <4>7. QED  BY <2>2, <2>4, <3>1, <4>5, <4>6 DEF SearchInv, NoRounds, RoundsDone
    <3>5. QED  BY <3>3, <3>4
  <2>7. CASE AnswerNeighbors
    <3>1. /\ pc = "neighbors" /\ pc' = "around" /\ left = 0
          /\ UNCHANGED <<left, frontier, reachable, covered>>
        BY <2>7 DEF AnswerNeighbors, ringVars
    <3>2. NoRounds'
        BY <3>1 DEF NoRounds
    <3>3. RoundsDone'
        BY <2>1, <2>4, <3>1 DEF SearchInv, RoundsDone
    <3>4. QED  BY <2>2, <3>2, <3>3 DEF SearchInv
  <2>8. CASE StartPaths \/ Keep \/ Prune \/ Follow \/ Answer
    <3>1. pc' \in {"paths", "answered", "raised"}
        BY <2>8 DEF StartPaths, Keep, Prune, Follow, Answer
    <3>2. QED  BY <2>2, <3>1 DEF SearchInv, NoRounds, RoundsDone
  <2>9. CASE UNCHANGED vars
    <3>1. UNCHANGED <<pc, left, frontier, reachable, covered>>
        BY <2>9 DEF vars, ringVars
    <3>2. NoRounds'
        BY <3>1 DEF SearchInv, NoRounds
    <3>3. RoundsDone'
        BY <2>1, <2>4, <3>1 DEF SearchInv, RoundsDone
    <3>4. QED  BY <2>2, <3>2, <3>3 DEF SearchInv
  <2>10. QED
      BY <2>5, <2>6, <2>7, <2>8, <2>9 DEF Next, Rest
<1>3. SearchInv => FindsNeighborhood
  <2> SUFFICES ASSUME SearchInv, pc = "around" PROVE
               /\ reachable = Near(depth)
               /\ \A i \in DOMAIN edges :
                     i \in covered <=>
                         \E j, k \in {1, 2} : /\ j # k /\ edges[i][j] \in Near(depth - 1)
                                              /\ edges[i][k] \in Nodes
               /\ \A i \in covered : ToSet(edges[i]) \subseteq reachable
      BY DEF FindsNeighborhood
  <2>1. RowsOK /\ depth \in {1, 2} /\ left = 0
      BY DEF SearchInv, NoRounds, RoundsDone
  <2>2. \E centers \in SUBSET Entity :
            /\ centers = Near(depth - 1) /\ covered = Touching(centers)
            /\ reachable = Near(depth) /\ reachable = centers \cup Ring(centers)
    <3>1. CASE depth = 1
      <4>1. depth - 1 = 0 /\ reachable = First /\ covered = Touching({Source})
          BY <2>1, <3>1 DEF SearchInv, NoRounds, RoundsDone
      <4>2. {Source} = Near(depth - 1) /\ First = Near(depth)
          BY <2>1, <3>1, <4>1, NearNone, NearOne
      <4>3. QED  BY <2>1, <4>1, <4>2, RingsAre DEF First
    <3>2. CASE depth = 2
      <4>1. depth - 1 = 1 /\ reachable = Second /\ covered = Touching(First)
          BY <2>1, <3>2 DEF SearchInv, NoRounds, RoundsDone
      <4>2. First = Near(depth - 1) /\ Second = Near(depth)
          BY <2>1, <3>2, <4>1, NearOne, NearTwo
      <4>3. QED  BY <2>1, <4>1, <4>2, RingsAre
    <3>3. QED  BY <2>1, <3>1, <3>2
  <2>3. PICK centers \in SUBSET Entity :
            /\ centers = Near(depth - 1) /\ covered = Touching(centers)
            /\ reachable = Near(depth) /\ reachable = centers \cup Ring(centers)
      BY <2>2
  <2>4. covered \subseteq DOMAIN edges
      BY <2>3 DEF Touching
  <2>5. QED  BY <2>1, <2>3, <2>4, TouchingEnds
<1>4. QED  BY <1>1, <1>2, <1>3, PTL DEF Spec

-----------------------------------------------------------------------------
(* The searches of paths.  First the lists that they are made of.          *)
LEMMA LeastNumber ==
    ASSUME NEW T \in SUBSET Nat, T # {}
    PROVE  \E n \in T : \A m \in T : n <= m
<1> DEFINE R == OpToRel(<, Nat)
<1>1. R = {pair \in Nat \X Nat : pair[1] < pair[2]}
    BY Zenon DEF OpToRel
<1>2. IsWellFoundedOn(R, Nat)
    BY Zenon, NatLessThanWellFounded
<1> HIDE DEF R
<1>3. PICK n \in T : \A m \in T : ~(<<m, n>> \in R)
    BY <1>2, WFMin
<1>4. ASSUME NEW m \in T PROVE n <= m
  <2>1. m < n => <<m, n>> \in R
      BY <1>1
  <2>2. ~(m < n)
      BY <1>3, <2>1
  <2>3. QED  BY <2>2
<1>5. QED  BY <1>4

LEMMA FrontIs ==
    ASSUME NEW S, NEW s \in Seq(S), s # <<>>
    PROVE  /\ Len(s) \in Nat \ {0} /\ Last(s) = s[Len(s)] /\ Last(s) \in S
           /\ Front(s) \in Seq(S) /\ Len(Front(s)) = Len(s) - 1
           /\ \A i \in 1 .. Len(s) - 1 : Front(s)[i] = s[i]
<1> DEFINE n == Len(s)
<1>1. n \in Nat \ {0} /\ \A i \in 1 .. n : s[i] \in S
    OBVIOUS
<1>2. Front(s) = SubSeq(s, 1, n - 1) /\ Last(s) = s[n]
    BY DEF Front, Last
<1> HIDE DEF n
<1>3. Front(s) = [i \in 1 .. n - 1 |-> s[i]]
  <2>1. SubSeq(s, 1, n - 1) = [i \in 1 .. (n - 1) - 1 + 1 |-> s[i + 1 - 1]]
      BY <1>1
  <2>2. QED  BY <1>1, <1>2, <2>1
<1>4. Front(s) \in [1 .. n - 1 -> S]
    BY <1>1, <1>3
<1>5. Front(s) \in Seq(S) /\ Len(Front(s)) = n - 1
    BY <1>1, <1>4
<1>6. QED  BY <1>1, <1>2, <1>3, <1>5 DEF n

LEMMA ConcatIs ==
    ASSUME NEW S, NEW s \in Seq(S), NEW t \in Seq(S)
    PROVE  /\ s \o t \in Seq(S) /\ Len(s \o t) = Len(s) + Len(t)
           /\ \A i \in 1 .. Len(s) : (s \o t)[i] = s[i]
           /\ \A i \in 1 .. Len(t) : (s \o t)[Len(s) + i] = t[i]
           /\ ToSet(s \o t) = ToSet(s) \cup ToSet(t)
<1>1. /\ s \o t \in Seq(S) /\ Len(s \o t) = Len(s) + Len(t)
      /\ Len(s) \in Nat /\ Len(t) \in Nat
      /\ DOMAIN s = 1 .. Len(s) /\ DOMAIN t = 1 .. Len(t)
      /\ DOMAIN (s \o t) = 1 .. Len(s) + Len(t)
    OBVIOUS
<1>2. \A i \in 1 .. Len(s) : (s \o t)[i] = s[i]
    OBVIOUS
<1>3. \A i \in 1 .. Len(t) : (s \o t)[Len(s) + i] = t[i]
    OBVIOUS
<1>4. ASSUME NEW x \in ToSet(s \o t) PROVE x \in ToSet(s) \cup ToSet(t)
  <2>1. PICK i \in 1 .. Len(s) + Len(t) : x = (s \o t)[i]
      BY <1>1 DEF ToSet
  <2>2. CASE i <= Len(s)
      BY <1>1, <1>2, <2>1, <2>2 DEF ToSet
  <2>3. CASE i > Len(s)
    <3>1. i - Len(s) \in 1 .. Len(t) /\ Len(s) + (i - Len(s)) = i
        BY <1>1, <2>3
    <3>2. x = t[i - Len(s)]
        BY <1>3, <2>1, <3>1
    <3>3. QED  BY <1>1, <3>1, <3>2 DEF ToSet
  <2>4. QED  BY <1>1, <2>2, <2>3
<1>5. ASSUME NEW x \in ToSet(s) PROVE x \in ToSet(s \o t)
  <2>1. PICK i \in 1 .. Len(s) : x = s[i]
      BY <1>1 DEF ToSet
  <2>2. i \in 1 .. Len(s) + Len(t) /\ x = (s \o t)[i]
      BY <1>1, <1>2, <2>1
  <2>3. QED  BY <1>1, <2>2 DEF ToSet
<1>6. ASSUME NEW x \in ToSet(t) PROVE x \in ToSet(s \o t)
  <2>1. PICK i \in 1 .. Len(t) : x = t[i]
      BY <1>1 DEF ToSet
  <2>2. Len(s) + i \in 1 .. Len(s) + Len(t) /\ x = (s \o t)[Len(s) + i]
      BY <1>1, <1>3, <2>1
  <2>3. QED  BY <1>1, <2>2 DEF ToSet
<1>7. QED  BY <1>1, <1>2, <1>3, <1>4, <1>5, <1>6

(* A list that grows by what each number adds to it exists.                *)
LEMMA GrownListExists ==
    ASSUME NEW n \in Nat, NEW ends
    PROVE  \E f : f = [i \in 0 .. n |-> IF i = 0 THEN <<>> ELSE f[i - 1] \o ends[i]]
<1> DEFINE UpTo(m) == \E f : f = [i \in 0 .. m |-> IF i = 0 THEN <<>> ELSE f[i - 1] \o ends[i]]
           bad == {m \in 0 .. n : ~UpTo(m)}
<1>1. UpTo(0)
  <2> DEFINE f == [i \in 0 .. 0 |-> <<>>]
             g == [i \in 0 .. 0 |-> IF i = 0 THEN <<>> ELSE f[i - 1] \o ends[i]]
  <2>1. \A i \in 0 .. 0 : f[i] = g[i]
      OBVIOUS
  <2>2. f = g
      BY <2>1
  <2> HIDE DEF f
  <2>3. QED  BY <2>2
<1>2. ASSUME NEW m \in 1 .. n, UpTo(m - 1) PROVE UpTo(m)
  <2>1. PICK f : f = [i \in 0 .. m - 1 |-> IF i = 0 THEN <<>> ELSE f[i - 1] \o ends[i]]
      BY <1>2
  <2> DEFINE g == [i \in 0 .. m |-> IF i = m THEN f[m - 1] \o ends[m] ELSE f[i]]
             h == [i \in 0 .. m |-> IF i = 0 THEN <<>> ELSE g[i - 1] \o ends[i]]
  <2>2. ASSUME NEW i \in 0 .. m PROVE g[i] = h[i]
    <3>1. i # 0 => i - 1 \in 0 .. m - 1 /\ i - 1 # m /\ g[i - 1] = f[i - 1]
        OBVIOUS
    <3>2. i # m => i \in 0 .. m - 1
        OBVIOUS
    <3>3. i # m => f[i] = IF i = 0 THEN <<>> ELSE f[i - 1] \o ends[i]
        BY <2>1, <3>2
    <3>4. CASE i = m
      <4>1. g[m] = f[m - 1] \o ends[m] /\ m # 0
          OBVIOUS
      <4>2. h[m] = g[m - 1] \o ends[m]
        <5> HIDE DEF g
        <5>1. h[m] = IF m = 0 THEN <<>> ELSE g[m - 1] \o ends[m]
            OBVIOUS
        <5>2. QED  BY <4>1, <5>1
      <4>3. g[m - 1] = f[m - 1]
          BY <3>1, <3>4, <4>1
      <4> HIDE DEF g, h
      <4>4. QED  BY <3>4, <4>1, <4>2, <4>3
    <3>5. CASE i # m
      <4>1. g[i] = f[i]
          BY <3>5
      <4>2. h[i] = IF i = 0 THEN <<>> ELSE g[i - 1] \o ends[i]
          OBVIOUS
      <4>3. QED  BY <3>1, <3>3, <3>5, <4>1, <4>2
    <3>6. QED  BY <3>4, <3>5
  <2>3. g = h
      BY <2>2
  <2> HIDE DEF g
  <2>4. QED  BY <2>3
<1> HIDE DEF UpTo
<1>3. bad = {}
  <2>1. SUFFICES ASSUME bad # {} PROVE FALSE
      OBVIOUS
  <2>2. bad \in SUBSET Nat
      OBVIOUS
  <2>3. PICK m \in bad : \A k \in bad : m <= k
    <3> HIDE DEF bad
    <3>1. QED  BY <2>1, <2>2, LeastNumber
  <2>4. m \in 1 .. n /\ ~UpTo(m) /\ m - 1 \in 0 .. n
      BY <1>1, <2>3
  <2>5. UpTo(m - 1)
      BY <2>3, <2>4
  <2>6. QED  BY <1>2, <2>4, <2>5
<1>4. UpTo(n)
    BY <1>3
<1>5. QED  BY <1>4 DEF UpTo

(* The neighbours that a path is followed to: the ones that a relation     *)
(* links to its end, in one direction or the other, and that are not on it.*)
LEMMA FreshIs ==
    ASSUME RowsOK, path \in Seq(Entity)
    PROVE  /\ Fresh \in Seq(Entity)
           /\ \A m : m \in ToSet(Fresh) <=> m \notin ToSet(path) /\ Linked(current, m)
<1> DEFINE End(here, there) ==
               IF here = current /\ there \notin ToSet(path) THEN <<there>> ELSE <<>>
           list[i \in 0 .. Len(edges)] ==
               IF i = 0 THEN <<>>
               ELSE list[i - 1] \o (End(edges[i][1], edges[i][2])
                                      \o End(edges[i][2], edges[i][1]))
           n == Len(edges)
           ends == [i \in 1 .. n |-> End(edges[i][1], edges[i][2])
                                         \o End(edges[i][2], edges[i][1])]
<1>1. Fresh = list[n]
    BY DEF Fresh
<1>2. n \in Nat /\ DOMAIN edges = 1 .. n
    BY DEF RowsOK
<1>3. ASSUME NEW i \in 1 .. n
      PROVE  /\ End(edges[i][1], edges[i][2]) \in Seq(Entity)
             /\ End(edges[i][2], edges[i][1]) \in Seq(Entity)
             /\ \A m : m \in ToSet(ends[i]) <=>
                          m \notin ToSet(path) /\ edges[i] \in {<<current, m>>, <<m, current>>}
  <2>1. PICK a \in Entity, b \in Entity : edges[i] = <<a, b>>
    <3>1. edges[i] \in Entity \X Entity
        BY <1>2 DEF RowsOK
    <3>2. QED  BY <3>1
  <2>2. edges[i][1] = a /\ edges[i][2] = b
      BY <2>1
  <2>3. /\ End(a, b) \in Seq(Entity) /\ End(b, a) \in Seq(Entity)
        /\ ToSet(End(a, b)) = {m \in {b} : a = current /\ m \notin ToSet(path)}
        /\ ToSet(End(b, a)) = {m \in {a} : b = current /\ m \notin ToSet(path)}
      BY DEF ToSet
  <2> DEFINE s == End(a, b)
             t == End(b, a)
  <2>4. ends[i] = s \o t
      BY <2>2
  <2> HIDE DEF ends
  <2>5. ToSet(ends[i]) = ToSet(s) \cup ToSet(t)
    <3>1. s \in Seq(Entity) /\ t \in Seq(Entity)
        BY <2>3
    <3> HIDE DEF s, t
    <3>2. QED  BY <2>4, <3>1, ConcatIs
  <2> HIDE DEF End
  <2>6. \A m : edges[i] \in {<<current, m>>, <<m, current>>} <=>
                  (a = current /\ b = m) \/ (a = m /\ b = current)
      BY <2>1
  <2>7. \A m : m \in ToSet(ends[i]) <=>
                  \/ m = b /\ a = current /\ m \notin ToSet(path)
                  \/ m = a /\ b = current /\ m \notin ToSet(path)
      BY <2>3, <2>5 DEF s, t
  <2>8. QED  BY <2>2, <2>3, <2>6, <2>7
<1>4. PICK f : f = [i \in 0 .. n |-> IF i = 0 THEN <<>> ELSE f[i - 1] \o ends[i]]
  <2> HIDE DEF n, ends
  <2>1. QED  BY <1>2, GrownListExists
<1>5. f = [i \in 0 .. Len(edges) |->
              IF i = 0 THEN <<>>
              ELSE f[i - 1] \o (End(edges[i][1], edges[i][2])
                                  \o End(edges[i][2], edges[i][1]))]
  <2> DEFINE g == [i \in 0 .. Len(edges) |->
                      IF i = 0 THEN <<>>
                      ELSE f[i - 1] \o (End(edges[i][1], edges[i][2])
                                          \o End(edges[i][2], edges[i][1]))]
             h == [i \in 0 .. n |-> IF i = 0 THEN <<>> ELSE f[i - 1] \o ends[i]]
  <2>1. ASSUME NEW i \in 0 .. n PROVE g[i] = h[i]
      OBVIOUS
  <2>2. g = h
      BY <2>1
  <2>3. f = h
      BY <1>4
  <2> HIDE DEF g, h
  <2>4. f = g
      BY <2>2, <2>3
  <2>5. QED  BY <2>4 DEF g
<1>6. list = [i \in 0 .. Len(edges) |->
                 IF i = 0 THEN <<>>
                 ELSE list[i - 1] \o (End(edges[i][1], edges[i][2])
                                        \o End(edges[i][2], edges[i][1]))]
    BY <1>5, Zenon
<1> HIDE DEF list
<1> DEFINE Right(i) ==
               /\ list[i] \in Seq(Entity)
               /\ \A m : m \in ToSet(list[i]) <=>
                            /\ m \notin ToSet(path)
                            /\ \E j \in 1 .. i : edges[j] \in {<<current, m>>, <<m, current>>}
           bad == {i \in 0 .. n : ~Right(i)}
<1>7. Right(0)
  <2>1. list[0] = <<>> /\ 1 .. 0 = {}
      BY <1>2, <1>6
  <2>2. <<>> \in Seq(Entity) /\ ToSet(<<>>) = {}
      BY DEF ToSet
  <2>3. QED  BY <2>1, <2>2
<1>8. ASSUME NEW i \in 1 .. n, Right(i - 1) PROVE Right(i)
  <2> DEFINE s == list[i - 1]
             t == ends[i]
  <2>1. t \in Seq(Entity)
    <3> DEFINE a == End(edges[i][1], edges[i][2])
               b == End(edges[i][2], edges[i][1])
    <3>1. a \in Seq(Entity) /\ b \in Seq(Entity) /\ t = a \o b
        BY <1>3
    <3> HIDE DEF a, b, t
    <3>2. QED  BY <3>1, ConcatIs
  <2>2. list[i] = s \o t
    <3>1. i \in 0 .. Len(edges) /\ i # 0
        BY <1>2
    <3> HIDE DEF End
    <3>2. list[i] = IF i = 0 THEN <<>>
                    ELSE list[i - 1] \o (End(edges[i][1], edges[i][2])
                                           \o End(edges[i][2], edges[i][1]))
        BY <1>6, <3>1
    <3> USE DEF End
    <3>3. QED  BY <3>1, <3>2
  <2>3. list[i] \in Seq(Entity) /\ ToSet(list[i]) = ToSet(s) \cup ToSet(t)
    <3>1. s \in Seq(Entity)
        BY <1>8
    <3> HIDE DEF s, t
    <3>2. QED  BY <2>1, <2>2, <3>1, ConcatIs
  <2>4. \A m : m \in ToSet(t) <=>
                  m \notin ToSet(path) /\ edges[i] \in {<<current, m>>, <<m, current>>}
      BY <1>3
  <2>5. \A j : j \in 1 .. i <=> j \in 1 .. i - 1 \/ j = i
      BY <1>2
  <2> HIDE DEF t
  <2>6. QED  BY <1>8, <2>3, <2>4, <2>5
<1>9. bad = {}
  <2>1. SUFFICES ASSUME bad # {} PROVE FALSE
      OBVIOUS
  <2> HIDE DEF Right
  <2>2. bad \in SUBSET Nat
      BY <1>2
  <2>3. PICK i \in bad : \A k \in bad : i <= k
    <3> HIDE DEF bad
    <3>1. QED  BY <2>1, <2>2, LeastNumber
  <2>4. i \in 1 .. n /\ ~Right(i) /\ i - 1 \in 0 .. n
      BY <1>2, <1>7, <2>3
  <2>5. Right(i - 1)
      BY <2>3, <2>4
  <2>6. QED  BY <1>8, <2>4, <2>5
<1>10. Right(n)
  <2> HIDE DEF Right
  <2>1. QED  BY <1>2, <1>9
<1>11. QED  BY <1>1, <1>2, <1>10 DEF Linked

(* The stable sort returns the paths it is given, shorter ones first.      *)
LEMMA SortedIs ==
    ASSUME NEW S, NEW paths \in Seq(Seq(S))
    PROVE  /\ ByLength(paths) \in Seq(Seq(S)) /\ Len(ByLength(paths)) = Len(paths)
           /\ ToSet(ByLength(paths)) = ToSet(paths)
           /\ \A k, l \in 1 .. Len(paths) :
                 k < l => Len(ByLength(paths)[k]) <= Len(ByLength(paths)[l])
<1> DEFINE n == Len(paths)
           places == 1 .. n
           Ahead(j) == {i \in places : Earlier(paths, i, j)}
           Rank(j) == Cardinality(Ahead(j))
<1>1. n \in Nat /\ DOMAIN paths = places /\ \A i \in places : i \in Int /\ Len(paths[i]) \in Int
    OBVIOUS
<1>2. IsFiniteSet(places) /\ Cardinality(places) = n
  <2> HIDE DEF n
  <2>1. QED  BY <1>1, FS_Interval
<1> HIDE DEF n, places
<1>3. ASSUME NEW j \in places
      PROVE  /\ IsFiniteSet(Ahead(j)) /\ j \notin Ahead(j)
             /\ Rank(j) \in Nat /\ Rank(j) < n
  <2> DEFINE ahead == Ahead(j)
  <2>1. ahead \in SUBSET places /\ j \notin ahead
      BY <1>1 DEF Earlier
  <2> HIDE DEF ahead
  <2>2. /\ IsFiniteSet(ahead) /\ Cardinality(ahead) <= Cardinality(places)
        /\ Cardinality(places) = Cardinality(ahead) => places = ahead
      BY <1>2, <2>1, FS_Subset
  <2>3. Cardinality(ahead) \in Nat
      BY <2>2, FS_CardinalityType
  <2>4. Cardinality(ahead) < n
      BY <1>1, <1>2, <2>1, <2>2, <2>3
  <2>5. QED  BY <2>1, <2>2, <2>3, <2>4 DEF ahead
<1>4. ASSUME NEW j \in places, NEW k \in places, Earlier(paths, j, k)
      PROVE  Rank(j) < Rank(k)
  <2> DEFINE less == Ahead(j)
             more == Ahead(k)
  <2>1. less \in SUBSET more /\ j \in more /\ j \notin less
    <3>1. \A i \in places : Earlier(paths, i, j) => Earlier(paths, i, k)
        BY <1>1, <1>4 DEF Earlier
    <3>2. QED  BY <1>3, <1>4, <3>1
  <2>2. /\ IsFiniteSet(more) /\ Cardinality(less) \in Nat /\ Cardinality(more) \in Nat
      BY <1>3
  <2> HIDE DEF less, more
  <2>3. Cardinality(less) <= Cardinality(more) /\ Cardinality(more) # Cardinality(less)
      BY <2>1, <2>2, FS_Subset
  <2>4. Cardinality(less) < Cardinality(more)
      BY <2>2, <2>3
  <2>5. QED  BY <2>4 DEF less, more
<1>5. ASSUME NEW j \in places, NEW k \in places, j # k
      PROVE  Earlier(paths, j, k) \/ Earlier(paths, k, j)
    BY <1>1, <1>5 DEF Earlier
<1>6. \A j \in places : Rank(j) \in Nat /\ Rank(j) < n
    BY <1>3
<1>7. \A j, k \in places : Rank(j) = Rank(k) => j = k
  <2> SUFFICES ASSUME NEW j \in places, NEW k \in places, Rank(j) = Rank(k), j # k
               PROVE  FALSE
      OBVIOUS
  <2>1. Rank(j) < Rank(k) \/ Rank(k) < Rank(j)
      BY <1>4, <1>5
  <2>2. Rank(j) \in Nat /\ Rank(k) \in Nat
      BY <1>6
  <2> HIDE DEF Rank
  <2>3. QED  BY <2>1, <2>2
<1>8. ASSUME NEW k \in places PROVE \E j \in places : Rank(j) = k - 1
  <2> HIDE DEF Rank
  <2> DEFINE f == [j \in places |-> Rank(j) + 1]
  <2>1. places = 1 .. n
      BY DEF places
  <2>2. f \in [places -> places]
      BY <1>1, <1>6, <2>1
  <2>3. \A i, j \in places : f[i] = f[j] => i = j
      BY <1>6, <1>7
  <2>4. f \in Injection(places, places)
    <3> HIDE DEF f
    <3>1. QED  BY <2>2, <2>3 DEF Injection, IsInjective
  <2>5. f \in Surjection(places, places)
    <3> HIDE DEF f
    <3>1. QED  BY <1>2, <2>4, FS_Injection
  <2>6. PICK j \in places : f[j] = k
    <3> HIDE DEF f
    <3>1. QED  BY <2>5 DEF Surjection
  <2>7. Rank(j) + 1 = k /\ Rank(j) \in Nat
      BY <1>6, <2>6
  <2>8. QED  BY <2>7
<1> DEFINE Place(k) == CHOOSE j \in places : Rank(j) = k - 1
<1>9. ASSUME NEW k \in places PROVE Place(k) \in places /\ Rank(Place(k)) = k - 1
  <2> HIDE DEF Rank
  <2>1. QED  BY <1>8
<1>10. ByLength(paths) = [k \in places |-> paths[Place(k)]]
    BY <1>1 DEF ByLength
<1> HIDE DEF Place, Ahead, Rank
<1>11. ByLength(paths) \in [places -> Seq(S)]
  <2>1. \A i \in places : paths[i] \in Seq(S)
      BY DEF places, n
  <2>2. QED  BY <1>9, <1>10, <2>1
<1>12. /\ ByLength(paths) \in Seq(Seq(S)) /\ Len(ByLength(paths)) = n
       /\ DOMAIN ByLength(paths) = places
    BY <1>1, <1>11 DEF places
<1>13. ToSet(ByLength(paths)) = ToSet(paths)
  <2>1. ASSUME NEW k \in places PROVE \E j \in places : ByLength(paths)[k] = paths[j]
      BY <1>9, <1>10
  <2>2. ASSUME NEW j \in places PROVE \E k \in places : ByLength(paths)[k] = paths[j]
    <3>1. Rank(j) \in Nat /\ Rank(j) < n
        BY <1>6
    <3>2. Rank(j) + 1 \in places /\ (Rank(j) + 1) - 1 = Rank(j)
        BY <1>1, <3>1 DEF places
    <3>3. Place(Rank(j) + 1) = j
        BY <1>7, <1>9, <3>2
    <3>4. QED  BY <1>10, <3>2, <3>3
  <2> DEFINE sorted == ByLength(paths)
  <2>3. \A k \in places : \E j \in places : sorted[k] = paths[j]
      BY <2>1
  <2>4. \A j \in places : \E k \in places : sorted[k] = paths[j]
      BY <2>2
  <2>5. DOMAIN sorted = places /\ DOMAIN paths = places
      BY <1>1, <1>12
  <2> HIDE DEF sorted
  <2>6. ToSet(sorted) = ToSet(paths)
      BY <2>3, <2>4, <2>5 DEF ToSet
  <2>7. QED  BY <2>6 DEF sorted
<1>14. ASSUME NEW k \in places, NEW l \in places, k < l
       PROVE  Len(ByLength(paths)[k]) <= Len(ByLength(paths)[l])
  <2>1. /\ Place(k) \in places /\ Rank(Place(k)) = k - 1
        /\ Place(l) \in places /\ Rank(Place(l)) = l - 1
      BY <1>9
  <2>2. k - 1 < l - 1 /\ ~(l - 1 < k - 1)
      BY <1>1, <1>14
  <2>3. ~Earlier(paths, Place(l), Place(k))
      BY <1>4, <2>1, <2>2
  <2>4. Len(paths[Place(k)]) <= Len(paths[Place(l)])
      BY <1>1, <2>1, <2>3 DEF Earlier
  <2>5. QED  BY <1>10, <2>4
<1>15. QED  BY <1>12, <1>13, <1>14 DEF places, n

(* The answer: the first of them.                                          *)
LEMMA AnswerIs ==
    ASSUME NEW S, NEW paths \in Seq(Seq(S)), NEW answer, answer = FirstAnswers(ByLength(paths))
    PROVE  /\ answer \in Seq(Seq(S)) /\ ToSet(answer) \subseteq ToSet(paths)
           /\ answer = <<>> => paths = <<>>
           /\ answer # <<>> => \A p \in ToSet(paths) : Len(answer[1]) <= Len(p)
           /\ Len(answer) < MaxAnswers => ToSet(answer) = ToSet(paths)
           /\ \A p \in ToSet(answer), q \in ToSet(paths) : Len(q) < Len(p) => q \in ToSet(answer)
<1> DEFINE list == ByLength(paths)
           n == Len(paths)
           m == IF n < MaxAnswers THEN n ELSE MaxAnswers
<1>1. /\ list \in Seq(Seq(S)) /\ Len(list) = n /\ ToSet(list) = ToSet(paths)
      /\ \A k, l \in 1 .. n : k < l => Len(list[k]) <= Len(list[l])
    BY SortedIs
<1>2. n \in Nat /\ MaxAnswers \in Nat \ {0}
    BY SearchAssumption
<1>3. answer = SubSeq(list, 1, m)
    BY <1>1 DEF FirstAnswers
<1> HIDE DEF list, n
<1>4. m \in Nat /\ m <= n /\ (n # 0 => m # 0)
    BY <1>2
<1>5. m < MaxAnswers => m = n
    BY <1>2
<1> HIDE DEF m
<1>6. answer = [i \in 1 .. m |-> list[i]]
  <2>1. SubSeq(list, 1, m) = [i \in 1 .. m - 1 + 1 |-> list[i + 1 - 1]]
      BY <1>1, <1>4
  <2>2. QED  BY <1>3, <1>4, <2>1
<1>7. /\ \A i \in 1 .. n : list[i] \in Seq(S) /\ Len(list[i]) \in Nat
      /\ ToSet(list) = {list[i] : i \in 1 .. n}
  <2>1. DOMAIN list = 1 .. n
      BY <1>1
  <2>2. QED  BY <1>1, <2>1 DEF ToSet
<1>8. \A i \in 1 .. m : i \in 1 .. n
    BY <1>2, <1>4
<1>9. answer \in [1 .. m -> Seq(S)]
    BY <1>6, <1>7, <1>8
<1>10. answer \in Seq(Seq(S)) /\ Len(answer) = m /\ ToSet(answer) = {list[i] : i \in 1 .. m}
  <2>1. answer \in Seq(Seq(S)) /\ Len(answer) = m /\ DOMAIN answer = 1 .. m
      BY <1>4, <1>9
  <2>2. QED  BY <1>6, <2>1 DEF ToSet
<1>11. ToSet(answer) \subseteq ToSet(paths)
    BY <1>1, <1>7, <1>8, <1>10
<1>12. answer = <<>> => paths = <<>>
  <2>1. answer = <<>> => m = 0
      BY <1>10
  <2>2. n = 0 => paths = <<>>
      BY DEF n
  <2>3. QED  BY <1>4, <2>1, <2>2
<1>13. ASSUME answer # <<>>, NEW p \in ToSet(paths) PROVE Len(answer[1]) <= Len(p)
  <2>1. m # 0
      BY <1>9, <1>13
  <2>2. 1 \in 1 .. m /\ 1 \in 1 .. n /\ answer[1] = list[1]
      BY <1>4, <1>6, <1>8, <2>1
  <2>3. PICK i \in 1 .. n : p = list[i]
      BY <1>1, <1>7
  <2>4. CASE i = 1
      BY <1>7, <2>2, <2>3, <2>4
  <2>5. CASE i # 1
    <3>1. 1 < i
        BY <1>2, <2>5
    <3>2. QED  BY <1>1, <2>2, <2>3, <3>1
  <2>6. QED  BY <2>4, <2>5
<1>14. Len(answer) < MaxAnswers => ToSet(answer) = ToSet(paths)
    BY <1>1, <1>5, <1>7, <1>10
<1>15. ASSUME NEW p \in ToSet(answer), NEW q \in ToSet(paths), Len(q) < Len(p)
       PROVE  q \in ToSet(answer)
  <2>1. PICK i \in 1 .. m : p = list[i]
      BY <1>10
  <2>2. PICK j \in 1 .. n : q = list[j]
      BY <1>1, <1>7
  <2>3. CASE j <= i
    <3>1. j \in 1 .. m
        BY <1>2, <1>4, <2>3
    <3>2. QED  BY <1>10, <2>2, <3>1
  <2>4. CASE i < j
    <3>1. i \in 1 .. n
        BY <1>8
    <3>2. Len(p) <= Len(q) /\ Len(p) \in Nat /\ Len(q) \in Nat
        BY <1>1, <1>7, <2>1, <2>2, <2>4, <3>1
    <3>3. QED  BY <1>15, <3>2
  <2>5. QED  BY <1>2, <1>4, <2>3, <2>4
<1>16. QED  BY <1>10, <1>11, <1>12, <1>13, <1>14, <1>15

-----------------------------------------------------------------------------
(* What the search holds: walks from the source that may yet reach the     *)
(* target.                                                                 *)
Partial ==
    {p \in Seq(Entity) :
        /\ Len(p) \in 1 .. Hops /\ p[1] = Source
        /\ IsInjective(p)
        /\ \A i \in 1 .. Len(p) - 1 : Linked(p[i], p[i + 1])}

Begins(p, w) == Len(p) <= Len(w) /\ \A i \in 1 .. Len(p) : w[i] = p[i]

(* A walk that is not lost: the search still follows a beginning of it, or *)
(* has kept a shorter one, or it is kept itself.                           *)
Covered(w) ==
    \/ \E k \in DOMAIN stack : Begins(stack[k], w)
    \/ best # 0 /\ best < Len(w)
    \/ w \in ToSet(found)

(* What is kept are routes, and best is the length of one of them.         *)
Kept ==
    /\ ToSet(found) \subseteq Routes
    /\ best = 0 <=> found = <<>>
    /\ best # 0 => \E r \in ToSet(found) : Len(r) = best

PathsOK ==
    /\ stack \in Seq(Seq(Entity)) /\ found \in Seq(Seq(Entity))
    /\ best \in 0 .. Cardinality(Entity)
    /\ depth \in Nat

(* The search is under way: no walk is lost.                               *)
Searching ==
    /\ {Source, Target} \subseteq Nodes
    /\ \A k \in DOMAIN stack : stack[k] \in Partial
    /\ Kept
    /\ \A w \in Walks : Covered(w)

PathsInv ==
    /\ RowsOK /\ PathsOK
    /\ pc = "start" => found = <<>> /\ best = 0
    /\ pc = "paths" => Searching
    /\ FindsShortest
    /\ FailsByDetour

LEMMA HopsIs ==
    ASSUME RowsOK, depth \in Nat
    PROVE  /\ Cardinality(Entity) \in Nat \ {0}
           /\ Hops \in Nat \ {0} /\ Hops <= depth + 1 /\ Hops <= Cardinality(Entity)
           /\ \A l \in Nat : l <= depth + 1 /\ l <= Cardinality(Entity) => l <= Hops
<1>1. Cardinality(Entity) \in Nat
    BY SearchAssumption, FS_CardinalityType
<1>2. Cardinality(Entity) # 0
    BY SearchAssumption, FS_EmptySet DEF RowsOK
<1> DEFINE c == Cardinality(Entity)
<1>3. c \in Nat \ {0}
    BY <1>1, <1>2
<1>4. Hops = IF depth < c THEN depth + 1 ELSE c
    BY DEF Hops
<1> HIDE DEF c
<1>5. QED  BY <1>3, <1>4 DEF c

(* A path that passes no entity twice is no longer than there are some.    *)
LEMMA SimpleIsShort ==
    ASSUME NEW p \in Seq(Entity), IsInjective(p)
    PROVE  Len(p) <= Cardinality(Entity)
<1> DEFINE n == Len(p)
<1>1. n \in Nat /\ p \in [1 .. n -> Entity]
    OBVIOUS
<1> HIDE DEF n
<1>2. p \in Injection(1 .. n, Entity)
    BY <1>1 DEF Injection
<1>3. Cardinality(1 .. n) <= Cardinality(Entity)
    BY <1>2, FS_Injection, SearchAssumption
<1>4. Cardinality(1 .. n) = n
    BY <1>1, FS_Interval
<1>5. QED  BY <1>3, <1>4 DEF n

(* The walks of the reference are the ones that the search may hold.       *)
LEMMA WalksAre ==
    ASSUME RowsOK, depth \in Nat
    PROVE  \A w : w \in Walks <=> w \in Partial /\ w[Len(w)] = Target
<1>1. Hops \in Nat \ {0}
    BY HopsIs
<1>2. ASSUME NEW w
      PROVE  w \in UNION {[1 .. l -> Entity] : l \in 1 .. Hops}
                <=> w \in Seq(Entity) /\ Len(w) \in 1 .. Hops
  <2> DEFINE bound == Hops
  <2>1. bound \in Nat
      BY <1>1
  <2> HIDE DEF bound
  <2>2. ASSUME NEW l \in 1 .. bound, w \in [1 .. l -> Entity]
        PROVE  w \in Seq(Entity) /\ Len(w) \in 1 .. bound
      BY <2>1, <2>2
  <2>3. ASSUME w \in Seq(Entity), Len(w) \in 1 .. bound
        PROVE  \E l \in 1 .. bound : w \in [1 .. l -> Entity]
    <3>1. w \in [1 .. Len(w) -> Entity]
        BY <2>3
    <3>2. QED  BY <2>3, <3>1
  <2>4. w \in UNION {[1 .. l -> Entity] : l \in 1 .. bound}
           <=> \E l \in 1 .. bound : w \in [1 .. l -> Entity]
      OBVIOUS
  <2>5. QED  BY <2>2, <2>3, <2>4 DEF bound
<1>3. QED  BY <1>2 DEF Walks, Simple, Partial

(* An entity that is not yet on a path, and that its end is linked to,     *)
(* makes it one longer.                                                    *)
LEMMA OneMore ==
    ASSUME RowsOK, depth \in Nat, NEW p \in Partial, ~(Len(p) > depth),
           NEW m \in Entity, m \notin ToSet(p), Linked(p[Len(p)], m)
    PROVE  Append(p, m) \in Partial
<1> DEFINE n == Len(p)
           q == Append(p, m)
<1>1. /\ p \in Seq(Entity) /\ n \in 1 .. Hops /\ p[1] = Source /\ n \in Nat
      /\ IsInjective(p) /\ DOMAIN p = 1 .. n
      /\ \A i \in 1 .. n - 1 : Linked(p[i], p[i + 1])
    BY DEF Partial
<1>2. /\ q \in Seq(Entity) /\ Len(q) = n + 1 /\ DOMAIN q = 1 .. n + 1
      /\ \A i \in 1 .. n : q[i] = p[i]
      /\ q[n + 1] = m
    BY <1>1
<1>3. \A i \in 1 .. n : p[i] # m
    BY <1>1 DEF ToSet
<1>4. Linked(p[n], m)
    OBVIOUS
<1>5. n <= depth
    BY <1>1
<1> HIDE DEF n, q
<1>6. IsInjective(q)
  <2> SUFFICES ASSUME NEW i \in 1 .. n + 1, NEW j \in 1 .. n + 1, q[i] = q[j]
               PROVE  i = j
      BY <1>2 DEF IsInjective
  <2>1. CASE i # n + 1 /\ j # n + 1
    <3>1. i \in 1 .. n /\ j \in 1 .. n
        BY <1>1, <2>1
    <3>2. p[i] = p[j]
        BY <1>2, <3>1
    <3>3. QED  BY <1>1, <3>1, <3>2 DEF IsInjective
  <2>2. CASE i = n + 1 /\ j # n + 1
      BY <1>1, <1>2, <1>3, <2>2
  <2>3. CASE i # n + 1 /\ j = n + 1
      BY <1>1, <1>2, <1>3, <2>3
  <2>4. QED  BY <2>1, <2>2, <2>3
<1>7. ASSUME NEW i \in 1 .. n PROVE Linked(q[i], q[i + 1])
  <2>1. CASE i = n
      BY <1>1, <1>2, <1>4, <2>1
  <2>2. CASE i # n
    <3>1. i \in 1 .. n - 1 /\ i + 1 \in 1 .. n
        BY <1>1, <2>2
    <3>2. q[i] = p[i] /\ q[i + 1] = p[i + 1]
        BY <1>2, <3>1
    <3>3. QED  BY <1>1, <3>1, <3>2
  <2>3. QED  BY <2>1, <2>2
<1>8. n + 1 \in 1 .. Hops
  <2>1. n + 1 <= Cardinality(Entity)
      BY <1>2, <1>6, SimpleIsShort
  <2>2. n + 1 <= depth + 1 /\ n + 1 \in Nat
      BY <1>1, <1>5
  <2>3. n + 1 <= Hops /\ Hops \in Nat
      BY <2>1, <2>2, HopsIs
  <2>4. QED  BY <1>1, <2>3
<1>9. q[1] = Source
    BY <1>1, <1>2
<1>10. Len(q) - 1 = n
    BY <1>1, <1>2
<1>11. q \in Partial
    BY <1>2, <1>6, <1>7, <1>8, <1>9, <1>10 DEF Partial
<1>12. QED  BY <1>11 DEF q

(* A walk that a path begins is that path, or goes on from its end to an   *)
(* entity that is not on it.                                               *)
LEMMA WalkGoesOn ==
    ASSUME NEW p \in Partial, NEW w \in Partial, Begins(p, w)
    PROVE  /\ p[Len(p)] = w[Len(w)] => p = w
           /\ p[Len(p)] # w[Len(w)] =>
                 /\ Len(p) < Len(w)
                 /\ \E m \in Entity : /\ m \notin ToSet(p) /\ Linked(p[Len(p)], m)
                                      /\ Begins(Append(p, m), w)
<1> DEFINE n == Len(p)
           l == Len(w)
<1>1. /\ p \in Seq(Entity) /\ w \in Seq(Entity) /\ n \in Nat \ {0} /\ l \in Nat \ {0}
      /\ DOMAIN p = 1 .. n /\ DOMAIN w = 1 .. l
      /\ IsInjective(w)
      /\ \A i \in 1 .. l - 1 : Linked(w[i], w[i + 1])
    BY DEF Partial
<1>2. n <= l /\ \A i \in 1 .. n : w[i] = p[i]
    BY DEF Begins
<1>3. \A i, j \in 1 .. l : w[i] = w[j] => i = j
    BY <1>1 DEF IsInjective
<1>4. p \in [1 .. n -> Entity] /\ w \in [1 .. l -> Entity]
    BY <1>1
<1> DEFINE m == w[n + 1]
<1>5. ASSUME n < l
      PROVE  /\ m \in Entity /\ m \notin ToSet(p) /\ Linked(p[n], m)
             /\ Begins(Append(p, m), w)
  <2> HIDE DEF n, l
  <2>1. n + 1 \in 1 .. l /\ n \in 1 .. l - 1 /\ n \in 1 .. n /\ \A i \in 1 .. n : i \in 1 .. l
      BY <1>1, <1>5
  <2>2. m \in Entity
      BY <1>4, <2>1
  <2>3. ASSUME NEW i \in 1 .. n PROVE p[i] # m
    <3>1. p[i] = w[i] /\ i # n + 1
        BY <1>1, <1>2
    <3>2. QED  BY <1>3, <2>1, <3>1
  <2>4. m \notin ToSet(p)
      BY <1>1, <2>3 DEF ToSet
  <2>5. Linked(p[n], m)
      BY <1>1, <1>2, <2>1
  <2> HIDE DEF m
  <2>6. /\ Len(Append(p, m)) = n + 1 /\ Append(p, m)[n + 1] = m
        /\ \A i \in 1 .. n : Append(p, m)[i] = p[i]
      BY <1>1, <2>2 DEF n
  <2>7. ASSUME NEW i \in 1 .. n + 1 PROVE w[i] = Append(p, m)[i]
    <3>1. CASE i = n + 1
        BY <2>6, <3>1 DEF m
    <3>2. CASE i # n + 1
        BY <1>1, <1>2, <2>6, <3>2
    <3>3. QED  BY <3>1, <3>2
  <2>8. Begins(Append(p, m), w)
      BY <1>1, <1>5, <2>6, <2>7 DEF Begins, l
  <2>9. QED  BY <2>2, <2>4, <2>5, <2>8
<1>6. ASSUME p[n] = w[l] PROVE p = w
  <2> HIDE DEF n, l
  <2>1. n \in 1 .. n /\ n \in 1 .. l /\ l \in 1 .. l
      BY <1>1, <1>2
  <2>2. w[n] = w[l]
      BY <1>2, <1>6, <2>1
  <2>3. n = l
      BY <1>3, <2>1, <2>2
  <2>4. w \in [1 .. n -> Entity] /\ p \in [1 .. n -> Entity]
      BY <1>4, <2>3
  <2>5. \A i \in 1 .. n : p[i] = w[i]
      BY <1>2
  <2>6. p = [i \in 1 .. n |-> p[i]] /\ w = [i \in 1 .. n |-> w[i]]
      BY <2>4
  <2>7. [i \in 1 .. n |-> p[i]] = [i \in 1 .. n |-> w[i]]
      BY <2>5
  <2>8. QED  BY <2>6, <2>7, Zenon
<1>7. p[n] # w[l] => n < l
  <2> HIDE DEF n, l
  <2>1. n = l => p[n] = w[l]
      BY <1>1, <1>2
  <2>2. QED  BY <1>1, <1>2, <2>1
<1>8. QED  BY <1>5, <1>6, <1>7

-----------------------------------------------------------------------------
(* When nothing is left to follow, what was kept and sorted is the answer. *)
LEMMA AnswerIsRight ==
    ASSUME PathsOK, Kept, NEW answer, answer = FirstAnswers(ByLength(found)),
           \A w \in Walks : (best # 0 /\ best < Len(w)) \/ w \in ToSet(found),
           \A w \in Walks : Len(w) \in Nat
    PROVE  /\ answer \in Seq(Seq(Entity)) /\ ToSet(answer) \subseteq Routes
           /\ answer = <<>> => Routes = {}
           /\ answer # <<>> => answer[1] \in Shortest
           /\ ToSet(answer) \subseteq Shortest \/ Shortest \subseteq ToSet(answer)
           /\ Len(answer) < MaxAnswers => Shortest \subseteq ToSet(answer)
           /\ \A d \in Detours : \E r \in Routes : Len(r) < Len(d)
<1>1. found \in Seq(Seq(Entity)) /\ best \in Nat
  <2>1. Cardinality(Entity) \in Nat
      BY SearchAssumption, FS_CardinalityType
  <2>2. QED  BY <2>1 DEF PathsOK
<1>2. /\ answer \in Seq(Seq(Entity)) /\ ToSet(answer) \subseteq ToSet(found)
      /\ answer = <<>> => found = <<>>
      /\ answer # <<>> => \A p \in ToSet(found) : Len(answer[1]) <= Len(p)
      /\ Len(answer) < MaxAnswers => ToSet(answer) = ToSet(found)
      /\ \A p \in ToSet(answer), q \in ToSet(found) : Len(q) < Len(p) => q \in ToSet(answer)
    BY <1>1, AnswerIs
<1>3. /\ ToSet(found) \subseteq Routes /\ Routes \subseteq Walks
      /\ \A r \in Routes : Len(r) \in Nat
    BY DEF Kept, Routes
<1>4. ASSUME NEW w \in Walks, w \notin ToSet(found)
      PROVE  \E r \in ToSet(found) : r \in Routes /\ Len(r) < Len(w)
    BY <1>3, <1>4 DEF Kept
<1>5. Shortest \subseteq ToSet(found)
  <2> SUFFICES ASSUME NEW s \in Shortest, s \notin ToSet(found) PROVE FALSE
      OBVIOUS
  <2>1. s \in Routes /\ \A r \in Routes : Len(s) <= Len(r)
      BY DEF Shortest
  <2>2. PICK r \in Routes : Len(r) < Len(s)
      BY <1>3, <1>4, <2>1
  <2>3. QED  BY <1>3, <2>1, <2>2
<1>6. answer = <<>> => Routes = {}
  <2> SUFFICES ASSUME answer = <<>>, NEW r \in Routes PROVE FALSE
      OBVIOUS
  <2>1. found = <<>> /\ best = 0
      BY <1>2 DEF Kept
  <2>2. ToSet(found) = {}
      BY <2>1 DEF ToSet
  <2>3. QED  BY <1>3, <2>1, <2>2
<1>7. ASSUME answer # <<>> PROVE answer[1] \in Shortest
  <2>1. answer[1] \in ToSet(answer)
    <3>1. 1 \in DOMAIN answer
        BY <1>2, <1>7
    <3>2. QED  BY <3>1 DEF ToSet
  <2>2. answer[1] \in Routes /\ \A p \in ToSet(found) : Len(answer[1]) <= Len(p)
      BY <1>2, <1>3, <1>7, <2>1
  <2>3. ASSUME NEW q \in Routes PROVE Len(answer[1]) <= Len(q)
    <3>1. CASE q \in ToSet(found)
        BY <2>2, <3>1
    <3>2. CASE q \notin ToSet(found)
      <4>1. PICK r \in ToSet(found) : Len(r) < Len(q)
          BY <1>3, <1>4, <3>2
      <4>2. Len(answer[1]) <= Len(r)
          BY <2>2, <4>1
      <4>3. Len(r) \in Nat /\ Len(q) \in Nat /\ Len(answer[1]) \in Nat
          BY <1>3, <2>2
      <4>4. QED  BY <4>1, <4>2, <4>3
    <3>3. QED  BY <3>1, <3>2
  <2>4. QED  BY <2>2, <2>3 DEF Shortest
<1>8. ToSet(answer) \subseteq Shortest \/ Shortest \subseteq ToSet(answer)
  <2> SUFFICES ASSUME NEW p \in ToSet(answer), p \notin Shortest, NEW s \in Shortest
               PROVE  s \in ToSet(answer)
      OBVIOUS
  <2>1. p \in Routes /\ s \in Routes /\ \A r \in Routes : Len(s) <= Len(r)
      BY <1>2, <1>3 DEF Shortest
  <2>2. PICK q \in Routes : ~(Len(p) <= Len(q))
      BY <2>1 DEF Shortest
  <2>3. Len(s) < Len(p)
    <3>1. Len(s) <= Len(q) /\ Len(s) \in Nat /\ Len(q) \in Nat /\ Len(p) \in Nat
        BY <1>3, <2>1, <2>2
    <3>2. QED  BY <2>2, <3>1
  <2>4. QED  BY <1>2, <1>5, <2>3
<1>9. \A d \in Detours : \E r \in Routes : Len(r) < Len(d)
    BY <1>3, <1>4 DEF Detours
<1>10. QED  BY <1>2, <1>3, <1>5, <1>6, <1>7, <1>8, <1>9

-----------------------------------------------------------------------------
(* What one step of the search does to the walks.  A path that is taken    *)
(* off the stack with nothing in its place may lose the walks it begins.   *)
LEMMA Dropped ==
    ASSUME PathsOK, stack # <<>>, stack' = Front(stack), UNCHANGED <<status, edges, depth>>
    PROVE  /\ stack' \in Seq(Seq(Entity)) /\ path \in Seq(Entity)
           /\ \E k \in DOMAIN stack : stack[k] = path
           /\ \A k \in DOMAIN stack' : \E j \in DOMAIN stack : stack'[k] = stack[j]
           /\ \A k \in DOMAIN stack : stack[k] = path
                                         \/ \E j \in DOMAIN stack' : stack'[j] = stack[k]
<1> DEFINE n == Len(stack)
           rest == Front(stack)
<1>1. /\ n \in Nat \ {0} /\ path = stack[n] /\ path \in Seq(Entity)
      /\ rest \in Seq(Seq(Entity)) /\ Len(rest) = n - 1
      /\ \A i \in 1 .. n - 1 : rest[i] = stack[i]
    BY FrontIs DEF PathsOK, path
<1>2. DOMAIN stack = 1 .. n /\ DOMAIN rest = 1 .. n - 1
    BY <1>1 DEF PathsOK
<1>3. stack' = rest
    OBVIOUS
<1> HIDE DEF n, rest
<1>4. \A i \in 1 .. n : i = n \/ i \in 1 .. n - 1
    BY <1>1
<1>5. n \in 1 .. n /\ \A i \in 1 .. n - 1 : i \in 1 .. n
    BY <1>1
<1>6. QED  BY <1>1, <1>2, <1>3, <1>4, <1>5

(* Where the stack is popped, only the walks that the path began have to   *)
(* be seen to.                                                             *)
LEMMA DroppedCovers ==
    ASSUME RowsOK, PathsOK, stack # <<>>, stack' = Front(stack), UNCHANGED rowVars,
           NEW w, Covered(w), ~Begins(path, w),
           \/ UNCHANGED <<best, found>>
           \/ /\ best \in Nat /\ best' \in Nat \ {0} /\ Len(w) \in Nat
              /\ best # 0 => best' <= best
              /\ ToSet(found) \subseteq ToSet(found')
    PROVE  Covered(w)'
<1>1. UNCHANGED <<status, edges, depth>>
    BY DEF rowVars
<1>2. \A k \in DOMAIN stack : stack[k] = path
                                 \/ \E j \in DOMAIN stack' : stack'[j] = stack[k]
    BY <1>1, Dropped
<1>3. CASE \E k \in DOMAIN stack : Begins(stack[k], w)
  <2>1. PICK k \in DOMAIN stack : Begins(stack[k], w)
      BY <1>3
  <2>2. PICK j \in DOMAIN stack' : stack'[j] = stack[k]
      BY <1>2, <2>1
  <2>3. Begins(stack'[j], w)
      BY <2>1, <2>2
  <2>4. QED  BY <2>3 DEF Covered, Begins
<1>4. CASE best # 0 /\ best < Len(w)
    BY <1>4 DEF Covered
<1>5. CASE w \in ToSet(found)
    BY <1>5 DEF Covered
<1>6. QED  BY <1>3, <1>4, <1>5 DEF Covered

(* Following: the stack holds the path's continuations instead of it.      *)
LEMMA Followed ==
    ASSUME RowsOK, PathsOK, stack # <<>>,
           stack' = Front(stack) \o [i \in DOMAIN Fresh |-> Append(path, Reverse(Fresh)[i])]
    PROVE  /\ stack' \in Seq(Seq(Entity))
           /\ \A k \in DOMAIN stack' :
                 \/ \E j \in DOMAIN stack : stack'[k] = stack[j]
                 \/ \E m \in ToSet(Fresh) : stack'[k] = Append(path, m)
           /\ \A k \in DOMAIN stack : stack[k] = path
                                         \/ \E j \in DOMAIN stack' : stack'[j] = stack[k]
           /\ \A m \in ToSet(Fresh) : \E j \in DOMAIN stack' : stack'[j] = Append(path, m)
<1> DEFINE n == Len(stack)
           rest == Front(stack)
           fresh == Fresh
           l == Len(fresh)
           onward == [i \in DOMAIN fresh |-> Append(path, Reverse(fresh)[i])]
<1>1. /\ n \in Nat \ {0} /\ path = stack[n] /\ path \in Seq(Entity)
      /\ rest \in Seq(Seq(Entity)) /\ Len(rest) = n - 1
      /\ \A i \in 1 .. n - 1 : rest[i] = stack[i]
    BY FrontIs DEF PathsOK, path
<1>2. fresh \in Seq(Entity)
    BY <1>1, FreshIs
<1>3. DOMAIN stack = 1 .. n
    BY DEF PathsOK
<1>4. stack' = rest \o onward
    OBVIOUS
<1> HIDE DEF n, rest, fresh
<1>5. l \in Nat /\ DOMAIN fresh = 1 .. l /\ \A i \in 1 .. l : fresh[i] \in Entity
    BY <1>2
<1> HIDE DEF l
<1>6. ASSUME NEW i \in 1 .. l
      PROVE  (l - i) + 1 \in 1 .. l /\ onward[i] = Append(path, fresh[(l - i) + 1])
  <2>1. Reverse(fresh)[i] = fresh[(l - i) + 1]
      BY DEF Reverse, l
  <2>2. QED  BY <1>5, <2>1
<1>7. \A i \in 1 .. l : onward[i] \in Seq(Entity)
  <2>1. \A m \in Entity : Append(path, m) \in Seq(Entity)
      BY <1>1
  <2> HIDE DEF onward
  <2>2. QED  BY <1>5, <1>6, <2>1
<1>8. onward \in Seq(Seq(Entity)) /\ Len(onward) = l
  <2>1. onward \in [1 .. l -> Seq(Entity)]
      BY <1>5, <1>7
  <2> HIDE DEF onward
  <2>2. QED  BY <1>5, <2>1
<1> HIDE DEF onward
<1>9. /\ stack' \in Seq(Seq(Entity)) /\ Len(stack') = (n - 1) + l
      /\ \A i \in 1 .. n - 1 : stack'[i] = rest[i]
      /\ \A i \in 1 .. l : stack'[(n - 1) + i] = onward[i]
  <2>1. /\ rest \o onward \in Seq(Seq(Entity))
        /\ Len(rest \o onward) = Len(rest) + Len(onward)
        /\ \A i \in 1 .. Len(rest) : (rest \o onward)[i] = rest[i]
        /\ \A i \in 1 .. Len(onward) : (rest \o onward)[Len(rest) + i] = onward[i]
    <3> DEFINE S == Seq(Entity)
    <3>1. rest \in Seq(S) /\ onward \in Seq(S)
        BY <1>1, <1>8
    <3> HIDE DEF S
    <3>2. /\ rest \o onward \in Seq(S)
          /\ Len(rest \o onward) = Len(rest) + Len(onward)
          /\ \A i \in 1 .. Len(rest) : (rest \o onward)[i] = rest[i]
          /\ \A i \in 1 .. Len(onward) : (rest \o onward)[Len(rest) + i] = onward[i]
        BY <3>1, ConcatIs
    <3>3. QED  BY <3>2 DEF S
  <2>2. Len(rest) = n - 1 /\ Len(onward) = l
      BY <1>1, <1>8
  <2>3. QED  BY <1>4, <2>1, <2>2
<1>10. DOMAIN stack' = 1 .. (n - 1) + l
    BY <1>9
<1>11. ToSet(fresh) = {fresh[i] : i \in 1 .. l}
    BY <1>5 DEF ToSet
<1>12. ASSUME NEW k \in DOMAIN stack'
       PROVE  \/ \E j \in DOMAIN stack : stack'[k] = stack[j]
              \/ \E m \in ToSet(fresh) : stack'[k] = Append(path, m)
  <2>1. CASE k <= n - 1
    <3>1. k \in 1 .. n - 1 /\ k \in 1 .. n
        BY <1>1, <1>5, <1>10, <2>1
    <3>2. stack'[k] = stack[k]
        BY <1>1, <1>9, <3>1
    <3>3. QED  BY <1>3, <3>1, <3>2
  <2>2. CASE k > n - 1
    <3>1. k - (n - 1) \in 1 .. l /\ (n - 1) + (k - (n - 1)) = k
        BY <1>1, <1>5, <1>10, <2>2
    <3>2. stack'[k] = onward[k - (n - 1)]
        BY <1>9, <3>1
    <3>3. PICK i \in 1 .. l : onward[k - (n - 1)] = Append(path, fresh[i])
        BY <1>6, <3>1
    <3>4. QED  BY <1>11, <3>2, <3>3
  <2>3. k <= n - 1 \/ k > n - 1
      BY <1>1, <1>5, <1>10
  <2>4. QED  BY <2>1, <2>2, <2>3
<1>13. ASSUME NEW k \in DOMAIN stack, stack[k] # path
       PROVE  \E j \in DOMAIN stack' : stack'[j] = stack[k]
  <2>1. k \in 1 .. n - 1
      BY <1>1, <1>3, <1>13
  <2>2. k \in 1 .. (n - 1) + l
      BY <1>1, <1>5, <2>1
  <2>3. QED  BY <1>1, <1>9, <1>10, <2>1, <2>2
<1>14. ASSUME NEW m \in ToSet(fresh)
       PROVE  \E j \in DOMAIN stack' : stack'[j] = Append(path, m)
  <2>1. PICK i \in 1 .. l : m = fresh[i]
      BY <1>11
  <2>2. /\ (l - i) + 1 \in 1 .. l
        /\ (l - ((l - i) + 1)) + 1 = i
        /\ (n - 1) + ((l - i) + 1) \in 1 .. (n - 1) + l
      BY <1>1, <1>5, <2>1
  <2>3. onward[(l - i) + 1] = Append(path, fresh[i])
      BY <1>6, <2>2
  <2>4. QED  BY <1>9, <1>10, <2>1, <2>2, <2>3
<1>15. QED  BY <1>9, <1>12, <1>13, <1>14 DEF fresh

-----------------------------------------------------------------------------
(* A query changes no row, so the reference stays.                         *)
LEMMA SameRows ==
    ASSUME UNCHANGED rowVars
    PROVE  /\ status' = status /\ edges' = edges /\ depth' = depth
           /\ RowsOK' = RowsOK /\ Nodes' = Nodes /\ Partial' = Partial
           /\ Walks' = Walks /\ Routes' = Routes /\ Detours' = Detours
           /\ Shortest' = Shortest
<1>1. status' = status /\ edges' = edges /\ depth' = depth
    BY DEF rowVars
<1>2. RowsOK' = RowsOK
    BY <1>1 DEF RowsOK
<1>3. Nodes' = Nodes
    BY <1>1 DEF Nodes
<1>4. Hops' = Hops
    BY <1>1 DEF Hops
<1>5. Partial' = Partial
    BY <1>1, <1>4 DEF Partial, Linked
<1>6. Walks' = Walks
    BY <1>1, <1>4 DEF Walks, Simple, Linked
<1>7. Routes' = Routes
    BY <1>3, <1>6 DEF Routes
<1>8. Detours' = Detours
    BY <1>6, <1>7 DEF Detours
<1>9. Shortest' = Shortest
    BY <1>7 DEF Shortest
<1>10. QED  BY <1>1, <1>2, <1>3, <1>5, <1>6, <1>7, <1>8, <1>9

(* What the handlers of the search rely on.                                *)
LEMMA AtThePath ==
    ASSUME PathsInv, pc = "paths", stack # <<>>
    PROVE  /\ RowsOK /\ PathsOK /\ Searching /\ depth \in Nat
           /\ path \in Partial /\ Len(path) \in Nat \ {0} /\ path[Len(path)] = current
           /\ path \in Seq(Entity) /\ Len(path) \in 1 .. Cardinality(Entity)
           /\ best \in Nat
           /\ \A w \in Walks : w \in Partial /\ Len(w) \in Nat /\ w[Len(w)] = Target
           /\ Len(path) <= Hops /\ Hops \in Nat /\ Hops <= depth + 1
           /\ \A w \in Walks : Len(w) <= Hops
<1>1. RowsOK /\ PathsOK /\ Searching /\ depth \in Nat
    BY DEF PathsInv, PathsOK
<1>2. path \in Partial
  <2>1. path = stack[Len(stack)] /\ Len(stack) \in DOMAIN stack
    <3>1. stack \in Seq(Seq(Entity)) /\ Last(stack) = stack[Len(stack)]
        BY <1>1, FrontIs DEF PathsOK
    <3>2. QED  BY <3>1 DEF path
  <2>2. QED  BY <1>1, <2>1 DEF Searching
<1>3. path[Len(path)] = current
    BY DEF current, Last
<1>4. \A w \in Walks : w \in Partial /\ w[Len(w)] = Target
    BY <1>1, WalksAre
<1>5. \A w \in Partial : w \in Seq(Entity) /\ Len(w) \in Nat \ {0} /\ Len(w) <= Hops
  <2>1. Hops \in Nat
      BY <1>1, HopsIs
  <2>2. QED  BY <2>1 DEF Partial
<1>6. Hops \in Nat /\ Hops <= depth + 1 /\ Hops <= Cardinality(Entity) /\ Cardinality(Entity) \in Nat
    BY <1>1, HopsIs
<1>7. best \in Nat
    BY <1>1, <1>6 DEF PathsOK
<1>8. Len(path) \in 1 .. Cardinality(Entity)
    BY <1>2, <1>5, <1>6
<1>9. QED  BY <1>1, <1>2, <1>3, <1>4, <1>5, <1>6, <1>7, <1>8

(* Where the search starts, every walk begins.                             *)
LEMMA StartedRight ==
    ASSUME PathsInv, StartPaths
    PROVE  PathsInv'
<1>1. /\ UNCHANGED rowVars /\ pc = "start" /\ UNCHANGED <<best, found>>
      /\ found = <<>> /\ best = 0 /\ RowsOK /\ PathsOK /\ depth \in Nat
    BY DEF StartPaths, PathsInv, PathsOK
<1>2. /\ RowsOK' /\ Nodes' = Nodes /\ Partial' = Partial /\ depth' = depth
      /\ Walks' = Walks /\ Routes' = Routes /\ Detours' = Detours /\ Shortest' = Shortest
    BY <1>1, SameRows
<1>3. \A w \in Walks : w \in Partial /\ w[Len(w)] = Target
    BY <1>1, WalksAre
<1>4. found' = <<>> /\ best' = 0 /\ ToSet(found') = {}
    BY <1>1 DEF ToSet
<1>5. CASE {Source, Target} \subseteq Nodes
  <2> DEFINE p == <<Source>>
  <2>1. pc' = "paths" /\ stack' = <<p>>
      BY <1>5 DEF StartPaths
  <2>2. p \in Seq(Entity) /\ Len(p) = 1 /\ p[1] = Source /\ DOMAIN p = 1 .. 1
      BY <1>1 DEF RowsOK
  <2> HIDE DEF p
  <2>3. IsInjective(p)
      BY <2>2 DEF IsInjective
  <2>4. p \in Partial
    <3>1. 1 \in 1 .. Hops
        BY <1>1, HopsIs
    <3>2. \A i \in 1 .. Len(p) - 1 : Linked(p[i], p[i + 1])
        BY <2>2
    <3>3. Len(p) \in 1 .. Hops
        BY <2>2, <3>1
    <3>4. QED  BY <2>2, <2>3, <3>2, <3>3 DEF Partial
  <2>5. stack' \in Seq(Seq(Entity)) /\ DOMAIN stack' = {1} /\ stack'[1] = p
      BY <2>1, <2>2
  <2>6. PathsOK'
      BY <1>1, <1>2, <1>4, <2>5 DEF PathsOK
  <2>7. ASSUME NEW w \in Walks PROVE Covered(w)'
    <3>1. w \in Partial
        BY <1>3
    <3>2. Len(w) \in Nat \ {0} /\ w[1] = Source
        BY <3>1 DEF Partial
    <3>3. Begins(p, w)
        BY <2>2, <3>2 DEF Begins
    <3>4. QED  BY <2>5, <3>3 DEF Covered, Begins
  <2>8. Kept'
      BY <1>4 DEF Kept
  <2>9. Searching'
      BY <1>2, <1>5, <2>4, <2>5, <2>7, <2>8 DEF Searching
  <2>10. QED  BY <1>2, <2>1, <2>6, <2>9 DEF PathsInv, FindsShortest, FailsByDetour
<1>6. CASE ~({Source, Target} \subseteq Nodes)
  <2>1. pc' = "answered" /\ UNCHANGED stack
      BY <1>6 DEF StartPaths
  <2>2. PathsOK'
      BY <1>1, <1>2, <1>4, <2>1 DEF PathsOK
  <2>3. Routes = {}
    <3> SUFFICES ASSUME NEW r \in Routes PROVE FALSE
        OBVIOUS
    <3>1. r \in Partial /\ r[Len(r)] = Target /\ ToSet(r) \subseteq Nodes
        BY <1>3 DEF Routes
    <3>2. r \in Seq(Entity) /\ r[1] = Source /\ 1 \in DOMAIN r /\ Len(r) \in DOMAIN r
        BY <3>1 DEF Partial
    <3>3. Source \in ToSet(r) /\ Target \in ToSet(r)
        BY <3>1, <3>2 DEF ToSet
    <3>4. QED  BY <1>6, <3>1, <3>3
  <2>4. Shortest' = {} /\ ~({Source, Target} \subseteq Nodes')
      BY <1>2, <1>6, <2>3 DEF Shortest
  <2>5. FindsShortest'
      BY <1>4, <2>4 DEF FindsShortest
  <2>6. FailsByDetour'
      BY <2>1, <2>4 DEF FailsByDetour
  <2>7. QED  BY <1>2, <2>1, <2>2, <2>5, <2>6 DEF PathsInv
<1>7. QED  BY <1>5, <1>6

-----------------------------------------------------------------------------
(* Taking a path off the stack leaves paths on it.                         *)
LEMMA StillPartial ==
    ASSUME PathsInv, pc = "paths", stack # <<>>, stack' = Front(stack), UNCHANGED rowVars
    PROVE  /\ stack' \in Seq(Seq(Entity))
           /\ \A k \in DOMAIN stack' : stack'[k] \in Partial'
<1>1. PathsOK /\ Searching
    BY AtThePath
<1>2. Partial' = Partial /\ UNCHANGED <<status, edges, depth>>
    BY SameRows
<1>3. /\ stack' \in Seq(Seq(Entity))
      /\ \A k \in DOMAIN stack' : \E j \in DOMAIN stack : stack'[k] = stack[j]
    BY <1>1, <1>2, Dropped
<1>4. QED  BY <1>1, <1>2, <1>3 DEF Searching

(* The target is reached: the path is the only walk that it begins, and it *)
(* is kept, is longer than a kept one, or the search fails.                *)
LEMMA KeptRight ==
    ASSUME PathsInv, Keep
    PROVE  PathsInv'
<1>1. /\ pc = "paths" /\ stack # <<>> /\ current = Target /\ stack' = Front(stack)
      /\ UNCHANGED rowVars
    BY DEF Keep
<1>2. /\ RowsOK /\ PathsOK /\ Searching /\ depth \in Nat /\ best \in Nat
      /\ path \in Partial /\ Len(path) \in Nat \ {0} /\ path[Len(path)] = Target
      /\ path \in Seq(Entity) /\ Len(path) \in 1 .. Cardinality(Entity)
      /\ \A w \in Walks : w \in Partial /\ Len(w) \in Nat /\ w[Len(w)] = Target
    BY <1>1, AtThePath
<1>3. /\ RowsOK' /\ Nodes' = Nodes /\ Partial' = Partial /\ depth' = depth
      /\ Walks' = Walks /\ Routes' = Routes /\ Detours' = Detours
    BY <1>1, <1>2, SameRows
<1>4. /\ stack' \in Seq(Seq(Entity))
      /\ \A k \in DOMAIN stack' : stack'[k] \in Partial'
    BY <1>1, StillPartial
<1>5. path \in Walks
    BY <1>2, WalksAre
<1>6. ASSUME NEW w \in Walks, Begins(path, w) PROVE w = path
    BY <1>2, <1>6, WalkGoesOn
<1>7. CASE best # 0 /\ Len(path) > best
  <2>1. UNCHANGED <<pc, best, found>>
      BY <1>7 DEF Keep
  <2>2. PathsOK'
      BY <1>2, <1>3, <1>4, <2>1 DEF PathsOK
  <2>3. ASSUME NEW w \in Walks PROVE Covered(w)'
    <3>1. CASE Begins(path, w)
      <4>1. best' # 0 /\ best' < Len(w)
          BY <1>2, <1>6, <1>7, <2>1, <3>1
      <4>2. QED  BY <4>1 DEF Covered
    <3>2. CASE ~Begins(path, w)
      <4>1. Covered(w)
          BY <1>2 DEF Searching
      <4>2. QED  BY <1>1, <1>2, <2>1, <3>2, <4>1, DroppedCovers
    <3>3. QED  BY <3>1, <3>2
  <2>4. Kept'
      BY <1>2, <1>3, <2>1 DEF Searching, Kept
  <2>5. Searching'
      BY <1>2, <1>3, <1>4, <2>3, <2>4 DEF Searching
  <2>6. QED  BY <1>1, <1>3, <2>1, <2>2, <2>5 DEF PathsInv, FindsShortest, FailsByDetour
<1>8. CASE ~(best # 0 /\ Len(path) > best) /\ \E i \in 1 .. Len(path) : path[i] \notin Nodes
  <2>1. pc' = "raised" /\ UNCHANGED <<best, found>>
      BY <1>8 DEF Keep
  <2>2. PathsOK'
      BY <1>2, <1>3, <1>4, <2>1 DEF PathsOK
  <2>3. ~(ToSet(path) \subseteq Nodes)
    <3>1. DOMAIN path = 1 .. Len(path)
        BY <1>2
    <3>2. QED  BY <1>8, <3>1 DEF ToSet
  <2>4. Detours' # {}
      BY <1>3, <1>5, <2>3 DEF Detours, Routes
  <2>5. QED  BY <1>3, <2>1, <2>2, <2>4 DEF PathsInv, FindsShortest, FailsByDetour
<1>9. CASE ~(best # 0 /\ Len(path) > best) /\ ~(\E i \in 1 .. Len(path) : path[i] \notin Nodes)
  <2>1. best' = Len(path) /\ found' = Append(found, path) /\ UNCHANGED pc
      BY <1>9 DEF Keep
  <2>2. /\ found' \in Seq(Seq(Entity)) /\ found' # <<>>
        /\ ToSet(found') = ToSet(found) \cup {path}
    <3> DEFINE n == Len(found)
    <3>1. found \in Seq(Seq(Entity)) /\ n \in Nat /\ DOMAIN found = 1 .. n
        BY <1>2 DEF PathsOK
    <3>2. /\ found' \in Seq(Seq(Entity)) /\ Len(found') = n + 1 /\ found'[n + 1] = path
          /\ \A i \in 1 .. n : found'[i] = found[i]
        BY <1>2, <2>1, <3>1
    <3> HIDE DEF n
    <3>3. DOMAIN found' = 1 .. n + 1
        BY <3>2
    <3>4. \A i : i \in 1 .. n + 1 <=> i \in 1 .. n \/ i = n + 1
        BY <3>1
    <3>5. found' # <<>>
        BY <3>1, <3>3
    <3>6. ToSet(found') = ToSet(found) \cup {path}
        BY <3>1, <3>2, <3>3, <3>4 DEF ToSet
    <3>7. QED  BY <3>2, <3>5, <3>6
  <2>3. PathsOK'
      BY <1>2, <1>3, <1>4, <2>1, <2>2, HopsIs DEF PathsOK
  <2>4. path \in Routes
    <3>1. DOMAIN path = 1 .. Len(path)
        BY <1>2
    <3>2. ToSet(path) \subseteq Nodes
        BY <1>9, <3>1 DEF ToSet
    <3>3. QED  BY <1>5, <3>2 DEF Routes
  <2>5. best' \in Nat \ {0} /\ (best # 0 => best' <= best)
      BY <1>2, <1>9, <2>1
  <2>6. ASSUME NEW w \in Walks PROVE Covered(w)'
    <3>1. CASE Begins(path, w)
      <4>1. w \in ToSet(found')
          BY <1>6, <2>2, <3>1
      <4>2. QED  BY <4>1 DEF Covered
    <3>2. CASE ~Begins(path, w)
      <4>1. Covered(w) /\ ToSet(found) \subseteq ToSet(found') /\ Len(w) \in Nat
          BY <1>2, <2>2 DEF Searching
      <4>2. QED  BY <1>1, <1>2, <2>5, <3>2, <4>1, DroppedCovers
    <3>3. QED  BY <3>1, <3>2
  <2>7. Kept'
    <3>1. ToSet(found) \subseteq Routes
        BY <1>2 DEF Searching, Kept
    <3>2. path \in ToSet(found') /\ Len(path) = best'
        BY <2>1, <2>2
    <3>3. QED  BY <1>3, <2>2, <2>4, <2>5, <3>1, <3>2 DEF Kept
  <2>8. Searching'
      BY <1>2, <1>3, <1>4, <2>6, <2>7 DEF Searching
  <2>9. QED  BY <1>1, <1>3, <2>1, <2>3, <2>8 DEF PathsInv, FindsShortest, FailsByDetour
<1>10. QED  BY <1>7, <1>8, <1>9

(* Nothing that begins with a pruned path is short enough to be missed.    *)
LEMMA PrunedRight ==
    ASSUME PathsInv, Prune
    PROVE  PathsInv'
<1>1. /\ pc = "paths" /\ stack # <<>> /\ current # Target /\ stack' = Front(stack)
      /\ UNCHANGED rowVars /\ TooLong /\ UNCHANGED <<pc, best, found>>
    BY DEF Prune
<1>2. /\ RowsOK /\ PathsOK /\ Searching /\ depth \in Nat /\ best \in Nat
      /\ path \in Partial /\ Len(path) \in Nat /\ path[Len(path)] = current
      /\ \A w \in Walks : w \in Partial /\ Len(w) \in Nat /\ w[Len(w)] = Target
      /\ Hops \in Nat /\ Hops <= depth + 1 /\ \A w \in Walks : Len(w) <= Hops
    BY <1>1, AtThePath
<1>3. /\ RowsOK' /\ Nodes' = Nodes /\ Partial' = Partial /\ depth' = depth
      /\ Walks' = Walks /\ Routes' = Routes
    BY <1>1, <1>2, SameRows
<1>4. /\ stack' \in Seq(Seq(Entity))
      /\ \A k \in DOMAIN stack' : stack'[k] \in Partial'
    BY <1>1, StillPartial
<1>5. ASSUME NEW w \in Walks PROVE Covered(w)'
  <2>1. CASE Begins(path, w)
    <3>1. Len(path) < Len(w)
        BY <1>1, <1>2, <2>1, WalkGoesOn
    <3>2. Len(w) \in Nat /\ Len(w) <= depth + 1
      <4>1. Len(w) \in Nat /\ Len(w) <= Hops
          BY <1>2
      <4>2. QED  BY <1>2, <4>1
    <3>3. ~(Len(path) > depth)
        BY <1>2, <3>1, <3>2
    <3>4. best # 0 /\ Len(path) >= best
        BY <1>1, <3>3 DEF TooLong
    <3>5. best' # 0 /\ best' < Len(w)
        BY <1>1, <1>2, <3>1, <3>2, <3>4
    <3>6. QED  BY <3>5 DEF Covered
  <2>2. CASE ~Begins(path, w)
    <3>1. Covered(w)
        BY <1>2 DEF Searching
    <3>2. QED  BY <1>1, <1>2, <2>2, <3>1, DroppedCovers
  <2>3. QED  BY <2>1, <2>2
<1>6. PathsOK'
    BY <1>1, <1>2, <1>3, <1>4 DEF PathsOK
<1>7. Kept'
    BY <1>1, <1>2, <1>3 DEF Searching, Kept
<1>8. Searching'
    BY <1>2, <1>3, <1>4, <1>5, <1>7 DEF Searching
<1>9. QED  BY <1>1, <1>3, <1>6, <1>8 DEF PathsInv, FindsShortest, FailsByDetour

(* Following a path goes on along every walk that it begins.               *)
LEMMA FollowedRight ==
    ASSUME PathsInv, Follow
    PROVE  PathsInv'
<1>1. /\ pc = "paths" /\ stack # <<>> /\ current # Target /\ ~TooLong
      /\ stack' = Front(stack) \o [i \in DOMAIN Fresh |-> Append(path, Reverse(Fresh)[i])]
      /\ UNCHANGED rowVars /\ UNCHANGED <<pc, best, found>>
    BY DEF Follow
<1>2. /\ RowsOK /\ PathsOK /\ Searching /\ depth \in Nat
      /\ path \in Partial /\ path \in Seq(Entity) /\ path[Len(path)] = current
      /\ \A w \in Walks : w \in Partial /\ w[Len(w)] = Target
    BY <1>1, AtThePath
<1>3. /\ RowsOK' /\ Nodes' = Nodes /\ Partial' = Partial /\ depth' = depth
      /\ Walks' = Walks /\ Routes' = Routes
    BY <1>1, <1>2, SameRows
<1>4. /\ stack' \in Seq(Seq(Entity))
      /\ \A k \in DOMAIN stack' :
            \/ \E j \in DOMAIN stack : stack'[k] = stack[j]
            \/ \E m \in ToSet(Fresh) : stack'[k] = Append(path, m)
      /\ \A k \in DOMAIN stack : stack[k] = path
                                    \/ \E j \in DOMAIN stack' : stack'[j] = stack[k]
      /\ \A m \in ToSet(Fresh) : \E j \in DOMAIN stack' : stack'[j] = Append(path, m)
    BY <1>1, <1>2, Followed
<1>5. /\ Fresh \in Seq(Entity)
      /\ \A m : m \in ToSet(Fresh) <=> m \notin ToSet(path) /\ Linked(current, m)
    BY <1>2, FreshIs
<1>6. \A m \in ToSet(Fresh) : m \in Entity
    BY <1>5 DEF ToSet
<1>7. ASSUME NEW k \in DOMAIN stack' PROVE stack'[k] \in Partial
  <2>1. CASE \E j \in DOMAIN stack : stack'[k] = stack[j]
      BY <1>2, <2>1 DEF Searching
  <2>2. CASE \E m \in ToSet(Fresh) : stack'[k] = Append(path, m)
    <3>1. PICK m \in ToSet(Fresh) : stack'[k] = Append(path, m)
        BY <2>2
    <3>2. m \in Entity /\ m \notin ToSet(path) /\ Linked(path[Len(path)], m)
        BY <1>2, <1>5, <1>6
    <3>3. ~(Len(path) > depth)
        BY <1>1 DEF TooLong
    <3>4. Append(path, m) \in Partial
        BY <1>2, <3>2, <3>3, OneMore
    <3>5. QED  BY <3>1, <3>4
  <2>3. QED  BY <1>4, <2>1, <2>2
<1>8. ASSUME NEW w \in Walks PROVE Covered(w)'
  <2>1. Covered(w)
      BY <1>2 DEF Searching
  <2>2. ASSUME NEW k \in DOMAIN stack, Begins(stack[k], w)
        PROVE  \E j \in DOMAIN stack' : Begins(stack'[j], w)
    <3>1. CASE stack[k] # path
        BY <1>4, <2>2, <3>1
    <3>2. CASE stack[k] = path
      <4>1. Begins(path, w) /\ path[Len(path)] # w[Len(w)]
          BY <1>1, <1>2, <2>2, <3>2
      <4>2. PICK m \in Entity : /\ m \notin ToSet(path) /\ Linked(path[Len(path)], m)
                                /\ Begins(Append(path, m), w)
          BY <1>2, <4>1, WalkGoesOn
      <4>3. m \in ToSet(Fresh)
          BY <1>2, <1>5, <4>2
      <4>4. QED  BY <1>4, <4>2, <4>3
    <3>3. QED  BY <3>1, <3>2
  <2>3. QED  BY <1>1, <2>1, <2>2 DEF Covered, Begins
<1>9. PathsOK'
    BY <1>1, <1>2, <1>3, <1>4 DEF PathsOK
<1>10. Kept'
    BY <1>1, <1>2, <1>3 DEF Searching, Kept
<1>11. Searching'
    BY <1>2, <1>3, <1>7, <1>8, <1>10 DEF Searching
<1>12. QED  BY <1>1, <1>3, <1>9, <1>11 DEF PathsInv, FindsShortest, FailsByDetour

(* Nothing is left to follow.                                              *)
LEMMA AnsweredRight ==
    ASSUME PathsInv, Answer
    PROVE  PathsInv'
<1>1. /\ pc = "paths" /\ stack = <<>> /\ found' = FirstAnswers(ByLength(found))
      /\ pc' = "answered" /\ UNCHANGED rowVars /\ UNCHANGED <<stack, best>>
    BY DEF Answer
<1>2. RowsOK /\ PathsOK /\ Searching /\ depth \in Nat
    BY <1>1 DEF PathsInv, PathsOK
<1>3. /\ RowsOK' /\ Nodes' = Nodes /\ depth' = depth
      /\ Routes' = Routes /\ Detours' = Detours /\ Shortest' = Shortest
    BY <1>1, <1>2, SameRows
<1>4. \A w \in Walks : Len(w) \in Nat
    BY <1>2, WalksAre DEF Partial
<1>5. \A w \in Walks : (best # 0 /\ best < Len(w)) \/ w \in ToSet(found)
    BY <1>1, <1>2 DEF Searching, Covered
<1>6. /\ found' \in Seq(Seq(Entity)) /\ ToSet(found') \subseteq Routes
      /\ found' = <<>> => Routes = {}
      /\ found' # <<>> => found'[1] \in Shortest
      /\ ToSet(found') \subseteq Shortest \/ Shortest \subseteq ToSet(found')
      /\ Len(found') < MaxAnswers => Shortest \subseteq ToSet(found')
      /\ \A d \in Detours : \E r \in Routes : Len(r) < Len(d)
    BY <1>1, <1>2, <1>4, <1>5, AnswerIsRight DEF Searching
<1>7. PathsOK'
    BY <1>1, <1>2, <1>3, <1>6 DEF PathsOK
<1>8. FindsShortest'
    BY <1>3, <1>6 DEF FindsShortest
<1>9. FailsByDetour'
    BY <1>1, <1>3, <1>6 DEF FailsByDetour
<1>10. QED  BY <1>1, <1>3, <1>7, <1>8, <1>9 DEF PathsInv

LEMMA PathsInitially == Init => PathsInv
<1> SUFFICES ASSUME Init PROVE PathsInv
    OBVIOUS
<1>1. edges \in Seq(Entity \X Entity)
  <2>1. PICK m \in 0 .. MaxEdges : edges \in [1 .. m -> Candidate]
      BY DEF Init, BoundedSeq, SeqOf
  <2>2. edges \in [1 .. m -> Entity \X Entity] /\ m \in Nat
      BY <2>1, SearchAssumption
  <2>3. QED  BY <2>2
<1>2. RowsOK /\ depth \in Nat
    BY <1>1, SearchAssumption DEF RowsOK, Init
<1>3. PathsOK
    BY <1>2, HopsIs DEF PathsOK, Init
<1>4. QED  BY <1>2, <1>3 DEF PathsInv, FindsShortest, FailsByDetour, Init

LEMMA PathsStay == PathsInv /\ [Next]_vars => PathsInv'
<1> SUFFICES ASSUME PathsInv, [Next]_vars PROVE PathsInv'
    OBVIOUS
<1>1. CASE StartPaths
    BY <1>1, StartedRight
<1>2. CASE Keep
    BY <1>2, KeptRight
<1>3. CASE Prune
    BY <1>3, PrunedRight
<1>4. CASE Follow
    BY <1>4, FollowedRight
<1>5. CASE Answer
    BY <1>5, AnsweredRight
<1>6. CASE StartNeighbors \/ Round \/ AnswerNeighbors
  <2>1. UNCHANGED rowVars /\ UNCHANGED <<stack, best, found>> /\ pc' \in {"neighbors", "around"}
      BY <1>6 DEF StartNeighbors, Round, AnswerNeighbors, pathVars
  <2>2. RowsOK' /\ PathsOK'
      BY <2>1, SameRows DEF PathsInv, PathsOK
  <2>3. QED  BY <2>1, <2>2 DEF PathsInv, FindsShortest, FailsByDetour
<1>7. CASE UNCHANGED vars
  <2>1. UNCHANGED rowVars /\ UNCHANGED <<pc, stack, best, found>>
      BY <1>7 DEF vars, pathVars
  <2>2. /\ RowsOK' = RowsOK /\ Nodes' = Nodes /\ Partial' = Partial /\ depth' = depth
        /\ Walks' = Walks /\ Routes' = Routes /\ Detours' = Detours /\ Shortest' = Shortest
      BY <2>1, SameRows
  <2>3. RowsOK' /\ PathsOK' /\ (pc' = "start" => found' = <<>> /\ best' = 0)
      BY <2>1, <2>2 DEF PathsInv, PathsOK
  <2>4. pc' = "paths" => Searching'
      BY <2>1, <2>2 DEF PathsInv, Searching, Kept, Covered, Begins
  <2>5. FindsShortest'
      BY <2>1, <2>2 DEF PathsInv, FindsShortest
  <2>6. FailsByDetour'
      BY <2>1, <2>2 DEF PathsInv, FailsByDetour
  <2>7. QED  BY <2>3, <2>4, <2>5, <2>6 DEF PathsInv
<1>8. QED
    BY <1>1, <1>2, <1>3, <1>4, <1>5, <1>6, <1>7 DEF Next, Rest

(* paths answers with routes of active entities within its max_depth,      *)
(* shortest first, and misses a shortest one only where the answer is      *)
(* full: pruning by the path that was kept last loses none, in whatever    *)
(* order the relations are read and however they point.                    *)
THEOREM PathsAreShortest == Spec => []FindsShortest
<1>1. PathsInv => FindsShortest
    BY DEF PathsInv
<1>2. QED  BY PathsInitially, PathsStay, <1>1, PTL DEF Spec

(* paths fails only where a walk within max_depth leads through an entity  *)
(* that is not active, and answers only where every such walk is longer    *)
(* than a route.                                                           *)
THEOREM FailsOnlyByDetour == Spec => []FailsByDetour
<1>1. PathsInv => FailsByDetour
    BY DEF PathsInv
<1>2. QED  BY PathsInitially, PathsStay, <1>1, PTL DEF Spec

(* The part of the types that the two searches do not share.               *)
RestOK ==
    /\ status \in Rows
    /\ edges \in Seq(Candidate) /\ Len(edges) <= MaxEdges
    /\ depth \in Depth /\ left \in 0 .. depth
    /\ pc \in {"start", "paths", "neighbors", "answered", "raised", "around"}
    /\ frontier \subseteq Nodes \cup {Source}
    /\ reachable \subseteq Nodes \cup {Source}
    /\ covered \subseteq DOMAIN edges

(* Every variable has its type, whatever the graph and however deep the    *)
(* query.                                                                  *)
THEOREM TypeCorrect == Spec => []TypeOK
<1>1. Init => RestOK
  <2> SUFFICES ASSUME Init PROVE RestOK
      OBVIOUS
  <2>1. PICK m \in 0 .. MaxEdges : edges \in [1 .. m -> Candidate]
      BY DEF Init, BoundedSeq, SeqOf
  <2>2. edges \in Seq(Candidate) /\ Len(edges) <= MaxEdges
    <3>1. m \in Nat /\ m <= MaxEdges /\ MaxEdges \in Nat
        BY SearchAssumption
    <3>2. edges \in Seq(Candidate) /\ Len(edges) = m
        BY <2>1, <3>1
    <3>3. QED  BY <3>1, <3>2
  <2>3. depth \in Depth /\ depth \in Nat
      BY SearchAssumption DEF Init
  <2>4. QED  BY <2>2, <2>3 DEF Init, RestOK
<1>2. RestOK /\ [Next]_vars => RestOK'
  <2> SUFFICES ASSUME RestOK, [Next]_vars PROVE RestOK'
      OBVIOUS
  <2>1. UNCHANGED <<status, edges, depth>> /\ depth \in Nat
      BY SearchAssumption
      DEF Next, StartPaths, Keep, Prune, Follow, Answer, StartNeighbors, Round,
          AnswerNeighbors, Rest, rowVars, vars, RestOK
  <2>2. Nodes' = Nodes
      BY <2>1 DEF Nodes
  <2>3. CASE StartNeighbors
      BY <2>1, <2>2, <2>3 DEF StartNeighbors, RestOK
  <2>4. CASE Round
    <3>1. left > 0 /\ left' = left - 1 /\ UNCHANGED pc
        BY <2>4 DEF Round
    <3>2. left' \in 0 .. depth
        BY <2>1, <3>1 DEF RestOK
    <3>3. frontier' \subseteq Nodes
        BY <2>4 DEF Round, Reached
    <3>4. reachable' \subseteq Nodes \cup {Source} /\ covered' \subseteq DOMAIN edges
        BY <2>4, <3>3 DEF Round, RestOK
    <3>5. QED  BY <2>1, <2>2, <3>1, <3>2, <3>3, <3>4 DEF RestOK
  <2>5. CASE AnswerNeighbors
      BY <2>1, <2>2, <2>5 DEF AnswerNeighbors, RestOK, ringVars
  <2>6. CASE StartPaths \/ Keep \/ Prune \/ Follow \/ Answer
    <3>1. /\ UNCHANGED <<left, frontier, reachable, covered>>
          /\ pc' \in {"start", "paths", "neighbors", "answered", "raised", "around"}
        BY <2>6 DEF StartPaths, Keep, Prune, Follow, Answer, ringVars, RestOK
    <3>2. QED  BY <2>1, <2>2, <3>1 DEF RestOK
  <2>7. CASE UNCHANGED vars
      BY <2>1, <2>2, <2>7 DEF vars, ringVars, RestOK
  <2>8. QED
      BY <2>3, <2>4, <2>5, <2>6, <2>7 DEF Next, Rest
<1>3. PathsInv /\ RestOK => TypeOK
    BY DEF PathsInv, PathsOK, RestOK, TypeOK
<1>4. QED  BY PathsInitially, PathsStay, <1>1, <1>2, <1>3, PTL DEF Spec

=============================================================================
