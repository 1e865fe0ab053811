------------------------------ MODULE Queries ------------------------------
(***************************************************************************)
(* The two graph searches of the stores, neighbors and paths, as the loops *)
(* that persistence/sqlite_store.py and persistence/neo4j_store.py run in  *)
(* Python over the active rows.  The store leaves relations active when it *)
(* deprecates their endpoints (GraphStore), so the relations may lead to   *)
(* entities that are not among the active ones, or have no row at all.     *)
(***************************************************************************)
EXTENDS Integers, FiniteSets, SequencesExt

CONSTANTS Entity,
          Rows,         \* the entity rows considered: a status for each
          Candidate,    \* the relations considered, as pairs of entities
          MaxEdges,     \* bound on the relations of a graph
          Depth,        \* the depths of neighbors and max_depths of paths
          MaxAnswers,   \* how many paths are returned at most
          Source, Target

ASSUME SearchAssumption ==
    /\ IsFiniteSet(Entity)
    /\ Rows \subseteq [Entity -> {"active", "deprecated", "none"}]
    /\ Candidate \subseteq Entity \X Entity
    /\ MaxEdges \in Nat /\ Depth \subseteq Nat /\ MaxAnswers \in Nat \ {0}
    /\ Source \in Entity /\ Target \in Entity

VARIABLES
    status,    \* the status of each entity's row
    edges,     \* the active relations in the order they are read
    depth,     \* depth, max_depth
    pc,
    stack,     \* paths: the paths still to be followed
    best,      \* paths: the length of the last path kept, 0 for none
    found,     \* paths: the paths kept; at the end, the answer
    left,      \* neighbors: how many rounds are left
    frontier, reachable, covered   \* neighbors: as in the code

rowVars == <<status, edges, depth>>
pathVars == <<stack, best, found>>
ringVars == <<left, frontier, reachable, covered>>
vars == <<rowVars, pc, pathVars, ringVars>>

Nodes == {n \in Entity : status[n] = "active"}

Init ==
    /\ status \in Rows
    /\ edges \in BoundedSeq(Candidate, MaxEdges)
    /\ depth \in Depth
    /\ pc = "start"
    /\ stack = <<>> /\ best = 0 /\ found = <<>>
    /\ left = 0 /\ frontier = {} /\ reachable = {} /\ covered = {}

-----------------------------------------------------------------------------
(* paths: a depth-first search that forgets what cannot be shorter than    *)
(* the path it kept last.                                                  *)

StartPaths ==
    /\ pc = "start"
    /\ IF {Source, Target} \subseteq Nodes
       THEN pc' = "paths" /\ stack' = <<<<Source>>>>
       ELSE pc' = "answered" /\ UNCHANGED stack
    /\ UNCHANGED <<rowVars, best, found, ringVars>>

path == Last(stack)
current == Last(path)

\* Mutant: entities that are not active are passed over in silence.
KeepKnown ==
    /\ pc = "paths" /\ stack # <<>> /\ current = Target
    /\ stack' = Front(stack)
    /\ IF best # 0 /\ Len(path) > best
       THEN UNCHANGED <<best, found>>
       ELSE best' = Len(path) /\ found' = Append(found, path)
    /\ UNCHANGED <<rowVars, pc, ringVars>>

(* The target is reached.  nodeNames looks every entity of the path up     *)
(* among the active ones: KeyError.                                        *)
Keep ==
    /\ pc = "paths" /\ stack # <<>> /\ current = Target
    /\ stack' = Front(stack)
    /\ IF best # 0 /\ Len(path) > best
       THEN UNCHANGED <<pc, best, found>>
       ELSE IF \E i \in 1 .. Len(path) : path[i] \notin Nodes
       THEN pc' = "raised" /\ UNCHANGED <<best, found>>
       ELSE best' = Len(path) /\ found' = Append(found, path) /\ UNCHANGED pc
    /\ UNCHANGED <<rowVars, ringVars>>

TooLong == (best # 0 /\ Len(path) >= best) \/ Len(path) > depth

Prune ==
    /\ pc = "paths" /\ stack # <<>> /\ current # Target
    /\ TooLong
    /\ stack' = Front(stack)
    /\ UNCHANGED <<rowVars, pc, best, found, ringVars>>

(* The neighbours that are not on the path: every relation counts in both  *)
(* directions, and parallel relations count several times.                 *)
Fresh ==
    LET End(here, there) == IF here = current /\ there \notin ToSet(path) THEN <<there>> ELSE <<>>
        list[i \in 0 .. Len(edges)] ==
            IF i = 0 THEN <<>>
            ELSE list[i - 1] \o (End(edges[i][1], edges[i][2]) \o End(edges[i][2], edges[i][1]))
    IN  list[Len(edges)]

(* Pushed in reverse, so that the first neighbour is followed first.       *)
Follow ==
    /\ pc = "paths" /\ stack # <<>> /\ current # Target
    /\ ~TooLong
    /\ stack' = Front(stack) \o [i \in DOMAIN Fresh |-> Append(path, Reverse(Fresh)[i])]
    /\ UNCHANGED <<rowVars, pc, best, found, ringVars>>

\* Mutant: the paths are returned as they were found.
AsFound(paths) == paths

(* A stable sort by length: the path with k - 1 before it comes at place   *)
(* k.  Of these the first MaxAnswers.                                      *)
Earlier(paths, i, j) ==
    \/ Len(paths[i]) < Len(paths[j])
    \/ Len(paths[i]) = Len(paths[j]) /\ i < j

ByLength(paths) ==
    [k \in DOMAIN paths |->
        paths[CHOOSE j \in DOMAIN paths :
                 Cardinality({i \in DOMAIN paths : Earlier(paths, i, j)}) = k - 1]]

FirstAnswers(paths) == SubSeq(paths, 1, IF Len(paths) < MaxAnswers
                                        THEN Len(paths) ELSE MaxAnswers)

Answer ==
    /\ pc = "paths" /\ stack = <<>>
    /\ found' = FirstAnswers(ByLength(found))
    /\ pc' = "answered"
    /\ UNCHANGED <<rowVars, stack, best, ringVars>>

-----------------------------------------------------------------------------
(* neighbors: breadth first, one round per level; depth is 1 or 2.         *)

(* The center need not be active, only have a row.                         *)
StartNeighbors ==
    /\ pc = "start" /\ depth \in {1, 2} /\ status[Source] # "none"
    /\ pc' = "neighbors"
    /\ left' = depth
    /\ frontier' = {Source} /\ reachable' = {Source}
    /\ UNCHANGED <<rowVars, pathVars, covered>>

\* Mutant: relations are followed in their own direction only.
ReachedForward(e) == {n \in Nodes : e[1] \in frontier /\ n = e[2]}

(* The ends of relation e that a round reaches.                            *)
Reached(e) == {n \in Nodes : \/ e[1] \in frontier /\ n = e[2]
                             \/ e[2] \in frontier /\ n = e[1]}

Round ==
    /\ pc = "neighbors" /\ left > 0
    /\ left' = left - 1
    /\ frontier' = UNION {Reached(edges[i]) : i \in DOMAIN edges}
    /\ reachable' = reachable \cup frontier'
    /\ covered' = covered \cup {i \in DOMAIN edges : Reached(edges[i]) # {}}
    /\ UNCHANGED <<rowVars, pc, pathVars>>

AnswerNeighbors ==
    /\ pc = "neighbors" /\ left = 0
    /\ pc' = "around"
    /\ UNCHANGED <<rowVars, pathVars, ringVars>>

(* The query has been answered.                                            *)
Rest == pc \in {"answered", "raised", "around"} /\ UNCHANGED vars

Next ==
    \/ StartPaths \/ Keep \/ Prune \/ Follow \/ Answer
    \/ StartNeighbors \/ Round \/ AnswerNeighbors \/ Rest

Spec == Init /\ [][Next]_vars

-----------------------------------------------------------------------------
(* Every variable has its type.                                            *)
TypeOK ==
    /\ status \in Rows
    /\ edges \in Seq(Candidate) /\ Len(edges) <= MaxEdges
    /\ depth \in Depth /\ left \in 0 .. depth
    /\ pc \in {"start", "paths", "neighbors", "answered", "raised", "around"}
    /\ stack \in Seq(Seq(Entity)) /\ found \in Seq(Seq(Entity))
    /\ best \in 0 .. Cardinality(Entity)
    /\ frontier \subseteq Nodes \cup {Source}
    /\ reachable \subseteq Nodes \cup {Source}
    /\ covered \subseteq DOMAIN edges

(* The reference: the simple paths from the source to n, without regard to *)
(* the order of the relations.                                             *)
Linked(m, n) == \E i \in DOMAIN edges : edges[i] \in {<<m, n>>, <<n, m>>}

Simple(n, bound) ==
    {p \in UNION {[1 .. l -> Entity] : l \in 1 .. bound} :
        /\ p[1] = Source /\ p[Len(p)] = n
        /\ IsInjective(p)
        /\ \A i \in 1 .. Len(p) - 1 : Linked(p[i], p[i + 1])}

Hops == IF depth < Cardinality(Entity) THEN depth + 1 ELSE Cardinality(Entity)
Walks == Simple(Target, Hops)
Routes == {p \in Walks : ToSet(p) \subseteq Nodes}
Detours == Walks \ Routes
Shortest == {p \in Routes : \A q \in Routes : Len(p) <= Len(q)}

(* paths: what it returns are routes within max_depth, shortest first; a   *)
(* longer one is there only if all the shortest are; and there is nothing  *)
(* in the answer only if there is no route.  Pruning by the last path kept *)
(* must not lose a shortest one, whatever the order of the relations.      *)
FindsShortest ==
    pc = "answered" =>
        /\ ToSet(found) \subseteq Routes
        /\ found = <<>> => Routes = {} \/ ~({Source, Target} \subseteq Nodes)
        /\ found # <<>> => found[1] \in Shortest
        /\ ToSet(found) \subseteq Shortest \/ Shortest \subseteq ToSet(found)
        /\ Len(found) < MaxAnswers => Shortest \subseteq ToSet(found)

(* paths: it fails only on a path that leads through an entity that is not *)
(* active, and an answer means that every such path is longer than one the *)
(* search had found.                                                       *)
FailsByDetour ==
    /\ pc = "raised" => Detours # {}
    /\ pc = "answered" /\ {Source, Target} \subseteq Nodes =>
          \A d \in Detours : \E r \in Routes : Len(r) < Len(d)

(* The entities within k steps of the source over active ones.             *)
Near(k) == {n \in Entity : \E p \in Simple(n, k + 1) :
                              ToSet(p) \ {Source} \subseteq Nodes}

(* neighbors: the nodes are the entities within the depth, the edges are   *)
(* the relations that leave an entity short of it, and the answer is a     *)
(* graph: both ends of an edge are among its nodes.                        *)
FindsNeighborhood ==
    pc = "around" =>
        /\ reachable = Near(depth)
        /\ \A i \in DOMAIN edges :
              i \in covered <=>
                  \E j, k \in {1, 2} : /\ j # k /\ edges[i][j] \in Near(depth - 1)
                                       /\ edges[i][k] \in Nodes
        /\ \A i \in covered : ToSet(edges[i]) \subseteq reachable
=============================================================================
