----------------------- MODULE SqliteConnectionProofs -----------------------
(***************************************************************************)
(* What holds of SqliteConnection for every set of processes and every     *)
(* bound on the store calls.                                               *)
(***************************************************************************)
EXTENDS SqliteConnection, FiniteSetTheorems, TLAPS

-----------------------------------------------------------------------------
(* Type correctness.  The number of commits is bounded by the number of    *)
(* calls: each call in flight has at most one commit to come.              *)

InFlight == {p \in Process : pc[p] # "idle"}

CallsBound ==
    /\ IsFiniteSet(InFlight)
    /\ head + Cardinality(InFlight) <= calls

TypeInv ==
    /\ TypeOK
    /\ CallsBound

(* A process that ends its call leaves the calls in flight, one at most.   *)
LEMMA LeaveFlight ==
    ASSUME TypeInv, NEW p \in Process, Goto(p, "idle")
    PROVE  /\ IsFiniteSet(InFlight')
           /\ Cardinality(InFlight') \in Nat
           /\ Cardinality(InFlight') <= Cardinality(InFlight)
           /\ pc[p] # "idle" => Cardinality(InFlight') = Cardinality(InFlight) - 1
<1>1. IsFiniteSet(InFlight) /\ Cardinality(InFlight) \in Nat
  BY FS_CardinalityType DEF TypeInv, CallsBound
<1>2. InFlight' = InFlight \ {p}
  BY DEF InFlight, Goto, TypeInv, TypeOK
<1>3. IsFiniteSet(InFlight') /\ Cardinality(InFlight') \in Nat
  BY <1>1, <1>2, FS_RemoveElement, FS_CardinalityType
<1>4. Cardinality(InFlight') = IF p \in InFlight THEN Cardinality(InFlight) - 1
                               ELSE Cardinality(InFlight)
  BY <1>1, <1>2, FS_RemoveElement
<1> QED
  BY <1>1, <1>3, <1>4 DEF InFlight

(* A process that goes on within its call stays in flight.                 *)
LEMMA StayInFlight ==
    ASSUME TypeInv, NEW p \in Process, pc[p] # "idle",
           NEW label \in {"select", "write", "commit"}, Goto(p, label)
    PROVE  InFlight' = InFlight
BY DEF InFlight, Goto, TypeInv, TypeOK

(* A call that begins brings one process into flight, and is counted.      *)
LEMMA EnterFlight ==
    ASSUME TypeInv, NEW p \in Process, pc[p] = "idle",
           NEW label \in {"select", "write"}, Goto(p, label)
    PROVE  /\ IsFiniteSet(InFlight')
           /\ Cardinality(InFlight') = Cardinality(InFlight) + 1
<1>1. InFlight' = InFlight \cup {p} /\ p \notin InFlight
  BY DEF InFlight, Goto, TypeInv, TypeOK
<1> QED
  BY <1>1, FS_AddElement DEF TypeInv, CallsBound

LEMMA InitTypeInv == Init => TypeInv
<1> SUFFICES ASSUME Init PROVE TypeInv
  OBVIOUS
<1>1. TypeOK
  BY ConnectionAssumption DEF Init, TypeOK, Kind
<1>2. InFlight = {}
  BY DEF Init, InFlight
<1> QED
  BY <1>1, <1>2, FS_EmptySet DEF TypeInv, CallsBound, Init

(* The steps of a store call keep the types.                               *)
LEMMA ServeTypeInv ==
    ASSUME TypeInv, NEW p \in Process, Serve(p)
    PROVE  TypeInv'
<1> USE ConnectionAssumption DEF TypeInv
<1>0. Cardinality(InFlight) \in Nat /\ head \in Nat /\ calls \in Nat
  BY FS_CardinalityType DEF CallsBound, TypeOK
<1>1. CASE Call(p)
  <2>1. PICK k \in Kind : /\ kind' = [kind EXCEPT ![p] = k]
                          /\ Goto(p, IF k = "update" THEN "write" ELSE "select")
    BY <1>1 DEF Call
  <2>2. CallsBound'
    BY <1>0, <1>1, <2>1, EnterFlight DEF Call, CallsBound, TypeOK
  <2> QED
    BY <1>1, <2>1, <2>2 DEF Call, TypeOK, Goto
<1>2. CASE Select(p)
  <2>1. Visible(p) \in 0 .. head
    BY DEF Visible, TypeOK
  <2>2. TypeOK'
    BY <1>2, <2>1 DEF Select, Pin, TypeOK, Goto
  <2>3. CASE Goto(p, "write")
    BY <1>2, <2>2, <2>3, StayInFlight DEF Select, CallsBound
  <2>4. CASE Goto(p, "idle")
    BY <1>0, <1>2, <2>2, <2>4, LeaveFlight DEF Select, CallsBound
  <2> QED
    BY <1>2, <2>3, <2>4 DEF Select
<1>3. CASE Write(p)
  <2>1. TypeOK'
    BY <1>3 DEF Write, TypeOK, Goto
  <2> QED
    BY <1>3, <2>1, StayInFlight DEF Write, CallsBound
<1>4. CASE Violate(p)
  <2>1. TypeOK'
    BY <1>4 DEF Violate, TypeOK, Goto
  <2> QED
    BY <1>0, <1>4, <2>1, LeaveFlight DEF Violate, CallsBound
<1>5. CASE Busy(p)
  <2>1. TypeOK'
    BY <1>5 DEF Busy, TypeOK, Goto
  <2> QED
    BY <1>0, <1>5, <2>1, LeaveFlight DEF Busy, CallsBound
<1>6. CASE Stale(p)
  <2>1. TypeOK'
    BY <1>6 DEF Stale, TypeOK, Goto
  <2> QED
    BY <1>0, <1>6, <2>1, LeaveFlight DEF Stale, CallsBound
<1>7. CASE Commit(p)
  <2>1. /\ IsFiniteSet(InFlight') /\ Cardinality(InFlight') \in Nat
        /\ Cardinality(InFlight') = Cardinality(InFlight) - 1
    BY <1>7, LeaveFlight DEF Commit
  <2>2. CallsBound'
    BY <1>0, <1>7, <2>1 DEF Commit, CallsBound
  <2>3. head' \in 0 .. MaxCalls
    BY <1>0, <1>7, <2>1, <2>2 DEF Commit, CallsBound, TypeOK
  <2> QED
    BY <1>7, <2>2, <2>3 DEF Commit, TypeOK, Goto
<1>8. CASE Unbindable(p)
  <2>1. TypeOK'
    BY <1>8 DEF Unbindable, TypeOK, Goto
  <2> QED
    BY <1>0, <1>8, <2>1, LeaveFlight DEF Unbindable, CallsBound
<1> QED
  BY <1>1, <1>2, <1>3, <1>4, <1>5, <1>6, <1>7, <1>8 DEF Serve

LEMMA NextTypeInv == TypeInv /\ [Next]_vars => TypeInv'
<1> SUFFICES ASSUME TypeInv, [Next]_vars PROVE TypeInv'
  OBVIOUS
<1>1. ASSUME NEW p \in Process, Restart(p) PROVE TypeInv'
  <2>1. TypeOK'
    BY <1>1, ConnectionAssumption DEF Restart, TypeInv, TypeOK, Goto
  <2>2. Cardinality(InFlight) \in Nat /\ head \in Nat /\ calls \in Nat
    BY FS_CardinalityType, ConnectionAssumption DEF TypeInv, CallsBound, TypeOK
  <2> QED
    BY <1>1, <2>1, <2>2, LeaveFlight DEF Restart, TypeInv, CallsBound
<1>2. CASE UNCHANGED vars
  BY <1>2 DEF vars, TypeInv, TypeOK, CallsBound, InFlight
<1> QED
  BY <1>1, <1>2, ServeTypeInv DEF Next, Quiescent

(* Every variable keeps its type, and the database never has more commits  *)
(* than store calls were made, whatever processes die or time out.         *)
THEOREM TypeCorrect == Spec => []TypeOK
<1>1. TypeInv => TypeOK
  BY DEF TypeInv
<1> QED
  BY <1>1, InitTypeInv, NextTypeInv, PTL DEF Spec

-----------------------------------------------------------------------------
(* Who holds the lock, and which connections are behind.                   *)

(* A call that is about to commit has the write lock, and the lock is left *)
(* behind only by a broken constraint.                                     *)
WriterInv ==
    /\ \A p \in Process : pc[p] = "commit" => writer = p
    /\ LockLeftByViolation

(* A snapshot belongs to a transaction; a connection in a transaction is   *)
(* the writer, whose snapshot is the latest commit, or has raised before.  *)
SnapshotInv ==
    \A p \in Process :
        /\ snap[p] # NoSnapshot => inTx[p]
        /\ inTx[p] => writer = p \/ timedOut[p] \/ unbound[p]
        /\ writer = p => snap[p] = head

ConnectionInv == WriterInv /\ SnapshotInv

LEMMA InitConnectionInv == Init => ConnectionInv
BY ConnectionAssumption DEF Init, ConnectionInv, WriterInv, LockLeftByViolation, SnapshotInv

(* SnapshotInv says what is needed of the connections that fell behind.    *)
LEMMA BehindHasRaised == SnapshotInv => WedgedByRaise
BY DEF SnapshotInv, WedgedByRaise, Wedged, Visible

LEMMA ServeConnectionInv ==
    ASSUME TypeOK, ConnectionInv, NEW p \in Process, Serve(p)
    PROVE  ConnectionInv'
<1> USE ConnectionAssumption DEF ConnectionInv
<1>1. CASE Call(p)
  BY <1>1 DEF Call, WriterInv, LockLeftByViolation, SnapshotInv, TypeOK, Goto
<1>2. CASE Select(p)
  <2>1. WriterInv'
    BY <1>2 DEF Select, WriterInv, LockLeftByViolation, TypeOK, Goto
  <2>2. SnapshotInv'
    BY <1>2 DEF Select, Pin, Visible, SnapshotInv, TypeOK
  <2> QED BY <2>1, <2>2
<1>3. CASE Write(p)
  <2>1. writer \in {p, NoProcess}
    BY <1>3 DEF Write, MayWrite
  <2>2. WriterInv'
    BY <1>3, <2>1 DEF Write, WriterInv, LockLeftByViolation, TypeOK, Goto
  <2>3. SnapshotInv'
    BY <1>3, <2>1 DEF Write, SnapshotInv, TypeOK
  <2> QED BY <2>2, <2>3
<1>4. CASE Violate(p)
  <2>1. writer \in {p, NoProcess}
    BY <1>4 DEF Violate, MayWrite
  <2>2. WriterInv'
    BY <1>4, <2>1 DEF Violate, WriterInv, LockLeftByViolation, TypeOK, Goto
  <2>3. SnapshotInv'
    BY <1>4, <2>1 DEF Violate, SnapshotInv, TypeOK
  <2> QED BY <2>2, <2>3
<1>5. CASE Busy(p)
  <2>1. WriterInv'
    BY <1>5 DEF Busy, WriterInv, LockLeftByViolation, TypeOK, Goto
  <2>2. SnapshotInv'
    BY <1>5 DEF Busy, SnapshotInv, TypeOK
  <2> QED BY <2>1, <2>2
<1>6. CASE Stale(p)
  BY <1>6 DEF Stale, WriterInv, LockLeftByViolation, SnapshotInv, TypeOK, Goto
<1>7. CASE Commit(p)
  <2>1. writer = p
    BY <1>7 DEF Commit, WriterInv
  <2>2. WriterInv'
    BY <1>7, <2>1 DEF Commit, WriterInv, LockLeftByViolation, TypeOK, Goto
  <2>3. SnapshotInv'
    BY <1>7, <2>1 DEF Commit, SnapshotInv, TypeOK
  <2> QED BY <2>2, <2>3
<1>8. CASE Unbindable(p)
  <2>1. WriterInv'
    BY <1>8 DEF Unbindable, WriterInv, LockLeftByViolation, TypeOK, Goto
  <2>2. SnapshotInv'
    BY <1>8 DEF Unbindable, SnapshotInv, TypeOK
  <2> QED BY <2>1, <2>2
<1> QED
  BY <1>1, <1>2, <1>3, <1>4, <1>5, <1>6, <1>7, <1>8 DEF Serve

LEMMA NextConnectionInv == TypeOK /\ ConnectionInv /\ [Next]_vars => ConnectionInv'
<1> SUFFICES ASSUME TypeOK, ConnectionInv, [Next]_vars PROVE ConnectionInv'
  OBVIOUS
<1>1. ASSUME NEW p \in Process, Restart(p) PROVE ConnectionInv'
  <2>1. WriterInv'
    BY <1>1, ConnectionAssumption
    DEF Restart, ConnectionInv, WriterInv, LockLeftByViolation, TypeOK, Goto
  <2>2. SnapshotInv'
    BY <1>1, ConnectionAssumption DEF Restart, ConnectionInv, SnapshotInv, TypeOK
  <2> QED BY <2>1, <2>2 DEF ConnectionInv
<1>2. CASE UNCHANGED vars
  BY <1>2 DEF vars, ConnectionInv, WriterInv, LockLeftByViolation, SnapshotInv
<1> QED
  BY <1>1, <1>2, ServeConnectionInv DEF Next, Quiescent

LEMMA ConnectionIsSound == Spec => []ConnectionInv
BY TypeCorrect, InitConnectionInv, NextConnectionInv, PTL DEF Spec

(* Between its calls a process holds the write lock of the database only   *)
(* after a row of its own broke a constraint.                              *)
THEOREM LockIsLeftByViolation == Spec => []LockLeftByViolation
<1>1. ConnectionInv => LockLeftByViolation
  BY DEF ConnectionInv, WriterInv
<1> QED
  BY <1>1, ConnectionIsSound, PTL

(* A connection falls behind the database only after one of its statements *)
(* hit the busy timeout or had a parameter that could not be bound.        *)
THEOREM BehindByRaise == Spec => []WedgedByRaise
<1>1. ConnectionInv => WedgedByRaise
  BY BehindHasRaised DEF ConnectionInv
<1> QED
  BY <1>1, ConnectionIsSound, PTL

-----------------------------------------------------------------------------
(* Once behind, behind until the restart.                                  *)

(* A connection that is behind has a snapshot, an old one.                 *)
LEMMA WedgedSnapshot ==
    ASSUME TypeOK, NEW p \in Process
    PROVE  Wedged(p) <=> snap[p] # NoSnapshot /\ snap[p] < head
BY ConnectionAssumption DEF TypeOK, Wedged, Visible

LEMMA StaysWedged ==
    ASSUME TypeOK, TypeOK', ConnectionInv, [Next]_vars,
           NEW p \in Process, Wedged(p), ~Restart(p)
    PROVE  Wedged(p)'
<1>1. snap[p] # NoSnapshot /\ snap[p] \in Nat /\ snap[p] < head /\ head \in Nat
  BY WedgedSnapshot, ConnectionAssumption DEF TypeOK
<1>2. snap'[p] = snap[p] /\ head <= head' /\ head' \in Nat => Wedged(p)'
  BY <1>1 DEF Wedged, Visible
<1>3. ASSUME NEW q \in Process, Serve(q) PROVE Wedged(p)'
  <2>1. CASE Select(q)
    BY <1>1, <1>2, <2>1 DEF Select, Pin, Visible, TypeOK
  <2>2. CASE Write(q) \/ Violate(q)
    <3>1. q # p
      BY <2>2 DEF Write, Violate, MayWrite, Wedged
    <3> QED
      BY <1>1, <1>2, <2>2, <3>1 DEF Write, Violate, TypeOK
  <2>3. CASE Commit(q)
    <3>1. q # p
      BY <1>1, <2>3 DEF Commit, ConnectionInv, WriterInv, SnapshotInv
    <3> QED
      BY <1>1, <1>2, <2>3, <3>1 DEF Commit, TypeOK
  <2>4. CASE Call(q) \/ Busy(q) \/ Stale(q) \/ Unbindable(q)
    BY <1>1, <1>2, <2>4 DEF Call, Busy, Stale, Unbindable
  <2> QED
    BY <1>3, <2>1, <2>2, <2>3, <2>4 DEF Serve
<1>4. ASSUME NEW q \in Process, Restart(q) PROVE Wedged(p)'
  <2>1. q # p
    BY <1>4
  <2> QED
    BY <1>1, <1>2, <1>4, <2>1 DEF Restart, TypeOK
<1>5. CASE UNCHANGED vars
  BY <1>1, <1>2, <1>5 DEF vars
<1> QED
  BY <1>3, <1>4, <1>5 DEF Next, Quiescent

(* Nothing a process does, and nothing the others do, brings a connection  *)
(* that fell behind up to date: only its own restart does.                 *)
THEOREM BehindUntilRestart == Spec => WedgedUntilRestart
<1>1. TypeOK /\ TypeOK' /\ ConnectionInv /\ [Next]_vars
        => [\A p \in Process : Wedged(p) /\ ~Restart(p) => Wedged(p)']_vars
  BY StaysWedged
<1> QED
  BY <1>1, TypeCorrect, ConnectionIsSound, PTL DEF Spec, WedgedUntilRestart
=============================================================================
