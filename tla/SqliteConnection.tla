------------------------- MODULE SqliteConnection --------------------------
(***************************************************************************)
(* The connections of several processes to ONE SQLite file in WAL mode:    *)
(* the HTTP and gRPC servers, the Celery worker and the CLI each hold one  *)
(* SqliteGraphStore with one connection for their whole life.              *)
(*                                                                         *)
(* The driver opens a transaction before the first INSERT, UPDATE or       *)
(* DELETE, and the store closes it with commit() at the end of the call.   *)
(* No call rolls back: a statement that raises leaves the transaction open *)
(* for whatever call comes next.  What a SELECT sees, and when a statement *)
(* raises, follow SQLite's rules for a deferred transaction.               *)
(*                                                                         *)
(* The database is the number of commits made to it.                       *)
(***************************************************************************)
EXTENDS Naturals

CONSTANTS Process, NoProcess,
          NoSnapshot,   \* the connection reads the latest commit
          MaxCalls      \* bound on the store calls made

Kind == {"read", "upsert", "create", "update"}

ASSUME ConnectionAssumption ==
    /\ NoProcess \notin Process
    /\ NoSnapshot \notin Nat
    /\ MaxCalls \in Nat

VARIABLES
    head,       \* the latest commit of the database
    writer,     \* the process that holds the database's write lock
    inTx,       \* per process: the connection is in a transaction
    snap,       \* per process: the commit its transaction reads from
    pc, kind,   \* per process: the step of its store call, and which call
    based,      \* per process: the commit the call's SELECT saw
    timedOut,   \* history: a statement of the connection hit the busy timeout
    unbound,    \* history: a parameter of the connection could not be bound
    clashed,    \* history: a row of the connection broke a constraint
    calls

vars == <<head, writer, inTx, snap, pc, kind, based, timedOut, unbound, clashed, calls>>

Init ==
    /\ head = 0
    /\ writer = NoProcess
    /\ inTx = [p \in Process |-> FALSE]
    /\ snap = [p \in Process |-> NoSnapshot]
    /\ pc = [p \in Process |-> "idle"]
    /\ kind = [p \in Process |-> "read"]
    /\ based = [p \in Process |-> 0]
    /\ timedOut = [p \in Process |-> FALSE]
    /\ unbound = [p \in Process |-> FALSE]
    /\ clashed = [p \in Process |-> FALSE]
    /\ calls = 0

-----------------------------------------------------------------------------
Goto(p, label) == pc' = [pc EXCEPT ![p] = label]

(* What a SELECT sees; inside a transaction the first one fixes it.        *)
Visible(p) == IF snap[p] = NoSnapshot THEN head ELSE snap[p]
Pin(p) == snap' = IF inTx[p] THEN [snap EXCEPT ![p] = Visible(p)] ELSE snap

(* A statement may write if nobody else is writing and nothing was         *)
(* committed since the transaction's snapshot.                             *)
MayWrite(p) == writer \in {p, NoProcess} /\ Visible(p) = head

(* A store call; the process's RLock admits one at a time.  Only the calls *)
(* that write jobs (create_job, update_job) start with their write.        *)
Call(p) ==
    /\ pc[p] = "idle"
    /\ calls < MaxCalls
    /\ calls' = calls + 1
    /\ \E k \in Kind : /\ kind' = [kind EXCEPT ![p] = k]
                      /\ Goto(p, IF k = "update" THEN "write" ELSE "select")
    /\ UNCHANGED <<head, writer, inTx, snap, based, timedOut, unbound, clashed>>

(* The other calls select first: the rows they return, or the row they     *)
(* merge into, delete or must not find.  A read ends here, and so do a     *)
(* create of what is there (ConflictError) and a write that names a graph  *)
(* that is not (KeyError).                                                 *)
Select(p) ==
    /\ pc[p] = "select"
    /\ Pin(p)
    /\ based' = [based EXCEPT ![p] = Visible(p)]
    /\ \/ kind[p] # "read" /\ Goto(p, "write")
       \/ Goto(p, "idle")
    /\ UNCHANGED <<head, writer, inTx, kind, timedOut, unbound, clashed, calls>>

(* Mutant: the call returns without its commit().                          *)
WriteUncommitted(p) ==
    /\ pc[p] = "write"
    /\ MayWrite(p)
    /\ writer' = p
    /\ inTx' = [inTx EXCEPT ![p] = TRUE]
    /\ snap' = [snap EXCEPT ![p] = head]
    /\ Goto(p, "idle")
    /\ UNCHANGED <<head, kind, based, timedOut, unbound, clashed, calls>>

Write(p) ==
    /\ pc[p] = "write"
    /\ MayWrite(p)
    /\ writer' = p
    /\ inTx' = [inTx EXCEPT ![p] = TRUE]
    /\ snap' = [snap EXCEPT ![p] = head]
    /\ Goto(p, "commit")
    /\ UNCHANGED <<head, kind, based, timedOut, unbound, clashed, calls>>

(* IntegrityError: INSERT INTO graphs over a row committed since the       *)
(* SELECT, or a confidence that is not a number, which is bound as NULL    *)
(* where the column takes none.  SQLite undoes the statement, not the      *)
(* transaction, which holds the write lock by then.                        *)
Violate(p) ==
    /\ pc[p] = "write"
    /\ \/ kind[p] = "create" /\ based[p] < head
       \/ kind[p] = "upsert"
    /\ MayWrite(p)
    /\ writer' = p
    /\ inTx' = [inTx EXCEPT ![p] = TRUE]
    /\ snap' = [snap EXCEPT ![p] = head]
    /\ clashed' = [clashed EXCEPT ![p] = TRUE]
    /\ Goto(p, "idle")
    /\ UNCHANGED <<head, kind, based, timedOut, unbound, calls>>

(* A parameter SQLite cannot take: a lone surrogate in the JSON of a       *)
(* record (UnicodeEncodeError), an ontology version above 2^63             *)
(* (OverflowError).  The driver opens the transaction before it binds the  *)
(* parameters, so that one is open whose statement never ran.              *)
Unbindable(p) ==
    /\ pc[p] = "write"
    /\ inTx' = [inTx EXCEPT ![p] = TRUE]
    /\ unbound' = [unbound EXCEPT ![p] = TRUE]
    /\ Goto(p, "idle")
    /\ UNCHANGED <<head, writer, snap, kind, based, timedOut, clashed, calls>>

(* "database is locked": another process writes for longer than the busy   *)
(* timeout (5 seconds, the driver's default).                              *)
Busy(p) ==
    /\ pc[p] = "write"
    /\ writer \notin {p, NoProcess}
    /\ inTx' = [inTx EXCEPT ![p] = TRUE]
    /\ timedOut' = [timedOut EXCEPT ![p] = TRUE]
    /\ Goto(p, "idle")
    /\ UNCHANGED <<head, writer, snap, kind, based, unbound, clashed, calls>>

(* Mutant: the handler of the error rolls back.                            *)
StaleRollsBack(p) ==
    /\ pc[p] = "write"
    /\ Visible(p) # head
    /\ inTx' = [inTx EXCEPT ![p] = FALSE]
    /\ snap' = [snap EXCEPT ![p] = NoSnapshot]
    /\ Goto(p, "idle")
    /\ UNCHANGED <<head, writer, kind, based, timedOut, unbound, clashed, calls>>

(* "database is locked", at once: the snapshot is behind.                  *)
Stale(p) ==
    /\ pc[p] = "write"
    /\ Visible(p) # head
    /\ Goto(p, "idle")
    /\ UNCHANGED <<head, writer, inTx, snap, kind, based, timedOut, unbound, clashed, calls>>

(* Mutant: the transaction goes on after the commit.                       *)
CommitKeepsSnapshot(p) ==
    /\ pc[p] = "commit"
    /\ head' = head + 1
    /\ writer' = NoProcess
    /\ Goto(p, "idle")
    /\ UNCHANGED <<inTx, snap, kind, based, timedOut, unbound, clashed, calls>>

(* Mutant: a call commits twice.                                           *)
CommitTwice(p) ==
    /\ pc[p] = "commit"
    /\ head' = head + 2
    /\ writer' = NoProcess
    /\ inTx' = [inTx EXCEPT ![p] = FALSE]
    /\ snap' = [snap EXCEPT ![p] = NoSnapshot]
    /\ Goto(p, "idle")
    /\ UNCHANGED <<kind, based, timedOut, unbound, clashed, calls>>

Commit(p) ==
    /\ pc[p] = "commit"
    /\ head' = head + 1
    /\ writer' = NoProcess
    /\ inTx' = [inTx EXCEPT ![p] = FALSE]
    /\ snap' = [snap EXCEPT ![p] = NoSnapshot]
    /\ Goto(p, "idle")
    /\ UNCHANGED <<kind, based, timedOut, unbound, clashed, calls>>

(* The process dies and is started again: SQLite rolls back, the           *)
(* connection is new.                                                      *)
Restart(p) ==
    /\ inTx[p] \/ pc[p] # "idle"
    /\ writer' = IF writer = p THEN NoProcess ELSE writer
    /\ inTx' = [inTx EXCEPT ![p] = FALSE]
    /\ snap' = [snap EXCEPT ![p] = NoSnapshot]
    /\ timedOut' = [timedOut EXCEPT ![p] = FALSE]
    /\ unbound' = [unbound EXCEPT ![p] = FALSE]
    /\ clashed' = [clashed EXCEPT ![p] = FALSE]
    /\ Goto(p, "idle")
    /\ UNCHANGED <<head, kind, based, calls>>

Quiescent ==
    /\ calls = MaxCalls
    /\ \A p \in Process : pc[p] = "idle"
    /\ UNCHANGED vars

Serve(p) == \/ Call(p) \/ Select(p) \/ Write(p) \/ Violate(p) \/ Unbindable(p)
            \/ Busy(p) \/ Stale(p) \/ Commit(p)

Next == (\E p \in Process : Serve(p) \/ Restart(p)) \/ Quiescent

Spec == Init /\ [][Next]_vars

-----------------------------------------------------------------------------
(* Properties.                                                             *)

TypeOK ==
    /\ head \in 0 .. MaxCalls
    /\ writer \in Process \cup {NoProcess}
    /\ inTx \in [Process -> BOOLEAN]
    /\ snap \in [Process -> (0 .. head) \cup {NoSnapshot}]
    /\ pc \in [Process -> {"idle", "select", "write", "commit"}]
    /\ kind \in [Process -> Kind]
    /\ based \in [Process -> 0 .. head]
    /\ timedOut \in [Process -> BOOLEAN]
    /\ unbound \in [Process -> BOOLEAN]
    /\ clashed \in [Process -> BOOLEAN]
    /\ calls \in 0 .. MaxCalls

(* The connection reads from a snapshot that others have committed over:   *)
(* it answers old data and every write of it raises.                       *)
Wedged(p) == Visible(p) # head

(* A process keeps the write lock between two calls only after one of its  *)
(* rows broke a constraint: every other call that got as far as the lock   *)
(* has committed, whatever was raised before.                              *)
LockLeftByViolation ==
    \A p \in Process : writer = p /\ pc[p] # "commit" => clashed[p]

(* A connection falls behind only after a statement of its own raised      *)
(* before it had the write lock, at the busy timeout or over a parameter:  *)
(* no ordinary call is enough, and neither is a broken constraint.         *)
WedgedByRaise == \A p \in Process : Wedged(p) => timedOut[p] \/ unbound[p]

(* Nothing the store does brings a connection that fell behind up to date: *)
(* it stays behind until its process is restarted.                         *)
WedgedUntilRestart ==
    [][\A p \in Process : Wedged(p) /\ ~Restart(p) => Wedged(p)']_vars
=============================================================================
