SPECIFICATION Spec
CONSTANTS
    a = a
    b = b
    d = d
    p = p
    Client = {a, b}
    Process = {p}
    Doc = {d}
    Call = {1, 2, 3}
    Script <- MCScript
    NoProcess = NoProcess
    First = {"neo4j"}
    NoCall = NoCall
    MaxRetries = 1
    MaxRestarts = 1
INVARIANTS
    TypeOK
    CoreFollows
PROPERTIES
    KeepsPromise
    ReadsOwnWrites
