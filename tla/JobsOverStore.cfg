SPECIFICATION OverSpec
CONSTANTS
    j1 = j1
    j2 = j2
    w1 = w1
    r1 = r1
    s1 = s1
    p1 = p1
    p2 = p2
    x = x
    y = y
    d1 = d1
    d2 = d2
    NoJob = NoJob
    NoDoc = NoDoc
    NoThread = NoThread
    NoItem = NoItem
    Job = {j1, j2}
    Worker = {w1}
    Runner = {r1}
    Thread = {w1, r1, s1}
    Enabled = TRUE
    MaxFaults = 1
    Process = {p1, p2}
    procOf <- MCProcOf
    Entity = {x, y}
    Relation <- MCRelation
    Doc = {d1, d2}
    Request <- MCRequest
    task <- MCTask
    MaxRequests = 3
INVARIANTS
    SuccessIsStored
    WritesWhilePending
