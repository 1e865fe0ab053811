SPECIFICATION FairSpec
CONSTANTS
    Job = {j1, j2}
    Worker = {w1, w2}
    Runner = {r1}
    NoJob = NoJob
    Enabled = TRUE
    MaxFaults = 2
INVARIANTS
    TypeOK
    PendingAccounted
PROPERTIES
    KeepsPromise
    AcceptedEnds
