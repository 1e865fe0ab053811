SPECIFICATION FairSpec
CONSTANTS
    t1 = t1
    t2 = t2
    p1 = p1
    p2 = p2
    x = x
    y = y
    d1 = d1
    d2 = d2
    NoDoc = NoDoc
    NoThread = NoThread
    NoItem = NoItem
    Thread = {t1, t2}
    Process = {p1}
    procOf <- Shared
    Entity = {x, y}
    Relation <- MCRelation
    Doc = {d1, d2}
    Request <- MCClosed
    MaxRequests = 4
INVARIANTS
    TypeOK
    EvidenceComplete
PROPERTIES
    DeprecationJustified
    Serializable
    Answered
