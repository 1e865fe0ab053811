SPECIFICATION Spec
CONSTANTS
    Entity <- MCEntity
    Relation <- MCRelation
    GraphSchema <- MCGraphSchema
    Batches <- MCBatches
    Version <- MCVersion
    Products <- MCProducts
    Name <- MCName
    Requests <- MCRequests
    MaxBuilds = 2
    MaxRemovals = 1
    MaxPuts = 3
INVARIANTS
    PagesShiftByWrites
    ChecksAgree
    CandidatesFit
    DiffOfOneMoment
    FindsCycles
PROPERTIES
    Ends
CHECK_DEADLOCK FALSE
