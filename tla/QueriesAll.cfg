SPECIFICATION Spec
CONSTANTS
    s = s
    t = t
    u = u
    v = v
    Entity = {s, t, u, v}
    Rows <- MCRows
    Candidate <- MCCandidate
    MaxEdges = 4
    Depth = {1, 2, 3}
    MaxAnswers = 2
    Source = s
    Target = t
INVARIANTS
    FailsByDetour
    FindsShortest
    FindsNeighborhood
