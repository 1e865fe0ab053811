SPECIFICATION Spec
CONSTANTS
    t1 = t1
    t2 = t2
    a = a
    b = b
    c = c
    Thread = {t1, t2}
    Name = {a, b, c}
    Profile <- MCProfile
    Request <- MCRequest
    MaxRequests = 4
SYMMETRY Symmetry
INVARIANTS
    ProfileAccumulates
    BansHold
