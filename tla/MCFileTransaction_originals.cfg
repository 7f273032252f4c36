\* One attempt and one failing move: a rename lands when the rollback is past it.
SPECIFICATION Spec
CONSTANTS
    p1 = p1
    p2 = p2
    O = O
    N = N
    X = X
    U = U
    Absent = Absent
    Paths = {p1, p2}
    Contents = {O, N, X, U}
    Digested = {O, N, U}
    Requests <- TwoFiles
    UserContents = {U}
    MaxAttempts = 1
    MaxTroubles = 1
INVARIANT OriginalsKept
CHECK_DEADLOCK FALSE
