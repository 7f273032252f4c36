\* Two files, two attempts, any two troubles: crashes, failing operations, edits.
SPECIFICATION FairSpec
CONSTANTS
    p1 = p1
    p2 = p2
    O = O
    N = N
    X = X
    U = U
    Absent = Absent
    Paths = {p1, p2}
    Contents = {O, N, X, U}
    Digested = {O, N, U}
    Requests <- MCRequests
    UserContents = {U}
    MaxAttempts = 2
    MaxTroubles = 2
INVARIANTS
    TypeOK
    ChangedFilesKept
    CommitExact
    RollbackRestores
PROPERTY AttemptEnds
CHECK_DEADLOCK FALSE
