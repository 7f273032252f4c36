\* An install, its resume and a delete, with any three troubles.
SPECIFICATION FairSpec
CONSTANTS
    p1 = p1
    p2 = p2
    A = A
    B = B
    Paths = {p1, p2}
    Contents = {A, B}
    Absent = Absent
    None = None
    Peer = "peer"
    i1 = i1
    r1 = r1
    x1 = x1
    Installs = {i1}
    Diffs = {}
    Resumes = {r1}
    Removals = {x1}
    Dismissals = {}
    Targets <- OnePack
    Patches = {}
    MaxTroubles = 3
INVARIANT LockFileTruthful
PROPERTY CallsEnd
CHECK_DEADLOCK FALSE
