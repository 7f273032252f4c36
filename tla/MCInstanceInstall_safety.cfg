\* An install, a diff, a delete and a dismissal, with any two troubles.
SPECIFICATION Spec
CONSTANTS
    p1 = p1
    p2 = p2
    A = A
    B = B
    Paths = {p1, p2}
    Contents = {A, B}
    Absent = Absent
    None = None
    Peer = "peer"
    i1 = i1
    d1 = d1
    x1 = x1
    m1 = m1
    Installs = {i1}
    Diffs = {d1}
    Resumes = {}
    Removals = {x1}
    Dismissals = {m1}
    Targets <- TwoPacks
    Patches <- OnePatch
    MaxTroubles = 2
INVARIANTS
    TypeOK
    LockDiscipline
    NoResurrection
    RecordedIsInstalled
    UnresolvedListed
CHECK_DEADLOCK FALSE
