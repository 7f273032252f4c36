\* Five requests, a limit that moves among 1, 2 and 3 (0 counts as 1).
SPECIFICATION FairSpec
CONSTANTS
    Requests = {r1, r2, r3, r4, r5}
    Settings = {0, 2, 3}
INVARIANTS
    TypeOK
    PermitsMatch
    FullWhileQueued
PROPERTIES
    EveryoneServed
    ImplementsLimiter
CHECK_DEADLOCK FALSE
