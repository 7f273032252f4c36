\* Two launches of which one record is kept, any one trouble.
SPECIFICATION Spec
CONSTANTS
    MaxLaunches = 2
    Kept = 1
    MaxTroubles = 1
    None = None
INVARIANTS
    TypeOK
    OwnGameLog
    RecordTrue
    SavesFlushed
PROPERTIES
    HistoryKept
    ExitReported
CHECK_DEADLOCK FALSE
