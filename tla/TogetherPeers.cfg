\* One account that comes up to twice, a break, a loss of the socket.
SPECIFICATION FairSpec
CONSTANTS
    a = a
    Accounts = {a}
    MaxIds = 2
    MaxVisits = 2
    MaxSessions = 4
    MaxRetries = 1
    MaxBreaks = 1
    MaxLosses = 1
    MaxAnswers = 2
    None = None
INVARIANTS
    TypeOK
    InStep
    RoomPeersTrue
    GraceSpares
PROPERTY PeersSettle
CHECK_DEADLOCK FALSE
