\* The same instance.
SPECIFICATION Spec
CONSTANTS
    a = a
    Accounts = {a}
    MaxIds = 1
    MaxVisits = 1
    MaxSessions = 4
    MaxRetries = 1
    MaxBreaks = 2
    MaxLosses = 0
    MaxAnswers = 3
    None = None
INVARIANT FailedPeerReplaced
CHECK_DEADLOCK FALSE
