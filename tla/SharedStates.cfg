\* Two windows, three fetches.
SPECIFICATION FairSpec
CONSTANTS
    Clients = {"main", "browse"}
    MaxFetches = 3
    None = None
INVARIANTS
    TypeOK
    LiveRegistered
    LiveUsed
PROPERTIES
    FetchesEnd
    ReleasedWhenIdle
CHECK_DEADLOCK FALSE
