\* Three calls for two versions that share a file, an install that may write it twice.
SPECIFICATION FairSpec
CONSTANTS
    Keys = {"client", "server"}
    Files = {"jar"}
    Calls = {1, 2, 3}
    Installs = {1}
    Capacity = 1
    MaxWrites = 2
    None = None
INVARIANTS
    TypeOK
PROPERTIES
    FreshDiagnosis
    CallsAnswered
CHECK_DEADLOCK FALSE
