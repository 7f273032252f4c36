\* Three chunks in two ranges, two URLs, a budget of one each, one fault.
SPECIFICATION FairSpec
CONSTANTS
    Size = 3
    Largest = 3
    Concurrency = 2
    Urls = 2
    MaxResumes = 1
    MaxSlowRerolls = 1
    MaxNoProgress = 1
    MaxFaults = 1
INVARIANTS
    TypeOK
    NoGap
    CompleteFile
PROPERTY DownloadEnds
CHECK_DEADLOCK FALSE
