SPECIFICATION FairSpec
CONSTANTS
    Regions = 3
    MaxRuns = 2
    Contexts <- MCContexts
    Asks <- MCAsks
    None = None
    Faults = {"launch", "task", "party", "host", "s3", "cleanup", "slow"}
    MaxFaults = 1
INVARIANTS
    TypeOK
    Agreement
    SweepIsComplete
    FailureHasCause
PROPERTIES
    ContainersExit
    RunCompletes
CHECK_DEADLOCK FALSE
