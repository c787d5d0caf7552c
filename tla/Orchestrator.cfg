SPECIFICATION FairSpec
CONSTANTS
    Jobs = {j1, j2}
    N <- MCN
    Requests <- MCRequests
    None = None
    Faults = {"queue", "pipe", "launch", "kill", "aws", "stop", "task", "party", "host", "dns", "timeout"}
    MaxFaults = 1
INVARIANTS
    TypeOK
    SuccessIsReal
    RowFollowsMachine
    CoordinatorIsStopped
    NobodyStrays
    OverlapNeedsFault
    FailureHasCause
PROPERTIES
    LockImplemented
    VerdictStands
    LockReturns
CHECK_DEADLOCK FALSE
