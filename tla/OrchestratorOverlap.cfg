SPECIFICATION Spec
CONSTANTS
    Jobs = {j1, j2}
    N <- MCN
    Requests <- MCRequests
    None = None
    Faults = {"party"}
    MaxFaults = 1
INVARIANTS
    OneJobRuns
CHECK_DEADLOCK FALSE
