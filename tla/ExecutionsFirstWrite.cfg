\* One cancel and no fault but timeouts.
SPECIFICATION FairSpec
CONSTANTS
  Executions = {e1}
  Requests = {c1}
  N = 2
  Refusals = {}
  Faults = {}
  MaxFaults = 0
  MaxAttempts = 1
PROPERTY FailureIsKept
CHECK_DEADLOCK FALSE
