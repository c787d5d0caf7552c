\* One prepare whose SSM call raises.
SPECIFICATION FairSpec
CONSTANTS
  Executions = {e1}
  Requests = {c1}
  N = 2
  Refusals = {}
  Faults = {"send"}
  MaxFaults = 1
  MaxAttempts = 1
PROPERTY AdmissionRecorded
CHECK_DEADLOCK FALSE
