SPECIFICATION FairSpec
CONSTANTS
  Executions = {e1}
  Requests = {c1}
  N = 2
  Refusals <- OnePartyMayRefuse
  Faults = {"send", "drop", "kill", "invoke"}
  MaxFaults = 1
  MaxAttempts = 2
INVARIANTS TypeOK CleanCancelSilences RevivedWasPreparing
PROPERTIES RowImplemented AdmissionSettles CancelSettles
CHECK_DEADLOCK FALSE
