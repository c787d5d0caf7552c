SPECIFICATION FairSpec
CONSTANTS
  a = a
  b = b
  c = c
  Jobs = {a, b, c}
  N = 2
  Size <- SmallAndLarge
  Threshold <- OnlyCTooHigh
  None = None
  Faults = {"queue", "send", "script", "party", "invoke", "timeout"}
  MaxFaults = 1
INVARIANTS TypeOK LockHasOwner OpenRowIsCarried SuccessIsReal FailureHasCause
PROPERTIES LockImplemented FailureStands JobSettles CoordinatorStops
CHECK_DEADLOCK FALSE
