\* Two jobs and no fault at all.
SPECIFICATION Spec
CONSTANTS
  a = a
  b = b
  c = c
  Jobs = {a, b}
  N = 2
  Size <- SmallAndLarge
  Threshold <- OnlyCTooHigh
  None = None
  Faults = {}
  MaxFaults = 0
INVARIANT OneJobRuns
CHECK_DEADLOCK FALSE
