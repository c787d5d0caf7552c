\* The code's own durations, in seconds, and no fault at all.
SPECIFICATION Spec
CONSTANTS
  Invocations = {p1, p2}
  Cancels = {}
  Admissible = {p1, p2}
  Flaky = {}
  None = None
  Lease = 20
  AcquireTimeout = 25
  PrepareAck = 25
  CancelAck = 15
  WaitSlack = 15
  MaxLag = 0
  MaxNow = 45
  MaxSeq = 2
INVARIANT NoInterleavedDelivery
CHECK_DEADLOCK FALSE
