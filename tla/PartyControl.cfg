SPECIFICATION FairSpec
CONSTANTS
  Invocations = {p1, p2, c1}
  Cancels = {c1}
  Admissible = {p1, c1}
  Flaky = {p1}
  None = None
  Lease = 1
  AcquireTimeout = 1
  PrepareAck = 1
  CancelAck = 0
  WaitSlack = 1
  MaxLag = 1
  MaxNow = 2
  MaxSeq = 4
INVARIANTS TypeOK OneLiveLease LeaseIsGivenBack AckIsOwn
PROPERTIES PartyCatchesUp LogImplemented
CHECK_DEADLOCK FALSE
