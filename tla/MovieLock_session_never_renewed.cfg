CONSTANTS
  Instances = {p1}
  None = None
  TTL = 2
  LockDelay = 3
  ProcessTime = 1
  RetryDelay = 2
  MaxLatency = 1
  Faults = {}
SPECIFICATION FairSpec
PROPERTY RetrySucceeds
