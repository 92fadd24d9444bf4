CONSTANTS
  Instances = {p1, p2}
  None = None
  TTL = 2
  LockDelay = 3
  ProcessTime = 1
  RetryDelay = 2
  MaxLatency = 1
  Faults = {"lost", "late"}
SPECIFICATION Spec
INVARIANTS TypeOK OnlyOvertakingBreaksIt LostLockStaysQuiet
SYMMETRY Symmetric
