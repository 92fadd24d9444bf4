CONSTANTS
  Calls = {c1}
  Streams = {}
SPECIFICATION FairSpec
INVARIANT ShutdownDoesNotPanic
CHECK_DEADLOCK FALSE
