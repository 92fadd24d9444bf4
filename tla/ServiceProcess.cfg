CONSTANTS
  Calls = {c1, c2}
  Streams = {c2}
SPECIFICATION FairSpec
INVARIANTS TypeOK EndsDeregistered StopCutsNoCall
PROPERTY SignalEndsProcess
\* The process ends.
CHECK_DEADLOCK FALSE
