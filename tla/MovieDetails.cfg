CONSTANTS
  Calls = {c1, c2}
  Instances = {i1}
  MaxRetries = 3
SPECIFICATION FairSpec
INVARIANTS TypeOK OkIsComplete PanicNeedsAnOutage OutageIsHidden
PROPERTIES ImplementsDetailsRead EveryCallEnds
