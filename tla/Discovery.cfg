CONSTANTS
  Instances = {i1, i2}
  Clients = {g}
  Window = 5
  Period = 1
  MaxLatency = 1
  MaxMissed = 1
SPECIFICATION FairSpec
INVARIANTS TypeOK NoResurrection DeadIsForgotten EmptyIsNotFound
PROPERTIES ImplementsDirectory UpStaysListed UpIsEventuallyListed
