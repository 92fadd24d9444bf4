CONSTANTS
  Calls = {c1}
  Instances = {i1}
  MaxRetries = 5
SPECIFICATION Spec
INVARIANT GetReturns
