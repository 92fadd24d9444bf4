CONSTANTS
  m1 = m1
  m2 = m2
  ann = ann
  bob = bob
  Calls = {c1}
  Records = {m1, m2}
  Users = {ann, bob}
  Requests <- MCRequests
  Imports <- MCImports
  File <- MCFile
  Empty = Empty
  Forged = Forged
  Junk = Junk
SPECIFICATION Spec
INVARIANT ValidPutSucceeds
