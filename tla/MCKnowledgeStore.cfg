SPECIFICATION MCSpec
CONSTANTS
  d1 = d1
  d2 = d2
  r1 = r1
  r2 = r2
  x = x
  None = None
  Documents = {d1, d2}
  Personal = {d1}
  MaxVersion = 2
  Digests = {x}
  Requests = {r1, r2}
  MaxCrashes = 1
  Selective = TRUE
  MaxUsed = 2
SYMMETRY Symmetry
INVARIANTS
  OneActive
  MissingWasQueued
  BlobsAccounted
  ContextIsGoverned
PROPERTIES
  RevocationStands
CHECK_DEADLOCK FALSE
