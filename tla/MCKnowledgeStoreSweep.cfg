SPECIFICATION StoreSpec
CONSTANTS
  d1 = d1
  d2 = d2
  r1 = r1
  r2 = r2
  x = x
  None = None
  Documents = {d2}
  Personal = {}
  MaxVersion = 2
  Digests = {x}
  Requests = {r1, r2}
  MaxCrashes = 1
  Selective = TRUE
  MaxUsed = 1
INVARIANTS
  RowsHaveContent
CHECK_DEADLOCK FALSE
