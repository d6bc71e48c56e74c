SPECIFICATION FairSpec
CONSTANTS
  Writers = {w1, w2}
  Sessions = {s1, s2}
  Statuses = {"ready", "leaving"}
  None = None
  MaxWrites = 2
  MaxCrashes = 2
INVARIANTS
  TypeOK
  StaleIsExplained
PROPERTIES
  OrderKept
  CatchesUp
CHECK_DEADLOCK FALSE
