SPECIFICATION FairSpec
CONSTANTS
  j1 = j1
  j2 = j2
  j3 = j3
  j4 = j4
  Jobs = {j1, j2}
  Plan <- TwoCreatesPlan
  Workers = {w1, w2}
  MaxConns = 3
INVARIANTS
  TypeOK
  OneItemInFlight
  NoLockup
PROPERTIES
  JobEnds
  ImplementsTaskOrder
CHECK_DEADLOCK FALSE
