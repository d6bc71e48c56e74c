SPECIFICATION Spec
CONSTANTS
  j1 = j1
  j2 = j2
  j3 = j3
  j4 = j4
  Jobs = {j1, j2, j3, j4}
  Plan <- FourCreatesPlan
  Workers = {w1, w2, w3, w4}
  MaxConns = 4
INVARIANTS
  NoLockup
SYMMETRY EqualJobsAndWorkers
CHECK_DEADLOCK FALSE
