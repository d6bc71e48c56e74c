SPECIFICATION Spec
CONSTANTS
  j1 = j1
  j2 = j2
  j3 = j3
  alice = alice
  Jobs = {j1, j3}
  Plan <- CreateAndMigrateOutPlan
  OwnerOf <- OneOwner
  NoJob = NoJob
  MaxFaults = 0
  MaxCrashes = 1
INVARIANTS
  RecoveryEnds
CHECK_DEADLOCK FALSE
