SPECIFICATION Spec
CONSTANTS
  j1 = j1
  j2 = j2
  j3 = j3
  alice = alice
  Jobs = {j1, j2, j3}
  Plan <- MixedPlan
  OwnerOf <- OneOwner
  NoJob = NoJob
  MaxFaults = 2
  MaxCrashes = 1
INVARIANTS
  ReadyMeansCreated
  ProcessingHasOwner
  IdleByFault
PROPERTIES
  ImplementsDbLife
CHECK_DEADLOCK FALSE
