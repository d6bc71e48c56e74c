SPECIFICATION FairSpec
CONSTANTS
  s1 = s1
  s2 = s2
  i1 = i1
  i2 = i2
  n1 = n1
  Sources = {s1, s2}
  Names = {n1}
  Instances = {i1, i2}
  Paths = {}
  Workers = {w1}
  NameOf <- TheName
  InstanceOf <- Moved
  FromOf <- MovedFrom
  BackupOf <- NoBackup
  None = None
  MaxTimers = 1
  MaxWaiting = 1
  MaxOutages = 0
INVARIANTS
  ReadyIsReal
PROPERTIES
  ReadyIsSeen
