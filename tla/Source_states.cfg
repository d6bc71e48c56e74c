SPECIFICATION Spec
CONSTANTS
  s1 = s1
  s2 = s2
  i1 = i1
  i2 = i2
  n1 = n1
  Sources = {s1}
  Names = {n1}
  Instances = {i1}
  Paths = {p1}
  Workers = {w1, w2}
  NameOf <- TheName
  InstanceOf <- TheInstance
  FromOf <- NotMoved
  BackupOf <- NoBackup
  None = None
  MaxTimers = 2
  MaxWaiting = 2
  MaxOutages = 1
INVARIANTS
  TypeOK
  NeverStranded
PROPERTIES
  StaleTimersDoNothing
SYMMETRY SameWorkers
