SPECIFICATION FairSpec
CONSTANTS
  i1 = i1
  i2 = i2
  s1 = s1
  s2 = s2
  s3 = s3
  r1 = r1
  r2 = r2
  n1 = n1
  w1 = w1
  Insts = {i1, i2}
  Sessions = {s1, s2, s3}
  Requests = {r1, r2}
  Statuses = {n1}
  Waits = {w1}
  OfSession <- MCOfSession
  OfStatus <- MCOfStatus
  OfWait <- MCOfWait
  NameOf <- MCNameOf
  FromOf <- MCFromOf
  Reported = {"ready", "idle"}
  Serving = {s1, s3}
  Breaking = {s1}
  None = None
INVARIANTS
  TypeOK
  WaiterIsTold
PROPERTIES
  LockedOutForGood
  EverybodyGetsThrough
CHECK_DEADLOCK FALSE
