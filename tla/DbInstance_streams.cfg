SPECIFICATION FairSpec
CONSTANTS
  Sessions = {s1, s2, s3}
  Calls = {c1, c2}
  NoJob = NoJob
INVARIANTS
  TypeOK
  OnlineIsServed
  ServedIsOnline
  ReceivedOnce
  NoJobForgotten
PROPERTIES
  SendReturns
CHECK_DEADLOCK FALSE
