SPECIFICATION FairSpec
CONSTANTS
  Calls = {c1, c2, c3}
  MaxConcurrency = 2
  None = None
INVARIANTS
  TypeOK
PROPERTIES
  AcceptedIsHandled
  ShutdownTerminates
  RegisteredSenderServed
  ImplementsWorkPool
CHECK_DEADLOCK FALSE
