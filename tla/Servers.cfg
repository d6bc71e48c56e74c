SPECIFICATION FairSpec
CONSTANTS
  Jobs = {j1, j2}
  Tasks = 2
INVARIANTS
  TypeOK
  NothingCutOff
  OnlyLatecomersLost
PROPERTIES
  ProgramsStop
CHECK_DEADLOCK FALSE
