SPECIFICATION FairCronSpec
CONSTANTS
  e1 = e1
  e2 = e2
  e3 = e3
  e4 = e4
  Elements = {e1, e2, e3, e4}
  TriggerAt <- Triggers
  Hour = 2
  MaxTime = 5
INVARIANTS
  CronTypeOK
  NeverOversleeps
PROPERTIES
  ElementFires
CHECK_DEADLOCK FALSE
