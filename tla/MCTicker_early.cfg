CONSTANTS
  Dur = 6
  MaxLate = 2
  MaxStop = 2
  MaxRequest = 14
SPECIFICATION Spec
INVARIANT EarlyOnlyIfInterrupted
CHECK_DEADLOCK FALSE
