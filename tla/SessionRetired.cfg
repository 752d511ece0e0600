SPECIFICATION Spec
CONSTANTS
  Messages <- Mixed
  Windows = {2}
  NoFrame = NoFrame
  MaxSeq = 1
  MaxAcks = 1
  Watched = {1}
  MaxBytes = 0
  PressureStepDivisor = 16
  ReleasedRetiredMemory = 1
INVARIANTS
  RetiredNotReturned
CHECK_DEADLOCK FALSE
