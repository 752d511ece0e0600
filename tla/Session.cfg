SPECIFICATION Spec
CONSTANTS
  Messages <- Mixed
  Windows = {2}
  NoFrame = NoFrame
  MaxSeq = 3
  MaxAcks = 1
  Watched = {2}
  MaxBytes = 0
  PressureStepDivisor = 16
  ReleasedRetiredMemory = 1
INVARIANTS
  LiveMeansBeforeClose
  ClosedIsFinal
PROPERTIES
  ImplementsOutbox
CHECK_DEADLOCK FALSE
