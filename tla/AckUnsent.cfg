SPECIFICATION Spec
CONSTANTS
  p1 = p1
  p2 = p2
  Producers = {p1}
  NoMessage = NoMessage
  Messages <- LimitMessages
  Windows = {0, 1, 3}
  MaxSeq = 3
  MaxBytes = 0
  PressureStepDivisor = 16
  ReleasedRetiredMemory = 2
INVARIANTS
  NothingLostUnsent
CHECK_DEADLOCK FALSE
