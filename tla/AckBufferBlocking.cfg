SPECIFICATION FairSpec
CONSTANTS
  p1 = p1
  p2 = p2
  Producers = {p1, p2}
  NoMessage = NoMessage
  Messages <- BlockMessages
  Windows = {1, 4}
  MaxSeq = 3
  MaxBytes = 4
  PressureStepDivisor = 1
  ReleasedRetiredMemory = 1
INVARIANTS
  BytesMatchSlots
  ByteWaitHasRequest
  OvershootIsOneMessage
  NoLostWakeup
  NoMissedDrain
PROPERTIES
  DrainTailAsks
  DrainEnds
CHECK_DEADLOCK FALSE
