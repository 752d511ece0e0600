SPECIFICATION Spec
CONSTANTS
  c1 = c1
  c2 = c2
  c3 = c3
  k1 = k1
  k2 = k2
  k3 = k3
  p1 = p1
  q1 = q1
  p2 = p2
  p3 = p3
  Clients = {c1}
  Producers = {p1}
  Owner <- OneOwner
  Group <- OneGroup
  Messages <- MixedLimits
  NoMessage = NoMessage
  Windows <- OneFlow
  Drainers = {}
  Plans <- OnePlan
  Total = 2
  Reserve = 1
  MinGroup = 1
  BudgetQuantum = 1
  WordSize = 64
  MaxBytes = 0
  PressureStepDivisor = 16
  ReleasedRetiredMemory = 1
INVARIANTS
  BudgetEmpty
CHECK_DEADLOCK FALSE
