SPECIFICATION Spec
CONSTANTS
  c1 = c1
  c2 = c2
  c3 = c3
  k1 = k1
  k2 = k2
  k3 = k3
  p1 = p1
  q1 = q1
  p2 = p2
  p3 = p3
  Clients = {c1, c2, c3}
  Producers = {p1, q1, p2, p3}
  Owner <- OwnerOf
  Group <- GroupOf
  Messages <- OneLimit
  NoMessage = NoMessage
  Windows <- Flows
  Drainers = {c1}
  Plans <- Fleets
  Total = 8
  Reserve = 3
  MinGroup = 1
  BudgetQuantum = 1
  WordSize = 64
  MaxBytes = 0
  PressureStepDivisor = 16
  ReleasedRetiredMemory = 1
INVARIANTS
  AccountsExact
  
  SleepsOnlyWithoutRoom
PROPERTIES
  ReserveForNewcomers
CHECK_DEADLOCK FALSE
