SPECIFICATION FairSpec
CONSTANTS
  g1 = g1
  g2 = g2
  Goroutines = {g1, g2}
  Starter = Starter
  Closer = Closer
  NoOne = NoOne
  Verbs = {"READY", "BACKOFF"}
  Calls = {"Ship"}
  MaxConns = 2
PROPERTIES
  CloseReturnsUnlessCleared
  Recovers
CHECK_DEADLOCK FALSE
