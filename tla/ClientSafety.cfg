SPECIFICATION Spec
CONSTANTS
  g1 = g1
  g2 = g2
  Goroutines = {g1, g2}
  Starter = Starter
  Closer = Closer
  NoOne = NoOne
  Verbs = {"READY", "ACK", "FLOW", "BACKOFF", "RECONNECT", "ERROR"}
  Calls = {"Ship", "Reconnect"}
  MaxConns = 3
INVARIANTS
  SingleReconnect
  RequestIsServed
  NoForgottenFailure
  WorkersHaveConn
  NoSocketLeak
  ResetBeforeStart
  ClosedIsQuiet
CHECK_DEADLOCK FALSE
