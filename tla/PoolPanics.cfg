CONSTANTS
  Workers = {w1, w2}
  DBConns = {d1, d2}
  Requests = {"plain", "refused", "embed"}
  Shutdown = FALSE
  None = None
SPECIFICATION Spec
INVARIANT StartNeverPanics
CHECK_DEADLOCK FALSE
