CONSTANTS
  Workers = {w1, w2, w3}
  DBConns = {d1}
  Requests = {"plain", "refused", "embed"}
  Shutdown = TRUE
  None = None
SPECIFICATION FairSpec
INVARIANTS
  TypeOK
  NoSharing
  ClosedWhenUnused
PROPERTIES
  RequestsServed
  ShutdownCompletes
CHECK_DEADLOCK FALSE
