CONSTANTS
  c1 = c1
  c2 = c2
  e1 = e1
  e2 = e2
  Conns = {c1, c2}
  Events = {e1, e2}
  Hidden <- MCHidden
  Cap = 1
  Stalled = {}
  None = None
SPECIFICATION Spec
INVARIANT RelayNeverBlocks
