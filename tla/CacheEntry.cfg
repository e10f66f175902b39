CONSTANTS
  Clients = {c1}
  Writers = {w1}
  None = None
  Length = 3
  FlushAfter = 1
  DiskFaults = TRUE
SPECIFICATION FairSpec
INVARIANTS
  TypeOK
  BytesSound
PROPERTIES
  NeverForgets
  WaitersServed
  ImplementsMediaCache
