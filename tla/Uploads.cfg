CONSTANTS
  u1 = u1
  u2 = u2
  c1 = c1
  c2 = c2
  Users = {u1, u2}
  Conns = {c1}
  Uploaders = {w1, w2}
  Owner <- MCOwner
  Changers = {u1}
  Managers = {}
  Admins = {}
  Kinds = {"send", "profile"}
  Fields = {"name", "avatar"}
  MaxRequests = 3
  MaxFiles = 2
  BadUploads = TRUE
SPECIFICATION Spec
INVARIANTS
  TypeOK
  SlotsOnce
  AttachmentsStored
  AvatarsServed
  AnswersInStep
PROPERTIES
  UnsetFieldsKept
SYMMETRY MCSymmetry
