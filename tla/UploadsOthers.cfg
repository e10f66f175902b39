CONSTANTS
  u1 = u1
  u2 = u2
  c1 = c1
  c2 = c2
  Users = {u1, u2}
  Conns = {c1, c3}
  Uploaders = {w1, w2}
  Owner <- MCOwner
  Changers = {u1, u2}
  Managers = {u1}
  Admins = {}
  Kinds = {"profile"}
  Fields = {"text"}
  MaxRequests = 2
  MaxFiles = 2
  BadUploads = TRUE
SPECIFICATION Spec
PROPERTIES
  NamedUserChanges
