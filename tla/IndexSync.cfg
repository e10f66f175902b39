CONSTANTS
  r1 = r1
  r2 = r2
  UserIds = {u1, u2}
  RoleIds = {r1, r2}
  Role <- MCRole
  Default = {}
  Overwrites <- MCOverwrites
  Workers = {w1, w2}
  NoRank = 3
  None = None
SPECIFICATION Spec
INVARIANTS
  TypeOK
  IndexAgrees
  PermissionsAgree
PROPERTY RanksKept
SYMMETRY MCSymmetry
