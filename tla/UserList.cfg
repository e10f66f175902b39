CONSTANTS
  UserIds = {11, 12, 13}
  RoleIds = {21, 22}
  Names = {1, 2}
  Positions = {1, 2}
  Rosters = {{11}, {11, 12, 13}}
  Ops = {"AddUser", "UpdateUser", "AddRole", "UpdateRole", "DeleteRole"}
  Backlog = 1
SPECIFICATION MCSpec
INVARIANTS
  TypeOK
  ListWellFormed
  FreshUnlessRaced
PROPERTY ChangesReachClients
