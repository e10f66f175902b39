CONSTANTS
  UserIds = {11, 12, 13}
  RoleIds = {21}
  Names = {1, 2}
  Positions = {1}
  Rosters = {{}}
  Ops = {"AddUser"}
  Backlog = 1
SPECIFICATION FairSpec
PROPERTY NewcomersListed
CHECK_DEADLOCK FALSE
