CONSTANTS
  u1 = u1
  u2 = u2
  f1 = f1
  f2 = f2
  Users = {u1, u2}
  Nobody = Nobody
  MayEmbed = {u1}
  MayManage = {u2}
  MayReact = {u1}
  Channels = {"general", "random"}
  Watched = "general"
  Contents <- MCContents
  Page <- MCPage
  Fetchers = {f1, f2}
  MaxId = 3
  MaxRequests = 4
  PageSize = 1
SPECIFICATION MCSpec
INVARIANTS
  TypeOK
  NoOrphans
  RowsFollowContent
  EmbedsOnce
  ViewAgrees
  PagesExact
SYMMETRY MCSymmetry
