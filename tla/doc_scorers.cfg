CONSTANTS
  u1 = u1  g1 = g1  r1 = r1  r2 = r2  w1 = w1  s1 = s1  s2 = s2  k1 = k1  k2 = k2  a1 = a1
  Nil = Nil  NoWorkspace = NoWorkspace
  User = {u1}
  Group = {g1}
  Resource = {r1, r2}
  Workspace = {w1}
  SourceOrder <- DirectOrder
  DefaultPermission = "NO_PERMISSIONS"
  Server = {s1}
  Worker = {k2}
  Admin = {a1}
  home <- OneServer
  SharedCache = FALSE
  EnableWorkspaces = TRUE
  cacheId <- SameId
  PermTTL = 2
  WsTTL = 2
  PermMax = 1
  WsMax = 1
  MaxResolve = 0
  Grantable = {"READ"}
  RegexRows = {}
  Faults = FALSE
  MaxTime = 2
  InitialDatabases <- EmptyOrGranted
  MaxChanges = 2
  Deployments = {"local"}
SPECIFICATION MCSpec
INVARIANT ScorersKeptApart
CHECK_DEADLOCK FALSE
