CONSTANTS
  u1 = u1  g1 = g1  r1 = r1  r2 = r2  w1 = w1  s1 = s1  s2 = s2  k1 = k1  k2 = k2  a1 = a1
  Nil = Nil  NoWorkspace = NoWorkspace
  User = {u1}
  Group = {g1}
  Resource = {r1}
  Workspace = {w1}
  SourceOrder <- FullOrder
  DefaultPermission = "NO_PERMISSIONS"
  Server = {s1, s2}
  Worker = {k1, k2}
  Admin = {a1}
  home <- TwoServers
  SharedCache = FALSE
  EnableWorkspaces = TRUE
  cacheId <- OwnId
  PermTTL = 1
  WsTTL = 2
  PermMax = 1
  WsMax = 1
  MaxResolve = 0
  Grantable = {"READ"}
  RegexRows = {}
  InitialDatabases <- EmptyOrGranted
  Faults = FALSE
  MaxTime = 3
  MaxChanges = 2
  Deployments = {"local", "redis", "alone"}
SPECIFICATION MCSpec
INVARIANTS TypeOK StalenessBound FreshByBasis CoherentUnlessMissed
CHECK_DEADLOCK FALSE
