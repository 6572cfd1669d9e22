CONSTANTS
  u1 = u1  g1 = g1  g2 = g2  r1 = r1  r2 = r2  w1 = w1
  Nil = Nil  NoWorkspace = NoWorkspace
  User = {u1}  Group = {g1, g2}  Resource = {r1, r2}  Workspace = {w1}
  SourceOrder <- Order
  DefaultPermission = "NO_PERMISSIONS"
  RowPool <- Pool
  MaxRows = 3
  target = w1
  user = u1
  EnableWorkspaces = TRUE
  DEFAULT_WORKSPACE = w1
  Grantable = {"MANAGE", "READ"}
  RegexRows <- Rows
  Targets = {r1, w1}
  InitialDatabases <- Databases
  MaxWrites = 2
SPECIFICATION Spec
INVARIANT  BatchAgreesWhenQuiet 
