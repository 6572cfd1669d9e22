CONSTANTS
  u1 = u1  u2 = u2  adm = adm  g1 = g1  n1 = n1  n2 = n2
  Nil = Nil
  User = {u1, u2, adm}
  Group = {g1}
  Name = {n1, n2}
  Slot = {1}
  Types = {"registered_model"}
  Admins = {adm}
  Strangers = {adm}
  member <- Members1
  ExperimentEditors = {u1}
  WorkspaceManagers = {u1}
  Configs <- OneConfig
  MaxObjects = 3
  MaxRequests = 2
  MaxChanges = 1
  MaxFaults = 0
SPECIFICATION Spec
INVARIANT RenameReachesGroups
SYMMETRY Renamings
CHECK_DEADLOCK FALSE
