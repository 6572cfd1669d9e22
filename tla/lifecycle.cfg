CONSTANTS
  u1 = u1  u2 = u2  adm = adm  g1 = g1  n1 = n1  n2 = n2
  Nil = Nil
  User = {u1, u2, adm}
  Group = {g1}
  Name = {n1, n2}
  Slot = {1, 2}
  Types = {"experiment", "registered_model", "scorer", "workspace", "gateway_endpoint", "gateway_secret", "gateway_model_definition"}
  Admins = {adm}
  Strangers = {adm}
  member <- Members1
  ExperimentEditors = {u1}
  WorkspaceManagers = {u1}
  Configs <- TwoConfigs
  MaxObjects = 3
  MaxRequests = 2
  MaxChanges = 1
  MaxFaults = 1
SPECIFICATION Spec
INVARIANTS TypeOK NoInheritedRows NoOwnerlessResource ActsWherePermitted
SYMMETRY Renamings
CHECK_DEADLOCK FALSE
