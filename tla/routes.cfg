CONSTANTS
  u1 = u1  u2 = u2  g1 = g1
  Nil = Nil
  NoWorkspace = "no workspace"
  User = {u1, u2}
  Group = {g1}
  Resource = {"experiment", "registered_model", "prompt", "scorer", "gateway_endpoint", "gateway_model_definition", "gateway_secret"}
  Workspace = {"workspace"}
  SourceOrder <- Order
  DefaultPermission = "NO_PERMISSIONS"
  Slot = {1, 2}
  Callers = {u1}
  Scenarios <- Everything
  Levels <- Grants
  SeedSources <- Seeds
  MaxRequests = 2
  MaxChanges = 1
SPECIFICATION Spec
INVARIANTS EntitledDuringRequest AuthorityIsInherited AuditTellsTheRow
PROPERTY DecisionsChangeByRequest
CHECK_DEADLOCK FALSE
