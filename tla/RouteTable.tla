----------------------------- MODULE RouteTable -----------------------------
(***************************************************************************)
(* The permission management routes, one record per URL path, with what    *)
(* the handlers at that path ask of the caller.  A route is about rows of  *)
(* one holder kind, one resource type and one scope (a direct row, or a    *)
(* pattern row).  cap is the check:                                        *)
(*   "admin"   check_admin_permission, nobody else;                        *)
(*   "manage"  an administrator, or MANAGE on `over`;                      *)
(*   "read"    an administrator, or READ on `over` (workspaces only);      *)
(*   "none"    any authenticated caller; the handler filters its answer    *)
(*             by the caller's MANAGE on `over`.                           *)
(* holder "all" lists every holder of a resource, "self" the resources the *)
(* caller may manage.  Names are those of the path constants.              *)
(***************************************************************************)
EXTENDS Naturals

Writes == {"create", "update", "delete"}

Route(holder, type, scope, methods, cap, over) ==
  [holder |-> holder, type |-> type, scope |-> scope, methods |-> methods, cap |-> cap, over |-> over]

check_admin_permission(holder, type, scope, methods) ==
  Route(holder, type, scope, methods, "admin", type)

AdminRoute(holder, type, methods) == check_admin_permission(holder, type, "direct", methods)
PatternRoute(holder, type, methods) == check_admin_permission(holder, type, "pattern", methods)
Patterns(holder, type) == PatternRoute(holder, type, {"create", "list"})
Pattern(holder, type) == PatternRoute(holder, type, {"get", "update", "delete"})
ManagerRoute(holder, type, methods, over) == Route(holder, type, "direct", methods, "manage", over)
Listing(holder, type, over) == Route(holder, type, "direct", {"list"}, "none", over)

(* routers/user_permissions.py *)
USER_EXPERIMENT_PERMISSION == Listing("user", "experiment", "experiment")
USER_EXPERIMENT_PERMISSION_DETAIL == ManagerRoute("user", "experiment", Writes \cup {"get"}, "experiment")
USER_EXPERIMENT_PATTERN_PERMISSIONS == Patterns("user", "experiment")
USER_EXPERIMENT_PATTERN_PERMISSION_DETAIL == Pattern("user", "experiment")
USER_REGISTERED_MODEL_PERMISSIONS == Listing("user", "registered_model", "registered_model")
USER_REGISTERED_MODEL_PERMISSION_DETAIL == ManagerRoute("user", "registered_model", Writes \cup {"get"}, "registered_model")
USER_REGISTERED_MODEL_PATTERN_PERMISSIONS == Patterns("user", "registered_model")
USER_REGISTERED_MODEL_PATTERN_PERMISSION_DETAIL == Pattern("user", "registered_model")
USER_PROMPT_PERMISSIONS == Listing("user", "prompt", "prompt")
USER_PROMPT_PERMISSION_DETAIL == ManagerRoute("user", "prompt", Writes \cup {"get"}, "registered_model")
USER_PROMPT_PATTERN_PERMISSIONS == Patterns("user", "prompt")
USER_PROMPT_PATTERN_PERMISSION_DETAIL == Pattern("user", "prompt")
USER_SCORER_PERMISSIONS == Listing("user", "scorer", "experiment")
USER_SCORER_PERMISSION_DETAIL == ManagerRoute("user", "scorer", Writes \cup {"get"}, "experiment")
USER_SCORER_PATTERN_PERMISSIONS == Patterns("user", "scorer")
USER_SCORER_PATTERN_PERMISSION_DETAIL == Pattern("user", "scorer")
USER_GATEWAY_ENDPOINT_PERMISSIONS == Listing("user", "gateway_endpoint", "gateway_endpoint")
USER_GATEWAY_ENDPOINT_PERMISSION_DETAIL == AdminRoute("user", "gateway_endpoint", Writes \cup {"get"})
USER_GATEWAY_ENDPOINT_PATTERN_PERMISSIONS == Patterns("user", "gateway_endpoint")
USER_GATEWAY_ENDPOINT_PATTERN_PERMISSION_DETAIL == Pattern("user", "gateway_endpoint")
USER_GATEWAY_MODEL_DEFINITION_PERMISSIONS == Listing("user", "gateway_model_definition", "gateway_model_definition")
USER_GATEWAY_MODEL_DEFINITION_PERMISSION_DETAIL == AdminRoute("user", "gateway_model_definition", Writes \cup {"get"})
USER_GATEWAY_MODEL_DEFINITION_PATTERN_PERMISSIONS == Patterns("user", "gateway_model_definition")
USER_GATEWAY_MODEL_DEFINITION_PATTERN_PERMISSION_DETAIL == Pattern("user", "gateway_model_definition")
USER_GATEWAY_SECRET_PERMISSIONS == Listing("user", "gateway_secret", "gateway_secret")
SecretByModelDefinition == ManagerRoute("user", "gateway_secret", Writes, "gateway_model_definition")
USER_GATEWAY_SECRET_PERMISSION_DETAIL == AdminRoute("user", "gateway_secret", Writes \cup {"get"})
USER_GATEWAY_SECRET_PATTERN_PERMISSIONS == Patterns("user", "gateway_secret")
USER_GATEWAY_SECRET_PATTERN_PERMISSION_DETAIL == Pattern("user", "gateway_secret")

(* routers/group_permissions.py *)
GROUP_EXPERIMENT_PERMISSIONS == Listing("group", "experiment", "experiment")
GROUP_EXPERIMENT_PERMISSION_DETAIL == ManagerRoute("group", "experiment", Writes, "experiment")
GROUP_EXPERIMENT_PATTERN_PERMISSIONS == Patterns("group", "experiment")
GROUP_EXPERIMENT_PATTERN_PERMISSION_DETAIL == Pattern("group", "experiment")
GROUP_REGISTERED_MODEL_PERMISSIONS == Listing("group", "registered_model", "registered_model")
GROUP_REGISTERED_MODEL_PERMISSION_DETAIL == ManagerRoute("group", "registered_model", Writes, "registered_model")
GROUP_REGISTERED_MODEL_PATTERN_PERMISSIONS == Patterns("group", "registered_model")
GROUP_REGISTERED_MODEL_PATTERN_PERMISSION_DETAIL == Pattern("group", "registered_model")
GROUP_PROMPT_PERMISSIONS == Listing("group", "prompt", "prompt")
GROUP_PROMPT_PERMISSION_DETAIL == ManagerRoute("group", "prompt", Writes, "prompt")
GROUP_PROMPT_PATTERN_PERMISSIONS == Patterns("group", "prompt")
GROUP_PROMPT_PATTERN_PERMISSION_DETAIL == Pattern("group", "prompt")
GROUP_SCORER_PERMISSIONS == Listing("group", "scorer", "experiment")
GROUP_SCORER_PERMISSION_DETAIL == ManagerRoute("group", "scorer", Writes, "experiment")
GROUP_SCORER_PATTERN_PERMISSIONS == Patterns("group", "scorer")
GROUP_SCORER_PATTERN_PERMISSION_DETAIL == Pattern("group", "scorer")
GROUP_GATEWAY_ENDPOINT_PERMISSIONS == AdminRoute("group", "gateway_endpoint", {"list"})
GROUP_GATEWAY_ENDPOINT_PERMISSION_DETAIL == AdminRoute("group", "gateway_endpoint", Writes \cup {"get"})
GROUP_GATEWAY_ENDPOINT_PATTERN_PERMISSIONS == Patterns("group", "gateway_endpoint")
GROUP_GATEWAY_ENDPOINT_PATTERN_PERMISSION_DETAIL == Pattern("group", "gateway_endpoint")
GROUP_GATEWAY_MODEL_DEFINITION_PERMISSIONS == AdminRoute("group", "gateway_model_definition", {"list"})
GROUP_GATEWAY_MODEL_DEFINITION_PERMISSION_DETAIL == AdminRoute("group", "gateway_model_definition", Writes \cup {"get"})
GROUP_GATEWAY_MODEL_DEFINITION_PATTERN_PERMISSIONS == Patterns("group", "gateway_model_definition")
GROUP_GATEWAY_MODEL_DEFINITION_PATTERN_PERMISSION_DETAIL == Pattern("group", "gateway_model_definition")
GROUP_GATEWAY_SECRET_PERMISSIONS == AdminRoute("group", "gateway_secret", {"list"})
GROUP_GATEWAY_SECRET_PERMISSION_DETAIL == AdminRoute("group", "gateway_secret", Writes \cup {"get"})
GROUP_GATEWAY_SECRET_PATTERN_PERMISSIONS == Patterns("group", "gateway_secret")
GROUP_GATEWAY_SECRET_PATTERN_PERMISSION_DETAIL == Pattern("group", "gateway_secret")

(* One router per resource type: the holders of a resource, and the        *)
(* resources the caller may manage.                                        *)
EXPERIMENT_USER_PERMISSIONS == ManagerRoute("all", "experiment", {"list"}, "experiment")
REGISTERED_MODEL_USER_PERMISSIONS == ManagerRoute("all", "registered_model", {"list"}, "registered_model")
PROMPT_USER_PERMISSIONS == ManagerRoute("all", "prompt", {"list"}, "registered_model")
SCORER_USER_PERMISSIONS == ManagerRoute("all", "scorer", {"list"}, "scorer")
GATEWAY_ENDPOINT_USER_PERMISSIONS == ManagerRoute("all", "gateway_endpoint", {"list"}, "gateway_endpoint")
GATEWAY_MODEL_DEFINITION_USER_PERMISSIONS ==
  ManagerRoute("all", "gateway_model_definition", {"list"}, "gateway_model_definition")
GATEWAY_SECRET_USER_PERMISSIONS == ManagerRoute("all", "gateway_secret", {"list"}, "gateway_secret")
LIST_EXPERIMENTS == Listing("self", "experiment", "experiment")
LIST_MODELS == Listing("self", "registered_model", "registered_model")
LIST_PROMPTS == Listing("self", "prompt", "prompt")
LIST_SCORERS == Listing("self", "scorer", "scorer")
LIST_ENDPOINTS == Listing("self", "gateway_endpoint", "gateway_endpoint")
LIST_MODEL_DEFINITIONS == Listing("self", "gateway_model_definition", "gateway_model_definition")
LIST_SECRETS == Listing("self", "gateway_secret", "gateway_secret")

(* routers/workspace_permissions.py and workspace_regex_permissions.py *)
check_workspace_read_permission == Route("all", "workspace", "direct", {"list"}, "read", "workspace")
WORKSPACE_USER == ManagerRoute("user", "workspace", Writes, "workspace")
WORKSPACE_GROUP == ManagerRoute("group", "workspace", Writes, "workspace")
USER_REGEX == PatternRoute("user", "workspace", Writes \cup {"list"})
GROUP_REGEX == PatternRoute("group", "workspace", Writes \cup {"list"})

-----------------------------------------------------------------------------
Routes == {
  USER_EXPERIMENT_PERMISSION, USER_EXPERIMENT_PERMISSION_DETAIL,
  USER_EXPERIMENT_PATTERN_PERMISSIONS, USER_EXPERIMENT_PATTERN_PERMISSION_DETAIL,
  USER_REGISTERED_MODEL_PERMISSIONS, USER_REGISTERED_MODEL_PERMISSION_DETAIL,
  USER_REGISTERED_MODEL_PATTERN_PERMISSIONS, USER_REGISTERED_MODEL_PATTERN_PERMISSION_DETAIL,
  USER_PROMPT_PERMISSIONS, USER_PROMPT_PERMISSION_DETAIL, USER_PROMPT_PATTERN_PERMISSIONS,
  USER_PROMPT_PATTERN_PERMISSION_DETAIL, USER_SCORER_PERMISSIONS, USER_SCORER_PERMISSION_DETAIL,
  USER_SCORER_PATTERN_PERMISSIONS, USER_SCORER_PATTERN_PERMISSION_DETAIL,
  USER_GATEWAY_ENDPOINT_PERMISSIONS, USER_GATEWAY_ENDPOINT_PERMISSION_DETAIL,
  USER_GATEWAY_ENDPOINT_PATTERN_PERMISSIONS, USER_GATEWAY_ENDPOINT_PATTERN_PERMISSION_DETAIL,
  USER_GATEWAY_MODEL_DEFINITION_PERMISSIONS, USER_GATEWAY_MODEL_DEFINITION_PERMISSION_DETAIL,
  USER_GATEWAY_MODEL_DEFINITION_PATTERN_PERMISSIONS,
  USER_GATEWAY_MODEL_DEFINITION_PATTERN_PERMISSION_DETAIL, USER_GATEWAY_SECRET_PERMISSIONS,
  USER_GATEWAY_SECRET_PERMISSION_DETAIL, USER_GATEWAY_SECRET_PATTERN_PERMISSIONS,
  USER_GATEWAY_SECRET_PATTERN_PERMISSION_DETAIL, GROUP_EXPERIMENT_PERMISSIONS,
  GROUP_EXPERIMENT_PERMISSION_DETAIL, GROUP_EXPERIMENT_PATTERN_PERMISSIONS,
  GROUP_EXPERIMENT_PATTERN_PERMISSION_DETAIL, GROUP_REGISTERED_MODEL_PERMISSIONS,
  GROUP_REGISTERED_MODEL_PERMISSION_DETAIL, GROUP_REGISTERED_MODEL_PATTERN_PERMISSIONS,
  GROUP_REGISTERED_MODEL_PATTERN_PERMISSION_DETAIL, GROUP_PROMPT_PERMISSIONS,
  GROUP_PROMPT_PERMISSION_DETAIL, GROUP_PROMPT_PATTERN_PERMISSIONS,
  GROUP_PROMPT_PATTERN_PERMISSION_DETAIL, GROUP_SCORER_PERMISSIONS,
  GROUP_SCORER_PERMISSION_DETAIL, GROUP_SCORER_PATTERN_PERMISSIONS,
  GROUP_SCORER_PATTERN_PERMISSION_DETAIL, GROUP_GATEWAY_ENDPOINT_PERMISSIONS,
  GROUP_GATEWAY_ENDPOINT_PERMISSION_DETAIL, GROUP_GATEWAY_ENDPOINT_PATTERN_PERMISSIONS,
  GROUP_GATEWAY_ENDPOINT_PATTERN_PERMISSION_DETAIL, GROUP_GATEWAY_MODEL_DEFINITION_PERMISSIONS,
  GROUP_GATEWAY_MODEL_DEFINITION_PERMISSION_DETAIL,
  GROUP_GATEWAY_MODEL_DEFINITION_PATTERN_PERMISSIONS,
  GROUP_GATEWAY_MODEL_DEFINITION_PATTERN_PERMISSION_DETAIL, GROUP_GATEWAY_SECRET_PERMISSIONS,
  GROUP_GATEWAY_SECRET_PERMISSION_DETAIL, GROUP_GATEWAY_SECRET_PATTERN_PERMISSIONS,
  GROUP_GATEWAY_SECRET_PATTERN_PERMISSION_DETAIL, EXPERIMENT_USER_PERMISSIONS,
  REGISTERED_MODEL_USER_PERMISSIONS, PROMPT_USER_PERMISSIONS, SCORER_USER_PERMISSIONS,
  GATEWAY_ENDPOINT_USER_PERMISSIONS, GATEWAY_MODEL_DEFINITION_USER_PERMISSIONS,
  GATEWAY_SECRET_USER_PERMISSIONS, LIST_EXPERIMENTS, LIST_MODELS, LIST_PROMPTS, LIST_SCORERS,
  LIST_ENDPOINTS, LIST_MODEL_DEFINITIONS, LIST_SECRETS, WORKSPACE_USER, WORKSPACE_GROUP,
  USER_REGEX, GROUP_REGEX, check_workspace_read_permission }

=============================================================================
