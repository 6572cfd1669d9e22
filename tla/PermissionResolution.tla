------------------------ MODULE PermissionResolution ------------------------
(***************************************************************************)
(* What one permission lookup computes from the database, with no cache    *)
(* and no concurrency: the four sources of utils/permissions.py and        *)
(* utils/workspace_cache.py, the configured order in which they are asked, *)
(* and the workspace fallback.  A database is a record                     *)
(*   direct : one permission (or Nil) per holder and target;               *)
(*   regex  : a set of rows, each with the set of names its pattern        *)
(*            matches and its priority;                                    *)
(*   member : the user_groups table, as a set of <<user, group>> pairs.    *)
(* Holders are users and groups, targets are resources and workspaces.     *)
(***************************************************************************)
EXTENDS Permissions, Sequences

CONSTANTS User, Group, Resource, Workspace,
          NoWorkspace,           \* a request without X-MLFLOW-WORKSPACE
          Nil,                   \* "no row": RESOURCE_DOES_NOT_EXIST
          SourceOrder,           \* config.PERMISSION_SOURCE_ORDER
          DefaultPermission      \* config.DEFAULT_MLFLOW_PERMISSION

ASSUME NilAssumption == Nil \notin ALL_PERMISSIONS
ASSUME OrderAssumption == SourceOrder \in Seq(STRING)
ASSUME DefaultAssumption == DefaultPermission \in ALL_PERMISSIONS
ASSUME NamesAssumption == /\ NoWorkspace \notin Workspace
                          /\ Resource \cap Workspace = {}
                          /\ User \cap Group = {}

Holder == User \cup Group
Target == Resource \cup Workspace
RegexRow == [holder : Holder, matches : SUBSET Target, priority : Int, permission : ALL_PERMISSIONS]
Database == [direct : [Holder \X Target -> ALL_PERMISSIONS \cup {Nil}],
             regex : SUBSET RegexRow,
             member : SUBSET (User \X Group)]

get_groups_ids_for_user(d, u) == {g \in Group : <<u, g>> \in d.member}

-----------------------------------------------------------------------------
(* The four sources. *)

(* The highest-priority row among the user's groups (later equal rows      *)
(* replace earlier ones, which does not change the permission).            *)
get_group_permission_for_user_resource(d, u, t) ==
  LET candidates == {d.direct[<<g, t>>] : g \in get_groups_ids_for_user(d, u)} \ {Nil}
  IN  IF candidates = {} THEN Nil
      ELSE CHOOSE p \in candidates : \A q \in candidates : compare_permissions(q, p)

(* The rows that match t in the first priority tier that matches at all. *)
FirstTier(rows, t) ==
  LET matching == {r \in rows : t \in r.matches}
  IN  {r \in matching : \A s \in matching : r.priority <= s.priority}

(* A resource takes the first matching row of the list ordered by priority;*)
(* the order of rows with equal priority is the database's.                *)
match_regex_permission(rows, t) ==
  IF FirstTier(rows, t) = {} THEN Nil
  ELSE (CHOOSE r \in FirstTier(rows, t) : TRUE).permission

(* A workspace takes, within the first matching tier, the row whose        *)
(* permission has the largest priority number.                             *)
match_workspace_regex_permission(rows, t) ==
  LET perms == {r.permission : r \in FirstTier(rows, t)}
  IN  IF perms = {} THEN Nil
      ELSE CHOOSE p \in perms : \A q \in perms : compare_permissions(q, p)

MatchRegex(rows, t) ==
  IF t \in Workspace THEN match_workspace_regex_permission(rows, t)
  ELSE match_regex_permission(rows, t)

list_regex_for_user(d, u) == {r \in d.regex : r.holder = u}

list_permissions_for_groups_ids(d, groups) == {r \in d.regex : r.holder \in groups}

(* What the named source returns for user u on target t; a name that is    *)
(* not a source is skipped, so it never answers.                           *)
SourceLookup(d, source, u, t) ==
  CASE source = "user" -> d.direct[<<u, t>>]
    [] source = "group" -> get_group_permission_for_user_resource(d, u, t)
    [] source = "regex" -> MatchRegex(list_regex_for_user(d, u), t)
    [] source = "group-regex" ->
         MatchRegex(list_permissions_for_groups_ids(d, get_groups_ids_for_user(d, u)), t)
    [] OTHER -> Nil

-----------------------------------------------------------------------------
(* The walk over the configured order: the first source that answers. *)
Answering(d, u, t) == {i \in DOMAIN SourceOrder : SourceLookup(d, SourceOrder[i], u, t) # Nil}

FirstAnswering(d, u, t) ==
  CHOOSE i \in Answering(d, u, t) : \A j \in Answering(d, u, t) : i <= j

lookup_workspace_permission(d, u, w) ==
  IF Answering(d, u, w) = {} THEN Nil
  ELSE SourceLookup(d, SourceOrder[FirstAnswering(d, u, w)], u, w)

get_permission_from_store_or_default(d, u, t) ==
  IF Answering(d, u, t) = {} THEN [permission |-> DefaultPermission, kind |-> "fallback"]
  ELSE LET i == FirstAnswering(d, u, t)
       IN  [permission |-> SourceLookup(d, SourceOrder[i], u, t), kind |-> SourceOrder[i]]

(* A generic fallback defers to the permission on the request's workspace; *)
(* a request without a workspace keeps the configured default.             *)
WorkspaceResult(permission) ==
  IF permission # Nil THEN [permission |-> permission, kind |-> "workspace"]
  ELSE [permission |-> "NO_PERMISSIONS", kind |-> "workspace-deny"]

apply_workspace_fallback(d, result, u, x) ==
  IF result.kind # "fallback" \/ x = NoWorkspace THEN result
  ELSE WorkspaceResult(lookup_workspace_permission(d, u, x))

(* The decision for user u on resource r in request context x. *)
resolve_permission(d, u, r, x) ==
  apply_workspace_fallback(d, get_permission_from_store_or_default(d, u, r), u, x)

=============================================================================
