-------------------------- MODULE BatchResolution --------------------------
(***************************************************************************)
(* utils/batch_permissions.py: the listing endpoints resolve many          *)
(* resources of one type for one user from lists fetched up front, one     *)
(* query (a transaction) each, with writes committing in between.  The     *)
(* per-resource step reads no resource row any more, only the workspace    *)
(* permission, which is memoised for the call: from the workspace cache,   *)
(* or source by source, again one query each.                              *)
(*                                                                         *)
(* A write's invalidation follows its commit at any time or never (a lost  *)
(* one, another replica's cache): an entry of the workspace cache may be   *)
(* dropped at any moment, and may be stale while it is there.              *)
(*   seen, the databases since the call began, and origin, those of the    *)
(* lookup that gave the workspace's latest value and whether one of its    *)
(* reads failed, are history.                                              *)
(***************************************************************************)
EXTENDS PermissionResolution, FiniteSets

CONSTANTS user,             \* the caller of the listing
          EnableWorkspaces, \* config.MLFLOW_ENABLE_WORKSPACES
          DEFAULT_WORKSPACE,\* where MLflow puts a request without a header
          Grantable, RegexRows, Targets, \* what writes may write, and on what
          InitialDatabases, \* what earlier requests may have left
          MaxWrites         \* the writes in a behaviour

NoMemo == "unknown"

ASSUME BatchAssumption ==
  /\ Nil # NoMemo
  /\ user \in User /\ EnableWorkspaces \in BOOLEAN /\ DEFAULT_WORKSPACE \in Workspace
  /\ Grantable \subseteq ALL_PERMISSIONS /\ RegexRows \subseteq RegexRow
  /\ Targets \subseteq Target /\ InitialDatabases \subseteq Database /\ MaxWrites \in Nat

VARIABLES db,
          pc,       \* the query or step the call is at
          header,   \* the call's X-MLFLOW-WORKSPACE
          ctx,      \* UserPermissionContext
          memo,     \* ctx.workspace_permission_memo of the call's workspace
          wsCache,  \* the user's entries of the workspace cache
          walk,     \* the workspace lookup under way
          results,  \* the PermissionResult of each resource
          recorded, \* resources passed to record_permission_fallback
          returned, \* what filter_manageable_* returns
          seen, origin, writes

batchVars == <<db, pc, header, ctx, memo, wsCache, walk, results, recorded, returned, seen, origin, writes>>

Context == IF EnableWorkspaces THEN Workspace \cup {NoWorkspace} ELSE {NoWorkspace}
EmptyCtx == [gids |-> {}, direct |-> [r \in Resource |-> Nil], group |-> [r \in Resource |-> Nil],
             regex |-> {}, groupRegex |-> {}]
NoWalk == [resource |-> Nil, at |-> 0, gids |-> {}, found |-> Nil]

BatchInit ==
  /\ db \in InitialDatabases
  /\ pc = "idle" /\ header = NoWorkspace /\ ctx = EmptyCtx /\ memo = NoMemo
  /\ wsCache = [w \in Workspace |-> Nil] /\ walk = NoWalk
  /\ results = [r \in Resource |-> Nil] /\ recorded = {} /\ returned = {}
  /\ seen = {db} /\ origin = [w \in Workspace |-> [dbs |-> {}, failed |-> FALSE]] /\ writes = 0

-----------------------------------------------------------------------------
(* build_user_permission_context, one query a step. *)

BeginBatch(x) ==
  /\ pc = "idle"
  /\ pc' = "gids" /\ header' = x /\ seen' = {db}
  /\ UNCHANGED <<db, ctx, memo, wsCache, walk, results, recorded, returned, origin, writes>>

FetchInto(at, next, fetched) ==
  /\ pc = at /\ pc' = next
  /\ ctx' = fetched
  /\ UNCHANGED <<db, header, memo, wsCache, walk, results, recorded, returned, seen, origin, writes>>

FetchGroupIds == FetchInto("gids", "user", [ctx EXCEPT !.gids = get_groups_ids_for_user(db, user)])

FetchUserPermissions ==
  FetchInto("user", "group", [ctx EXCEPT !.direct = [r \in Resource |-> db.direct[<<user, r>>]]])

(* Several groups' rows for one resource fold to the largest priority. *)
collapse_group_permissions(d, r) ==
  LET rows == {d.direct[<<g, r>>] : g \in get_groups_ids_for_user(d, user)} \ {Nil}
  IN  IF rows = {} THEN Nil
      ELSE CHOOSE p \in rows : \A q \in rows : compare_permissions(q, p)

FetchGroupPermissions ==
  FetchInto("group", "regex", [ctx EXCEPT !.group = [r \in Resource |-> collapse_group_permissions(db, r)]])

FetchRegexPermissions ==
  FetchInto("regex", "groupRegex", [ctx EXCEPT !.regex = list_regex_for_user(db, user)])

FetchAllGroupsRegex ==
  FetchInto("groupRegex", "resolve", [ctx EXCEPT !.groupRegex = list_permissions_for_groups_ids(db, Group)])

(* The group ids are those of the first query. *)
FetchGroupRegexPermissions ==
  FetchInto("groupRegex", "resolve",
        [ctx EXCEPT !.groupRegex = list_permissions_for_groups_ids(db, ctx.gids)])

-----------------------------------------------------------------------------
(* resolve_*_permission_from_context, for one resource. *)

(* The pre-fetched value of each source (source_map.get). *)
FromContext(source, r) ==
  CASE source = "user" -> ctx.direct[r]
    [] source = "group" -> ctx.group[r]
    [] source = "regex" -> match_regex_permission(ctx.regex, r)
    [] source = "group-regex" -> match_regex_permission(ctx.groupRegex, r)
    [] OTHER -> Nil

LastSourceWins(r) ==
  LET answering == {i \in DOMAIN SourceOrder : FromContext(SourceOrder[i], r) # Nil}
  IN  IF answering = {} THEN [permission |-> DefaultPermission, kind |-> "fallback"]
      ELSE LET last == CHOOSE i \in answering : \A j \in answering : i >= j
           IN  [permission |-> FromContext(SourceOrder[last], r), kind |-> SourceOrder[last]]
resolve_permission_from_context(r) ==
  LET answering == {i \in DOMAIN SourceOrder : FromContext(SourceOrder[i], r) # Nil}
  IN  IF answering = {} THEN [permission |-> DefaultPermission, kind |-> "fallback"]
      ELSE LET first == CHOOSE i \in answering : \A j \in answering : i <= j
           IN  [permission |-> FromContext(SourceOrder[first], r), kind |-> SourceOrder[first]]

(* MLflow's context variable: the header's workspace, or the default one. *)
mlflow_get_request_workspace ==
  IF ~EnableWorkspaces THEN NoWorkspace
  ELSE IF header = NoWorkspace THEN DEFAULT_WORKSPACE ELSE header

(* The workspace permission, Nil or not, is kept for the rest of the call. *)
Settle(r, permission) ==
  /\ memo' = permission
  /\ results' = [results EXCEPT ![r] = WorkspaceResult(permission)]

(* The fallback is recorded before the workspace may replace it; a         *)
(* workspace neither in the memo nor in the cache is looked up.            *)
ResolveOne(r) ==
  LET result == resolve_permission_from_context(r)
      w == mlflow_get_request_workspace IN
  /\ pc = "resolve" /\ results[r] = Nil
  /\ recorded' = IF result.kind = "fallback" THEN recorded \cup {r} ELSE recorded
  /\ \/ /\ result.kind # "fallback" \/ w = NoWorkspace
        /\ results' = [results EXCEPT ![r] = result]
        /\ UNCHANGED <<pc, memo, walk, origin>>
     \/ /\ result.kind = "fallback" /\ w # NoWorkspace
        /\ \/ memo # NoMemo /\ Settle(r, memo) /\ UNCHANGED <<pc, walk, origin>>
           \/ memo = NoMemo /\ wsCache[w] # Nil /\ Settle(r, wsCache[w]) /\ UNCHANGED <<pc, walk, origin>>
           \/ /\ memo = NoMemo /\ wsCache[w] = Nil
              /\ pc' = "lookup" /\ walk' = [NoWalk EXCEPT !.resource = r, !.at = 1]
              /\ origin' = [origin EXCEPT ![w] = [dbs |-> {db}, failed |-> FALSE]]
              /\ UNCHANGED <<memo, results>>
  /\ UNCHANGED <<db, header, ctx, wsCache, returned, seen, writes>>

-----------------------------------------------------------------------------
(* _lookup_workspace_permission: the sources in their order, the first     *)
(* that answers.  The group patterns take two queries, the user's groups   *)
(* and their rows; without groups there is no second one.                  *)
Asking == pc = "lookup" /\ walk.at <= Len(SourceOrder)
Asks(source) == Asking /\ SourceOrder[walk.at] = source
NextSource == walk' = [walk EXCEPT !.at = @ + 1, !.gids = {}] /\ UNCHANGED pc
Answer(permission) ==
  IF permission = Nil THEN NextSource
  ELSE pc' = "store" /\ walk' = [walk EXCEPT !.found = permission]
OnlyTheWalk == UNCHANGED <<db, header, ctx, memo, wsCache, results, recorded, returned, seen, writes>>

ReadWorkspaceSource ==
  /\ Asking /\ ~Asks("group-regex")
  /\ Answer(SourceLookup(db, SourceOrder[walk.at], user, mlflow_get_request_workspace))
  /\ OnlyTheWalk /\ UNCHANGED origin

ReadWorkspaceGroups ==
  /\ Asks("group-regex") /\ walk.gids = {}
  /\ LET ids == get_groups_ids_for_user(db, user)
     IN  IF ids = {} THEN NextSource ELSE walk' = [walk EXCEPT !.gids = ids] /\ UNCHANGED pc
  /\ OnlyTheWalk /\ UNCHANGED origin

ReadWorkspaceGroupRegex ==
  /\ Asks("group-regex") /\ walk.gids # {}
  /\ Answer(MatchRegex(list_permissions_for_groups_ids(db, walk.gids), mlflow_get_request_workspace))
  /\ OnlyTheWalk /\ UNCHANGED origin

(* An exception in a source is logged and taken for "no row". *)
WorkspaceReadFails ==
  /\ Asking /\ NextSource
  /\ origin' = [origin EXCEPT ![mlflow_get_request_workspace].failed = TRUE]
  /\ OnlyTheWalk

(* What was found is cached, a denial is not. *)
StoreWorkspace ==
  /\ pc = "store" /\ pc' = "resolve"
  /\ wsCache' = [wsCache EXCEPT ![mlflow_get_request_workspace] = walk.found]
  /\ Settle(walk.resource, walk.found) /\ walk' = NoWalk
  /\ UNCHANGED <<db, header, ctx, recorded, returned, seen, origin, writes>>

DenyByWorkspace ==
  /\ pc = "lookup" /\ ~Asking /\ pc' = "resolve"
  /\ Settle(walk.resource, Nil) /\ walk' = NoWalk
  /\ UNCHANGED <<db, header, ctx, wsCache, recorded, returned, seen, origin, writes>>

(* The invalidation of some write, or the entry's expiry. *)
DropWorkspaceEntry(w) ==
  /\ wsCache[w] # Nil /\ wsCache' = [wsCache EXCEPT ![w] = Nil]
  /\ UNCHANGED <<db, pc, header, ctx, memo, walk, results, recorded, returned, seen, origin, writes>>

-----------------------------------------------------------------------------
filter_manageable(of) == {r \in Resource : "manage" \in capabilities[of[r].permission]}

Return ==
  /\ pc = "resolve" /\ \A r \in Resource : results[r] # Nil
  /\ pc' = "done"
  /\ returned' = filter_manageable(results)
  /\ UNCHANGED <<db, header, ctx, memo, wsCache, walk, results, recorded, seen, origin, writes>>

(* The response is sent; the context and its memo go with the request. *)
EndCall ==
  /\ pc = "done"
  /\ pc' = "idle" /\ header' = NoWorkspace /\ ctx' = EmptyCtx /\ memo' = NoMemo
  /\ results' = [r \in Resource |-> Nil] /\ recorded' = {} /\ returned' = {}
  /\ UNCHANGED <<db, wsCache, walk, seen, origin, writes>>

-----------------------------------------------------------------------------
(* Other requests' writes. *)
Commit(d) ==
  /\ writes < MaxWrites /\ d # db
  /\ db' = d
  /\ writes' = writes + 1 /\ seen' = seen \cup {d}
  /\ origin' = IF pc \notin {"lookup", "store"} THEN origin
               ELSE [origin EXCEPT ![mlflow_get_request_workspace].dbs = @ \cup {d}]
  /\ UNCHANGED <<pc, header, ctx, memo, wsCache, walk, results, recorded, returned>>

SetPermission(h, t, p) == Commit([db EXCEPT !.direct[<<h, t>>] = p])
SetRegexPermission(rows) == Commit([db EXCEPT !.regex = rows])
SetMembership(pairs) == Commit([db EXCEPT !.member = pairs])

OtherWrite ==
  \/ \E h \in {user} \cup Group, t \in Targets, p \in Grantable \cup {Nil} : SetPermission(h, t, p)
  \/ \E row \in RegexRows : SetRegexPermission(db.regex \cup {row}) \/ SetRegexPermission(db.regex \ {row})
  \/ \E g \in Group :
       SetMembership(db.member \cup {<<user, g>>}) \/ SetMembership(db.member \ {<<user, g>>})

BatchNext ==
  \/ \E x \in Context : BeginBatch(x)
  \/ FetchGroupIds \/ FetchUserPermissions \/ FetchGroupPermissions
  \/ FetchRegexPermissions \/ FetchGroupRegexPermissions
  \/ \E r \in Resource : ResolveOne(r)
  \/ ReadWorkspaceSource \/ ReadWorkspaceGroups \/ ReadWorkspaceGroupRegex
  \/ WorkspaceReadFails \/ StoreWorkspace \/ DenyByWorkspace
  \/ \E w \in Workspace : DropWorkspaceEntry(w)
  \/ Return \/ EndCall \/ OtherWrite

BatchSpec == BatchInit /\ [][BatchNext]_batchVars

-----------------------------------------------------------------------------
ListingAgrees == \A r \in Resource : results[r] = resolve_permission(db, user, r, header)

(* The workspace's value was looked up without a failure and without a     *)
(* write in between, and no write since has changed it.                    *)
WorkspaceSettled(w) ==
  /\ ~origin[w].failed
  /\ \A d, e \in origin[w].dbs :
       d = e /\ lookup_workspace_permission(d, user, w) = lookup_workspace_permission(db, user, w)

(* For a request that names its workspace, a listing that no write         *)
(* overlapped and that found the present workspace permission, cached or   *)
(* not, gives every resource the decision, and the kind of decision, that  *)
(* resolve_permission gives it, lists what that path calls manageable and  *)
(* leaves no default decision unrecorded.                                  *)
BatchAgreesWhenQuiet ==
  (pc = "done" /\ seen = {db} /\ (EnableWorkspaces => header # NoWorkspace /\ WorkspaceSettled(header))) =>
    /\ ListingAgrees
    /\ returned = {r \in Resource : "manage" \in capabilities[resolve_permission(db, user, r, header).permission]}
    /\ {r \in Resource : results[r].kind = "fallback"} \subseteq recorded

(* A source gives p for target t in one of these databases; the patterns   *)
(* of the groups are of one, the user's groups perhaps of another.         *)
Gave(dbs, source, t, p) ==
  IF source = "group-regex"
  THEN \E d, e \in dbs : MatchRegex(list_permissions_for_groups_ids(e, get_groups_ids_for_user(d, user)), t) = p
  ELSE \E d \in dbs : SourceLookup(d, source, user, t) = p

(* batch_permissions.py:104-261, workspace_cache.py:43-68, 293-345: a torn *)
(* context or a torn workspace lookup never invents a grant: each decision *)
(* is one that a single source gave in the databases of the call, and a    *)
(* workspace grant one that a single source gave in those of the lookup    *)
(* that filled the cache, however old that entry is.                       *)
GrantsWereHeld ==
  \A r \in {q \in Resource : results[q] # Nil} :
    LET p == results[r].permission
        k == results[r].kind
        w == mlflow_get_request_workspace
    IN  /\ k \in {"user", "group", "regex", "group-regex"} => Gave(seen, k, r, p)
        /\ k = "workspace" => \E i \in DOMAIN SourceOrder : Gave(origin[w].dbs, SourceOrder[i], w, p)

=============================================================================
