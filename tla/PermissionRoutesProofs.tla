----------------------- MODULE PermissionRoutesProofs -----------------------
(***************************************************************************)
(* Theorems about PermissionRoutes, for any users, groups, slots, orders   *)
(* of sources, defaults, scenarios and numbers of requests and changes;    *)
(* and about the two other components that decide with the same            *)
(* definitions: the loops behind the sources (SourceLoops) and the         *)
(* listings (BatchResolution).                                             *)
(***************************************************************************)
EXTENDS PermissionRoutes, SourceLoops, BatchResolution, ResolutionProofs, SequenceTheorems, TLAPS

Op == Writes \cup {"get", "list"}
Scope == {"direct", "pattern"}

(* What the table says of every route: who is not checked only lists, and  *)
(* is filtered; patterns are for administrators; and a check is about a    *)
(* steward of what the route is about.                                     *)
RouteOK(r) ==
  /\ r.type \in Target /\ r.over \in Target /\ r.scope \in Scope /\ r.methods \subseteq Op
  /\ r.holder \in {"user", "group", "all", "self"} /\ r.cap \in {"admin", "manage", "read", "none"}
  /\ r.scope = "pattern" => r.cap = "admin"
  /\ r.cap \in {"manage", "none"} => r.over \in Stewards(r.type) /\ Stewards(r.over) \subseteq Stewards(r.type)
  /\ r.cap \in {"read", "none"} => r.methods = {"list"}
  /\ r.cap = "read" => r.type = "workspace" /\ r.over = "workspace"

LEMMA TargetNames ==
  Target = {"experiment", "registered_model", "prompt", "scorer", "gateway_endpoint",
            "gateway_model_definition", "gateway_secret", "workspace"}
BY RoutesAssumption DEF Target

LEMMA AdminRouteOK ==
  ASSUME NEW holder \in {"user", "group"}, NEW type \in Target, NEW scope \in Scope, NEW methods \in SUBSET Op
  PROVE  RouteOK(check_admin_permission(holder, type, scope, methods))
BY DEF RouteOK, check_admin_permission, Route

LEMMA OwnStewards ==
  ASSUME NEW type \in Target
  PROVE  type \in Stewards(type)
BY DEF Stewards, SharedRow

LEMMA ManagerRouteOK ==
  ASSUME NEW holder \in {"user", "group", "all"}, NEW type \in Target, NEW methods \in SUBSET Op,
         NEW over \in Target, over \in Stewards(type)
  PROVE  RouteOK(ManagerRoute(holder, type, methods, over))
<1>1. Stewards(over) \subseteq Stewards(type)
  BY DEF Stewards, SharedRow
<1>2. QED
  BY <1>1 DEF RouteOK, ManagerRoute, Route, Scope

LEMMA ListingOK ==
  ASSUME NEW holder \in {"user", "group", "self"}, NEW type \in Target, NEW over \in Target, over \in Stewards(type)
  PROVE  RouteOK(Listing(holder, type, over))
<1>1. Stewards(over) \subseteq Stewards(type)
  BY DEF Stewards, SharedRow
<1>2. QED
  BY <1>1 DEF RouteOK, Listing, Route, Scope, Op

LEMMA RoutesOK == \A r \in Routes : RouteOK(r)
<1>1. Writes \in SUBSET Op /\ Writes \cup {"get"} \in SUBSET Op /\ Writes \cup {"list"} \in SUBSET Op
      /\ {"list"} \in SUBSET Op /\ {"create", "list"} \in SUBSET Op /\ {"get", "update", "delete"} \in SUBSET Op
  BY DEF Op, Writes
<1>2. /\ "registered_model" \in Stewards("prompt") /\ "experiment" \in Stewards("scorer")
  BY DEF Stewards, SharedRow
<1>3. "direct" \in Scope /\ "pattern" \in Scope
  BY DEF Scope
<1>4. \A r \in {
           USER_REGEX, GROUP_REGEX} : RouteOK(r)
  BY <1>1, <1>2, <1>3, TargetNames, AdminRouteOK
     DEF PatternRoute, USER_REGEX, GROUP_REGEX
<1>5. \A r \in {
           USER_EXPERIMENT_PATTERN_PERMISSIONS, USER_REGISTERED_MODEL_PATTERN_PERMISSIONS,
           USER_PROMPT_PATTERN_PERMISSIONS, USER_SCORER_PATTERN_PERMISSIONS,
           USER_GATEWAY_ENDPOINT_PATTERN_PERMISSIONS,
           USER_GATEWAY_MODEL_DEFINITION_PATTERN_PERMISSIONS, USER_GATEWAY_SECRET_PATTERN_PERMISSIONS,
           GROUP_EXPERIMENT_PATTERN_PERMISSIONS, GROUP_REGISTERED_MODEL_PATTERN_PERMISSIONS,
           GROUP_PROMPT_PATTERN_PERMISSIONS, GROUP_SCORER_PATTERN_PERMISSIONS,
           GROUP_GATEWAY_ENDPOINT_PATTERN_PERMISSIONS,
           GROUP_GATEWAY_MODEL_DEFINITION_PATTERN_PERMISSIONS, GROUP_GATEWAY_SECRET_PATTERN_PERMISSIONS} : RouteOK(r)
  BY <1>1, <1>2, <1>3, TargetNames, AdminRouteOK
     DEF Patterns, PatternRoute, USER_EXPERIMENT_PATTERN_PERMISSIONS,
         USER_REGISTERED_MODEL_PATTERN_PERMISSIONS, USER_PROMPT_PATTERN_PERMISSIONS,
         USER_SCORER_PATTERN_PERMISSIONS, USER_GATEWAY_ENDPOINT_PATTERN_PERMISSIONS,
         USER_GATEWAY_MODEL_DEFINITION_PATTERN_PERMISSIONS, USER_GATEWAY_SECRET_PATTERN_PERMISSIONS,
         GROUP_EXPERIMENT_PATTERN_PERMISSIONS, GROUP_REGISTERED_MODEL_PATTERN_PERMISSIONS,
         GROUP_PROMPT_PATTERN_PERMISSIONS, GROUP_SCORER_PATTERN_PERMISSIONS,
         GROUP_GATEWAY_ENDPOINT_PATTERN_PERMISSIONS,
         GROUP_GATEWAY_MODEL_DEFINITION_PATTERN_PERMISSIONS, GROUP_GATEWAY_SECRET_PATTERN_PERMISSIONS
<1>6. \A r \in {
           USER_EXPERIMENT_PATTERN_PERMISSION_DETAIL, USER_REGISTERED_MODEL_PATTERN_PERMISSION_DETAIL,
           USER_PROMPT_PATTERN_PERMISSION_DETAIL, USER_SCORER_PATTERN_PERMISSION_DETAIL,
           USER_GATEWAY_ENDPOINT_PATTERN_PERMISSION_DETAIL,
           USER_GATEWAY_MODEL_DEFINITION_PATTERN_PERMISSION_DETAIL,
           USER_GATEWAY_SECRET_PATTERN_PERMISSION_DETAIL, GROUP_EXPERIMENT_PATTERN_PERMISSION_DETAIL,
           GROUP_REGISTERED_MODEL_PATTERN_PERMISSION_DETAIL, GROUP_PROMPT_PATTERN_PERMISSION_DETAIL,
           GROUP_SCORER_PATTERN_PERMISSION_DETAIL, GROUP_GATEWAY_ENDPOINT_PATTERN_PERMISSION_DETAIL,
           GROUP_GATEWAY_MODEL_DEFINITION_PATTERN_PERMISSION_DETAIL,
           GROUP_GATEWAY_SECRET_PATTERN_PERMISSION_DETAIL} : RouteOK(r)
  BY <1>1, <1>2, <1>3, TargetNames, AdminRouteOK
     DEF Pattern, PatternRoute, USER_EXPERIMENT_PATTERN_PERMISSION_DETAIL,
         USER_REGISTERED_MODEL_PATTERN_PERMISSION_DETAIL, USER_PROMPT_PATTERN_PERMISSION_DETAIL,
         USER_SCORER_PATTERN_PERMISSION_DETAIL, USER_GATEWAY_ENDPOINT_PATTERN_PERMISSION_DETAIL,
         USER_GATEWAY_MODEL_DEFINITION_PATTERN_PERMISSION_DETAIL,
         USER_GATEWAY_SECRET_PATTERN_PERMISSION_DETAIL, GROUP_EXPERIMENT_PATTERN_PERMISSION_DETAIL,
         GROUP_REGISTERED_MODEL_PATTERN_PERMISSION_DETAIL, GROUP_PROMPT_PATTERN_PERMISSION_DETAIL,
         GROUP_SCORER_PATTERN_PERMISSION_DETAIL, GROUP_GATEWAY_ENDPOINT_PATTERN_PERMISSION_DETAIL,
         GROUP_GATEWAY_MODEL_DEFINITION_PATTERN_PERMISSION_DETAIL,
         GROUP_GATEWAY_SECRET_PATTERN_PERMISSION_DETAIL
<1>7. \A r \in {
           USER_GATEWAY_ENDPOINT_PERMISSION_DETAIL, USER_GATEWAY_MODEL_DEFINITION_PERMISSION_DETAIL,
           USER_GATEWAY_SECRET_PERMISSION_DETAIL, GROUP_GATEWAY_ENDPOINT_PERMISSIONS,
           GROUP_GATEWAY_ENDPOINT_PERMISSION_DETAIL, GROUP_GATEWAY_MODEL_DEFINITION_PERMISSIONS,
           GROUP_GATEWAY_MODEL_DEFINITION_PERMISSION_DETAIL, GROUP_GATEWAY_SECRET_PERMISSIONS,
           GROUP_GATEWAY_SECRET_PERMISSION_DETAIL} : RouteOK(r)
  BY <1>1, <1>2, <1>3, TargetNames, AdminRouteOK
     DEF AdminRoute, USER_GATEWAY_ENDPOINT_PERMISSION_DETAIL,
         USER_GATEWAY_MODEL_DEFINITION_PERMISSION_DETAIL, USER_GATEWAY_SECRET_PERMISSION_DETAIL,
         GROUP_GATEWAY_ENDPOINT_PERMISSIONS, GROUP_GATEWAY_ENDPOINT_PERMISSION_DETAIL,
         GROUP_GATEWAY_MODEL_DEFINITION_PERMISSIONS, GROUP_GATEWAY_MODEL_DEFINITION_PERMISSION_DETAIL,
         GROUP_GATEWAY_SECRET_PERMISSIONS, GROUP_GATEWAY_SECRET_PERMISSION_DETAIL
<1>8. \A r \in {
           USER_EXPERIMENT_PERMISSION_DETAIL, USER_REGISTERED_MODEL_PERMISSION_DETAIL,
           USER_PROMPT_PERMISSION_DETAIL, USER_SCORER_PERMISSION_DETAIL,
           GROUP_EXPERIMENT_PERMISSION_DETAIL, GROUP_REGISTERED_MODEL_PERMISSION_DETAIL,
           GROUP_PROMPT_PERMISSION_DETAIL, GROUP_SCORER_PERMISSION_DETAIL, EXPERIMENT_USER_PERMISSIONS,
           REGISTERED_MODEL_USER_PERMISSIONS, PROMPT_USER_PERMISSIONS, SCORER_USER_PERMISSIONS,
           GATEWAY_ENDPOINT_USER_PERMISSIONS, GATEWAY_MODEL_DEFINITION_USER_PERMISSIONS,
           GATEWAY_SECRET_USER_PERMISSIONS, WORKSPACE_USER, WORKSPACE_GROUP} : RouteOK(r)
  BY <1>1, <1>2, <1>3, TargetNames, ManagerRouteOK, OwnStewards
     DEF USER_EXPERIMENT_PERMISSION_DETAIL, USER_REGISTERED_MODEL_PERMISSION_DETAIL,
         USER_PROMPT_PERMISSION_DETAIL, USER_SCORER_PERMISSION_DETAIL,
         GROUP_EXPERIMENT_PERMISSION_DETAIL, GROUP_REGISTERED_MODEL_PERMISSION_DETAIL,
         GROUP_PROMPT_PERMISSION_DETAIL, GROUP_SCORER_PERMISSION_DETAIL, EXPERIMENT_USER_PERMISSIONS,
         REGISTERED_MODEL_USER_PERMISSIONS, PROMPT_USER_PERMISSIONS, SCORER_USER_PERMISSIONS,
         GATEWAY_ENDPOINT_USER_PERMISSIONS, GATEWAY_MODEL_DEFINITION_USER_PERMISSIONS,
         GATEWAY_SECRET_USER_PERMISSIONS, WORKSPACE_USER, WORKSPACE_GROUP
<1>9. \A r \in {
           USER_EXPERIMENT_PERMISSION, USER_REGISTERED_MODEL_PERMISSIONS, USER_PROMPT_PERMISSIONS,
           USER_SCORER_PERMISSIONS, USER_GATEWAY_ENDPOINT_PERMISSIONS,
           USER_GATEWAY_MODEL_DEFINITION_PERMISSIONS, USER_GATEWAY_SECRET_PERMISSIONS,
           GROUP_EXPERIMENT_PERMISSIONS, GROUP_REGISTERED_MODEL_PERMISSIONS, GROUP_PROMPT_PERMISSIONS,
           GROUP_SCORER_PERMISSIONS, LIST_EXPERIMENTS, LIST_MODELS, LIST_PROMPTS, LIST_SCORERS,
           LIST_ENDPOINTS, LIST_MODEL_DEFINITIONS, LIST_SECRETS} : RouteOK(r)
  BY <1>1, <1>2, <1>3, TargetNames, ListingOK, OwnStewards
     DEF USER_EXPERIMENT_PERMISSION, USER_REGISTERED_MODEL_PERMISSIONS, USER_PROMPT_PERMISSIONS,
         USER_SCORER_PERMISSIONS, USER_GATEWAY_ENDPOINT_PERMISSIONS,
         USER_GATEWAY_MODEL_DEFINITION_PERMISSIONS, USER_GATEWAY_SECRET_PERMISSIONS,
         GROUP_EXPERIMENT_PERMISSIONS, GROUP_REGISTERED_MODEL_PERMISSIONS, GROUP_PROMPT_PERMISSIONS,
         GROUP_SCORER_PERMISSIONS, LIST_EXPERIMENTS, LIST_MODELS, LIST_PROMPTS, LIST_SCORERS,
         LIST_ENDPOINTS, LIST_MODEL_DEFINITIONS, LIST_SECRETS
<1>10. RouteOK(check_workspace_read_permission)
  BY <1>1, <1>3, TargetNames DEF RouteOK, check_workspace_read_permission, Route
<1>11. QED
  BY <1>4, <1>5, <1>6, <1>7, <1>8, <1>9, <1>10 DEF Routes

-----------------------------------------------------------------------------
(* The tables and the requests. *)
TablesOK ==
  /\ grants \in [RowKeys -> DirectRow \cup {Nil}] /\ pattern \in [Holder \X Target -> PatternRow \cup {Nil}]
  /\ member \subseteq User \X Group /\ admins \subseteq User /\ focus \in Scenarios
HolderFits(q) == q # Nil /\ q.route.holder = "user" => q.holder \in User
Typed == TablesOK /\ req \in [Slot -> Handling \cup {Nil}] /\ \A s \in Slot : HolderFits(req[s])

LEMMA SharedTypes ==
  ASSUME NEW t \in Target
  PROVE  /\ SharedRow(t) \subseteq Target /\ t \in SharedRow(t) /\ RowType(t) \in SharedRow(t) /\ RowType(t) # "prompt"
         /\ "prompt" \in SharedRow(t) <=> "registered_model" \in SharedRow(t)
         /\ "prompt" \in SharedRow(t) <=> t \in {"prompt", "registered_model"}
         /\ \A k \in SharedRow(t) : k = "prompt" \/ k = RowType(t)
BY TargetNames DEF SharedRow, RowType

(* What the rows say of each name. *)
LEMMA DirectType ==
  ASSUME TablesOK
  PROVE  /\ direct \in [Holder \X Target -> PermOrNil]
         /\ \A h \in Holder, t \in Target :
              /\ <<h, RowType(t)>> \in RowKeys /\ grants[<<h, RowType(t)>>] \in DirectRow \cup {Nil}
              /\ direct[<<h, t>>] = IF grants[<<h, RowType(t)>>] = Nil THEN Nil ELSE grants[<<h, RowType(t)>>].permission
<1>1. ASSUME NEW h \in Holder, NEW t \in Target
      PROVE  /\ <<h, RowType(t)>> \in RowKeys /\ grants[<<h, RowType(t)>>] \in DirectRow \cup {Nil}
             /\ direct[<<h, t>>] = IF grants[<<h, RowType(t)>>] = Nil THEN Nil ELSE grants[<<h, RowType(t)>>].permission
             /\ direct[<<h, t>>] \in PermOrNil
  <2>1. <<h, RowType(t)>> \in RowKeys
    BY SharedTypes DEF RowKeys
  <2>2. grants[<<h, RowType(t)>>] \in DirectRow \cup {Nil}
    BY <2>1 DEF TablesOK
  <2>3. direct[<<h, t>>] = IF grants[<<h, RowType(t)>>] = Nil THEN Nil ELSE grants[<<h, RowType(t)>>].permission
    BY DEF direct
  <2> QED BY <2>1, <2>2, <2>3 DEF DirectRow, PermOrNil
<1>2. direct = [k \in Holder \X Target |-> direct[k]]
  BY DEF direct
<1>3. ASSUME NEW k \in Holder \X Target PROVE direct[k] \in PermOrNil
  <2>1. k[1] \in Holder /\ k[2] \in Target /\ k = <<k[1], k[2]>>
    OBVIOUS
  <2>2. direct[<<k[1], k[2]>>] \in PermOrNil
    BY <1>1, <2>1
  <2> QED BY <2>1, <2>2
<1> QED BY <1>1, <1>2, <1>3

LEMMA SameDirect ==
  ASSUME grants' = grants
  PROVE  direct' = direct
BY DEF direct

LEMMA DatabaseType ==
  ASSUME TablesOK
  PROVE  DB \in Database
<1> DEFINE keys == {i \in Holder \X Target : pattern[i] # Nil /\ pattern[i].matches}
           row(k) == [holder |-> k[1], matches |-> {k[2]}, priority |-> 1, permission |-> pattern[k].permission]
<1>1. ASSUME NEW k \in keys PROVE row(k) \in RegexRow
  <2>1. k[1] \in Holder /\ k[2] \in Target /\ pattern[k] \in PatternRow
    BY DEF TablesOK
  <2>2. pattern[k].permission \in ALL_PERMISSIONS
    BY <2>1 DEF PatternRow
  <2>3. QED
    BY <2>1, <2>2 DEF RegexRow
<1>2. {row(k) : k \in keys} \in SUBSET RegexRow
  BY <1>1
<1>3. direct \in [Holder \X Target -> ALL_PERMISSIONS \cup {Nil}] /\ member \in SUBSET (User \X Group)
  BY DirectType DEF TablesOK, PermOrNil
<1> HIDE DEF row, keys
<1>4. DB = [direct |-> direct, regex |-> {row(k) : k \in keys}, member |-> member]
  BY DEF DB, row, keys
<1>5. QED
  BY <1>2, <1>3, <1>4 DEF Database

LEMMA DecisionType ==
  ASSUME NEW d \in Database, NEW u \in User, NEW t \in Target, NEW x \in Workspace \cup {NoWorkspace}
  PROVE  effective_permission(d, u, t, x) \in ALL_PERMISSIONS
<1>1. CASE t \in Workspace
  BY <1>1, WorkspaceHasRow DEF effective_permission
<1>2. CASE t \notin Workspace
  BY <1>2, DecisionHasRow DEF effective_permission, Target
<1>3. QED
  BY <1>1, <1>2

LEMMA HeaderType ==
  ASSUME TablesOK
  PROVE  focus.header \in Workspace \cup {NoWorkspace} /\ focus.routes \subseteq Routes /\ focus.types \subseteq Target
BY RoutesAssumption DEF TablesOK

LEMMA SameDatabase ==
  ASSUME UNCHANGED tables
  PROVE  DB' = DB /\ admins' = admins
BY SameDirect DEF tables, DB

LEMMA RequestTypes ==
  ASSUME Typed, NEW s \in Slot, req[s] # Nil
  PROVE  /\ req[s] \in Handling /\ RouteOK(req[s].route)
         /\ req[s].caller \in User /\ req[s].holder \in Holder /\ req[s].route.type \in Target
<1>1. req[s] \in Handling
  BY DEF Typed
<1>2. req[s].route \in Routes /\ req[s].caller \in Callers /\ req[s].holder \in Holder
  BY <1>1 DEF Handling
<1>3. QED
  BY <1>1, <1>2, RoutesOK, RoutesAssumption DEF RouteOK

-----------------------------------------------------------------------------
(* The steps that leave the tables alone. *)
Rest == UNCHANGED <<tables, focus, origins>>
Puts(s) == req' = [req EXCEPT ![s] = req'[s]] /\ req'[s] \in Handling \cup {Nil}

Begins(s) ==
  LET n == req'[s] IN
  /\ Puts(s) /\ Rest /\ UNCHANGED <<log, torn>> /\ req[s] = Nil /\ n \in Handling /\ HolderFits(n)
  /\ n.op \in n.route.methods /\ (n.route.cap = "admin" => n.isAdmin)
  /\ n.isAdmin => n.caller \in admins
  /\ n.entitled <=> Entitled(DB, admins, n)
  /\ n.at \in {"check", "act"} /\ (n.at = "check" <=> ~(n.isAdmin \/ n.route.cap = "none")) /\ ~n.shown

SameCall(q, n) ==
  /\ n.caller = q.caller /\ n.route = q.route /\ n.op = q.op /\ n.holder = q.holder /\ n.level = q.level
  /\ n.matches = q.matches /\ n.isAdmin = q.isAdmin

Advances(s) ==
  LET q == req[s]
      n == req'[s] IN
  /\ Puts(s) /\ Rest /\ UNCHANGED <<log, torn>> /\ q # Nil /\ n \in Handling /\ SameCall(q, n) /\ n.entitled = q.entitled
  /\ \/ /\ q.at = "check" /\ n.at = "act" /\ n.shown = q.shown
        /\ may(DB, q.caller, q.route.cap, q.route.over, focus.header)
     \/ q.at = "act" /\ n.at \in {"filter", "reply"} /\ q.op \notin Writes /\ (n.shown => q.route.cap # "none")
     \/ q.at = "filter" /\ n.at = "reply" /\ (n.shown => Shows(q))

Ends(s) ==
  LET q == req[s] IN
  /\ Puts(s) /\ Rest /\ q # Nil /\ req'[s] = Nil
  /\ \/ q.at # "audit" /\ UNCHANGED <<log, torn>>
     \/ /\ q.at = "audit" /\ UNCHANGED torn
        /\ log' = [k \in DOMAIN log \cup {Key(q)} |-> IF k = Key(q) THEN Event(q) ELSE log[k]]
     \/ q.at = "audit" /\ UNCHANGED log /\ torn' = torn \cup {Key(q)}

LEMMA SetPuts ==
  ASSUME Typed, NEW s \in Slot, NEW n, n \in Handling \cup {Nil}, req' = [req EXCEPT ![s] = n]
  PROVE  Puts(s) /\ req'[s] = n
BY DEF Puts, Typed

LEMMA OtherSlots ==
  ASSUME Typed, NEW s \in Slot, Puts(s)
  PROVE  req' \in [Slot -> Handling \cup {Nil}] /\ \A g \in Slot \ {s} : req'[g] = req[g]
BY DEF Typed, Puts

LEMMA StepEnds ==
  ASSUME Typed, NEW s \in Slot, req[s] # Nil, req[s].at # "audit", Step(s, Nil)
  PROVE  Ends(s)
<1>1. Puts(s) /\ req'[s] = Nil
  BY SetPuts DEF Step
<1>2. Rest /\ UNCHANGED <<log, torn>>
  BY DEF Step, Rest
<1>3. QED
  BY <1>1, <1>2 DEF Ends

LEMMA AuditEnds ==
  ASSUME Typed, NEW s \in Slot, emit_audit_event(s) \/ Crash(s)
  PROVE  Ends(s)
<1>1. req[s] # Nil /\ req[s].at = "audit" /\ req' = [req EXCEPT ![s] = Nil]
  BY DEF emit_audit_event, Crash
<1>2. Puts(s) /\ req'[s] = Nil
  BY <1>1, SetPuts
<1>3. Rest
  BY DEF emit_audit_event, Crash, Rest
<1>4. CASE emit_audit_event(s)
  BY <1>1, <1>2, <1>3, <1>4 DEF Ends, emit_audit_event
<1>5. CASE Crash(s)
  BY <1>1, <1>2, <1>3, <1>5 DEF Ends, Crash
<1>6. QED
  BY <1>4, <1>5

LEMMA BeginSteps ==
  ASSUME Typed, NEW s \in Slot, Request(s)
  PROVE  Begins(s)
<1>1. req[s] = Nil /\ focus.routes \subseteq Routes
  BY HeaderType DEF Request, Typed
<1>2. PICK route \in focus.routes, caller \in Callers :
        \E op \in route.methods :
          \E holder \in IF route.holder = "self" THEN {caller} ELSE HoldersOf(route),
             level \in LevelsOf(op), matches \in RegexesOf(route, op) :
            Begin(s, caller, route, op, holder, level, matches)
  BY DEF Request
<1>3. PICK op \in route.methods :
        \E holder \in IF route.holder = "self" THEN {caller} ELSE HoldersOf(route),
           level \in LevelsOf(op), matches \in RegexesOf(route, op) :
          Begin(s, caller, route, op, holder, level, matches)
  BY <1>2
<1>4. PICK holder \in (IF route.holder = "self" THEN {caller} ELSE HoldersOf(route)),
           level \in LevelsOf(op), matches \in RegexesOf(route, op) :
        Begin(s, caller, route, op, holder, level, matches)
  BY <1>3
<1>5. route \in Routes /\ op \in Op
  BY <1>1, RoutesOK DEF RouteOK
<1>6. holder \in Holder /\ (route.holder = "user" => holder \in User)
  BY RoutesAssumption DEF HoldersOf, Holder
<1>7. level \in ALL_PERMISSIONS /\ matches \in BOOLEAN
  BY RoutesAssumption DEF LevelsOf, RegexesOf, ALL_PERMISSIONS
<1> DEFINE adm == get_is_admin(caller)
           at == IF adm \/ route.cap = "none" THEN "act" ELSE "check"
           q == [caller |-> caller, route |-> route, op |-> op, holder |-> holder, level |-> level,
                 matches |-> matches, isAdmin |-> adm, at |-> at, fetched |-> Nil, shown |-> FALSE, entitled |-> FALSE]
           ent == Entitled(DB, admins, q)
           n == [q EXCEPT !.entitled = ent]
<1>8. /\ (route.cap = "admin" => adm) /\ req' = [req EXCEPT ![s] = n]
      /\ UNCHANGED <<tables, log, focus, origins, torn>>
  BY <1>4 DEF Begin
<1>9. adm \in BOOLEAN /\ (adm <=> caller \in admins) /\ ent \in BOOLEAN
  BY DEF get_is_admin, Entitled
<1> HIDE DEF adm
<1>10. at \in {"check", "act"} /\ (at = "check" <=> ~(adm \/ route.cap = "none"))
  OBVIOUS
<1> HIDE DEF at
<1>11. q \in Handling
  BY <1>5, <1>6, <1>7, <1>9, <1>10 DEF Handling, Op
<1>12. /\ q.caller = caller /\ q.route = route /\ q.holder = holder /\ q.op = op /\ q.isAdmin = adm /\ q.at = at /\ q.shown = FALSE
  OBVIOUS
<1> HIDE DEF q, ent
<1>13. /\ n \in Handling /\ n.caller = caller /\ n.route = route /\ n.holder = holder /\ n.op = op /\ n.isAdmin = adm /\ n.at = at
       /\ n.shown = FALSE /\ n.entitled = ent
  BY <1>9, <1>11, <1>12 DEF Handling
<1> HIDE DEF n
<1>14. Entitled(DB, admins, n) <=> Entitled(DB, admins, q)
  BY <1>12, <1>13 DEF Entitled
<1>15. n.entitled <=> Entitled(DB, admins, n)
  BY <1>13, <1>14 DEF ent
<1>16. Puts(s) /\ req'[s] = n
  BY <1>8, <1>13, SetPuts
<1>17. QED
  BY <1>1, <1>6, <1>8, <1>9, <1>10, <1>13, <1>15, <1>16 DEF Begins, Rest, HolderFits

LEMMA StepAdvances ==
  ASSUME Typed, NEW s \in Slot, req[s] # Nil, NEW n \in Handling, Step(s, n), SameCall(req[s], n),
         n.entitled = req[s].entitled,
         \/ /\ req[s].at = "check" /\ n.at = "act" /\ n.shown = req[s].shown
            /\ may(DB, req[s].caller, req[s].route.cap, req[s].route.over, focus.header)
         \/ req[s].at = "act" /\ n.at \in {"filter", "reply"} /\ req[s].op \notin Writes /\ (n.shown => req[s].route.cap # "none")
         \/ req[s].at = "filter" /\ n.at = "reply" /\ (n.shown => Shows(req[s]))
  PROVE  Advances(s)
<1>1. Puts(s) /\ req'[s] = n
  BY SetPuts DEF Step
<1>2. Rest /\ UNCHANGED <<log, torn>>
  BY DEF Step, Rest
<1>3. QED
  BY <1>1, <1>2 DEF Advances

LEMMA CheckSteps ==
  ASSUME Typed, NEW s \in Slot, check_manage_permission(s)
  PROVE  Advances(s) \/ Ends(s)
<1> DEFINE q == req[s]
           ok == may(DB, q.caller, q.route.cap, q.route.over, focus.header)
           n == [q EXCEPT !.at = "act"]
<1>1. q # Nil /\ q.at = "check" /\ Step(s, IF ok THEN n ELSE Nil) /\ q \in Handling
  BY RequestTypes DEF check_manage_permission
<1>2. CASE ok
  <2>1. n \in Handling /\ SameCall(q, n) /\ n.entitled = q.entitled /\ n.at = "act" /\ n.shown = q.shown
    BY <1>1 DEF Handling, SameCall
  <2>2. Step(s, n)
    BY <1>1, <1>2
  <2> HIDE DEF n
  <2>3. QED
    BY <1>1, <1>2, <2>1, <2>2, StepAdvances
<1>3. CASE ~ok
  <2>1. Step(s, Nil)
    BY <1>1, <1>3
  <2>2. QED
    BY <1>1, <2>1, StepEnds
<1>4. QED
  BY <1>2, <1>3

LEMMA RowsType ==
  ASSUME Typed, NEW s \in Slot, req[s] # Nil
  PROVE  RowsFor(req[s]) \in PermOrNil
<1> DEFINE q == req[s]
           t == q.route.type
<1>1. q.holder \in Holder /\ t \in Target /\ RouteOK(q.route) /\ q \in Handling
  BY RequestTypes
<1>2. pattern[<<q.holder, t>>] \in PatternRow \cup {Nil} /\ direct[<<q.holder, t>>] \in PermOrNil
  BY <1>1, DirectType DEF Typed, TablesOK
<1>3. (IF pattern[<<q.holder, t>>] = Nil THEN Nil ELSE pattern[<<q.holder, t>>].permission) \in PermOrNil
  BY <1>2 DEF PatternRow, PermOrNil
<1>4. ASSUME q.holder \in User PROVE effective_permission(DB, q.holder, t, focus.header) \in PermOrNil
  BY <1>1, <1>4, DatabaseType, HeaderType, DecisionType DEF Typed, PermOrNil
<1>5. q.route.holder = "user" => q.holder \in User
  BY DEF Typed, HolderFits
<1>6. CASE q.route.scope = "pattern"
  BY <1>3, <1>6 DEF RowsFor
<1>7. CASE q.route.scope = "direct"
  BY <1>2, <1>4, <1>5, <1>7 DEF RowsFor, Listed, PermOrNil
<1>8. QED
  BY <1>1, <1>6, <1>7 DEF RouteOK, Scope

LEMMA ReadSteps ==
  ASSUME Typed, NEW s \in Slot, Fetch(s) \/ Filter(s)
  PROVE  Advances(s)
<1> DEFINE q == req[s]
<1>0. q # Nil /\ q \in Handling
  BY RequestTypes DEF Fetch, Filter
<1>1. CASE Fetch(s)
  <2> DEFINE rows == RowsFor(q)
             shown == q.route.cap # "none" /\ rows # Nil
             at == IF q.route.cap = "none" THEN "filter" ELSE "reply"
             n == [q EXCEPT !.fetched = rows, !.shown = shown, !.at = at]
  <2>1. q.at = "act" /\ q.op \notin Writes /\ Step(s, n)
    BY <1>1 DEF Fetch
  <2>2. rows \in ALL_PERMISSIONS \cup {Nil}
    BY <1>0, RowsType DEF PermOrNil
  <2>3. shown \in BOOLEAN /\ (shown => q.route.cap # "none") /\ at \in {"filter", "reply"}
    OBVIOUS
  <2> HIDE DEF rows, shown, at
  <2>4. n \in Handling /\ SameCall(q, n) /\ n.entitled = q.entitled /\ n.at = at /\ n.shown = shown
    BY <1>0, <2>2, <2>3 DEF Handling, SameCall
  <2> HIDE DEF n
  <2>5. QED
    BY <1>0, <2>1, <2>3, <2>4, StepAdvances
<1>2. CASE Filter(s)
  <2> DEFINE shown == (q.fetched # Nil \/ q.route.holder = "self") /\ Shows(q)
             n == [q EXCEPT !.at = "reply", !.shown = shown]
  <2>1. q.at = "filter" /\ Step(s, n)
    BY <1>2 DEF Filter
  <2>2. shown \in BOOLEAN /\ (shown => Shows(q))
    BY DEF Shows
  <2> HIDE DEF shown
  <2>3. n \in Handling /\ SameCall(q, n) /\ n.entitled = q.entitled /\ n.at = "reply" /\ n.shown = shown
    BY <1>0, <2>2 DEF Handling, SameCall
  <2> HIDE DEF n
  <2>4. QED
    BY <1>0, <2>1, <2>2, <2>3, StepAdvances
<1>3. QED
  BY <1>1, <1>2

Quiet(s) == Begins(s) \/ Advances(s) \/ Ends(s)
Changes == \/ \E u \in Callers : SetAdmin(u)
           \/ \E u \in Callers, g \in Group : SetMember(u, g)

LEMMA StepKinds ==
  ASSUME Typed, Next
  PROVE  Changes \/ \E s \in Slot : Quiet(s) \/ Write(s)
<1>1. CASE \E u \in Callers : SetAdmin(u) \/ \E g \in Group : SetMember(u, g)
  BY <1>1 DEF Changes
<1>2. ASSUME NEW s \in Slot, WriteFails(s) \/ Reply(s) PROVE Ends(s)
  <2>1. req[s] # Nil /\ req[s].at # "audit" /\ Step(s, Nil)
    BY <1>2 DEF WriteFails, Reply
  <2>2. QED
    BY <2>1, StepEnds
<1>3. QED
  BY <1>1, <1>2, BeginSteps, CheckSteps, ReadSteps, AuditEnds DEF Next, Quiet

-----------------------------------------------------------------------------
(* What a change of the tables makes of the requests in flight. *)
Sees(r) ==
  \A x \in Slot :
    /\ r[x] = Nil => req'[x] = Nil
    /\ r[x] # Nil => /\ req'[x] \in Handling /\ req'[x] # Nil /\ SameCall(r[x], req'[x])
                     /\ req'[x].at = r[x].at /\ req'[x].shown = r[x].shown
                     /\ req'[x].entitled <=> (r[x].entitled \/ Entitled(DB', admins', r[x]))

LEMMA Witnessed ==
  ASSUME NEW r \in [Slot -> Handling \cup {Nil}], req' = Witness(r)
  PROVE  Sees(r) /\ req' \in [Slot -> Handling \cup {Nil}]
<1> SUFFICES ASSUME NEW x \in Slot
             PROVE  /\ r[x] = Nil => req'[x] = Nil
                    /\ r[x] # Nil => /\ req'[x] \in Handling /\ req'[x] # Nil /\ SameCall(r[x], req'[x])
                                     /\ req'[x].at = r[x].at /\ req'[x].shown = r[x].shown
                                     /\ req'[x].entitled <=> (r[x].entitled \/ Entitled(DB', admins', r[x]))
  BY DEF Witness, Sees
<1> DEFINE q == r[x]
           ent == q.entitled \/ Entitled(DB', admins', q)
           n == [q EXCEPT !.entitled = ent]
<1>1. req'[x] = IF q = Nil THEN Nil ELSE n
  BY DEF Witness
<1>2. ASSUME q # Nil
      PROVE  /\ n \in Handling /\ SameCall(q, n) /\ n.at = q.at /\ n.shown = q.shown /\ n.entitled = ent
  <2>1. q \in Handling
    BY <1>2
  <2>2. ent \in BOOLEAN
    OBVIOUS
  <2> HIDE DEF ent
  <2>3. QED
    BY <2>1, <2>2 DEF Handling, SameCall
<1> HIDE DEF n
<1>3. QED
  BY <1>1, <1>2, RoutesAssumption

LEMMA AuditedSlots ==
  ASSUME Typed, NEW s \in Slot, req[s] # Nil, NEW r, r = [req EXCEPT ![s].at = "audit"]
  PROVE  /\ r \in [Slot -> Handling \cup {Nil}] /\ \A g \in Slot \ {s} : r[g] = req[g]
         /\ r[s] \in Handling /\ r[s] # Nil /\ SameCall(req[s], r[s]) /\ r[s].at = "audit" /\ r[s].shown = req[s].shown
         /\ r[s].entitled = req[s].entitled
<1> DEFINE n == [req[s] EXCEPT !.at = "audit"]
<1>1. req[s] \in Handling
  BY RequestTypes
<1>2. n \in Handling /\ SameCall(req[s], n) /\ n.at = "audit" /\ n.shown = req[s].shown /\ n.entitled = req[s].entitled
  BY <1>1 DEF Handling, SameCall
<1>3. r = [req EXCEPT ![s] = n]
  OBVIOUS
<1> HIDE DEF n
<1>4. QED
  BY <1>2, <1>3, RoutesAssumption DEF Typed

(* A write, in the terms of the invariants. *)
LEMMA WriteSteps ==
  ASSUME Typed, NEW s \in Slot, Write(s)
  PROVE  /\ req[s] # Nil /\ req[s].at = "act" /\ req[s].op \in Writes /\ Accepted(req[s])
         /\ IF req[s].route.scope = "direct" THEN DirectWrite(req[s]) ELSE PatternWrite(req[s])
         /\ UNCHANGED <<member, admins, log, focus>>
         /\ \E r \in [Slot -> Handling \cup {Nil}] :
              /\ Sees(r) /\ \A g \in Slot \ {s} : r[g] = req[g]
              /\ r[s] # Nil /\ SameCall(req[s], r[s]) /\ r[s].at = "audit" /\ r[s].shown = req[s].shown
              /\ r[s].entitled = req[s].entitled
         /\ req' \in [Slot -> Handling \cup {Nil}]
         /\ torn' = IF Overlapped(req[s]) THEN torn \cup {Key(req[s])} ELSE torn
<1>1. req[s] # Nil
  BY DEF Write
<1>2. PICK r : r = [req EXCEPT ![s].at = "audit"]
  OBVIOUS
<1>3. /\ r \in [Slot -> Handling \cup {Nil}] /\ \A g \in Slot \ {s} : r[g] = req[g]
      /\ r[s] # Nil /\ SameCall(req[s], r[s]) /\ r[s].at = "audit" /\ r[s].shown = req[s].shown
      /\ r[s].entitled = req[s].entitled
  BY <1>1, <1>2, AuditedSlots
<1>4. req' = Witness(r)
  BY <1>2 DEF Write
<1>5. Sees(r) /\ req' \in [Slot -> Handling \cup {Nil}]
  BY <1>3, <1>4, Witnessed
<1>6. QED
  BY <1>3, <1>5 DEF Write

-----------------------------------------------------------------------------
(* Types.  A direct row of a prompt and of the model of its name are one   *)
(* row: a write under either name changes what both say.                   *)
LEMMA NewRowType ==
  ASSUME Typed, NEW s \in Slot, req[s] # Nil, req[s].op \in Writes, req[s].route.scope = "direct", Accepted(req[s])
  PROVE  LET q == req[s]
             new == NewRow(q)
         IN  IF q.op = "delete" THEN new = Nil ELSE new \in DirectRow /\ new # Nil /\ new.permission = q.level
<1> DEFINE q == req[s]
           t == q.route.type
           old == grants[<<q.holder, RowType(t)>>]
<1>0. q \in Handling /\ t \in Target /\ q.holder \in Holder /\ TablesOK
  BY RequestTypes DEF Typed
<1>1. q.level \in ALL_PERMISSIONS /\ q.op \in {"create", "update", "delete"}
  BY <1>0 DEF Handling, Writes
<1>2. RowType(t) \in Target /\ RowType(RowType(t)) = RowType(t)
  BY <1>0, SharedTypes DEF RowType
<1>3. Key(q) = <<"direct", q.holder, RowType(t)>>
  BY DEF Key
<1>4. RowAt(Key(q)) = direct[<<q.holder, RowType(t)>>]
  BY <1>3 DEF RowAt
<1>5. old \in DirectRow \cup {Nil} /\ (old = Nil => direct[<<q.holder, RowType(t)>>] = Nil)
  BY <1>0, <1>2, DirectType
<1>6. CASE q.op = "create"
  <2>1. PICK b \in BOOLEAN : b = (t = "prompt" /\ q.holder \in Group)
    OBVIOUS
  <2>2. NewRow(q) = [permission |-> q.level, prompt |-> b]
    BY <1>6, <2>1 DEF NewRow
  <2> QED BY <1>1, <1>6, <2>2, RoutesAssumption DEF DirectRow
<1>7. CASE q.op = "update"
  <2>1. old \in DirectRow
    BY <1>4, <1>5, <1>7 DEF Accepted
  <2>2. NewRow(q) = [old EXCEPT !.permission = q.level]
    BY <1>7 DEF NewRow
  <2> HIDE DEF old
  <2> QED BY <1>1, <1>7, <2>1, <2>2, RoutesAssumption DEF DirectRow
<1>8. CASE q.op = "delete"
  BY <1>8 DEF NewRow
<1> QED BY <1>1, <1>6, <1>7, <1>8

(* One row is written; what it says, it says of every name of the row. *)
LEMMA DirectWriteTypes ==
  ASSUME Typed, NEW s \in Slot, req[s] # Nil, req[s].op \in Writes, req[s].route.scope = "direct", Accepted(req[s]),
         DirectWrite(req[s])
  PROVE  /\ grants' \in [RowKeys -> DirectRow \cup {Nil}] /\ pattern' = pattern
         /\ direct' = [k \in Holder \X Target |->
                         IF k[1] = req[s].holder /\ k[2] \in SharedRow(req[s].route.type)
                         THEN IF req[s].op = "delete" THEN Nil ELSE req[s].level
                         ELSE direct[k]]
<1> DEFINE q == req[s]
           t == q.route.type
           new == NewRow(q)
           v == IF q.op = "delete" THEN Nil ELSE q.level
<1>0. q \in Handling /\ t \in Target /\ q.holder \in Holder /\ TablesOK
  BY RequestTypes DEF Typed
<1>1. new \in DirectRow \cup {Nil} /\ v = IF new = Nil THEN Nil ELSE new.permission
  BY NewRowType
<1>2. grants' = [grants EXCEPT ![<<q.holder, RowType(t)>>] = new] /\ pattern' = pattern
  BY DEF DirectWrite
<1> HIDE DEF new, v
<1>3. grants \in [RowKeys -> DirectRow \cup {Nil}]
  BY <1>0 DEF TablesOK
<1>4. grants' \in [RowKeys -> DirectRow \cup {Nil}]
  BY <1>1, <1>2, <1>3
<1>5. ASSUME NEW h \in Holder, NEW y \in Target
      PROVE  direct'[<<h, y>>] = IF h = q.holder /\ y \in SharedRow(t) THEN v ELSE direct[<<h, y>>]
  <2>1. <<h, RowType(y)>> \in RowKeys /\ <<q.holder, RowType(t)>> \in RowKeys
    BY <1>0, DirectType
  <2>2. y \in SharedRow(t) <=> RowType(y) = RowType(t)
    BY <1>0 DEF SharedRow, RowType
  <2>3. direct'[<<h, y>>] = IF grants'[<<h, RowType(y)>>] = Nil THEN Nil ELSE grants'[<<h, RowType(y)>>].permission
    BY DEF direct
  <2>4. CASE h = q.holder /\ y \in SharedRow(t)
    <3>1. grants'[<<h, RowType(y)>>] = new
      BY <1>2, <1>3, <2>1, <2>2, <2>4
    <3> QED BY <1>1, <2>3, <2>4, <3>1
  <2>5. CASE ~(h = q.holder /\ y \in SharedRow(t))
    <3>1. <<h, RowType(y)>> # <<q.holder, RowType(t)>>
      BY <2>2, <2>5
    <3>2. grants'[<<h, RowType(y)>>] = grants[<<h, RowType(y)>>]
      BY <1>2, <1>3, <2>1, <3>1
    <3>3. direct[<<h, y>>] = IF grants[<<h, RowType(y)>>] = Nil THEN Nil ELSE grants[<<h, RowType(y)>>].permission
      BY <1>0, DirectType
    <3> QED BY <2>3, <2>5, <3>2, <3>3
  <2> QED BY <2>4, <2>5
<1>6. direct' = [k \in Holder \X Target |-> direct'[k]]
  BY DEF direct
<1>7. direct' = [k \in Holder \X Target |-> IF k[1] = q.holder /\ k[2] \in SharedRow(t) THEN v ELSE direct[k]]
  BY <1>5, <1>6
<1> QED BY <1>2, <1>4, <1>7 DEF v

LEMMA NewPatternType ==
  ASSUME Typed, NEW s \in Slot, req[s] # Nil, req[s].op \in Writes, req[s].route.scope # "direct", Accepted(req[s])
  PROVE  /\ NewPattern(req[s]) \in PatternRow \cup {Nil}
         /\ req[s].op # "delete" => NewPattern(req[s]) \in PatternRow /\ NewPattern(req[s]).permission = req[s].level
         /\ req[s].op = "delete" => NewPattern(req[s]) = Nil
         /\ req[s].op = "create" \/ (req[s].op = "update" /\ RegexIsWritten(req[s])) =>
              NewPattern(req[s]) = [matches |-> req[s].matches, permission |-> req[s].level]
<1> DEFINE q == req[s]
           old == RowAt(Key(q))
<1>0. q \in Handling /\ q.route.type \in Target /\ q.holder \in Holder /\ TablesOK
  BY RequestTypes DEF Typed
<1>1. q.level \in ALL_PERMISSIONS /\ q.matches \in BOOLEAN /\ q.op \in {"create", "update", "delete"}
  BY <1>0 DEF Handling, Writes
<1>2. Key(q) = <<q.route.scope, q.holder, q.route.type>>
  BY DEF Key
<1>3. old = pattern[<<q.holder, q.route.type>>]
  BY <1>2 DEF RowAt
<1>4. old \in PatternRow \cup {Nil}
  BY <1>0, <1>3 DEF TablesOK
<1>5. q.op = "update" => old # Nil
  BY DEF Accepted
<1> HIDE DEF old
<1>6. q.op = "update" => old.matches \in BOOLEAN
  BY <1>4, <1>5 DEF PatternRow
<1> DEFINE m == IF RegexIsWritten(q) THEN q.matches ELSE old.matches
<1>7. q.op = "update" => m \in BOOLEAN /\ NewPattern(q) = [matches |-> m, permission |-> q.level]
  BY <1>1, <1>6 DEF NewPattern, old
<1>8. q.op = "create" => NewPattern(q) = [matches |-> q.matches, permission |-> q.level]
  BY <1>1 DEF NewPattern
<1>9. q.op = "delete" => NewPattern(q) = Nil
  BY <1>1 DEF NewPattern
<1>10. RegexIsWritten(q) => m = q.matches
  OBVIOUS
<1> HIDE DEF m
<1>11. QED
  BY <1>1, <1>7, <1>8, <1>9, <1>10 DEF PatternRow

LEMMA PatternWriteTypes ==
  ASSUME Typed, NEW s \in Slot, req[s] # Nil, req[s].op \in Writes, req[s].route.scope # "direct", Accepted(req[s]),
         PatternWrite(req[s])
  PROVE  /\ pattern' \in [Holder \X Target -> PatternRow \cup {Nil}]
         /\ UNCHANGED grants
BY NewPatternType DEF PatternWrite, Typed, TablesOK

LEMMA TypedQuiet ==
  ASSUME Typed, NEW s \in Slot, Quiet(s)
  PROVE  Typed'
<1>1. Puts(s) /\ Rest /\ HolderFits(req'[s])
  <2>1. CASE Begins(s)
    BY <2>1 DEF Begins
  <2>2. CASE Advances(s)
    <3>1. HolderFits(req[s])
      BY DEF Typed
    <3>2. QED
      BY <2>2, <3>1 DEF Advances, SameCall, HolderFits
  <2>3. CASE Ends(s)
    BY <2>3 DEF Ends, HolderFits
  <2>4. QED
    BY <2>1, <2>2, <2>3 DEF Quiet
<1>2. req' \in [Slot -> Handling \cup {Nil}] /\ \A g \in Slot \ {s} : req'[g] = req[g]
  BY <1>1, OtherSlots
<1>3. TablesOK'
  BY <1>1 DEF Rest, tables, Typed, TablesOK
<1>4. \A g \in Slot : HolderFits(req'[g])
  BY <1>1, <1>2 DEF Typed
<1>5. QED
  BY <1>2, <1>3, <1>4 DEF Typed, HolderFits

LEMMA SeenFits ==
  ASSUME NEW r, Sees(r), \A x \in Slot : HolderFits(r[x])
  PROVE  \A x \in Slot : HolderFits(req'[x])
BY DEF Sees, SameCall, HolderFits

LEMMA TypedWrite ==
  ASSUME Typed, NEW s \in Slot, Write(s)
  PROVE  Typed'
<1> DEFINE q == req[s]
<1>1. /\ q # Nil /\ q.op \in Writes /\ Accepted(q)
      /\ IF q.route.scope = "direct" THEN DirectWrite(q) ELSE PatternWrite(q)
      /\ UNCHANGED <<member, admins, focus>> /\ req' \in [Slot -> Handling \cup {Nil}]
  BY WriteSteps
<1>2. TablesOK'
  <2>1. CASE q.route.scope = "direct"
    BY <1>1, <2>1, DirectWriteTypes DEF Typed, TablesOK
  <2>2. CASE q.route.scope # "direct"
    <3>1. pattern' \in [Holder \X Target -> PatternRow \cup {Nil}] /\ UNCHANGED grants
      BY <1>1, <2>2, PatternWriteTypes
    <3>2. QED
      BY <1>1, <3>1 DEF Typed, TablesOK
  <2>3. QED
    BY <2>1, <2>2
<1>3. PICK r \in [Slot -> Handling \cup {Nil}] :
        Sees(r) /\ (\A g \in Slot \ {s} : r[g] = req[g]) /\ r[s] # Nil /\ SameCall(req[s], r[s])
  BY WriteSteps
<1>4. \A x \in Slot : HolderFits(r[x])
  BY <1>1, <1>3 DEF Typed, HolderFits, SameCall
<1>5. \A x \in Slot : HolderFits(req'[x])
  BY <1>3, <1>4, SeenFits
<1>6. QED
  BY <1>1, <1>2, <1>5 DEF Typed, HolderFits

LEMMA ChangeSteps ==
  ASSUME Typed, Changes
  PROVE  /\ Sees(req) /\ req' \in [Slot -> Handling \cup {Nil}]
         /\ UNCHANGED <<grants, pattern, log, focus, origins, torn>>
         /\ member' \subseteq User \X Group /\ admins' \subseteq User
<1>1. req' = Witness(req) /\ UNCHANGED <<grants, pattern, log, focus, origins, torn>>
  BY DEF Changes, SetAdmin, SetMember
<1>2. PICK r : r = req
  OBVIOUS
<1>3. r \in [Slot -> Handling \cup {Nil}] /\ req' = Witness(r)
  BY <1>1, <1>2 DEF Typed
<1>4. Sees(r) /\ req' \in [Slot -> Handling \cup {Nil}]
  BY <1>3, Witnessed
<1>5. member' \subseteq User \X Group /\ admins' \subseteq User
  <2>1. CASE \E u \in Callers : SetAdmin(u)
    BY <2>1, RoutesAssumption DEF SetAdmin, Typed, TablesOK
  <2>2. CASE \E u \in Callers, g \in Group : SetMember(u, g)
    <3>1. PICK u \in Callers, g \in Group : SetMember(u, g)
      BY <2>2
    <3>2. <<u, g>> \in User \X Group
      BY RoutesAssumption
    <3>3. QED
      BY <3>1, <3>2 DEF SetMember, Typed, TablesOK
  <2>3. QED
    BY <2>1, <2>2 DEF Changes
<1>6. QED
  BY <1>1, <1>2, <1>4, <1>5

LEMMA TypedChanges ==
  ASSUME Typed, Changes
  PROVE  Typed'
<1>1. /\ Sees(req) /\ req' \in [Slot -> Handling \cup {Nil}]
      /\ UNCHANGED <<grants, pattern, log, focus, origins, torn>>
      /\ member' \subseteq User \X Group /\ admins' \subseteq User
  BY ChangeSteps
<1>2. TablesOK'
  BY <1>1 DEF Typed, TablesOK
<1>3. \A x \in Slot : HolderFits(req'[x])
  BY <1>1, SeenFits DEF Typed
<1>4. QED
  BY <1>1, <1>2, <1>3 DEF Typed, HolderFits

LEMMA TypedInit == Init => Typed
<1> SUFFICES ASSUME Init PROVE Typed
  OBVIOUS
<1>1. focus \in Scenarios
  BY DEF Init
<1>2. focus.types \subseteq Target /\ member \subseteq User \X Group /\ admins \subseteq User
  BY <1>1, RoutesAssumption DEF Init
<1>3. PICK source \in SeedSources, t \in focus.types :
       /\ grants = [k \in RowKeys |->
                      IF source[2] = "direct" /\ k = <<source[1], RowType(t)>>
                      THEN [permission |-> "MANAGE", prompt |-> source[1] \in Group /\ t = "prompt"] ELSE Nil]
       /\ pattern = [NoRows EXCEPT ![<<source[1], t>>] =
                       IF source[2] = "pattern" THEN [matches |-> TRUE, permission |-> "MANAGE"] ELSE Nil]
  BY DEF Init
<1>4. grants \in [RowKeys -> DirectRow \cup {Nil}]
  BY <1>3 DEF DirectRow, ALL_PERMISSIONS
<1>5. pattern \in [Holder \X Target -> PatternRow \cup {Nil}]
  BY <1>3 DEF NoRows, PatternRow, ALL_PERMISSIONS
<1>6. req \in [Slot -> Handling \cup {Nil}] /\ \A s \in Slot : HolderFits(req[s])
  BY DEF Init, HolderFits
<1> QED BY <1>1, <1>2, <1>4, <1>5, <1>6 DEF Typed, TablesOK

LEMMA TypedNext == Typed /\ [Next]_vars => Typed'
<1> SUFFICES ASSUME Typed, [Next]_vars PROVE Typed'
  OBVIOUS
<1>1. CASE UNCHANGED vars
  BY <1>1 DEF vars, tables, Typed, TablesOK, HolderFits
<1>2. CASE Next
  BY <1>2, StepKinds, TypedQuiet, TypedWrite, TypedChanges
<1>3. QED
  BY <1>1, <1>2

-----------------------------------------------------------------------------
(* Entitlement.  A request past its check was entitled at some instant of  *)
(* it, or is of a route that does not check, and those only list.  The     *)
(* second part makes this inductive: what a request is entitled to now, it *)
(* has been entitled to.                                                   *)
Steady(q) ==
  q # Nil =>
    /\ q.op \in q.route.methods /\ (q.route.cap = "admin" => q.isAdmin) /\ (q.isAdmin => q.entitled)
    /\ q.at # "check" => q.entitled \/ q.route.cap = "none"
    /\ q.at = "check" => q.route.cap # "none"
    /\ q.at = "audit" => q.op \in Writes
    /\ q.shown => q.entitled \/ (q.holder = q.caller /\ q.route.scope = "direct")
Told(q) == q # Nil /\ Entitled(DB, admins, q) => q.entitled
Flow == \A s \in Slot : Steady(req[s]) /\ Told(req[s])

LEMMA CallEntitled ==
  ASSUME NEW d, NEW a, NEW q, NEW n, SameCall(q, n)
  PROVE  Entitled(d, a, n) <=> Entitled(d, a, q)
BY DEF SameCall, Entitled

(* Where a route is checked or filtered by a capability, the capability    *)
(* entitles.                                                               *)
LEMMA CheckEntitles ==
  ASSUME Typed, NEW s \in Slot, req[s] # Nil, Steady(req[s]), Told(req[s]),
         \/ /\ req[s].route.cap # "none"
            /\ may(DB, req[s].caller, req[s].route.cap, req[s].route.over, focus.header)
         \/ may(DB, req[s].caller, "manage", req[s].route.over, focus.header)
  PROVE  req[s].entitled
<1> DEFINE q == req[s]
           m(cap, t) == may(DB, q.caller, cap, t, focus.header)
<1>1. RouteOK(q.route) /\ q.op \in q.route.methods
  BY RequestTypes DEF Steady
<1>2. CASE q.route.cap = "admin"
  BY <1>2 DEF Steady
<1>3. CASE q.route.cap # "admin" /\ m("manage", q.route.over)
  <2>1. q.route.scope = "direct"
    BY <1>1, <1>3 DEF RouteOK, Scope
  <2>2. q.route.over \in Stewards(q.route.type)
    BY <1>1, <1>3 DEF RouteOK, Stewards, SharedRow
  <2>3. Entitled(DB, admins, q)
    BY <1>3, <2>1, <2>2 DEF Entitled
  <2>4. QED
    BY <2>3 DEF Told
<1>4. CASE q.route.cap = "read" /\ m("read", q.route.over)
  <2>1. q.op = "list" /\ q.route.type = "workspace" /\ q.route.over = "workspace"
    BY <1>1, <1>4 DEF RouteOK
  <2>2. Entitled(DB, admins, q)
    BY <1>4, <2>1 DEF Entitled
  <2>3. QED
    BY <2>2 DEF Told
<1>5. QED
  BY <1>1, <1>2, <1>3, <1>4 DEF RouteOK

LEMMA AdvanceSteady ==
  ASSUME Typed, NEW s \in Slot, Steady(req[s]), Told(req[s]), Advances(s)
  PROVE  Steady(req'[s])
<1> DEFINE q == req[s]
           n == req'[s]
<1>1. q # Nil /\ SameCall(q, n) /\ n.entitled = q.entitled /\ RouteOK(q.route)
  BY RequestTypes DEF Advances
<1>2. CASE /\ q.at = "check" /\ n.at = "act" /\ n.shown = q.shown
           /\ may(DB, q.caller, q.route.cap, q.route.over, focus.header)
  <2>1. q.entitled
    BY <1>1, <1>2, CheckEntitles DEF Steady
  <2>2. QED
    BY <1>1, <1>2, <2>1 DEF Steady, SameCall
<1>3. CASE q.at = "act" /\ n.at \in {"filter", "reply"} /\ q.op \notin Writes /\ (n.shown => q.route.cap # "none")
  BY <1>1, <1>3 DEF Steady, SameCall
<1>4. CASE q.at = "filter" /\ n.at = "reply" /\ (n.shown => Shows(q))
  <2>1. ASSUME n.shown PROVE q.entitled \/ (q.holder = q.caller /\ q.route.scope = "direct")
    <3>1. CASE q.isAdmin
      BY <1>1, <3>1 DEF Steady
    <3>2. CASE may(DB, q.caller, "manage", q.route.over, focus.header)
      BY <1>1, <3>2, CheckEntitles
    <3>3. CASE q.holder = q.caller
      BY <1>1, <3>3 DEF Steady, RouteOK, Scope
    <3>4. QED
      BY <1>4, <2>1, <3>1, <3>2, <3>3 DEF Shows
  <2>2. QED
    BY <1>1, <1>4, <2>1 DEF Steady, SameCall
<1>5. QED
  BY <1>2, <1>3, <1>4 DEF Advances

LEMMA BeginSteady ==
  ASSUME Typed, NEW s \in Slot, Begins(s)
  PROVE  Steady(req'[s]) /\ Told(req'[s])
<1>1. Entitled(DB, admins, req'[s]) <=> req'[s].entitled
  BY DEF Begins
<1>2. req'[s].isAdmin => req'[s].entitled
  BY <1>1 DEF Begins, Entitled
<1>3. req'[s].at # "check" => req'[s].entitled \/ req'[s].route.cap = "none"
  BY <1>2 DEF Begins
<1>4. QED
  BY <1>1, <1>2, <1>3 DEF Begins, Steady, Told

LEMMA FlowQuiet ==
  ASSUME Typed, Flow, NEW s \in Slot, Quiet(s)
  PROVE  Flow'
<1>1. Puts(s) /\ Rest
  BY DEF Quiet, Begins, Advances, Ends
<1>2. DB' = DB /\ admins' = admins /\ focus' = focus
  BY <1>1, SameDatabase DEF Rest
<1>3. Steady(req'[s]) /\ Told(req'[s])
  <2>1. CASE Begins(s)
    BY <2>1, BeginSteady
  <2>2. CASE Advances(s)
    <3>1. Steady(req'[s])
      BY <2>2, AdvanceSteady DEF Flow
    <3>2. req[s] # Nil /\ SameCall(req[s], req'[s]) /\ req'[s].entitled = req[s].entitled
      BY <2>2 DEF Advances
    <3>3. Entitled(DB, admins, req'[s]) <=> Entitled(DB, admins, req[s])
      BY <3>2, CallEntitled
    <3>4. QED
      BY <3>1, <3>2, <3>3 DEF Told, Flow
  <2>3. CASE Ends(s)
    BY <2>3 DEF Ends, Steady, Told
  <2>4. QED
    BY <2>1, <2>2, <2>3 DEF Quiet
<1>4. \A x \in Slot : Steady(req'[x]) /\ Told(req'[x])
  BY <1>1, <1>3, OtherSlots DEF Flow
<1>5. \A x \in Slot : Steady(req'[x]) /\ (req'[x] # Nil /\ Entitled(DB, admins, req'[x]) => req'[x].entitled)
  BY <1>4 DEF Told
<1>6. QED
  BY <1>2, <1>5 DEF Flow, Told, Steady, Entitled

LEMMA FlowSeen ==
  ASSUME NEW r, Sees(r), \A x \in Slot : Steady(r[x]), focus' = focus
  PROVE  Flow'
<1>1. ASSUME NEW x \in Slot, r[x] # Nil
      PROVE  Steady(req'[x]) /\ (Entitled(DB', admins', req'[x]) => req'[x].entitled)
  <2>1. /\ SameCall(r[x], req'[x]) /\ req'[x].at = r[x].at /\ req'[x].shown = r[x].shown
        /\ req'[x].entitled <=> (r[x].entitled \/ Entitled(DB', admins', r[x]))
    BY <1>1 DEF Sees
  <2>2. Entitled(DB', admins', req'[x]) <=> Entitled(DB', admins', r[x])
    BY <2>1, CallEntitled
  <2>3. Steady(req'[x])
    BY <1>1, <2>1 DEF Steady, SameCall
  <2>4. QED
    BY <2>1, <2>2, <2>3
<1>2. ASSUME NEW x \in Slot, r[x] = Nil
      PROVE  req'[x] = Nil
  BY <1>2 DEF Sees
<1>3. \A x \in Slot : Steady(req'[x]) /\ (req'[x] # Nil /\ Entitled(DB', admins', req'[x]) => req'[x].entitled)
  BY <1>1, <1>2 DEF Steady
<1>4. QED
  BY <1>3 DEF Flow, Told, Steady, Entitled

LEMMA FlowNext == Typed /\ Flow /\ [Next]_vars => Flow'
<1> SUFFICES ASSUME Typed, Flow, [Next]_vars PROVE Flow'
  OBVIOUS
<1>1. CASE UNCHANGED vars
  BY <1>1, SameDirect DEF vars, tables, Flow, Steady, Told, Entitled, DB
<1>2. ASSUME NEW s \in Slot, Write(s) PROVE Flow'
  <2>1. req[s] # Nil /\ req[s].at = "act" /\ req[s].op \in Writes /\ focus' = focus
    BY <1>2, WriteSteps
  <2>2. PICK r \in [Slot -> Handling \cup {Nil}] :
          /\ Sees(r) /\ \A g \in Slot \ {s} : r[g] = req[g]
          /\ r[s] # Nil /\ SameCall(req[s], r[s]) /\ r[s].at = "audit" /\ r[s].shown = req[s].shown
          /\ r[s].entitled = req[s].entitled
    BY <1>2, WriteSteps
  <2>3. Steady(r[s])
    BY <2>1, <2>2 DEF Flow, Steady, SameCall
  <2>4. \A x \in Slot : Steady(r[x])
    BY <2>2, <2>3 DEF Flow
  <2>5. QED
    BY <2>1, <2>2, <2>4, FlowSeen
<1>3. ASSUME Changes PROVE Flow'
  BY <1>3, ChangeSteps, FlowSeen DEF Flow
<1>4. QED
  BY <1>1, <1>2, <1>3, StepKinds, FlowQuiet

(* dependencies.py and the inline checks: whatever is demoted, joined,     *)
(* left or rewritten between a request's check and its write or its        *)
(* filter, what it wrote or showed of others it was entitled to at an      *)
(* instant of the request.                                                 *)
THEOREM CallersAreEntitled == Spec => []EntitledDuringRequest
<1>1. Typed /\ Flow => EntitledDuringRequest
  <2> SUFFICES ASSUME Typed, Flow, NEW s \in Slot, req[s] # Nil
               PROVE  /\ req[s].at = "audit" => req[s].entitled
                      /\ req[s].shown /\ ~(req[s].holder = req[s].caller /\ req[s].route.scope = "direct") => req[s].entitled
    BY DEF EntitledDuringRequest
  <2>1. RouteOK(req[s].route) /\ Steady(req[s])
    BY RequestTypes DEF Flow
  <2>2. ASSUME req[s].op \in Writes PROVE req[s].route.cap # "none"
    BY <2>1, <2>2 DEF RouteOK, Steady, Writes
  <2>3. QED
    BY <2>1, <2>2 DEF Steady
<1>2. Init => Flow
  BY DEF Init, Flow, Steady, Told
<1>3. QED
  BY <1>1, <1>2, TypedInit, TypedNext, FlowNext, PTL DEF Spec

-----------------------------------------------------------------------------
(* Authority.  Every MANAGE row is rooted in an origin, and so is every    *)
(* write a caller who is not an administrator is about to make.            *)
Rooted(o, t) == (Stewards(t) \cup Workspace) \cap o # {}
RowsRooted ==
  \A h \in Holder, t \in Target :
    /\ direct[<<h, t>>] = "MANAGE" => Rooted(origins, t)
    /\ pattern[<<h, t>>] # Nil /\ pattern[<<h, t>>].permission = "MANAGE" => Rooted(origins, t)
WriteRooted(q) == q # Nil /\ q.at = "act" /\ q.op \in Writes /\ ~q.isAdmin => Rooted(origins, q.route.type)
Roots == DefaultPermission # "MANAGE" => RowsRooted /\ \A s \in Slot : WriteRooted(req[s])

LEMMA RootedGrows ==
  ASSUME NEW o, NEW n, o \subseteq n, NEW t, Rooted(o, t)
  PROVE  Rooted(n, t)
BY DEF Rooted

LEMMA ManageIsManage ==
  ASSUME NEW p \in ALL_PERMISSIONS, "manage" \in capabilities[p]
  PROVE  p = "MANAGE"
BY DEF capabilities, ALL_PERMISSIONS

LEMMA RowIsRooted ==
  ASSUME TablesOK, RowsRooted, NEW t \in Target, HasRow(DB, t, "MANAGE")
  PROVE  Rooted(origins, t)
<1>1. CASE \E h \in Holder : DB.direct[<<h, t>>] = "MANAGE"
  BY <1>1 DEF DB, RowsRooted
<1>2. CASE \E r \in DB.regex : t \in r.matches /\ r.permission = "MANAGE"
  <2>1. PICK r \in DB.regex : t \in r.matches /\ r.permission = "MANAGE"
    BY <1>2
  <2>2. PICK k \in Holder \X Target :
          /\ pattern[k] # Nil
          /\ r = [holder |-> k[1], matches |-> {k[2]}, priority |-> 1, permission |-> pattern[k].permission]
    BY <2>1 DEF DB
  <2>3. k[2] = t /\ pattern[k].permission = "MANAGE"
    BY <2>1, <2>2
  <2>4. k[1] \in Holder /\ k = <<k[1], t>>
    BY <2>3
  <2>5. QED
    BY <2>2, <2>3, <2>4 DEF RowsRooted
<1>3. QED
  BY <1>1, <1>2 DEF HasRow

(* Who may manage t owes it to a row that is rooted. *)
LEMMA ManagerIsRooted ==
  ASSUME TablesOK, RowsRooted, DefaultPermission # "MANAGE",
         NEW u \in User, NEW t \in Target, NEW x \in Workspace \cup {NoWorkspace}, may(DB, u, "manage", t, x)
  PROVE  Rooted(origins, t)
<1>0. DB \in Database
  BY DatabaseType
<1>1. effective_permission(DB, u, t, x) = "MANAGE"
  BY <1>0, DecisionType, ManageIsManage DEF may
<1>2. "MANAGE" # "NO_PERMISSIONS"
  OBVIOUS
<1>3. HasRow(DB, t, "MANAGE") \/ (x \in Workspace /\ HasRow(DB, x, "MANAGE"))
  <2>1. CASE t \in Workspace
    BY <1>0, <1>1, <1>2, <2>1, WorkspaceHasRow DEF effective_permission
  <2>2. CASE t \notin Workspace
    BY <1>0, <1>1, <1>2, <2>2, DecisionHasRow DEF effective_permission, Target
  <2>3. QED
    BY <2>1, <2>2
<1>4. CASE x \in Workspace /\ HasRow(DB, x, "MANAGE")
  <2>1. x \in Target /\ x = "workspace"
    BY <1>4, RoutesAssumption DEF Target
  <2>2. Rooted(origins, x)
    BY <1>4, <2>1, RowIsRooted
  <2>3. Stewards(x) = Workspace
    BY <2>1, RoutesAssumption DEF Stewards, SharedRow
  <2>4. QED
    BY <2>2, <2>3 DEF Rooted
<1>5. QED
  BY <1>3, <1>4, RowIsRooted

LEMMA RootsQuiet ==
  ASSUME Typed, Flow, Roots, NEW s \in Slot, Quiet(s)
  PROVE  Roots'
<1> SUFFICES ASSUME DefaultPermission # "MANAGE" PROVE RowsRooted' /\ \A x \in Slot : WriteRooted(req[x])'
  BY DEF Roots, WriteRooted
<1>0. RowsRooted /\ \A x \in Slot : WriteRooted(req[x])
  BY DEF Roots
<1>1. Puts(s) /\ Rest
  BY DEF Quiet, Begins, Advances, Ends
<1>2. RowsRooted' /\ origins' = origins
  BY <1>0, <1>1, SameDirect DEF Rest, tables, RowsRooted
<1>3. WriteRooted(req'[s])
  <2>1. CASE Begins(s)
    <3>1. RouteOK(req'[s].route)
      BY <2>1, RoutesOK DEF Begins, Handling
    <3>2. QED
      BY <2>1, <3>1 DEF Begins, WriteRooted, RouteOK, Writes
  <2>2. CASE Advances(s)
    <3> DEFINE q == req[s]
               n == req'[s]
    <3>1. CASE ~(q.at = "check" /\ n.at = "act" /\ n.op \in Writes /\ ~n.isAdmin)
      BY <2>2, <3>1 DEF Advances, WriteRooted
    <3>2. CASE q.at = "check" /\ n.at = "act" /\ n.op \in Writes /\ ~n.isAdmin
      <4>1. /\ q # Nil /\ SameCall(q, n) /\ may(DB, q.caller, q.route.cap, q.route.over, focus.header)
        BY <2>2, <3>2 DEF Advances
      <4>2. RouteOK(q.route) /\ q.caller \in User /\ Steady(q)
        BY <4>1, RequestTypes DEF Flow
      <4>3. q.route.cap = "manage"
        BY <3>2, <4>1, <4>2 DEF RouteOK, Steady, SameCall, Writes
      <4>4. q.route.over \in Target /\ Stewards(q.route.over) \subseteq Stewards(q.route.type)
        BY <4>2, <4>3 DEF RouteOK
      <4>5. Rooted(origins, q.route.over)
        BY <1>0, <4>1, <4>2, <4>3, <4>4, HeaderType, ManagerIsRooted DEF Typed
      <4>6. Rooted(origins, q.route.type)
        BY <4>4, <4>5 DEF Rooted
      <4>7. QED
        BY <4>1, <4>6 DEF WriteRooted, SameCall
    <3>3. QED
      BY <3>1, <3>2
  <2>3. CASE Ends(s)
    BY <2>3 DEF Ends, WriteRooted
  <2>4. QED
    BY <2>1, <2>2, <2>3 DEF Quiet
<1>4. \A x \in Slot : WriteRooted(req'[x])
  BY <1>0, <1>1, <1>3, OtherSlots
<1>5. QED
  BY <1>2, <1>4 DEF WriteRooted

LEMMA RootsSeen ==
  ASSUME NEW r, Sees(r), \A x \in Slot : WriteRooted(r[x]), origins \subseteq origins'
  PROVE  \A x \in Slot : WriteRooted(req[x])'
<1> SUFFICES ASSUME NEW x \in Slot, req'[x] # Nil, req'[x].at = "act", req'[x].op \in Writes, ~req'[x].isAdmin
             PROVE  Rooted(origins', req'[x].route.type)
  BY DEF WriteRooted
<1>1. r[x] # Nil /\ r[x].at = "act" /\ r[x].op \in Writes /\ ~r[x].isAdmin /\ r[x].route = req'[x].route
  BY DEF Sees, SameCall
<1>2. Rooted(origins, r[x].route.type)
  BY <1>1 DEF WriteRooted
<1>3. QED
  BY <1>1, <1>2, RootedGrows

(* A written MANAGE row is rooted. *)
LEMMA WrittenIsRooted ==
  ASSUME Typed, Flow, Roots, DefaultPermission # "MANAGE", NEW s \in Slot, Write(s), req[s].level = "MANAGE",
         NEW y, IF req[s].route.scope = "direct" THEN y \in SharedRow(req[s].route.type) ELSE y = req[s].route.type
  PROVE  Rooted(origins', y)
<1> DEFINE q == req[s]
           t == q.route.type
<1>1. q # Nil /\ q.at = "act" /\ q.op \in Writes /\ t \in Target /\ RouteOK(q.route) /\ Steady(q)
  BY RequestTypes DEF Write, Flow
<1>2. y \in Stewards(y) /\ Stewards(y) = Stewards(t)
  <2>1. y \in SharedRow(t)
    BY <1>1, SharedTypes
  <2>2. QED
    BY <2>1 DEF Stewards, SharedRow
<1>3. CASE q.isAdmin
  <2>1. y \in origins'
    BY <1>3 DEF Write
  <2>2. QED
    BY <1>2, <2>1 DEF Rooted
<1>4. CASE ~q.isAdmin
  <2>1. Rooted(origins, t)
    BY <1>1, <1>4 DEF Roots, WriteRooted
  <2>2. origins' = origins
    BY <1>4 DEF Write
  <2>3. QED
    BY <1>2, <2>1, <2>2 DEF Rooted
<1>5. QED
  BY <1>3, <1>4

LEMMA RootsWrite ==
  ASSUME Typed, Flow, Roots, NEW s \in Slot, Write(s)
  PROVE  Roots'
<1> SUFFICES ASSUME DefaultPermission # "MANAGE" PROVE RowsRooted' /\ \A x \in Slot : WriteRooted(req[x])'
  BY DEF Roots
<1> DEFINE q == req[s]
           t == q.route.type
<1>0. /\ q # Nil /\ q.op \in Writes /\ Accepted(q) /\ RowsRooted /\ t \in Target /\ q.holder \in Holder
      /\ \A x \in Slot : WriteRooted(req[x])
  BY RequestTypes, WriteSteps DEF Roots
<1>1. origins \subseteq origins'
  BY DEF Write
<1>2. \A x \in Slot : WriteRooted(req[x])'
  <2>1. PICK r \in [Slot -> Handling \cup {Nil}] :
          /\ Sees(r) /\ \A g \in Slot \ {s} : r[g] = req[g]
          /\ r[s].at = "audit"
    BY WriteSteps
  <2>2. \A x \in Slot : WriteRooted(r[x])
    BY <1>0, <2>1 DEF WriteRooted
  <2>3. QED
    BY <1>1, <2>1, <2>2, RootsSeen
<1>3. CASE q.route.scope = "direct"
  <2>1. /\ direct' = [k \in Holder \X Target |->
                  IF k[1] = q.holder /\ k[2] \in SharedRow(t)
                  THEN IF q.op = "delete" THEN Nil ELSE q.level
                  ELSE direct[k]]
        /\ pattern' = pattern
    BY <1>0, <1>3, WriteSteps, DirectWriteTypes
  <2>2. ASSUME NEW h \in Holder, NEW y \in Target, direct'[<<h, y>>] = "MANAGE" PROVE Rooted(origins', y)
    <3>1. "MANAGE" # Nil
      BY NilAssumption DEF ALL_PERMISSIONS
    <3>2. CASE h = q.holder /\ y \in SharedRow(t)
      <4>1. q.level = "MANAGE"
        BY <2>1, <2>2, <3>1, <3>2
      <4>2. QED
        BY <1>3, <3>2, <4>1, WrittenIsRooted
    <3>3. CASE ~(h = q.holder /\ y \in SharedRow(t))
      <4>1. direct[<<h, y>>] = "MANAGE"
        BY <2>1, <2>2, <3>3
      <4>2. QED
        BY <1>0, <1>1, <4>1, RootedGrows DEF RowsRooted
    <3>4. QED
      BY <3>2, <3>3
  <2>3. ASSUME NEW h \in Holder, NEW y \in Target, pattern'[<<h, y>>] # Nil, pattern'[<<h, y>>].permission = "MANAGE"
        PROVE  Rooted(origins', y)
    BY <1>0, <1>1, <2>1, <2>3, RootedGrows DEF RowsRooted
  <2>4. RowsRooted'
    BY <2>2, <2>3 DEF RowsRooted
  <2>5. QED
    BY <1>2, <2>4
<1>4. CASE q.route.scope # "direct"
  <2>1. pattern' = [pattern EXCEPT ![<<q.holder, t>>] = NewPattern(q)] /\ direct' = direct
    BY <1>4, WriteSteps, SameDirect DEF PatternWrite
  <2>2. NewPattern(q) # Nil => NewPattern(q).permission = q.level
    BY <1>0, <1>4, NewPatternType
  <2>3. pattern \in [Holder \X Target -> PatternRow \cup {Nil}]
    BY DEF Typed, TablesOK
  <2>4. ASSUME NEW h \in Holder, NEW y \in Target, pattern'[<<h, y>>] # Nil, pattern'[<<h, y>>].permission = "MANAGE"
        PROVE  Rooted(origins', y)
    <3>1. CASE <<h, y>> = <<q.holder, t>>
      <4>1. q.level = "MANAGE" /\ y = t
        BY <2>1, <2>2, <2>3, <2>4, <3>1
      <4>2. QED
        BY <1>4, <4>1, WrittenIsRooted
    <3>2. CASE <<h, y>> # <<q.holder, t>>
      <4>1. pattern'[<<h, y>>] = pattern[<<h, y>>]
        BY <2>1, <2>3, <3>2
      <4>2. QED
        BY <1>0, <1>1, <2>4, <4>1, RootedGrows DEF RowsRooted
    <3>3. QED
      BY <3>1, <3>2
  <2>5. ASSUME NEW h \in Holder, NEW y \in Target, direct'[<<h, y>>] = "MANAGE" PROVE Rooted(origins', y)
    BY <1>0, <1>1, <2>1, <2>5, RootedGrows DEF RowsRooted
  <2>6. RowsRooted'
    BY <2>4, <2>5 DEF RowsRooted
  <2>7. QED
    BY <1>2, <2>6
<1>5. QED
  BY <1>3, <1>4

LEMMA RootsNext == Typed /\ Flow /\ Roots /\ [Next]_vars => Roots'
<1> SUFFICES ASSUME Typed, Flow, Roots, [Next]_vars PROVE Roots'
  OBVIOUS
<1>1. CASE UNCHANGED vars
  BY <1>1, SameDirect DEF vars, tables, Roots, RowsRooted, WriteRooted
<1>2. ASSUME Changes PROVE Roots'
  <2>1. Sees(req) /\ UNCHANGED <<direct, pattern, origins>>
    BY <1>2, ChangeSteps, SameDirect
  <2>2. PICK r : r = req
    OBVIOUS
  <2>3. DefaultPermission # "MANAGE" => \A x \in Slot : WriteRooted(req[x])'
    BY <2>1, <2>2, RootsSeen DEF Roots
  <2>4. DefaultPermission # "MANAGE" => RowsRooted'
    BY <2>1 DEF Roots, RowsRooted
  <2>5. QED
    BY <2>3, <2>4 DEF Roots
<1>3. QED
  BY <1>1, <1>2, StepKinds, RootsQuiet, RootsWrite

LEMMA RootsInit == Init => Roots
<1> SUFFICES ASSUME Init PROVE Roots
  OBVIOUS
<1>0. Typed
  BY TypedInit
<1>1. PICK source \in SeedSources, t \in focus.types :
       /\ grants = [k \in RowKeys |->
                      IF source[2] = "direct" /\ k = <<source[1], RowType(t)>>
                      THEN [permission |-> "MANAGE", prompt |-> source[1] \in Group /\ t = "prompt"] ELSE Nil]
       /\ pattern = [NoRows EXCEPT ![<<source[1], t>>] =
                       IF source[2] = "pattern" THEN [matches |-> TRUE, permission |-> "MANAGE"] ELSE Nil]
       /\ origins = IF source[2] = "direct" THEN SharedRow(t) ELSE {t}
  BY DEF Init
<1>2. "MANAGE" # Nil
  BY NilAssumption DEF ALL_PERMISSIONS
<1>3. \A y \in Target : y \in origins => Rooted(origins, y)
  BY OwnStewards DEF Rooted
<1>4. ASSUME NEW h \in Holder, NEW y \in Target, direct[<<h, y>>] = "MANAGE" PROVE Rooted(origins, y)
  <2>1. t \in Target
    BY <1>0, HeaderType DEF Typed
  <2>2. <<h, RowType(y)>> \in RowKeys /\ grants[<<h, RowType(y)>>] # Nil
    BY <1>0, <1>2, <1>4, DirectType DEF Typed
  <2>3. source[2] = "direct" /\ RowType(y) = RowType(t)
    BY <1>1, <2>2
  <2>4. y \in SharedRow(t)
    BY <2>1, <2>3 DEF SharedRow, RowType
  <2>5. y \in origins
    BY <1>1, <2>3, <2>4
  <2>6. QED
    BY <1>3, <2>5
<1>5. ASSUME NEW h \in Holder, NEW y \in Target, pattern[<<h, y>>] # Nil PROVE Rooted(origins, y)
  <2>1. source[2] = "pattern" /\ y = t
    BY <1>1, <1>5 DEF NoRows
  <2>2. QED
    BY <1>1, <1>3, <2>1
<1>6. \A x \in Slot : WriteRooted(req[x])
  BY DEF Init, WriteRooted
<1>7. QED
  BY <1>4, <1>5, <1>6 DEF Roots, RowsRooted

(* routers/user_permissions.py, group_permissions.py and the workspace     *)
(* routers: however calls, demotions and membership changes interleave, no *)
(* sequence of them gives authority over a resource that no MANAGE row on  *)
(* it, on its stewards or on the workspace was there for before, or was    *)
(* written by an administrator.                                            *)
THEOREM NoAuthorityFromNothing == Spec => []AuthorityIsInherited
<1>1. Typed /\ Roots => AuthorityIsInherited
  <2> SUFFICES ASSUME Typed, Roots, DefaultPermission # "MANAGE",
                      NEW u \in User, NEW t \in focus.types, NEW x \in {NoWorkspace} \cup Workspace,
                      may(DB, u, "manage", t, x)
               PROVE  (Stewards(t) \cup Workspace) \cap origins # {}
    BY DEF AuthorityIsInherited
  <2>1. t \in Target
    BY HeaderType DEF Typed
  <2>2. Rooted(origins, t)
    BY <2>1, ManagerIsRooted DEF Typed, Roots
  <2>3. QED
    BY <2>2 DEF Rooted
<1>2. Init => Flow
  BY DEF Init, Flow, Steady, Told
<1>3. QED
  BY <1>1, <1>2, TypedInit, TypedNext, FlowNext, RootsInit, RootsNext, PTL DEF Spec

-----------------------------------------------------------------------------
(* Audit.  The event a request is about to emit tells its row, unless two  *)
(* writes of the row overlapped: only then are two events of it pending.   *)
Keys == {k \in Scope \X Holder \X Target : k[1] = "direct" => k[3] # "prompt"}
Agrees(told, row, k) ==
  \/ told = row
  \/ /\ k[1] = "pattern" /\ told # Nil /\ row # Nil /\ told.permission = row.permission
     /\ k[2] \in User /\ k[3] \notin {"experiment", "scorer", "workspace"}
Audits(q, k) == q # Nil /\ q.at = "audit" /\ Key(q) = k
Pending(k) == \E s \in Slot : Audits(req[s], k)
LogTells == \A k \in DOMAIN log : k \in torn \/ Pending(k) \/ Agrees(log[k], RowAt(k), k)
WillTell == \A s \in Slot, k \in Keys : Audits(req[s], k) => k \in torn \/ Agrees(Event(req[s]), RowAt(k), k)
Alone == \A s, g \in Slot, k \in Keys : s # g /\ Audits(req[s], k) /\ Audits(req[g], k) => k \in torn
Audited == DOMAIN log \subseteq Keys /\ LogTells /\ WillTell /\ Alone

LEMMA KeyType ==
  ASSUME Typed, NEW s \in Slot, req[s] # Nil
  PROVE  Key(req[s]) \in Keys
<1> DEFINE q == req[s]
<1>1. q.holder \in Holder /\ q.route.type \in Target /\ q.route.scope \in Scope
  BY RequestTypes DEF RouteOK
<1>2. RowType(q.route.type) \in Target /\ RowType(q.route.type) # "prompt"
  BY <1>1, SharedTypes
<1>3. QED
  BY <1>1, <1>2 DEF Key, Keys

LEMMA CallAudits ==
  ASSUME NEW q, NEW n, SameCall(q, n)
  PROVE  Key(n) = Key(q) /\ Event(n) = Event(q)
BY DEF SameCall, Key, Event

(* What a write does to the row it is about, and to the other rows. *)
LEMMA WriteTells ==
  ASSUME Typed, NEW s \in Slot, Write(s), NEW k \in Keys
  PROVE  /\ k = Key(req[s]) => Agrees(Event(req[s]), RowAt(k)', k)
         /\ k # Key(req[s]) => RowAt(k)' = RowAt(k)
<1> DEFINE q == req[s]
           t == q.route.type
<1>0. /\ q # Nil /\ q \in Handling /\ RouteOK(q.route) /\ q.holder \in Holder /\ t \in Target
      /\ q.op \in Writes /\ Accepted(q)
  BY RequestTypes, WriteSteps
<1>1. k[1] \in Scope /\ k[2] \in Holder /\ k[3] \in Target /\ (k[1] = "direct" => k[3] # "prompt") /\ k = <<k[1], k[2], k[3]>>
  BY DEF Keys
<1>2. q.route.scope \in Scope
  BY <1>0 DEF RouteOK
<1>3. CASE q.route.scope = "direct"
  <2>1. Key(q) = <<"direct", q.holder, RowType(t)>>
    BY <1>3 DEF Key
  <2>2. /\ direct' = [i \in Holder \X Target |->
                  IF i[1] = q.holder /\ i[2] \in SharedRow(t)
                  THEN IF q.op = "delete" THEN Nil ELSE q.level
                  ELSE direct[i]]
        /\ pattern' = pattern
    BY <1>0, <1>3, WriteSteps, DirectWriteTypes
  <2>3. direct \in [Holder \X Target -> PermOrNil]
    BY DirectType DEF Typed
  <2>4. RowType(t) \in SharedRow(t) /\ SharedRow(t) \subseteq Target /\ \A y \in SharedRow(t) : y = "prompt" \/ y = RowType(t)
    BY <1>0, SharedTypes
  <2>5. ASSUME k = Key(q) PROVE RowAt(k)' = Event(q)
    <3>1. k[1] = "direct" /\ k[2] = q.holder /\ k[3] = RowType(t)
      BY <2>1, <2>5
    <3>2. RowAt(k)' = direct'[<<q.holder, RowType(t)>>]
      BY <3>1 DEF RowAt
    <3>3. <<q.holder, RowType(t)>> \in Holder \X Target
      BY <1>0, <2>4
    <3>4. RowAt(k)' = IF q.op = "delete" THEN Nil ELSE q.level
      BY <2>2, <2>4, <3>2, <3>3
    <3>5. QED
      BY <1>3, <3>4 DEF Event
  <2>6. ASSUME k # Key(q) PROVE RowAt(k)' = RowAt(k)
    <3>1. CASE k[1] = "direct"
      <4>1. ~(k[2] = q.holder /\ k[3] \in SharedRow(t))
        BY <1>1, <2>1, <2>4, <2>6, <3>1
      <4>2. direct'[<<k[2], k[3]>>] = direct[<<k[2], k[3]>>]
        BY <1>1, <2>2, <2>3, <4>1
      <4>3. QED
        BY <3>1, <4>2 DEF RowAt
    <3>2. CASE k[1] # "direct"
      BY <2>2, <3>2 DEF RowAt
    <3>3. QED
      BY <3>1, <3>2
  <2>7. QED
    BY <2>5, <2>6 DEF Agrees
<1>4. CASE q.route.scope = "pattern"
  <2>1. Key(q) = <<"pattern", q.holder, t>>
    BY <1>4 DEF Key
  <2>2. pattern' = [pattern EXCEPT ![<<q.holder, t>>] = NewPattern(q)] /\ direct' = direct
    BY <1>4, WriteSteps, SameDirect DEF PatternWrite
  <2>3. pattern \in [Holder \X Target -> PatternRow \cup {Nil}]
    BY DEF Typed, TablesOK
  <2>4. ASSUME k = Key(q) PROVE Agrees(Event(q), RowAt(k)', k)
    <3>1. k[1] = "pattern" /\ k[2] = q.holder /\ k[3] = t
      BY <2>1, <2>4
    <3>2. RowAt(k)' = NewPattern(q)
      BY <1>0, <2>2, <2>3, <3>1 DEF RowAt
    <3>3. CASE q.op = "delete"
      BY <1>0, <1>4, <3>2, <3>3, NewPatternType DEF Agrees, Event
    <3>4. CASE q.op = "create" \/ (q.op = "update" /\ RegexIsWritten(q))
      BY <1>0, <1>4, <3>2, <3>4, NewPatternType DEF Agrees, Event
    <3>5. CASE q.op = "update" /\ ~RegexIsWritten(q)
      <4>1. q.holder \in User /\ t \notin {"experiment", "scorer", "workspace"}
        BY <1>0, <3>5 DEF RegexIsWritten, Holder
      <4>2. NewPattern(q) \in PatternRow /\ NewPattern(q).permission = q.level
        BY <1>0, <1>4, <3>5, NewPatternType
      <4>3. Event(q) = [matches |-> q.matches, permission |-> q.level]
        BY <1>4, <3>5 DEF Event
      <4>4. q.level \in ALL_PERMISSIONS /\ q.matches \in BOOLEAN
        BY <1>0 DEF Handling
      <4>5. Event(q) \in PatternRow /\ Event(q).permission = q.level
        BY <4>3, <4>4 DEF PatternRow
      <4>6. QED
        BY <3>1, <3>2, <4>1, <4>2, <4>5, RoutesAssumption DEF Agrees
    <3>6. QED
      BY <1>0, <3>3, <3>4, <3>5 DEF Writes
  <2>5. ASSUME k # Key(q) PROVE RowAt(k)' = RowAt(k)
    <3>1. CASE k[1] = "direct"
      BY <2>2, <3>1 DEF RowAt
    <3>2. CASE k[1] = "pattern"
      <4>1. <<k[2], k[3]>> # <<q.holder, t>>
        BY <1>1, <2>1, <2>5, <3>2
      <4>2. pattern'[<<k[2], k[3]>>] = pattern[<<k[2], k[3]>>]
        BY <1>1, <2>2, <2>3, <4>1
      <4>3. QED
        BY <3>2, <4>2 DEF RowAt
    <3>3. QED
      BY <1>1, <3>1, <3>2 DEF Scope
  <2>6. QED
    BY <2>4, <2>5
<1>5. QED
  BY <1>2, <1>3, <1>4 DEF Scope

(* A change of the tables leaves the pending events as they are. *)
LEMMA SeenAudits ==
  ASSUME NEW r, Sees(r), NEW x \in Slot, NEW k
  PROVE  /\ Audits(req'[x], k) <=> Audits(r[x], k)
         /\ Audits(r[x], k) => Event(req'[x]) = Event(r[x])
<1>1. CASE r[x] = Nil
  BY <1>1 DEF Sees, Audits
<1>2. CASE r[x] # Nil
  <2>1. req'[x] # Nil /\ SameCall(r[x], req'[x]) /\ req'[x].at = r[x].at
    BY <1>2 DEF Sees
  <2>2. Key(req'[x]) = Key(r[x]) /\ Event(req'[x]) = Event(r[x])
    BY <2>1, CallAudits
  <2>3. QED
    BY <1>2, <2>1, <2>2 DEF Audits
<1>3. QED
  BY <1>1, <1>2

LEMMA AuditedWrite ==
  ASSUME Typed, Audited, NEW s \in Slot, Write(s)
  PROVE  Audited'
<1> DEFINE q == req[s]
<1>0. q # Nil /\ q.at = "act" /\ log' = log /\ Key(q) \in Keys
  BY WriteSteps, KeyType
<1>1. PICK r \in [Slot -> Handling \cup {Nil}] :
        /\ Sees(r) /\ \A g \in Slot \ {s} : r[g] = req[g]
        /\ r[s] # Nil /\ SameCall(req[s], r[s]) /\ r[s].at = "audit"
  BY WriteSteps
<1>2. torn' = IF Overlapped(q) THEN torn \cup {Key(q)} ELSE torn
  BY WriteSteps
<1>3. \A x \in Slot \ {s}, k \in Keys :
        /\ Audits(req'[x], k) <=> Audits(req[x], k)
        /\ Audits(req[x], k) => Event(req'[x]) = Event(req[x])
  BY <1>1, SeenAudits
<1>4. \A k \in Keys : /\ Audits(req'[s], k) <=> k = Key(q)
                      /\ k = Key(q) => Event(req'[s]) = Event(q)
  <2>1. Key(r[s]) = Key(q) /\ Event(r[s]) = Event(q)
    BY <1>1, CallAudits
  <2>2. \A k \in Keys : Audits(r[s], k) <=> k = Key(q)
    BY <1>1, <2>1 DEF Audits
  <2>3. QED
    BY <1>1, <2>1, <2>2, SeenAudits
<1>5. \A k \in Keys : ~Audits(req[s], k)
  BY <1>0 DEF Audits
<1>6. torn \subseteq torn' /\ \A x \in Slot, k \in Keys : k = Key(q) /\ Audits(req[x], k) => k \in torn'
  <2>1. ASSUME NEW x \in Slot, Audits(req[x], Key(q)) PROVE Overlapped(q)
    BY <2>1 DEF Audits, Overlapped
  <2>2. QED
    BY <1>2, <2>1
<1>7. \A k \in Keys : /\ k = Key(q) => Agrees(Event(q), RowAt(k)', k)
                      /\ k # Key(q) => RowAt(k)' = RowAt(k)
  BY WriteTells
<1>8. LogTells'
  <2> SUFFICES ASSUME NEW k \in DOMAIN log PROVE k \in torn' \/ Pending(k)' \/ Agrees(log'[k], RowAt(k)', k)
    BY <1>0 DEF LogTells, Agrees
  <2>1. k \in Keys
    BY DEF Audited
  <2>2. CASE k = Key(q)
    BY <1>4, <2>1, <2>2 DEF Pending, Audits
  <2>3. CASE k # Key(q)
    <3>1. k \in torn \/ Pending(k) \/ Agrees(log[k], RowAt(k), k)
      BY DEF Audited, LogTells
    <3>2. Pending(k) => \E x \in Slot \ {s} : Audits(req[x], k)
      BY <1>5, <2>1 DEF Pending
    <3>3. Pending(k) => \E x \in Slot : Audits(req'[x], k)
      BY <1>3, <2>1, <3>2
    <3>4. Pending(k) => Pending(k)'
      BY <3>3 DEF Pending, Audits
    <3>5. QED
      BY <1>0, <1>6, <1>7, <2>1, <2>3, <3>1, <3>4
  <2>4. QED
    BY <2>2, <2>3
<1>9. \A x \in Slot, k \in Keys : Audits(req'[x], k) => k \in torn' \/ Agrees(Event(req'[x]), RowAt(k)', k)
  <2> SUFFICES ASSUME NEW x \in Slot, NEW k \in Keys, Audits(req'[x], k)
               PROVE  k \in torn' \/ Agrees(Event(req'[x]), RowAt(k)', k)
    OBVIOUS
  <2>1. CASE x = s
    BY <1>4, <1>7, <2>1
  <2>2. CASE x # s /\ k = Key(q)
    BY <1>3, <1>6, <2>2
  <2>3. CASE x # s /\ k # Key(q)
    BY <1>3, <1>6, <1>7, <2>3 DEF Audited, WillTell
  <2>4. QED
    BY <2>1, <2>2, <2>3
<1>10. \A x, g \in Slot, k \in Keys : x # g /\ Audits(req'[x], k) /\ Audits(req'[g], k) => k \in torn'
  BY <1>3, <1>4, <1>6 DEF Audited, Alone
<1>11. QED
  BY <1>0, <1>8, <1>9, <1>10 DEF Audited, WillTell, Alone, Audits, Event, Agrees, Key, RowAt

LEMMA AuditedQuiet ==
  ASSUME Typed, Audited, NEW s \in Slot, Quiet(s)
  PROVE  Audited'
<1> DEFINE q == req[s]
<1>0. Puts(s) /\ UNCHANGED <<direct, pattern>>
  BY SameDirect DEF Quiet, Begins, Advances, Ends, Rest, tables
<1>1. \A k : RowAt(k)' = RowAt(k)
  BY <1>0 DEF RowAt
<1>2. \A x \in Slot \ {s} : req'[x] = req[x]
  BY <1>0, OtherSlots
<1>3. ~(req'[s] # Nil /\ req'[s].at = "audit")
  BY DEF Quiet, Begins, Advances, Ends
<1>4. \A x \in Slot, k \in Keys : Audits(req'[x], k) => x # s /\ Audits(req[x], k) /\ req'[x] = req[x]
  BY <1>2, <1>3 DEF Audits
<1>5. /\ torn \subseteq torn' /\ DOMAIN log' \subseteq Keys
      /\ \A k \in DOMAIN log' : /\ Audits(q, k) => k \in torn' \/ log'[k] = Event(q)
                                /\ ~Audits(q, k) => k \in DOMAIN log /\ log'[k] = log[k]
  <2>1. CASE Begins(s) \/ Advances(s) \/ (Ends(s) /\ q.at # "audit")
    <3>1. UNCHANGED <<log, torn>> /\ \A k : ~Audits(q, k)
      BY <2>1 DEF Begins, Advances, Ends, Audits
    <3>2. QED
      BY <3>1 DEF Audited
  <2>2. CASE Ends(s) /\ q.at = "audit"
    <3>1. q # Nil /\ \A k : Audits(q, k) <=> k = Key(q)
      BY <2>2 DEF Ends, Audits
    <3>2. Key(q) \in Keys
      BY <3>1, KeyType
    <3>3. CASE UNCHANGED log /\ torn' = torn \cup {Key(q)}
      BY <3>1, <3>3 DEF Audited
    <3>4. CASE UNCHANGED torn /\ log' = [k \in DOMAIN log \cup {Key(q)} |-> IF k = Key(q) THEN Event(q) ELSE log[k]]
      BY <3>1, <3>2, <3>4 DEF Audited
    <3>5. QED
      BY <2>2, <3>3, <3>4 DEF Ends
  <2>3. QED
    BY <2>1, <2>2 DEF Quiet
<1>6. \A k \in DOMAIN log' : k \in torn' \/ Pending(k)' \/ Agrees(log'[k], RowAt(k), k)
  <2> SUFFICES ASSUME NEW k \in DOMAIN log', k \notin torn' PROVE Pending(k)' \/ Agrees(log'[k], RowAt(k), k)
    OBVIOUS
  <2>1. k \in Keys /\ k \notin torn
    BY <1>5
  <2>2. CASE Audits(q, k)
    BY <1>5, <2>1, <2>2 DEF Audited, WillTell
  <2>3. CASE ~Audits(q, k)
    <3>1. k \in DOMAIN log /\ log'[k] = log[k]
      BY <1>5, <2>3
    <3>2. Pending(k) \/ Agrees(log[k], RowAt(k), k)
      BY <2>1, <3>1 DEF Audited, LogTells
    <3>3. Pending(k) => \E x \in Slot : Audits(req'[x], k)
      BY <1>2, <2>3 DEF Pending
    <3>4. Pending(k) => Pending(k)'
      BY <3>3 DEF Pending, Audits
    <3>5. QED
      BY <3>1, <3>2, <3>4
  <2>4. QED
    BY <2>2, <2>3
<1>7. \A x \in Slot, k \in Keys : Audits(req'[x], k) => k \in torn' \/ Agrees(Event(req'[x]), RowAt(k), k)
  BY <1>4, <1>5 DEF Audited, WillTell
<1>8. \A x, g \in Slot, k \in Keys : x # g /\ Audits(req'[x], k) /\ Audits(req'[g], k) => k \in torn'
  BY <1>4, <1>5 DEF Audited, Alone
<1>9. LogTells' /\ WillTell' /\ Alone'
  BY <1>1, <1>6, <1>7, <1>8 DEF LogTells, WillTell, Alone, Audits, Event, Agrees, Key
<1>10. QED
  BY <1>5, <1>9 DEF Audited

LEMMA AuditedChanges ==
  ASSUME Typed, Audited, Changes
  PROVE  Audited'
<1>1. Sees(req) /\ UNCHANGED <<direct, pattern, log, torn>>
  BY ChangeSteps, SameDirect
<1>2. PICK r : r = req
  OBVIOUS
<1>3. Sees(r)
  BY <1>1, <1>2
<1>4. \A x \in Slot : \A k : /\ Audits(req'[x], k) <=> Audits(req[x], k)
                             /\ Audits(req[x], k) => Event(req'[x]) = Event(req[x])
  BY <1>2, <1>3, SeenAudits
<1>5. \A k : RowAt(k)' = RowAt(k)
  BY <1>1 DEF RowAt
<1>6. \A k : Pending(k) => Pending(k)'
  <2> SUFFICES ASSUME NEW k, Pending(k) PROVE Pending(k)'
    OBVIOUS
  <2>1. \E x \in Slot : Audits(req'[x], k)
    BY <1>4 DEF Pending
  <2>2. QED
    BY <2>1 DEF Pending, Audits
<1>7. LogTells'
  BY <1>1, <1>5, <1>6 DEF Audited, LogTells, Agrees
<1>8. \A x \in Slot, k \in Keys : Audits(req'[x], k) => k \in torn' \/ Agrees(Event(req'[x]), RowAt(k)', k)
  BY <1>1, <1>4, <1>5 DEF Audited, WillTell
<1>9. \A x, g \in Slot, k \in Keys : x # g /\ Audits(req'[x], k) /\ Audits(req'[g], k) => k \in torn'
  BY <1>1, <1>4 DEF Audited, Alone
<1>10. WillTell' /\ Alone'
  BY <1>8, <1>9 DEF WillTell, Alone, Audits, Event, Agrees, Key, RowAt
<1>11. QED
  BY <1>1, <1>7, <1>10 DEF Audited

LEMMA AuditedNext == Typed /\ Audited /\ [Next]_vars => Audited'
<1> SUFFICES ASSUME Typed, Audited, [Next]_vars PROVE Audited'
  OBVIOUS
<1>1. CASE UNCHANGED vars
  BY <1>1, SameDirect DEF vars, tables, Audited, LogTells, WillTell, Alone, Pending, Audits, Event, Agrees, Key, RowAt
<1>2. QED
  BY <1>1, StepKinds, AuditedQuiet, AuditedWrite, AuditedChanges

(* audit.py, emit_audit_event after every write: once no write of a row is *)
(* in flight, the last event of it tells the row that is there, unless     *)
(* writes of the row overlapped or a process died in between.              *)
THEOREM LogTellsTheRows == Spec => []AuditTellsTheRow
<1>1. Audited => AuditTellsTheRow
  BY DEF Audited, LogTells, Pending, Audits, Agrees, AuditTellsTheRow, Tells
<1>2. Init => Audited
  <2> SUFFICES ASSUME Init PROVE Audited
    OBVIOUS
  <2>1. DOMAIN log = {} /\ \A s \in Slot : req[s] = Nil
    BY DEF Init
  <2>2. QED
    BY <2>1 DEF Audited, LogTells, WillTell, Alone, Audits
<1>3. QED
  BY <1>1, <1>2, TypedInit, TypedNext, AuditedNext, PTL DEF Spec

-----------------------------------------------------------------------------
(* Locality.  A write changes the rows of its holder on what its route is  *)
(* about, so lookups of other users, or on other targets, see what they    *)
(* saw.                                                                    *)
Written(q) == IF q.route.scope = "direct" THEN SharedRow(q.route.type) ELSE {q.route.type}
RegexOf(p) ==
  {[holder |-> k[1], matches |-> {k[2]}, priority |-> 1, permission |-> p[k].permission] :
     k \in {i \in Holder \X Target : p[i] # Nil /\ p[i].matches}}

LEMMA MatchingIs ==
  ASSUME NEW p, NEW h \in Holder, NEW y \in Target, NEW d, d.regex = RegexOf(p)
  PROVE  Matching(d, h, y) = IF p[<<h, y>>] # Nil /\ p[<<h, y>>].matches
                             THEN {[holder |-> h, matches |-> {y}, priority |-> 1, permission |-> p[<<h, y>>].permission]}
                             ELSE {}
<1> DEFINE row(k) == [holder |-> k[1], matches |-> {k[2]}, priority |-> 1, permission |-> p[k].permission]
           keys == {i \in Holder \X Target : p[i] # Nil /\ p[i].matches}
<1>1. d.regex = {row(k) : k \in keys}
  BY DEF RegexOf
<1>2. \A k \in keys : row(k).holder = h /\ y \in row(k).matches <=> k = <<h, y>>
  OBVIOUS
<1>3. row(<<h, y>>) = [holder |-> h, matches |-> {y}, priority |-> 1, permission |-> p[<<h, y>>].permission]
  OBVIOUS
<1>4. <<h, y>> \in keys <=> p[<<h, y>>] # Nil /\ p[<<h, y>>].matches
  OBVIOUS
<1> HIDE DEF row, keys
<1>5. Matching(d, h, y) = {row(k) : k \in {i \in keys : i = <<h, y>>}}
  BY <1>1, <1>2 DEF Matching
<1>6. QED
  BY <1>3, <1>4, <1>5

LEMMA SameMatching ==
  ASSUME NEW p, NEW n, NEW h \in Holder, NEW y \in Target, NEW d, d.regex = RegexOf(p), NEW e, e.regex = RegexOf(n),
         p[<<h, y>>] = n[<<h, y>>]
  PROVE  Matching(d, h, y) = Matching(e, h, y)
BY MatchingIs

LEMMA WriteSameRows ==
  ASSUME Typed, NEW s \in Slot, Write(s), NEW u \in User, NEW y \in Target,
         ~(req[s].holder = u \/ <<u, req[s].holder>> \in member) \/ y \notin Written(req[s])
  PROVE  SameRows(DB, DB', u, y)
<1> DEFINE q == req[s]
<1>0. q # Nil /\ q.op \in Writes /\ Accepted(q) /\ q.holder \in Holder /\ q.route.type \in Target
  BY RequestTypes, WriteSteps
<1>1. /\ DB.direct = direct /\ DB.regex = RegexOf(pattern) /\ DB.member = member
      /\ DB'.direct = direct' /\ DB'.regex = RegexOf(pattern') /\ DB'.member = member'
  BY DEF DB, RegexOf
<1>2. member' = member
  BY WriteSteps
<1>3. direct \in [Holder \X Target -> PermOrNil] /\ pattern \in [Holder \X Target -> PatternRow \cup {Nil}]
  BY DirectType DEF Typed, TablesOK
<1>4. ASSUME NEW h \in Serves(DB, u)
      PROVE  h \in Holder /\ ~(h = q.holder /\ y \in Written(q))
  BY <1>1, <1>4 DEF Serves, get_groups_ids_for_user, Holder
<1>5. ASSUME NEW h \in Holder, ~(h = q.holder /\ y \in Written(q))
      PROVE  direct'[<<h, y>>] = direct[<<h, y>>] /\ pattern'[<<h, y>>] = pattern[<<h, y>>]
  <2>1. CASE q.route.scope = "direct"
    <3>1. /\ direct' = [k \in Holder \X Target |->
                  IF k[1] = q.holder /\ k[2] \in SharedRow(q.route.type)
                  THEN IF q.op = "delete" THEN Nil ELSE q.level
                  ELSE direct[k]]
          /\ pattern' = pattern
      BY <1>0, <2>1, WriteSteps, DirectWriteTypes
    <3>2. QED
      BY <1>3, <1>5, <2>1, <3>1 DEF Written
  <2>2. CASE q.route.scope # "direct"
    <3>1. pattern' = [pattern EXCEPT ![<<q.holder, q.route.type>>] = NewPattern(q)] /\ direct' = direct
      BY <2>2, WriteSteps, SameDirect DEF PatternWrite
    <3>2. <<h, y>> # <<q.holder, q.route.type>>
      BY <1>5, <2>2 DEF Written
    <3>3. QED
      BY <1>3, <3>1, <3>2
  <2>3. QED
    BY <2>1, <2>2
<1>6. \A h \in Serves(DB, u) : DB.direct[<<h, y>>] = DB'.direct[<<h, y>>] /\ Matching(DB, h, y) = Matching(DB', h, y)
  <2> SUFFICES ASSUME NEW h \in Serves(DB, u)
               PROVE  DB.direct[<<h, y>>] = DB'.direct[<<h, y>>] /\ Matching(DB, h, y) = Matching(DB', h, y)
    OBVIOUS
  <2>1. h \in Holder /\ direct'[<<h, y>>] = direct[<<h, y>>] /\ pattern'[<<h, y>>] = pattern[<<h, y>>]
    BY <1>4, <1>5
  <2>2. PICK d, e, p, n : d = DB /\ e = DB' /\ p = pattern /\ n = pattern'
    OBVIOUS
  <2>3. Matching(d, h, y) = Matching(e, h, y)
    BY <1>1, <2>1, <2>2, SameMatching
  <2>4. QED
    BY <1>1, <2>1, <2>2, <2>3
<1>7. get_groups_ids_for_user(DB, u) = get_groups_ids_for_user(DB', u)
  BY <1>1, <1>2 DEF get_groups_ids_for_user
<1>8. QED
  BY <1>6, <1>7 DEF SameRows

LEMMA SameEffective ==
  ASSUME NEW d, NEW e, NEW u, NEW t, NEW x, SameRows(d, e, u, t),
         t \notin Workspace => x = NoWorkspace \/ SameRows(d, e, u, x)
  PROVE  effective_permission(d, u, t, x) = effective_permission(e, u, t, x)
<1>1. CASE t \in Workspace
  BY <1>1, SameWalk DEF effective_permission
<1>2. CASE t \notin Workspace
  BY <1>2, SameDecision DEF effective_permission
<1>3. QED
  BY <1>1, <1>2

LEMMA WriteIsLocal ==
  ASSUME Typed, NEW s \in Slot, Write(s), NEW u \in User, NEW t \in Target, NEW x \in {NoWorkspace} \cup Workspace
  PROVE  \/ effective_permission(DB', u, t, x) = effective_permission(DB, u, t, x)
         \/ /\ Touches(req[s], u, t)
            /\ (x = NoWorkspace /\ t \notin Workspace) => req[s].route.type # "workspace"
<1> DEFINE q == req[s]
           served == q.holder = u \/ <<u, q.holder>> \in member
<1>0. q # Nil /\ q.route.type \in Target
  BY RequestTypes, WriteSteps
<1>1. PICK d, e : d = DB /\ e = DB'
  OBVIOUS
<1>2. \A y \in Target : ~served \/ y \notin Written(q) => SameRows(d, e, u, y)
  BY <1>1, WriteSameRows
<1>3. Workspace = {"workspace"} /\ Workspace \subseteq Target
  BY RoutesAssumption DEF Target
<1>4. q.route.type # "workspace" => "workspace" \notin Written(q)
  BY DEF Written, SharedRow
<1>5. q.route.type = "workspace" => Written(q) = {"workspace"}
  BY DEF Written, SharedRow
<1>6. CASE ~served
  BY <1>1, <1>2, <1>3, <1>6, SameEffective
<1>7. CASE served /\ q.route.type # "workspace" /\ t \notin Written(q)
  BY <1>1, <1>2, <1>3, <1>4, <1>7, SameEffective
<1>8. CASE served /\ q.route.type = "workspace" /\ x = NoWorkspace /\ t \notin Workspace
  BY <1>1, <1>2, <1>3, <1>5, <1>8, SameEffective
<1>9. CASE /\ served /\ (q.route.type = "workspace" \/ t \in Written(q))
           /\ ~(q.route.type = "workspace" /\ x = NoWorkspace /\ t \notin Workspace)
  BY <1>9 DEF Touches, Written
<1>10. QED
  BY <1>6, <1>7, <1>8, <1>9

(* repository/_base.py and the group prompt repository: a request changes  *)
(* decisions about its own type, of its own holder or of its group's       *)
(* members, and a workspace row those of other types only by the fallback. *)
THEOREM WritesAreLocal == Spec => DecisionsChangeByRequest
<1>1. Typed /\ [Next]_vars =>
        [\A u \in User, t \in focus.types, x \in {NoWorkspace} \cup Workspace :
           \/ UNCHANGED <<grants, pattern>>
           \/ effective_permission(DB', u, t, x) = effective_permission(DB, u, t, x)
           \/ \E s \in Slot :
                /\ req[s] # Nil /\ req[s].at = "act" /\ req'[s].at = "audit"
                /\ Touches(req[s], u, t)
                /\ (x = NoWorkspace /\ t \notin Workspace) => req[s].route.type # "workspace"]_vars
  <2> SUFFICES ASSUME Typed, Next, NEW u \in User, NEW t \in focus.types, NEW x \in {NoWorkspace} \cup Workspace,
                      ~UNCHANGED <<grants, pattern>>
               PROVE  \/ effective_permission(DB', u, t, x) = effective_permission(DB, u, t, x)
                      \/ \E s \in Slot :
                           /\ req[s] # Nil /\ req[s].at = "act" /\ req'[s].at = "audit"
                           /\ Touches(req[s], u, t)
                           /\ (x = NoWorkspace /\ t \notin Workspace) => req[s].route.type # "workspace"
    OBVIOUS
  <2>1. ~Changes
    BY ChangeSteps
  <2>2. \A s \in Slot : ~Quiet(s)
    BY DEF Quiet, Begins, Advances, Ends, Rest, tables
  <2>3. PICK s \in Slot : Write(s)
    BY <2>1, <2>2, StepKinds
  <2>4. req[s] # Nil /\ req[s].at = "act" /\ req'[s].at = "audit"
    BY <2>3, WriteSteps DEF Sees
  <2>5. t \in Target
    BY HeaderType DEF Typed
  <2>6. QED
    BY <2>3, <2>4, <2>5, WriteIsLocal
<1>2. QED
  BY <1>1, TypedInit, TypedNext, PTL DEF Spec, DecisionsChangeByRequest

-----------------------------------------------------------------------------
(***************************************************************************)
(* SourceLoops.  The loops run a row a step, so that what they have        *)
(* computed of the rows they passed is an invariant.                       *)
(***************************************************************************)
Count == Len(regexes)
LoopShape ==
  /\ loop \in {"resource", "workspace", "group"}
  /\ regexes \in Seq(RegexRow)
  /\ position \in 1 .. Count + 1
  /\ best_perm \in PermOrNil /\ best_priority \in Int \cup {Nil} /\ done \in BOOLEAN
  /\ loop # "group" => Ordered(regexes)

(* The places of the rows that match, among the first k. *)
Hits(k) == {j \in 1 .. k : Matches(regexes[j])}

AtFirstHit(k) == k \in Hits(Count) /\ Hits(k - 1) = {} /\ best_perm = regexes[k].permission
ResourceSoFar ==
  IF done /\ position <= Count THEN AtFirstHit(position)
  ELSE best_perm = Nil /\ Hits(position - 1) = {}

(* best_perm is the largest of the permissions at the given places. *)
Largest(places) ==
  /\ \E j \in places : best_perm = regexes[j].permission
  /\ \A j \in places : compare_permissions(regexes[j].permission, best_perm)
WorkspaceSoFar ==
  /\ best_perm = Nil <=> best_priority = Nil
  /\ best_perm = Nil <=> Hits(position - 1) = {}
  /\ best_perm # Nil => /\ \A j \in Hits(position - 1) : regexes[j].priority = best_priority
                        /\ Largest(Hits(position - 1))
  /\ done /\ position <= Count => best_priority # Nil /\ best_priority < regexes[position].priority

GroupSoFar ==
  /\ best_perm = Nil <=> position = 1
  /\ position # 1 => Largest(1 .. position - 1)
  /\ done => position = Count + 1

LoopInv ==
  /\ LoopShape
  /\ loop = "resource" => ResourceSoFar
  /\ loop = "workspace" => WorkspaceSoFar
  /\ loop = "group" => GroupSoFar

LEMMA RowsTyped ==
  ASSUME LoopShape
  PROVE  /\ DOMAIN regexes = 1 .. Count /\ Count \in Nat
         /\ \A j \in 1 .. Count : /\ regexes[j] \in RegexRow /\ regexes[j].priority \in Int
                                  /\ regexes[j].permission \in ALL_PERMISSIONS
<1>1. DOMAIN regexes = 1 .. Count /\ Count \in Nat /\ \A j \in 1 .. Count : regexes[j] \in RegexRow
  BY DEF LoopShape, Count
<1> QED BY <1>1 DEF RegexRow

LEMMA LoopStarts == LoopInit => LoopInv
<1> SUFFICES ASSUME LoopInit PROVE LoopInv
  OBVIOUS
<1>1. PICK n \in 0 .. MaxRows : regexes \in [1 .. n -> RowPool]
  BY DEF LoopInit
<1>2. regexes \in Seq(RegexRow) /\ Len(regexes) = n
  <2>1. n \in Nat /\ regexes \in [1 .. n -> RegexRow]
    BY <1>1, LoopAssumption
  <2> QED BY <2>1, IsASeq
<1>3. LoopShape
  <2>1. Count \in Nat /\ position \in 1 .. Count + 1
    BY <1>2 DEF LoopInit, Count
  <2> QED BY <1>2, <2>1 DEF LoopInit, LoopShape, PermOrNil
<1>4. Hits(position - 1) = {}
  BY DEF LoopInit, Hits
<1> QED BY <1>2, <1>3, <1>4 DEF LoopInit, LoopInv, ResourceSoFar, WorkspaceSoFar, GroupSoFar, Count

(* One row more. *)
LEMMA OneMore ==
  ASSUME LoopShape, position <= Count
  PROVE  /\ regexes[position] \in RegexRow /\ position \in 1 .. Count
         /\ Hits(position) = IF Matches(regexes[position]) THEN Hits(position - 1) \cup {position} ELSE Hits(position - 1)
         /\ 1 .. position = (1 .. position - 1) \cup {position}
         /\ position \notin Hits(position - 1)
<1>1. regexes[position] \in RegexRow /\ position \in 1 .. Count
  BY DEF LoopShape, Count
<1>2. 1 .. position = (1 .. position - 1) \cup {position}
  BY <1>1
<1> QED BY <1>1, <1>2 DEF Hits

LEMMA ResourceStep ==
  ASSUME LoopInv, ResourceIteration
  PROVE  LoopInv'
<1> USE DEF LoopInv
<1>1. loop = "resource" /\ ~done /\ position <= Count /\ ResourceSoFar
  BY DEF ResourceIteration, More, Count
<1>2. best_perm = Nil /\ Hits(position - 1) = {}
  BY <1>1 DEF ResourceSoFar
<1>3. regexes[position].permission \in ALL_PERMISSIONS
  BY <1>1, OneMore DEF RegexRow
<1>4. CASE Matches(regexes[position])
  <2>1. best_perm' = regexes[position].permission /\ done' = TRUE /\ UNCHANGED <<loop, regexes, position, best_priority>>
    BY <1>4 DEF ResourceIteration
  <2>2. LoopShape'
    BY <1>3, <2>1 DEF LoopShape, Count, Ordered, PermOrNil
  <2>3. Hits(position - 1)' = Hits(position - 1) /\ position' \in Hits(Count)'
    BY <1>1, <1>4, <2>1, OneMore DEF Hits, Count, Matches
  <2>4. ResourceSoFar'
    BY <1>1, <1>2, <2>1, <2>3 DEF ResourceSoFar, AtFirstHit, Count
  <2> QED BY <1>1, <2>1, <2>2, <2>4
<1>5. CASE ~Matches(regexes[position])
  <2>1. position' = position + 1 /\ UNCHANGED <<loop, regexes, done, best_perm, best_priority>>
    BY <1>5 DEF ResourceIteration, Continue
  <2>2. LoopShape'
    BY <1>1, <2>1 DEF LoopShape, Count, Ordered
  <2>3. Hits(position - 1)' = {}
    <3>1. position' - 1 = position
      BY <2>1 DEF LoopShape
    <3>2. Hits(position - 1)' = Hits(position)
      BY <2>1, <3>1 DEF Hits, Matches
    <3> QED BY <1>1, <1>2, <1>5, <3>2, OneMore
  <2>4. ResourceSoFar'
    BY <1>1, <1>2, <2>1, <2>3 DEF ResourceSoFar
  <2> QED BY <1>1, <2>1, <2>2, <2>4
<1> QED BY <1>4, <1>5

LEMMA GroupStep ==
  ASSUME LoopInv, GroupIteration
  PROVE  LoopInv'
<1> USE DEF LoopInv
<1>1. loop = "group" /\ ~done /\ position <= Count /\ GroupSoFar /\ LoopShape
  BY DEF GroupIteration, More, Count
<1>2. position' = position + 1 /\ UNCHANGED <<loop, regexes, done, best_priority>>
  BY DEF GroupIteration, Continue
<1> DEFINE p == regexes[position].permission
<1>3. p \in ALL_PERMISSIONS
  BY <1>1, OneMore DEF RegexRow
<1>4. best_perm' = IF best_perm = Nil \/ compare_permissions(best_perm, p) THEN p ELSE best_perm
  BY DEF GroupIteration
<1>5. LoopShape'
  BY <1>1, <1>2, <1>3, <1>4 DEF LoopShape, Count, Ordered, PermOrNil
<1>6. best_perm' # Nil
  BY <1>3, <1>4, NilAssumption
<1>7. 1 .. position' - 1 = (1 .. position - 1) \cup {position}
  BY <1>1, <1>2, OneMore DEF LoopShape
<1>8. Largest(1 .. position - 1)'
  <2>1. \A j \in 1 .. position - 1 : regexes[j].permission \in ALL_PERMISSIONS
    <3>1. 1 .. position - 1 \subseteq 1 .. Count
      BY <1>1, RowsTyped DEF LoopShape
    <3> QED BY <1>1, <3>1, RowsTyped
  <2>2. CASE best_perm = Nil
    <3>1. best_perm' = p /\ position = 1
      BY <1>1, <1>4, <2>2 DEF GroupSoFar
    <3>2. 1 .. position' - 1 = {position}
      BY <1>2, <3>1
    <3> HIDE DEF p
    <3>3. compare_permissions(p, p)
      BY <1>3 DEF compare_permissions, priority, ALL_PERMISSIONS
    <3> QED BY <1>2, <3>1, <3>2, <3>3 DEF Largest, p
  <2>3. CASE best_perm # Nil
    <3>1. Largest(1 .. position - 1) /\ best_perm \in ALL_PERMISSIONS
      BY <1>1, <2>3 DEF GroupSoFar, LoopShape, PermOrNil
    <3>2. \A x, y, z \in ALL_PERMISSIONS : /\ compare_permissions(x, y) /\ compare_permissions(y, z) => compare_permissions(x, z)
                                           /\ compare_permissions(x, y) \/ compare_permissions(y, x)
                                           /\ compare_permissions(x, x)
      BY DEF compare_permissions, priority, ALL_PERMISSIONS
    <3> HIDE DEF p
    <3>3. best_perm' \in {best_perm, p} /\ compare_permissions(p, best_perm') /\ compare_permissions(best_perm, best_perm')
      BY <1>3, <1>4, <2>3, <3>1, <3>2
    <3>4. \A j \in 1 .. position - 1 : compare_permissions(regexes[j].permission, best_perm')
      BY <1>3, <2>1, <3>1, <3>2, <3>3 DEF Largest
    <3> QED BY <1>2, <1>7, <3>1, <3>3, <3>4 DEF Largest, p
  <2> QED BY <2>2, <2>3
<1>9. GroupSoFar'
  BY <1>1, <1>2, <1>6, <1>8 DEF GroupSoFar, LoopShape
<1> QED BY <1>1, <1>2, <1>5, <1>9
LEMMA WorkspaceStep ==
  ASSUME LoopInv, WorkspaceIteration
  PROVE  LoopInv'
<1> USE DEF LoopInv
<1>1. loop = "workspace" /\ ~done /\ position <= Count /\ WorkspaceSoFar /\ LoopShape
  BY DEF WorkspaceIteration, More, Count
<1> DEFINE row == regexes[position]
           p == row.permission
<1>2. row \in RegexRow /\ p \in ALL_PERMISSIONS /\ row.priority \in Int
  BY <1>1, OneMore DEF RegexRow
<1>3. CASE best_priority # Nil /\ row.priority > best_priority
  <2>1. done' = TRUE /\ UNCHANGED <<loop, regexes, position, best_perm, best_priority>>
    BY <1>3 DEF WorkspaceIteration, Finish
  <2>2. LoopShape'
    BY <1>1, <2>1 DEF LoopShape, Count, Ordered
  <2>3. Hits(position - 1)' = Hits(position - 1)
    BY <2>1 DEF Hits, Matches
  <2>4. best_priority < row.priority
    BY <1>1, <1>2, <1>3 DEF LoopShape
  <2>5. WorkspaceSoFar'
    BY <1>1, <1>3, <2>1, <2>3, <2>4 DEF WorkspaceSoFar, Count, Largest
  <2> QED BY <1>1, <2>1, <2>2, <2>5
<1>4. CASE ~(best_priority # Nil /\ row.priority > best_priority)
  <2>1. position' = position + 1 /\ UNCHANGED <<loop, regexes, done>>
    BY <1>4 DEF WorkspaceIteration, Continue
  <2>2. Hits(position - 1)' = Hits(position)
    <3>1. position' - 1 = position
      BY <1>1, <2>1 DEF LoopShape
    <3> QED BY <2>1, <3>1 DEF Hits, Matches
  <2>3. ASSUME best_perm' \in PermOrNil, best_priority' \in Int \cup {Nil}
        PROVE  LoopShape'
    BY <1>1, <2>1, <2>3 DEF LoopShape, Count, Ordered
  <2>4. ~done'
    BY <1>1, <2>1
  <2>5. CASE ~Matches(row)
    <3>1. UNCHANGED <<best_perm, best_priority>> /\ Hits(position) = Hits(position - 1)
      BY <1>1, <1>4, <2>5, OneMore DEF WorkspaceIteration
    <3>2. LoopShape'
      BY <1>1, <2>3, <3>1 DEF LoopShape
    <3>3. WorkspaceSoFar'
      BY <1>1, <2>1, <2>2, <2>4, <3>1 DEF WorkspaceSoFar, Largest
    <3> QED BY <1>1, <2>1, <3>2, <3>3
  <2>6. CASE Matches(row) /\ best_perm = Nil
    <3>1. best_perm' = p /\ best_priority' = row.priority
      BY <1>4, <2>6 DEF WorkspaceIteration
    <3>2. LoopShape'
      BY <1>2, <2>3, <3>1 DEF PermOrNil
    <3>3. Hits(position) = {position}
      BY <1>1, <2>6, OneMore DEF WorkspaceSoFar
    <3>4. compare_permissions(p, p) /\ p # Nil /\ row.priority # Nil
      BY <1>2, NilAssumption, LoopAssumption DEF compare_permissions, priority, ALL_PERMISSIONS
    <3>5. WorkspaceSoFar'
      BY <1>1, <2>1, <2>2, <2>4, <3>1, <3>3, <3>4 DEF WorkspaceSoFar, Largest
    <3> QED BY <1>1, <2>1, <3>2, <3>5
  <2>7. CASE Matches(row) /\ best_perm # Nil
    <3>1. /\ best_perm' = IF priority[p] > priority[best_perm] THEN p ELSE best_perm
          /\ best_priority' = best_priority
      BY <1>4, <2>7 DEF WorkspaceIteration
    <3>2. best_perm \in ALL_PERMISSIONS /\ best_priority \in Int
      BY <1>1, <2>7 DEF LoopShape, PermOrNil, WorkspaceSoFar
    <3>3. LoopShape'
      BY <1>1, <1>2, <2>3, <3>1 DEF LoopShape, PermOrNil
    <3>4. Hits(position) = Hits(position - 1) \cup {position} /\ Hits(position - 1) # {}
      BY <1>1, <2>7, OneMore DEF WorkspaceSoFar
    <3>5. row.priority = best_priority
      <4>1. PICK j \in Hits(position - 1) : TRUE
        BY <3>4
      <4>2. regexes[j].priority = best_priority
        BY <1>1, <2>7, <4>1 DEF WorkspaceSoFar
      <4>3. j \in DOMAIN regexes /\ position \in DOMAIN regexes /\ j < position
        BY <1>1, <4>1, OneMore DEF Hits, LoopShape, Count
      <4>4. best_priority <= row.priority
        BY <1>1, <4>2, <4>3 DEF LoopShape, Ordered
      <4> QED BY <1>2, <1>4, <3>2, <4>4, LoopAssumption
    <3>6. \A x, y \in ALL_PERMISSIONS : priority[x] \in Int /\ (compare_permissions(x, y) <=> priority[x] <= priority[y])
      BY DEF compare_permissions, priority, ALL_PERMISSIONS
    <3>7. best_perm' \in ALL_PERMISSIONS /\ best_perm' # Nil
      BY <1>2, <3>1, <3>2, NilAssumption
    <3>8. \A j \in Hits(position - 1) : regexes[j].permission \in ALL_PERMISSIONS
      <4>1. Hits(position - 1) \subseteq 1 .. Count
        BY <1>1, RowsTyped DEF LoopShape, Hits
      <4> QED BY <1>1, <4>1, RowsTyped
    <3>9. Largest(Hits(position - 1)) /\ \A j \in Hits(position - 1) : regexes[j].priority = best_priority
      BY <1>1, <2>7 DEF WorkspaceSoFar
    <3> HIDE DEF p
    <3>10. \A j \in Hits(position - 1) : compare_permissions(regexes[j].permission, best_perm')
      BY <1>2, <3>1, <3>2, <3>6, <3>7, <3>8, <3>9 DEF Largest
    <3>11. compare_permissions(p, best_perm') /\ best_perm' \in {p, best_perm}
      BY <1>2, <3>1, <3>2, <3>6
    <3>12. Largest(Hits(position - 1))'
      BY <2>1, <2>2, <3>4, <3>9, <3>10, <3>11 DEF Largest, p
    <3>13. WorkspaceSoFar'
      BY <1>1, <2>1, <2>2, <2>4, <2>7, <3>1, <3>4, <3>5, <3>7, <3>9, <3>12 DEF WorkspaceSoFar
    <3> QED BY <1>1, <2>1, <3>3, <3>13
  <2> QED BY <2>5, <2>6, <2>7
<1> QED BY <1>3, <1>4

LEMMA LoopStep == LoopInv /\ [LoopNext]_loopVars => LoopInv'
<1> SUFFICES ASSUME LoopInv, [LoopNext]_loopVars PROVE LoopInv'
  OBVIOUS
<1>1. CASE EndOfRows
  <2>1. ~done /\ done' = TRUE /\ position > Count /\ UNCHANGED <<loop, regexes, position, best_perm, best_priority>>
    BY <1>1 DEF EndOfRows, Finish, Count
  <2>2. LoopShape /\ position = Count + 1
    BY <2>1 DEF LoopInv, LoopShape, Count
  <2>3. LoopShape' /\ Count' = Count
    BY <2>1, <2>2 DEF LoopShape, Count, Ordered
  <2>4. Hits(position - 1)' = Hits(position - 1) /\ ~(position <= Count)
    BY <2>1, <2>2 DEF Hits, Matches, Count, LoopShape
  <2>5. loop = "resource" => ResourceSoFar'
    BY <2>1, <2>3, <2>4 DEF LoopInv, ResourceSoFar
  <2>6. loop = "workspace" => WorkspaceSoFar'
    BY <2>1, <2>3, <2>4 DEF LoopInv, WorkspaceSoFar, Largest
  <2>7. loop = "group" => GroupSoFar'
    BY <2>1, <2>2, <2>3 DEF LoopInv, GroupSoFar, Largest
  <2> QED BY <2>1, <2>3, <2>5, <2>6, <2>7 DEF LoopInv
<1>2. CASE UNCHANGED loopVars
  BY <1>2 DEF loopVars, LoopInv, LoopShape, Count, Ordered, ResourceSoFar, WorkspaceSoFar, GroupSoFar, Largest, Hits, Matches, AtFirstHit
<1> QED BY <1>1, <1>2, ResourceStep, WorkspaceStep, GroupStep DEF LoopNext

(* Two permissions of the same priority are one. *)
LEMMA LargestIsOne ==
  ASSUME NEW S \in SUBSET ALL_PERMISSIONS, NEW p \in S, \A q \in S : compare_permissions(q, p)
  PROVE  p = CHOOSE x \in S : \A q \in S : compare_permissions(q, x)
<1>1. \A x \in S : (\A q \in S : compare_permissions(q, x)) => x = p
  <2>1. \A x, y \in ALL_PERMISSIONS : compare_permissions(x, y) /\ compare_permissions(y, x) => x = y
    BY DEF compare_permissions, priority, ALL_PERMISSIONS
  <2> QED BY <2>1
<1> QED BY <1>1

(* The largest priority number belongs to a denial, if there is one, and   *)
(* otherwise to the permission that allows the most.                       *)
LEMMA LargestPrevails ==
  ASSUME NEW S \in SUBSET ALL_PERMISSIONS, NEW p \in S, \A q \in S : compare_permissions(q, p)
  PROVE  Prevails(p, S)
<1>1. \A x, y \in ALL_PERMISSIONS : compare_permissions(x, y) =>
        /\ x = "NO_PERMISSIONS" => y = "NO_PERMISSIONS"
        /\ y # "NO_PERMISSIONS" => capabilities[x] \subseteq capabilities[y]
  BY DEF compare_permissions, priority, capabilities, ALL_PERMISSIONS
<1>2. S # {}
  OBVIOUS
<1>3. CASE "NO_PERMISSIONS" \in S
  BY <1>1, <1>2, <1>3 DEF Prevails
<1>4. CASE "NO_PERMISSIONS" \notin S
  <2>1. p # "NO_PERMISSIONS"
    BY <1>4
  <2> QED BY <1>1, <1>2, <1>4, <2>1 DEF Prevails
<1> QED BY <1>3, <1>4

LEMMA LoopEnds == LoopInv => LoopsMeetDefinition
<1> SUFFICES ASSUME LoopInv, done PROVE LoopsMeetDefinition
  BY DEF LoopsMeetDefinition
<1> DEFINE tier == Tier
<1>1. LoopShape
  BY DEF LoopInv
<1>2. /\ DOMAIN regexes = 1 .. Count /\ Count \in Nat
      /\ \A j \in 1 .. Count : regexes[j] \in RegexRow /\ regexes[j].priority \in Int /\ regexes[j].permission \in ALL_PERMISSIONS
  BY <1>1, RowsTyped
<1>3. AllRows = {regexes[j] : j \in 1 .. Count}
  BY <1>2 DEF AllRows
<1>4. Hits(Count) = {j \in 1 .. Count : target \in regexes[j].matches}
  BY DEF Hits, Matches
<1>5. tier = {regexes[j] : j \in {k \in Hits(Count) : \A l \in Hits(Count) : regexes[k].priority <= regexes[l].priority}}
  BY <1>3, <1>4 DEF FirstTier, Tier
<1>6. CASE loop = "resource"
  <2>1. ResourceSoFar
    BY <1>6 DEF LoopInv
  <2>2. CASE position <= Count
    <3>1. AtFirstHit(position)
      BY <2>1, <2>2 DEF ResourceSoFar
    <3>2. \A l \in Hits(Count) : position <= l
      BY <1>1, <1>2, <3>1 DEF AtFirstHit, Hits, LoopShape
    <3>3. \A l \in Hits(Count) : regexes[position].priority <= regexes[l].priority
      BY <1>1, <1>2, <1>6, <3>1, <3>2 DEF LoopShape, Ordered, AtFirstHit, Hits
    <3>4. regexes[position] \in tier
      BY <1>5, <3>1, <3>3 DEF AtFirstHit
    <3>5. tier # {} /\ best_perm \in Perms(tier)
      BY <3>1, <3>4 DEF Perms, AtFirstHit
    <3> QED BY <1>6, <3>5 DEF LoopsMeetDefinition
  <2>3. CASE ~(position <= Count)
    <3>1. best_perm = Nil /\ Hits(Count) = {}
      <4>1. position - 1 = Count
        BY <1>1, <1>2, <2>3 DEF LoopShape
      <4> QED BY <2>1, <2>3, <4>1 DEF ResourceSoFar
    <3>2. tier = {}
      BY <1>5, <3>1
    <3> QED BY <1>6, <3>1, <3>2 DEF LoopsMeetDefinition
  <2> QED BY <2>2, <2>3
<1>7. CASE loop = "workspace"
  <2>1. WorkspaceSoFar
    BY <1>7 DEF LoopInv
  <2>2. Hits(position - 1) \subseteq Hits(Count) /\ Hits(position - 1) \subseteq 1 .. Count
    BY <1>1, <1>2 DEF Hits, LoopShape
  <2>3. CASE best_perm = Nil
    <3>1. ~(position <= Count)
      BY <2>1, <2>3 DEF WorkspaceSoFar
    <3>2. position - 1 = Count
      BY <1>1, <1>2, <3>1 DEF LoopShape
    <3>3. tier = {}
      BY <1>5, <2>1, <2>3, <3>2 DEF WorkspaceSoFar
    <3>4. Perms(tier) = {}
      BY <3>3 DEF Perms
    <3> QED BY <1>7, <2>3, <3>4 DEF LoopsMeetDefinition, match_workspace_regex_permission, Prevails, Perms, Tier
  <2>4. CASE best_perm # Nil
    <3>1. /\ best_priority \in Int /\ Hits(position - 1) # {}
          /\ \A j \in Hits(position - 1) : regexes[j].priority = best_priority
          /\ Largest(Hits(position - 1))
      BY <1>1, <2>1, <2>4 DEF WorkspaceSoFar, LoopShape
    <3>2. ASSUME NEW l \in Hits(Count), l \notin Hits(position - 1)
          PROVE  best_priority < regexes[l].priority
      <4>1. l \in 1 .. Count /\ position <= l /\ position \in 1 .. Count
        BY <1>1, <1>2, <3>2 DEF Hits, LoopShape
      <4>2. best_priority < regexes[position].priority
        BY <2>1, <4>1 DEF WorkspaceSoFar
      <4>3. regexes[position].priority <= regexes[l].priority
        BY <1>1, <1>2, <1>7, <4>1 DEF LoopShape, Ordered
      <4> QED BY <1>2, <3>1, <4>1, <4>2, <4>3
    <3>3. {k \in Hits(Count) : \A l \in Hits(Count) : regexes[k].priority <= regexes[l].priority} = Hits(position - 1)
      <4>1. ASSUME NEW k \in Hits(position - 1), NEW l \in Hits(Count)
            PROVE  regexes[k].priority <= regexes[l].priority
        <5>1. regexes[k].priority = best_priority /\ l \in 1 .. Count
          BY <3>1 DEF Hits
        <5>2. regexes[l].priority \in Int
          BY <1>2, <5>1
        <5>3. CASE l \in Hits(position - 1)
          BY <3>1, <5>1, <5>3
        <5>4. CASE l \notin Hits(position - 1)
          BY <3>1, <3>2, <5>1, <5>2, <5>4
        <5> QED BY <5>3, <5>4
      <4>2. ASSUME NEW k \in Hits(Count), \A l \in Hits(Count) : regexes[k].priority <= regexes[l].priority
            PROVE  k \in Hits(position - 1)
        <5>1. PICK j \in Hits(position - 1) : TRUE
          BY <3>1
        <5>2. regexes[k].priority <= best_priority /\ regexes[k].priority \in Int
          BY <1>2, <2>2, <3>1, <4>2, <5>1 DEF Hits
        <5> QED BY <3>1, <3>2, <5>2
      <4> QED BY <2>2, <4>1, <4>2
    <3>4. Perms(tier) = {regexes[j].permission : j \in Hits(position - 1)}
      BY <1>5, <3>3 DEF Perms
    <3> HIDE DEF tier
    <3>5. Perms(tier) \in SUBSET ALL_PERMISSIONS /\ best_perm \in Perms(tier)
      BY <1>2, <2>2, <3>1, <3>4 DEF Largest
    <3>6. \A q \in Perms(tier) : compare_permissions(q, best_perm)
      BY <3>1, <3>4 DEF Largest
    <3>7. best_perm = CHOOSE x \in Perms(tier) : \A q \in Perms(tier) : compare_permissions(q, x)
      BY <3>5, <3>6, LargestIsOne
    <3>8. match_workspace_regex_permission(AllRows, target) = best_perm
      BY <3>5, <3>7 DEF match_workspace_regex_permission, Perms, Tier, tier
    <3>9. Prevails(best_perm, Perms(tier))
      BY <3>5, <3>6, LargestPrevails
    <3> QED BY <1>7, <3>8, <3>9 DEF LoopsMeetDefinition, tier
  <2> QED BY <2>3, <2>4
<1>8. CASE loop = "group"
  <2>1. GroupSoFar /\ position = Count + 1
    BY <1>8 DEF LoopInv, GroupSoFar
  <2>2. CASE Count = 0
    <3>1. regexes = <<>> /\ best_perm = Nil
      BY <1>1, <2>1, <2>2 DEF GroupSoFar, LoopShape, Count
    <3>2. Perms(AllRows) = {}
      BY <1>3, <2>2 DEF Perms
    <3> QED BY <1>8, <3>1, <3>2 DEF LoopsMeetDefinition, Prevails
  <2>3. CASE Count # 0
    <3>1. Largest(1 .. Count)
      BY <1>2, <2>1, <2>3 DEF GroupSoFar, Count
    <3>2. Perms(AllRows) = {regexes[j].permission : j \in 1 .. Count}
      BY <1>3 DEF Perms
    <3>3. Perms(AllRows) \in SUBSET ALL_PERMISSIONS /\ best_perm \in Perms(AllRows)
      BY <1>2, <3>1, <3>2 DEF Largest
    <3>4. \A q \in Perms(AllRows) : compare_permissions(q, best_perm)
      BY <3>1, <3>2 DEF Largest
    <3>5. Prevails(best_perm, Perms(AllRows))
      BY <3>3, <3>4, LargestPrevails
    <3> QED BY <1>8, <3>5 DEF LoopsMeetDefinition
  <2> QED BY <2>2, <2>3
<1> QED BY <1>1, <1>6, <1>7, <1>8 DEF LoopShape

(* utils/permissions.py, utils/workspace_cache.py and repository/_base.py: *)
(* for tables of any size and any order the database returns their rows    *)
(* in, the workspace and group loops end with the denial among their rows, *)
(* if there is one, and otherwise with the permission that allows the most;*)
(* the resource loop with a row of the first matching tier.                *)
THEOREM LoopsComputeTheirSource == LoopSpec => []LoopsMeetDefinition
<1> QED BY LoopStarts, LoopStep, LoopEnds, PTL DEF LoopSpec

-----------------------------------------------------------------------------
(***************************************************************************)
(* BatchResolution.                                                        *)
(***************************************************************************)
PastGids == {"user", "group", "regex", "groupRegex", "resolve", "lookup", "store", "done"}
PastUser == PastGids \ {"user"}
PastGroup == PastUser \ {"group"}
PastRegex == PastGroup \ {"regex"}
Resolving == {"resolve", "lookup", "store", "done"}
Looking == {"lookup", "store"}

ContextShape == [gids : SUBSET Group, direct : [Resource -> PermOrNil], group : [Resource -> PermOrNil],
                 regex : SUBSET RegexRow, groupRegex : SUBSET RegexRow]
OfResource == {"user", "group", "regex", "group-regex"}
OfWorkspace == {"workspace", "workspace-deny"}
Kind == {"fallback"} \cup OfResource \cup OfWorkspace
Result == [permission : ALL_PERMISSIONS, kind : Kind]
WalkShape == [resource : Resource \cup {Nil}, at : Nat, gids : SUBSET Group, found : PermOrNil]
OriginShape == [dbs : SUBSET Database, failed : BOOLEAN]
Here == mlflow_get_request_workspace
BatchShape ==
  /\ db \in Database /\ seen \subseteq Database /\ db \in seen
  /\ pc \in {"idle", "gids"} \cup PastGids /\ header \in Context
  /\ ctx \in ContextShape /\ memo \in PermOrNil \cup {NoMemo}
  /\ wsCache \in [Workspace -> PermOrNil] /\ walk \in WalkShape /\ origin \in [Workspace -> OriginShape]
  /\ results \in [Resource -> Result \cup {Nil}]
  /\ pc \notin Resolving => memo = NoMemo /\ results = [r \in Resource |-> Nil]

(* Each list of the context is that of a database of the call's lifetime. *)
Ids(d) == get_groups_ids_for_user(d, user)
Direct(d) == [r \in Resource |-> d.direct[<<user, r>>]]
OfGroups(d) == [r \in Resource |-> collapse_group_permissions(d, r)]
ContextHeld ==
  /\ pc \in PastGids => \E d \in seen : ctx.gids = Ids(d)
  /\ pc \in PastUser => \E d \in seen : ctx.direct = Direct(d)
  /\ pc \in PastGroup => \E d \in seen : ctx.group = OfGroups(d)
  /\ pc \in PastRegex => \E d \in seen : ctx.regex = list_regex_for_user(d, user)
  /\ pc \in Resolving => \E d, e \in seen : ctx.groupRegex = list_permissions_for_groups_ids(e, Ids(d))

(* What a lookup of workspace w that came to value p has to do with the    *)
(* databases it ran in: a value is one that some source gave, and a lookup *)
(* that ran in one database, and failed nowhere, gave what that says.      *)
Knows(o, w, p) ==
  /\ o.dbs # {}
  /\ p # Nil => \E i \in DOMAIN SourceOrder : Gave(o.dbs, SourceOrder[i], w, p)
  /\ \A d \in Database : o.dbs = {d} /\ ~o.failed => p = lookup_workspace_permission(d, user, w)
Unanswered(o, w, n) ==
  \A d \in Database : o.dbs = {d} /\ ~o.failed =>
    \A j \in DOMAIN SourceOrder : j < n => SourceLookup(d, SourceOrder[j], user, w) = Nil
WalkHeld ==
  /\ memo # NoMemo => Here \in Workspace /\ Knows(origin[Here], Here, memo)
  /\ \A w \in Workspace : wsCache[w] # Nil => Knows(origin[w], w, wsCache[w])
  /\ pc = "store" => walk.found # Nil /\ Knows(origin[Here], Here, walk.found)
  /\ pc = "lookup" => Unanswered(origin[Here], Here, walk.at)
  /\ pc = "lookup" /\ walk.gids # {} => \E d \in origin[Here].dbs : walk.gids = Ids(d)
  /\ pc \in Looking =>
       /\ memo = NoMemo /\ Here \in Workspace /\ db \in origin[Here].dbs
       /\ walk.resource \in Resource /\ results[walk.resource] = Nil /\ walk.at # 0
       /\ resolve_permission_from_context(walk.resource).kind = "fallback"

(* The results, one by one. *)
AllGiven == \A r \in Resource : results[r] # Nil /\ results[r].kind \in OfResource =>
              Gave(seen, results[r].kind, r, results[r].permission)
MemoShown == \A r \in Resource : results[r] # Nil /\ results[r].kind \in OfWorkspace =>
               memo # NoMemo /\ results[r] = WorkspaceResult(memo)

(* In a call that no write has overlapped, up to the workspace's value. *)
Quietly(result, r) ==
  LET g == get_permission_from_store_or_default(db, user, r) IN
  /\ g.kind # "fallback" \/ Here = NoWorkspace => result = g
  /\ g.kind = "fallback" /\ Here # NoWorkspace => result.kind \in OfWorkspace
AsResolved ==
  seen = {db} => \A r \in Resource : results[r] # Nil =>
    Quietly(results[r], r) /\ (results[r].kind = "fallback" => r \in recorded)
Finished == pc = "done" => (\A r \in Resource : results[r] # Nil) /\ returned = filter_manageable(results)

BatchInv == BatchShape /\ ContextHeld /\ WalkHeld /\ AllGiven /\ MemoShown /\ AsResolved /\ Finished

LEMMA BatchStarts == BatchInit => BatchInv
<1> SUFFICES ASSUME BatchInit PROVE BatchInv
  OBVIOUS
<1>1. EmptyCtx \in ContextShape
  BY DEF EmptyCtx, ContextShape, PermOrNil
<1>2. NoWorkspace \in Context
  BY DEF Context
<1>3. db \in Database
  BY BatchAssumption DEF BatchInit
<1>4. NoWalk \in WalkShape
  BY DEF NoWalk, WalkShape, PermOrNil
<1>5. origin \in [Workspace -> OriginShape]
  BY DEF BatchInit, OriginShape
<1>6. BatchShape
  BY <1>1, <1>2, <1>3, <1>4, <1>5 DEF BatchInit, BatchShape, PermOrNil, Resolving
<1>7. ContextHeld
  BY DEF BatchInit, ContextHeld, PastGids, PastUser, PastGroup, PastRegex, Resolving
<1>8. WalkHeld
  BY DEF BatchInit, WalkHeld, Looking
<1> QED BY <1>6, <1>7, <1>8 DEF BatchInit, BatchInv, AllGiven, MemoShown, AsResolved, Finished

(* What was given in some databases was given in more. *)
LEMMA GaveMore ==
  ASSUME NEW S, NEW T, S \subseteq T, NEW source, NEW t, NEW p, Gave(S, source, t, p)
  PROVE  Gave(T, source, t, p)
BY DEF Gave

LEMMA KnowsMore ==
  ASSUME NEW o, NEW n, NEW w, NEW p, o.dbs \subseteq n.dbs, ~n.failed => ~o.failed, Knows(o, w, p)
  PROVE  Knows(n, w, p)
<1>1. n.dbs # {}
  BY DEF Knows
<1>2. p # Nil => \E i \in DOMAIN SourceOrder : Gave(n.dbs, SourceOrder[i], w, p)
  BY GaveMore DEF Knows
<1>3. ASSUME NEW d \in Database, n.dbs = {d}, ~n.failed PROVE p = lookup_workspace_permission(d, user, w)
  <2>1. o.dbs = {d} /\ ~o.failed
    BY <1>3 DEF Knows
  <2> QED BY <2>1 DEF Knows
<1> QED BY <1>1, <1>2, <1>3 DEF Knows

LEMMA UnansweredMore ==
  ASSUME NEW o, NEW n, NEW w, NEW k, o.dbs # {}, o.dbs \subseteq n.dbs, ~n.failed => ~o.failed, Unanswered(o, w, k)
  PROVE  Unanswered(n, w, k)
<1> SUFFICES ASSUME NEW d \in Database, n.dbs = {d}, ~n.failed,
                    NEW j \in DOMAIN SourceOrder, j < k
             PROVE  SourceLookup(d, SourceOrder[j], user, w) = Nil
  BY DEF Unanswered
<1>1. o.dbs = {d} /\ ~o.failed
  OBVIOUS
<1> QED BY <1>1 DEF Unanswered

(* The first source that answers is the one that counts. *)
LEMMA FirstIsAnswer ==
  ASSUME NEW d, NEW u, NEW w, NEW i \in DOMAIN SourceOrder, SourceLookup(d, SourceOrder[i], u, w) # Nil,
         \A j \in DOMAIN SourceOrder : j < i => SourceLookup(d, SourceOrder[j], u, w) = Nil
  PROVE  lookup_workspace_permission(d, u, w) = SourceLookup(d, SourceOrder[i], u, w)
BY WalkStops DEF lookup_workspace_permission

(* One source has been asked: v is its answer. *)
LEMMA Heard ==
  ASSUME NEW o \in OriginShape, NEW w, NEW n \in DOMAIN SourceOrder, NEW v, o.dbs # {}, Unanswered(o, w, n),
         Gave(o.dbs, SourceOrder[n], w, v),
         \A d \in Database : o.dbs = {d} => v = SourceLookup(d, SourceOrder[n], user, w)
  PROVE  (v = Nil => Unanswered(o, w, n + 1)) /\ (v # Nil => Knows(o, w, v))
<1>0. n \in Nat /\ DOMAIN SourceOrder \subseteq Nat
  BY OrderAssumption
<1>1. ASSUME v = Nil PROVE Unanswered(o, w, n + 1)
  <2> SUFFICES ASSUME NEW d \in Database, o.dbs = {d}, ~o.failed,
                      NEW j \in DOMAIN SourceOrder, j < n + 1
               PROVE  SourceLookup(d, SourceOrder[j], user, w) = Nil
    BY DEF Unanswered
  <2>1. CASE j = n
    BY <1>1, <2>1
  <2>2. CASE j < n
    BY <2>2 DEF Unanswered
  <2>3. j \in Nat
    BY <1>0
  <2> QED BY <1>0, <2>1, <2>2, <2>3
<1>2. ASSUME v # Nil PROVE Knows(o, w, v)
  <2>1. ASSUME NEW d \in Database, o.dbs = {d}, ~o.failed
        PROVE  v = lookup_workspace_permission(d, user, w)
    <3>1. v = SourceLookup(d, SourceOrder[n], user, w)
      BY <2>1
    <3>2. \A j \in DOMAIN SourceOrder : j < n => SourceLookup(d, SourceOrder[j], user, w) = Nil
      BY <2>1 DEF Unanswered
    <3> QED BY <1>2, <3>1, <3>2, FirstIsAnswer
  <2> QED BY <2>1 DEF Knows
<1> QED BY <1>1, <1>2

LEMMA GroupsAgree ==
  ASSUME NEW d, NEW r
  PROVE  SourceLookup(d, "group", user, r) = collapse_group_permissions(d, r)
BY DEF SourceLookup, get_group_permission_for_user_resource, collapse_group_permissions

LEMMA FetchedTypes ==
  ASSUME NEW d \in Database
  PROVE  /\ Ids(d) \in SUBSET Group /\ Direct(d) \in [Resource -> PermOrNil] /\ OfGroups(d) \in [Resource -> PermOrNil]
         /\ list_regex_for_user(d, user) \in SUBSET RegexRow
         /\ \A gs : list_permissions_for_groups_ids(d, gs) \in SUBSET RegexRow
<1>1. user \in User
  BY BatchAssumption
<1>2. Ids(d) \in SUBSET Group
  BY DEF Ids, get_groups_ids_for_user
<1>3. Direct(d) \in [Resource -> PermOrNil]
  BY <1>1 DEF Direct, Database, Holder, Target, PermOrNil
<1>4. ASSUME NEW r \in Resource PROVE collapse_group_permissions(d, r) \in PermOrNil
  BY <1>1, GroupsAgree, SourceLookupType DEF Target
<1>5. OfGroups(d) \in [Resource -> PermOrNil]
  BY <1>4 DEF OfGroups
<1> QED BY <1>2, <1>3, <1>5 DEF Database, list_regex_for_user, list_permissions_for_groups_ids

(* The decision from the context is a function of the context. *)
LEMMA SameContext ==
  ASSUME UNCHANGED <<header, ctx>>
  PROVE  Here' = Here /\ \A r : resolve_permission_from_context(r)' = resolve_permission_from_context(r)
BY DEF Here, mlflow_get_request_workspace, resolve_permission_from_context, FromContext

(* A step of the call that leaves the databases and the results alone.     *)
LEMMA BatchBegins ==
  ASSUME BatchInv, NEW x \in Context, BeginBatch(x)
  PROVE  BatchInv'
<1> USE DEF BatchInv
<1>1. pc = "idle" /\ memo = NoMemo /\ results = [r \in Resource |-> Nil]
  BY DEF BeginBatch, BatchShape, Resolving
<1>2. /\ pc' = "gids" /\ header' = x /\ seen' = {db}
      /\ UNCHANGED <<db, ctx, memo, wsCache, walk, results, recorded, returned, origin>>
  BY DEF BeginBatch
<1>3. BatchShape'
  BY <1>1, <1>2 DEF BatchShape, Context
<1>4. ContextHeld'
  BY <1>2 DEF ContextHeld, PastGids, PastUser, PastGroup, PastRegex, Resolving
<1>5. WalkHeld'
  BY <1>1, <1>2 DEF WalkHeld, Looking
<1> QED BY <1>1, <1>2, <1>3, <1>4, <1>5 DEF AllGiven, MemoShown, AsResolved, Finished

LEMMA BatchFetches ==
  ASSUME BatchInv, NEW at, NEW next, NEW fetched, FetchInto(at, next, fetched),
         at \notin Resolving, next \in PastGids \ {"lookup", "store", "done"}, fetched \in ContextShape, ContextHeld'
  PROVE  BatchInv'
<1> USE DEF BatchInv
<1>1. /\ pc = at /\ pc' = next /\ ctx' = fetched
      /\ UNCHANGED <<db, header, memo, wsCache, walk, results, recorded, returned, seen, origin>>
  BY DEF FetchInto
<1>2. memo = NoMemo /\ results = [r \in Resource |-> Nil]
  BY <1>1 DEF BatchShape
<1>3. BatchShape'
  BY <1>1, <1>2 DEF BatchShape
<1>4. WalkHeld'
  BY <1>1, <1>2 DEF WalkHeld, Looking
<1>5. AllGiven' /\ MemoShown' /\ AsResolved' /\ Finished'
  BY <1>1, <1>2 DEF AllGiven, MemoShown, AsResolved, Finished, PastGids
<1> QED BY <1>3, <1>4, <1>5

LEMMA BatchBuilds ==
  ASSUME BatchInv,
         FetchGroupIds \/ FetchUserPermissions \/ FetchGroupPermissions \/ FetchRegexPermissions \/ FetchGroupRegexPermissions
  PROVE  BatchInv'
<1> USE DEF BatchInv
<1> USE DEF PastGids, PastUser, PastGroup, PastRegex, Resolving
<1>1. ctx \in ContextShape /\ db \in Database /\ db \in seen
  BY DEF BatchShape
<1>2. CASE FetchGroupIds
  <2> DEFINE new == [ctx EXCEPT !.gids = Ids(db)]
  <2>1. FetchInto("gids", "user", new)
    BY <1>2 DEF FetchGroupIds, Ids
  <2>2. new \in ContextShape /\ new.gids = Ids(db)
    BY <1>1, FetchedTypes DEF ContextShape
  <2>3. ContextHeld'
    BY <1>1, <2>1, <2>2 DEF FetchInto, ContextHeld
  <2> QED BY <2>1, <2>2, <2>3, BatchFetches
<1>3. CASE FetchUserPermissions
  <2> DEFINE new == [ctx EXCEPT !.direct = Direct(db)]
  <2>1. FetchInto("user", "group", new)
    BY <1>3 DEF FetchUserPermissions, Direct
  <2>2. new \in ContextShape /\ new.direct = Direct(db) /\ new.gids = ctx.gids
    BY <1>1, FetchedTypes DEF ContextShape
  <2>3. ContextHeld'
    BY <1>1, <2>1, <2>2 DEF FetchInto, ContextHeld
  <2> QED BY <2>1, <2>2, <2>3, BatchFetches
<1>4. CASE FetchGroupPermissions
  <2> DEFINE new == [ctx EXCEPT !.group = OfGroups(db)]
  <2>1. FetchInto("group", "regex", new)
    BY <1>4 DEF FetchGroupPermissions, OfGroups
  <2>2. new \in ContextShape /\ new.group = OfGroups(db) /\ new.gids = ctx.gids /\ new.direct = ctx.direct
    BY <1>1, FetchedTypes DEF ContextShape
  <2>3. ContextHeld'
    BY <1>1, <2>1, <2>2 DEF FetchInto, ContextHeld
  <2> QED BY <2>1, <2>2, <2>3, BatchFetches
<1>5. CASE FetchRegexPermissions
  <2> DEFINE new == [ctx EXCEPT !.regex = list_regex_for_user(db, user)]
  <2>1. FetchInto("regex", "groupRegex", new)
    BY <1>5 DEF FetchRegexPermissions
  <2>2. /\ new \in ContextShape /\ new.regex = list_regex_for_user(db, user)
        /\ new.gids = ctx.gids /\ new.direct = ctx.direct /\ new.group = ctx.group
    BY <1>1, FetchedTypes DEF ContextShape
  <2>3. ContextHeld'
    BY <1>1, <2>1, <2>2 DEF FetchInto, ContextHeld
  <2> QED BY <2>1, <2>2, <2>3, BatchFetches
<1>6. CASE FetchGroupRegexPermissions
  <2> DEFINE new == [ctx EXCEPT !.groupRegex = list_permissions_for_groups_ids(db, ctx.gids)]
  <2>1. FetchInto("groupRegex", "resolve", new)
    BY <1>6 DEF FetchGroupRegexPermissions
  <2>2. /\ new \in ContextShape /\ new.groupRegex = list_permissions_for_groups_ids(db, ctx.gids)
        /\ new.gids = ctx.gids /\ new.direct = ctx.direct /\ new.group = ctx.group /\ new.regex = ctx.regex
    BY <1>1, FetchedTypes DEF ContextShape
  <2>3. PICK d \in seen : ctx.gids = Ids(d)
    BY <2>1 DEF FetchInto, ContextHeld
  <2>4. ContextHeld'
    BY <1>1, <2>1, <2>2, <2>3 DEF FetchInto, ContextHeld
  <2> QED BY <2>1, <2>2, <2>4, BatchFetches
<1> QED BY <1>2, <1>3, <1>4, <1>5, <1>6

(* What a source answers from the context, a database of the call's        *)
(* lifetime answered.                                                      *)
LEMMA FromContextHeld ==
  ASSUME BatchInv, pc = "resolve", NEW r \in Resource, NEW s, FromContext(s, r) # Nil
  PROVE  s \in OfResource /\ FromContext(s, r) \in ALL_PERMISSIONS /\ Gave(seen, s, r, FromContext(s, r))
<1> USE DEF BatchInv, PastGids, PastUser, PastGroup, PastRegex, Resolving
<1> DEFINE p == FromContext(s, r)
<1>1. s \in OfResource
  BY DEF FromContext, OfResource
<1>2. user \in User /\ r \in Target /\ r \notin Workspace /\ seen \subseteq Database /\ ctx \in ContextShape
  BY BatchAssumption, NamesAssumption DEF Target, BatchShape
<1>3. \A rows : MatchRegex(rows, r) = match_regex_permission(rows, r)
  BY <1>2 DEF MatchRegex
<1>4. ASSUME NEW d \in seen, SourceLookup(d, s, user, r) = p, s # "group-regex"
      PROVE  p \in ALL_PERMISSIONS /\ Gave(seen, s, r, p)
  <2>1. p \in ALL_PERMISSIONS
    BY <1>2, <1>4, SourceLookupType DEF PermOrNil
  <2> QED BY <1>4, <2>1 DEF Gave
<1>5. CASE s = "user"
  <2>1. PICK d \in seen : ctx.direct = Direct(d)
    BY DEF ContextHeld
  <2>2. SourceLookup(d, s, user, r) = p
    BY <1>5, <2>1 DEF SourceLookup, FromContext, Direct
  <2> QED BY <1>1, <1>4, <1>5, <2>2
<1>6. CASE s = "group"
  <2>1. PICK d \in seen : ctx.group = OfGroups(d)
    BY DEF ContextHeld
  <2>2. p = collapse_group_permissions(d, r)
    BY <1>6, <2>1 DEF FromContext, OfGroups
  <2>3. SourceLookup(d, s, user, r) = p
    BY <1>6, <2>2, GroupsAgree
  <2> QED BY <1>1, <1>4, <1>6, <2>3
<1>7. CASE s = "regex"
  <2>1. PICK d \in seen : ctx.regex = list_regex_for_user(d, user)
    BY DEF ContextHeld
  <2>2. SourceLookup(d, s, user, r) = p
    BY <1>3, <1>7, <2>1 DEF SourceLookup, FromContext
  <2> QED BY <1>1, <1>4, <1>7, <2>2
<1>8. CASE s = "group-regex"
  <2>1. PICK d \in seen, e \in seen : ctx.groupRegex = list_permissions_for_groups_ids(e, Ids(d))
    BY DEF ContextHeld
  <2>2. p = MatchRegex(ctx.groupRegex, r)
    BY <1>3, <1>8 DEF FromContext
  <2>3. ctx.groupRegex \in SUBSET RegexRow
    BY <1>2 DEF ContextShape
  <2>4. p \in ALL_PERMISSIONS
    BY <1>2, <2>2, <2>3, MatchRegexType DEF PermOrNil
  <2> HIDE DEF p
  <2>5. Gave(seen, s, r, p)
    BY <1>8, <2>1, <2>2 DEF Gave, Ids
  <2> QED BY <1>1, <2>4, <2>5 DEF p
<1> QED BY <1>1, <1>5, <1>6, <1>7, <1>8 DEF OfResource

(* In a quiet call the context answers what the database answers. *)
LEMMA QuietContext ==
  ASSUME BatchInv, pc \in Resolving, seen = {db}, NEW r \in Resource
  PROVE  resolve_permission_from_context(r) = get_permission_from_store_or_default(db, user, r)
<1> USE DEF BatchInv, PastGids, PastUser, PastGroup, PastRegex, Resolving
<1>1. r \notin Workspace
  BY NamesAssumption
<1>2. /\ ctx.direct = Direct(db) /\ ctx.group = OfGroups(db) /\ ctx.regex = list_regex_for_user(db, user)
      /\ ctx.groupRegex = list_permissions_for_groups_ids(db, get_groups_ids_for_user(db, user))
  BY DEF ContextHeld, Ids
<1>3. ctx.direct[r] = db.direct[<<user, r>>] /\ ctx.group[r] = collapse_group_permissions(db, r)
  BY <1>2 DEF Direct, OfGroups
<1>4. \A rows : MatchRegex(rows, r) = match_regex_permission(rows, r)
  BY <1>1 DEF MatchRegex
<1>5. ASSUME NEW s PROVE FromContext(s, r) = SourceLookup(db, s, user, r)
  BY <1>2, <1>3, <1>4, GroupsAgree DEF FromContext, SourceLookup
<1>6. {i \in DOMAIN SourceOrder : FromContext(SourceOrder[i], r) # Nil} = Answering(db, user, r)
  BY <1>5 DEF Answering
<1> QED BY <1>5, <1>6 DEF resolve_permission_from_context, get_permission_from_store_or_default, FirstAnswering

(* A resource decided from the context is decided by one of its sources. *)
LEMMA ContextDecides ==
  ASSUME BatchInv, pc = "resolve", NEW r \in Resource
  PROVE  LET result == resolve_permission_from_context(r)
         IN  /\ result \in Result /\ result.kind \in OfResource \cup {"fallback"}
             /\ result.kind \in OfResource => Gave(seen, result.kind, r, result.permission)
<1> DEFINE result == resolve_permission_from_context(r)
           ans == {i \in DOMAIN SourceOrder : FromContext(SourceOrder[i], r) # Nil}
           first == CHOOSE i \in ans : \A j \in ans : i <= j
           Held(res) == /\ res \in Result /\ res.kind \in OfResource \cup {"fallback"}
                        /\ res.kind \in OfResource => Gave(seen, res.kind, r, res.permission)
<1> SUFFICES Held(result)
  OBVIOUS
<1>1. CASE ans = {}
  <2>1. result = [permission |-> DefaultPermission, kind |-> "fallback"]
    BY <1>1 DEF resolve_permission_from_context
  <2>2. result.kind = "fallback" /\ result \in Result
    BY <2>1, DefaultAssumption DEF Result, Kind
  <2> HIDE DEF result
  <2> QED BY <2>2 DEF OfResource
<1>2. CASE ans # {}
  <2>1. result = [permission |-> FromContext(SourceOrder[first], r), kind |-> SourceOrder[first]]
    BY <1>2 DEF resolve_permission_from_context
  <2>2. ans \in SUBSET Nat
    BY OrderAssumption
  <2>3. first \in ans
    <3> HIDE DEF ans
    <3>1. \E i \in ans : \A j \in ans : i <= j
      BY <1>2, <2>2, LeastExists
    <3> QED BY <3>1
  <2> DEFINE s == SourceOrder[first]
             p == FromContext(s, r)
  <2>4. p # Nil
    BY <2>3
  <2>5. s \in OfResource /\ p \in ALL_PERMISSIONS /\ Gave(seen, s, r, p)
    BY <2>4, FromContextHeld
  <2>6. result = [permission |-> p, kind |-> s] /\ s \in Kind
    BY <2>1, <2>5 DEF Kind
  <2> HIDE DEF result, s, p
  <2>7. result \in Result /\ result.kind = s /\ result.permission = p
    BY <2>5, <2>6 DEF Result, Kind
  <2> QED BY <2>5, <2>7
<1> QED BY <1>1, <1>2

LEMMA WorkspaceResultType ==
  ASSUME NEW p \in PermOrNil
  PROVE  WorkspaceResult(p) \in Result /\ WorkspaceResult(p).kind \in OfWorkspace
<1>1. CASE p # Nil
  <2>1. WorkspaceResult(p) = [permission |-> p, kind |-> "workspace"] /\ p \in ALL_PERMISSIONS
    BY <1>1 DEF WorkspaceResult, PermOrNil
  <2> QED BY <2>1 DEF Result, Kind, OfWorkspace
<1>2. CASE p = Nil
  <2>1. WorkspaceResult(p) = [permission |-> "NO_PERMISSIONS", kind |-> "workspace-deny"]
    BY <1>2 DEF WorkspaceResult
  <2> QED BY <2>1 DEF Result, Kind, OfWorkspace, ALL_PERMISSIONS
<1> QED BY <1>1, <1>2

LEMMA MemoNames ==
  ASSUME NEW p \in PermOrNil
  PROVE  p # NoMemo
BY BatchAssumption DEF PermOrNil, NoMemo, ALL_PERMISSIONS

(* A resource whose own sources say nothing takes the workspace's value.   *)
LEMMA BatchSettles ==
  ASSUME BatchInv, NEW r \in Resource, NEW p \in PermOrNil, Settle(r, p), results[r] = Nil,
         resolve_permission_from_context(r).kind = "fallback",
         Here \in Workspace, memo \in {NoMemo, p}, Knows(origin[Here], Here, p),
         pc \in {"resolve", "lookup", "store"}, pc' = "resolve", walk' \in WalkShape,
         wsCache' \in [Workspace -> PermOrNil],
         \A w \in Workspace : wsCache'[w] # Nil => Knows(origin[w], w, wsCache'[w]),
         UNCHANGED <<db, header, ctx, returned, seen, origin>>, recorded \subseteq recorded'
  PROVE  BatchInv'
<1> USE DEF BatchInv
<1> DEFINE new == WorkspaceResult(p)
<1>1. memo' = p /\ results' = [results EXCEPT ![r] = new]
  BY DEF Settle
<1>2. new \in Result /\ new.kind \in OfWorkspace /\ p # NoMemo
  BY WorkspaceResultType, MemoNames
<1> HIDE DEF new
<1>3. results \in [Resource -> Result \cup {Nil}]
  BY DEF BatchShape
<1>4. /\ results'[r] = new /\ \A q \in Resource : q # r => results'[q] = results[q]
      /\ results' \in [Resource -> Result \cup {Nil}]
  BY <1>1, <1>2, <1>3
<1>5. Here' = Here
  BY SameContext
<1>6. BatchShape'
  BY <1>1, <1>4 DEF BatchShape, Resolving, PastGids
<1>7. ContextHeld'
  BY DEF ContextHeld, PastGids, PastUser, PastGroup, PastRegex, Resolving
<1>8. WalkHeld'
  BY <1>1, <1>5 DEF WalkHeld, Looking
<1>9. AllGiven'
  BY <1>2, <1>4 DEF AllGiven, OfResource, OfWorkspace
<1>10. MemoShown'
  <2> SUFFICES ASSUME NEW q \in Resource, results'[q] # Nil, results'[q].kind \in OfWorkspace
               PROVE  memo' # NoMemo /\ results'[q] = WorkspaceResult(memo')
    BY DEF MemoShown, WorkspaceResult
  <2>1. CASE q = r
    BY <1>1, <1>2, <1>4, <2>1 DEF new
  <2>2. CASE q # r
    <3>1. memo # NoMemo /\ results[q] = WorkspaceResult(memo)
      BY <1>4, <2>2 DEF MemoShown
    <3> QED BY <1>1, <1>4, <2>2, <3>1
  <2> QED BY <2>1, <2>2
<1>11. AsResolved'
  <2> SUFFICES ASSUME seen = {db}, NEW q \in Resource, results'[q] # Nil
               PROVE  Quietly(results'[q], q) /\ (results'[q].kind = "fallback" => q \in recorded')
    BY <1>5 DEF AsResolved, Quietly
  <2>1. CASE q = r
    <3>1. get_permission_from_store_or_default(db, user, r).kind = "fallback" /\ Here # NoWorkspace
      BY QuietContext, NamesAssumption DEF Resolving
    <3>2. new.kind # "fallback"
      BY <1>2 DEF OfWorkspace
    <3> QED BY <1>2, <1>4, <2>1, <3>1, <3>2 DEF Quietly
  <2>2. CASE q # r
    BY <1>4, <2>2 DEF AsResolved
  <2> QED BY <2>1, <2>2
<1>12. Finished'
  BY DEF Finished
<1> QED BY <1>6, <1>7, <1>8, <1>9, <1>10, <1>11, <1>12

(* A resource that its own sources, or the configured default, decide. *)
LEMMA BatchNotes ==
  ASSUME BatchInv, NEW r \in Resource, pc = "resolve", results[r] = Nil,
         results' = [results EXCEPT ![r] = resolve_permission_from_context(r)],
         resolve_permission_from_context(r).kind # "fallback" \/ Here = NoWorkspace,
         resolve_permission_from_context(r).kind = "fallback" => r \in recorded',
         recorded \subseteq recorded',
         UNCHANGED <<db, pc, header, ctx, memo, wsCache, walk, returned, seen, origin>>
  PROVE  BatchInv'
<1> USE DEF BatchInv
<1> DEFINE new == resolve_permission_from_context(r)
<1>1. /\ new \in Result /\ new.kind \in OfResource \cup {"fallback"}
      /\ new.kind \in OfResource => Gave(seen, new.kind, r, new.permission)
  BY ContextDecides
<1>2. /\ results' = [results EXCEPT ![r] = new] /\ (new.kind = "fallback" => r \in recorded')
      /\ new.kind # "fallback" \/ Here = NoWorkspace
  OBVIOUS
<1>3. seen = {db} => new = get_permission_from_store_or_default(db, user, r)
  BY QuietContext DEF Resolving
<1> HIDE DEF new
<1>4. results \in [Resource -> Result \cup {Nil}]
  BY DEF BatchShape
<1>5. /\ results'[r] = new /\ \A q \in Resource : q # r => results'[q] = results[q]
      /\ results' \in [Resource -> Result \cup {Nil}]
  BY <1>1, <1>2, <1>4
<1>6. Here' = Here
  BY SameContext
<1>7. BatchShape'
  BY <1>5 DEF BatchShape, Resolving
<1>8. ContextHeld'
  BY DEF ContextHeld
<1>9. WalkHeld'
  BY <1>6 DEF WalkHeld, Looking
<1>10. AllGiven'
  BY <1>1, <1>5 DEF AllGiven
<1>11. MemoShown'
  <2> SUFFICES ASSUME NEW q \in Resource, results'[q] # Nil, results'[q].kind \in OfWorkspace
               PROVE  memo' # NoMemo /\ results'[q] = WorkspaceResult(memo')
    BY DEF MemoShown, WorkspaceResult
  <2>1. q # r
    BY <1>1, <1>5 DEF OfResource, OfWorkspace
  <2> QED BY <1>5, <2>1 DEF MemoShown
<1>12. AsResolved'
  <2> SUFFICES ASSUME seen = {db}, NEW q \in Resource, results'[q] # Nil
               PROVE  Quietly(results'[q], q) /\ (results'[q].kind = "fallback" => q \in recorded')
    BY <1>6 DEF AsResolved, Quietly
  <2>1. CASE q = r
    BY <1>2, <1>3, <1>5, <2>1 DEF Quietly
  <2>2. CASE q # r
    BY <1>5, <2>2 DEF AsResolved
  <2> QED BY <2>1, <2>2
<1>13. Finished'
  BY DEF Finished
<1> QED BY <1>7, <1>8, <1>9, <1>10, <1>11, <1>12, <1>13

(* A step of the workspace lookup: only the walk moves. *)
LEMMA BatchWalks ==
  ASSUME BatchInv, pc \in {"resolve", "lookup"}, memo = NoMemo, Here \in Workspace, wsCache[Here] = Nil \/ pc = "lookup",
         OnlyTheWalk \/ (UNCHANGED <<db, header, ctx, memo, wsCache, results, returned, seen>> /\ recorded \subseteq recorded'),
         pc' \in Looking, walk' \in WalkShape, walk'.at # 0,
         walk'.resource \in Resource, results[walk'.resource] = Nil,
         resolve_permission_from_context(walk'.resource).kind = "fallback",
         origin' \in [Workspace -> OriginShape], db \in origin'[Here].dbs,
         \A w \in Workspace : w # Here \/ pc = "lookup" =>
           origin[w].dbs = origin'[w].dbs /\ (origin[w].failed => origin'[w].failed),
         pc' = "store" => walk'.found # Nil /\ Knows(origin'[Here], Here, walk'.found),
         pc' = "lookup" => Unanswered(origin'[Here], Here, walk'.at),
         pc' = "lookup" /\ walk'.gids # {} => \E d \in origin'[Here].dbs : walk'.gids = Ids(d)
  PROVE  BatchInv'
<1> USE DEF BatchInv
<1>1. UNCHANGED <<db, header, ctx, memo, wsCache, results, returned, seen>> /\ recorded \subseteq recorded'
  BY DEF OnlyTheWalk
<1>2. Here' = Here /\ \A r : resolve_permission_from_context(r)' = resolve_permission_from_context(r)
  BY <1>1, SameContext
<1>3. BatchShape'
  BY <1>1 DEF BatchShape, Resolving, PastGids, Looking
<1>4. ContextHeld'
  BY <1>1 DEF ContextHeld, PastGids, PastUser, PastGroup, PastRegex, Resolving, Looking
<1>5. ASSUME NEW w \in Workspace, wsCache[w] # Nil PROVE Knows(origin'[w], w, wsCache[w])
  <2>1. Knows(origin[w], w, wsCache[w])
    BY <1>5 DEF WalkHeld
  <2>2. origin[w].dbs = origin'[w].dbs /\ (origin[w].failed => origin'[w].failed)
    BY <1>5
  <2> QED BY <2>1, <2>2, KnowsMore
<1>6. WalkHeld'
  <2>1. resolve_permission_from_context(walk.resource)'.kind = "fallback"
    BY <1>1 DEF resolve_permission_from_context, FromContext
  <2>2. (pc \in Looking)' => (/\ memo = NoMemo /\ Here \in Workspace /\ db \in origin[Here].dbs
                            /\ walk.resource \in Resource /\ results[walk.resource] = Nil /\ walk.at # 0
                            /\ resolve_permission_from_context(walk.resource).kind = "fallback")'
    BY <1>1, <1>2, <2>1
  <2>3. (memo # NoMemo => Here \in Workspace /\ Knows(origin[Here], Here, memo))'
    BY <1>1
  <2>4. (\A w \in Workspace : wsCache[w] # Nil => Knows(origin[w], w, wsCache[w]))'
    BY <1>1, <1>5
  <2>5. /\ (pc = "store" => walk.found # Nil /\ Knows(origin[Here], Here, walk.found))'
        /\ (pc = "lookup" => Unanswered(origin[Here], Here, walk.at))'
        /\ (pc = "lookup" /\ walk.gids # {} => \E d \in origin[Here].dbs : walk.gids = Ids(d))'
    BY <1>2
  <2> QED BY <2>2, <2>3, <2>4, <2>5 DEF WalkHeld
<1>7. AllGiven' /\ MemoShown'
  BY <1>1 DEF AllGiven, MemoShown
<1>8. AsResolved'
  BY <1>1, <1>2 DEF AsResolved, Quietly
<1>9. Finished'
  BY DEF Finished, Looking
<1> QED BY <1>3, <1>4, <1>6, <1>7, <1>8, <1>9

LEMMA BatchDecides ==
  ASSUME BatchInv, NEW r \in Resource, ResolveOne(r)
  PROVE  BatchInv'
<1> USE DEF BatchInv
<1> DEFINE result == resolve_permission_from_context(r)
<1>1. /\ pc = "resolve" /\ results[r] = Nil /\ UNCHANGED <<db, header, ctx, wsCache, returned, seen>>
      /\ recorded' = IF result.kind = "fallback" THEN recorded \cup {r} ELSE recorded
  BY DEF ResolveOne
<1>2. recorded \subseteq recorded' /\ (result.kind = "fallback" => r \in recorded')
  BY <1>1
<1>3. Here \in Workspace \cup {NoWorkspace}
  BY BatchAssumption DEF Here, mlflow_get_request_workspace, BatchShape, Context
<1>4. CASE result.kind # "fallback" \/ Here = NoWorkspace
  <2>1. results' = [results EXCEPT ![r] = result] /\ UNCHANGED <<pc, memo, walk, origin>>
    BY <1>4 DEF ResolveOne, Here
  <2> QED BY <1>1, <1>2, <1>4, <2>1, BatchNotes
<1>5. CASE ~(result.kind # "fallback" \/ Here = NoWorkspace)
  <2>1. Here \in Workspace /\ result.kind = "fallback"
    BY <1>3, <1>5
  <2>2. \/ memo # NoMemo /\ Settle(r, memo) /\ UNCHANGED <<pc, walk, origin>>
        \/ memo = NoMemo /\ wsCache[Here] # Nil /\ Settle(r, wsCache[Here]) /\ UNCHANGED <<pc, walk, origin>>
        \/ /\ memo = NoMemo /\ wsCache[Here] = Nil
           /\ pc' = "lookup" /\ walk' = [NoWalk EXCEPT !.resource = r, !.at = 1]
           /\ origin' = [origin EXCEPT ![Here] = [dbs |-> {db}, failed |-> FALSE]]
           /\ UNCHANGED <<memo, results>>
    BY <1>5 DEF ResolveOne, Here
  <2>3. /\ wsCache \in [Workspace -> PermOrNil] /\ walk \in WalkShape
        /\ \A w \in Workspace : wsCache[w] # Nil => Knows(origin[w], w, wsCache[w])
    BY DEF BatchShape, WalkHeld
  <2>4. CASE memo # NoMemo /\ Settle(r, memo) /\ UNCHANGED <<pc, walk, origin>>
    <3>1. memo \in PermOrNil /\ Knows(origin[Here], Here, memo)
      BY <2>4 DEF BatchShape, WalkHeld
    <3> QED BY <1>1, <1>2, <2>1, <2>3, <2>4, <3>1, BatchSettles
  <2>5. CASE memo = NoMemo /\ wsCache[Here] # Nil /\ Settle(r, wsCache[Here]) /\ UNCHANGED <<pc, walk, origin>>
    <3>1. wsCache[Here] \in PermOrNil /\ Knows(origin[Here], Here, wsCache[Here])
      BY <2>1, <2>3, <2>5
    <3> QED BY <1>1, <1>2, <2>1, <2>3, <2>5, <3>1, BatchSettles
  <2>6. CASE /\ memo = NoMemo /\ wsCache[Here] = Nil
             /\ pc' = "lookup" /\ walk' = [NoWalk EXCEPT !.resource = r, !.at = 1]
             /\ origin' = [origin EXCEPT ![Here] = [dbs |-> {db}, failed |-> FALSE]]
             /\ UNCHANGED <<memo, results>>
    <3>1. walk' \in WalkShape /\ walk'.at = 1 /\ walk'.resource = r /\ walk'.gids = {}
      BY <2>6 DEF NoWalk, WalkShape, PermOrNil
    <3>2. origin \in [Workspace -> OriginShape] /\ db \in Database
      BY DEF BatchShape
    <3>3. [dbs |-> {db}, failed |-> FALSE] \in OriginShape
      BY <3>2 DEF OriginShape
    <3>4. /\ origin' \in [Workspace -> OriginShape] /\ db \in origin'[Here].dbs
          /\ \A w \in Workspace : w # Here => origin'[w] = origin[w]
      BY <2>1, <2>6, <3>2, <3>3
    <3>5. Unanswered(origin'[Here], Here, 1)
      BY OrderAssumption DEF Unanswered
    <3> QED BY <1>1, <1>2, <2>1, <2>6, <3>1, <3>4, <3>5, BatchWalks DEF Looking
  <2> QED BY <2>2, <2>4, <2>5, <2>6
<1> QED BY <1>4, <1>5

(* Where a lookup under way stands. *)
LEMMA WalkTypes ==
  ASSUME BatchInv, pc \in Looking
  PROVE  /\ walk \in WalkShape /\ origin \in [Workspace -> OriginShape] /\ Here \in Workspace
         /\ db \in origin[Here].dbs /\ db \in Database /\ user \in User /\ Here \in Target
         /\ memo = NoMemo /\ walk.resource \in Resource /\ results[walk.resource] = Nil /\ walk.at # 0
         /\ resolve_permission_from_context(walk.resource).kind = "fallback"
BY BatchAssumption DEF BatchInv, BatchShape, WalkHeld, Target

(* A source has answered v, or is passed over after a failure. *)
LEMMA BatchHears ==
  ASSUME BatchInv, Asking, NEW v \in PermOrNil, Answer(v), OnlyTheWalk, UNCHANGED origin,
         Gave(origin[Here].dbs, SourceOrder[walk.at], Here, v),
         \A d \in Database : origin[Here].dbs = {d} => v = SourceLookup(d, SourceOrder[walk.at], user, Here)
  PROVE  BatchInv'
<1>1. pc = "lookup" /\ walk.at <= Len(SourceOrder)
  BY DEF Asking
<1>2. /\ walk \in WalkShape /\ origin \in [Workspace -> OriginShape] /\ Here \in Workspace
      /\ db \in origin[Here].dbs /\ memo = NoMemo /\ walk.resource \in Resource /\ results[walk.resource] = Nil
      /\ walk.at # 0 /\ resolve_permission_from_context(walk.resource).kind = "fallback"
  BY <1>1, WalkTypes DEF Looking
<1>3. walk.at \in DOMAIN SourceOrder /\ walk.at \in Nat
  BY <1>1, <1>2, OrderAssumption DEF WalkShape
<1>4. Unanswered(origin[Here], Here, walk.at)
  BY <1>1 DEF BatchInv, WalkHeld
<1>5. origin[Here] \in OriginShape
  BY <1>2
<1>6. (v = Nil => Unanswered(origin[Here], Here, walk.at + 1)) /\ (v # Nil => Knows(origin[Here], Here, v))
  BY <1>2, <1>3, <1>4, <1>5, Heard
<1>7. CASE v = Nil
  <2>1. walk' = [walk EXCEPT !.at = @ + 1, !.gids = {}] /\ pc' = "lookup"
    BY <1>1, <1>7 DEF Answer, NextSource
  <2>2. walk.at + 1 \in Nat /\ walk.at + 1 # 0
    BY <1>3
  <2>3. walk' \in WalkShape /\ walk'.at = walk.at + 1 /\ walk'.gids = {} /\ walk'.resource = walk.resource
    BY <1>2, <2>1, <2>2 DEF WalkShape
  <2> QED BY <1>1, <1>2, <1>6, <1>7, <2>1, <2>2, <2>3, BatchWalks DEF Looking
<1>8. CASE v # Nil
  <2>1. walk' = [walk EXCEPT !.found = v] /\ pc' = "store"
    BY <1>8 DEF Answer
  <2>2. walk' \in WalkShape /\ walk'.at = walk.at /\ walk'.found = v /\ walk'.resource = walk.resource
    BY <1>2, <2>1 DEF WalkShape
  <2> QED BY <1>1, <1>2, <1>6, <1>8, <2>1, <2>2, BatchWalks DEF Looking
<1> QED BY <1>7, <1>8

LEMMA BatchReads ==
  ASSUME BatchInv, ReadWorkspaceSource \/ ReadWorkspaceGroups \/ ReadWorkspaceGroupRegex \/ WorkspaceReadFails
  PROVE  BatchInv'
<1> DEFINE s == SourceOrder[walk.at]
<1>1. pc = "lookup" /\ Asking /\ OnlyTheWalk
  BY DEF ReadWorkspaceSource, ReadWorkspaceGroups, ReadWorkspaceGroupRegex, WorkspaceReadFails, Asks, Asking
<1>2. /\ walk \in WalkShape /\ origin \in [Workspace -> OriginShape] /\ Here \in Workspace
      /\ db \in origin[Here].dbs /\ db \in Database /\ user \in User /\ Here \in Target /\ memo = NoMemo
      /\ walk.resource \in Resource /\ results[walk.resource] = Nil /\ walk.at # 0
      /\ resolve_permission_from_context(walk.resource).kind = "fallback"
  BY <1>1, WalkTypes DEF Looking
<1>3. CASE ReadWorkspaceSource
  <2> DEFINE v == SourceLookup(db, s, user, Here)
  <2>1. Answer(v) /\ UNCHANGED origin /\ s # "group-regex"
    BY <1>1, <1>3 DEF ReadWorkspaceSource, Asks, Here
  <2>2. v \in PermOrNil
    BY <1>2, SourceLookupType
  <2>3. Gave(origin[Here].dbs, s, Here, v)
    BY <1>2, <2>1 DEF Gave
  <2>4. \A d \in Database : origin[Here].dbs = {d} => v = SourceLookup(d, s, user, Here)
    BY <1>2
  <2> QED BY <1>1, <2>1, <2>2, <2>3, <2>4, BatchHears
<1>4. CASE ReadWorkspaceGroups
  <2>1. s = "group-regex" /\ UNCHANGED origin
    BY <1>4 DEF ReadWorkspaceGroups, Asks
  <2>2. CASE Ids(db) = {}
    <3>1. NextSource
      BY <1>4, <2>2 DEF ReadWorkspaceGroups, Ids
    <3>2. Answer(Nil)
      BY <3>1 DEF Answer
    <3>3. list_permissions_for_groups_ids(db, Ids(db)) = {}
      BY <2>2 DEF list_permissions_for_groups_ids
    <3>4. MatchRegex({}, Here) = Nil
      BY <1>2 DEF MatchRegex, match_workspace_regex_permission, FirstTier
    <3>5. SourceLookup(db, s, user, Here) = Nil
      BY <2>1, <3>3, <3>4 DEF SourceLookup, Ids
    <3>6. Gave(origin[Here].dbs, s, Here, Nil)
      BY <1>2, <2>1, <3>3, <3>4 DEF Gave, Ids
    <3>7. \A d \in Database : origin[Here].dbs = {d} => Nil = SourceLookup(d, s, user, Here)
      BY <1>2, <3>5
    <3>8. Nil \in PermOrNil
      BY DEF PermOrNil
    <3> QED BY <1>1, <2>1, <3>2, <3>6, <3>7, <3>8, BatchHears
  <2>3. CASE Ids(db) # {}
    <3>1. walk' = [walk EXCEPT !.gids = Ids(db)] /\ UNCHANGED pc
      BY <1>4, <2>3 DEF ReadWorkspaceGroups, Ids
    <3>2. /\ walk' \in WalkShape /\ walk'.gids = Ids(db) /\ walk'.at = walk.at /\ walk'.resource = walk.resource
          /\ pc' = "lookup"
      BY <1>1, <1>2, <3>1, FetchedTypes DEF WalkShape
    <3>3. Unanswered(origin[Here], Here, walk.at)
      BY <1>1 DEF BatchInv, WalkHeld
    <3> QED BY <1>1, <1>2, <2>1, <3>2, <3>3, BatchWalks DEF Looking
  <2> QED BY <2>2, <2>3
<1>5. CASE ReadWorkspaceGroupRegex
  <2> DEFINE v == MatchRegex(list_permissions_for_groups_ids(db, walk.gids), Here)
  <2>1. s = "group-regex" /\ walk.gids # {} /\ Answer(v) /\ UNCHANGED origin
    BY <1>5 DEF ReadWorkspaceGroupRegex, Asks, Here
  <2>2. PICK d \in origin[Here].dbs : walk.gids = Ids(d)
    BY <1>1, <2>1 DEF BatchInv, WalkHeld
  <2>3. v \in PermOrNil
    BY <1>2, FetchedTypes, MatchRegexType
  <2>4. Gave(origin[Here].dbs, s, Here, v)
    BY <1>2, <2>1, <2>2 DEF Gave, Ids
  <2>5. ASSUME NEW e \in Database, origin[Here].dbs = {e} PROVE v = SourceLookup(e, s, user, Here)
    <3>1. d = e /\ db = e
      BY <1>2, <2>5
    <3> QED BY <2>1, <2>2, <3>1 DEF SourceLookup, Ids
  <2> HIDE DEF v
  <2> QED BY <1>1, <2>1, <2>3, <2>4, <2>5, BatchHears
<1>6. CASE WorkspaceReadFails
  <2>1. /\ walk' = [walk EXCEPT !.at = @ + 1, !.gids = {}] /\ pc' = "lookup"
        /\ origin' = [origin EXCEPT ![Here].failed = TRUE]
    BY <1>1, <1>6 DEF WorkspaceReadFails, NextSource, Here
  <2>2. walk.at \in Nat /\ walk.at + 1 \in Nat /\ walk.at + 1 # 0
    BY <1>2 DEF WalkShape
  <2>3. walk' \in WalkShape /\ walk'.gids = {} /\ walk'.resource = walk.resource /\ walk'.at = walk.at + 1
    BY <1>2, <2>1, <2>2 DEF WalkShape
  <2>4. /\ origin' \in [Workspace -> OriginShape] /\ origin'[Here].failed = TRUE
        /\ \A w \in Workspace : origin[w].dbs = origin'[w].dbs /\ (origin[w].failed => origin'[w].failed)
    BY <1>2, <2>1 DEF OriginShape
  <2>5. Unanswered(origin'[Here], Here, walk'.at)
    BY <2>4 DEF Unanswered
  <2> QED BY <1>1, <1>2, <2>1, <2>2, <2>3, <2>4, <2>5, BatchWalks DEF Looking
<1> QED BY <1>3, <1>4, <1>5, <1>6

(* The lookup ends, with what it found or with a denial. *)
LEMMA BatchLooksUp ==
  ASSUME BatchInv, StoreWorkspace \/ DenyByWorkspace
  PROVE  BatchInv'
<1>1. pc \in Looking /\ pc' = "resolve" /\ walk' = NoWalk /\ UNCHANGED <<db, header, ctx, recorded, returned, seen, origin>>
  BY DEF StoreWorkspace, DenyByWorkspace, Looking
<1>2. /\ walk \in WalkShape /\ origin \in [Workspace -> OriginShape] /\ Here \in Workspace
      /\ db \in origin[Here].dbs /\ db \in Database /\ user \in User /\ memo = NoMemo
      /\ walk.resource \in Resource /\ results[walk.resource] = Nil /\ walk.at # 0
      /\ resolve_permission_from_context(walk.resource).kind = "fallback"
  BY <1>1, WalkTypes
<1>3. NoWalk \in WalkShape
  BY DEF NoWalk, WalkShape, PermOrNil
<1>4. /\ wsCache \in [Workspace -> PermOrNil]
      /\ \A w \in Workspace : wsCache[w] # Nil => Knows(origin[w], w, wsCache[w])
  BY DEF BatchInv, BatchShape, WalkHeld
<1>5. CASE StoreWorkspace
  <2>1. pc = "store" /\ wsCache' = [wsCache EXCEPT ![Here] = walk.found] /\ Settle(walk.resource, walk.found)
    BY <1>5 DEF StoreWorkspace, Here
  <2>2. walk.found \in PermOrNil /\ Knows(origin[Here], Here, walk.found)
    BY <1>2, <2>1 DEF BatchInv, WalkHeld, WalkShape
  <2>3. wsCache' \in [Workspace -> PermOrNil] /\ \A w \in Workspace : wsCache'[w] # Nil => Knows(origin[w], w, wsCache'[w])
    BY <1>2, <1>4, <2>1, <2>2
  <2> QED BY <1>1, <1>2, <1>3, <2>1, <2>2, <2>3, BatchSettles
<1>6. CASE DenyByWorkspace
  <2>1. pc = "lookup" /\ ~Asking /\ wsCache' = wsCache /\ Settle(walk.resource, Nil)
    BY <1>6 DEF DenyByWorkspace
  <2>2. walk.at \in Nat /\ \A j \in DOMAIN SourceOrder : j < walk.at
    BY <1>2, <2>1, OrderAssumption DEF Asking, WalkShape
  <2>3. ASSUME NEW d \in Database, origin[Here].dbs = {d}, ~origin[Here].failed
        PROVE  Nil = lookup_workspace_permission(d, user, Here)
    <3>1. Unanswered(origin[Here], Here, walk.at)
      BY <2>1 DEF BatchInv, WalkHeld
    <3>2. Answering(d, user, Here) = {}
      BY <2>2, <2>3, <3>1 DEF Unanswered, Answering
    <3> QED BY <3>2 DEF lookup_workspace_permission
  <2>4. Knows(origin[Here], Here, Nil)
    BY <1>2, <2>3 DEF Knows
  <2>5. Nil \in PermOrNil
    BY DEF PermOrNil
  <2> QED BY <1>1, <1>2, <1>3, <1>4, <2>1, <2>4, <2>5, BatchSettles
<1> QED BY <1>5, <1>6

LEMMA BatchForgets ==
  ASSUME BatchInv, NEW w \in Workspace, DropWorkspaceEntry(w)
  PROVE  BatchInv'
<1> USE DEF BatchInv
<1>1. /\ wsCache' = [wsCache EXCEPT ![w] = Nil]
      /\ UNCHANGED <<db, pc, header, ctx, memo, walk, results, recorded, returned, seen, origin>>
  BY DEF DropWorkspaceEntry
<1>2. wsCache \in [Workspace -> PermOrNil]
  BY DEF BatchShape
<1>3. wsCache' \in [Workspace -> PermOrNil] /\ \A x \in Workspace : wsCache'[x] # Nil => wsCache'[x] = wsCache[x]
  BY <1>1, <1>2 DEF PermOrNil
<1>4. Here' = Here
  BY <1>1, SameContext
<1>5. BatchShape'
  BY <1>1, <1>3 DEF BatchShape
<1>6. ContextHeld'
  BY <1>1 DEF ContextHeld
<1>7. (\A x \in Workspace : wsCache[x] # Nil => Knows(origin[x], x, wsCache[x]))'
  BY <1>1, <1>3 DEF WalkHeld
<1>8. resolve_permission_from_context(walk.resource)' = resolve_permission_from_context(walk.resource)
  BY <1>1 DEF resolve_permission_from_context, FromContext
<1>9. WalkHeld'
  BY <1>1, <1>4, <1>7, <1>8 DEF WalkHeld
<1>10. AllGiven' /\ MemoShown' /\ Finished'
  BY <1>1 DEF AllGiven, MemoShown, Finished
<1>11. AsResolved'
  BY <1>1, <1>4 DEF AsResolved, Quietly
<1> QED BY <1>5, <1>6, <1>9, <1>10, <1>11

LEMMA BatchReturns ==
  ASSUME BatchInv, Return \/ EndCall
  PROVE  BatchInv'
<1> USE DEF BatchInv, PastGids, PastUser, PastGroup, PastRegex, Resolving
<1>1. CASE Return
  <2>1. /\ pc = "resolve" /\ pc' = "done" /\ \A r \in Resource : results[r] # Nil
        /\ returned' = filter_manageable(results)
        /\ UNCHANGED <<db, header, ctx, memo, wsCache, walk, results, recorded, seen, origin>>
    BY <1>1 DEF Return
  <2>2. BatchShape'
    BY <2>1 DEF BatchShape
  <2>3. ContextHeld'
    BY <2>1 DEF ContextHeld
  <2>4. Here' = Here
    BY <2>1, SameContext
  <2>5. WalkHeld'
    BY <2>1, <2>4 DEF WalkHeld, Looking
  <2>6. AllGiven' /\ MemoShown' /\ Finished'
    BY <2>1 DEF AllGiven, MemoShown, Finished
  <2>7. AsResolved'
    BY <2>1, <2>4 DEF AsResolved, Quietly
  <2> QED BY <2>2, <2>3, <2>5, <2>6, <2>7
<1>2. CASE EndCall
  <2>1. /\ pc' = "idle" /\ header' = NoWorkspace /\ ctx' = EmptyCtx /\ memo' = NoMemo
        /\ results' = [r \in Resource |-> Nil] /\ UNCHANGED <<db, wsCache, walk, seen, origin>>
    BY <1>2 DEF EndCall
  <2>2. EmptyCtx \in ContextShape
    BY DEF EmptyCtx, ContextShape, PermOrNil
  <2>3. BatchShape'
    BY <2>1, <2>2 DEF BatchShape, Context
  <2>4. WalkHeld'
    BY <2>1 DEF WalkHeld, Looking
  <2> QED BY <2>1, <2>3, <2>4 DEF ContextHeld, AllGiven, MemoShown, AsResolved, Finished
<1> QED BY <1>1, <1>2

(* Another request's write: the results stay, the databases grow.          *)
LEMMA BatchWrites ==
  ASSUME BatchInv, NEW d \in Database, Commit(d)
  PROVE  BatchInv'
<1> USE DEF BatchInv
<1>1. /\ d # db /\ db' = d /\ seen' = seen \cup {d}
      /\ UNCHANGED <<pc, header, ctx, memo, wsCache, walk, results, recorded, returned>>
      /\ origin' = IF pc \notin Looking THEN origin ELSE [origin EXCEPT ![Here].dbs = @ \cup {d}]
  BY DEF Commit, Here, Looking
<1>2. origin \in [Workspace -> OriginShape]
  BY DEF BatchShape
<1>3. pc \in Looking => Here \in Workspace /\ memo = NoMemo
  BY DEF WalkHeld
<1>4. /\ origin' \in [Workspace -> OriginShape]
      /\ \A w \in Workspace : origin[w].dbs \subseteq origin'[w].dbs /\ origin'[w].failed = origin[w].failed
      /\ pc \in Looking => d \in origin'[Here].dbs
  <2>1. CASE pc \notin Looking
    BY <1>1, <1>2, <2>1
  <2>2. CASE pc \in Looking
    BY <1>1, <1>2, <1>3, <2>2 DEF OriginShape
  <2> QED BY <2>1, <2>2
<1>5. BatchShape'
  BY <1>1, <1>4 DEF BatchShape
<1>6. ContextHeld'
  BY <1>1 DEF ContextHeld
<1>7. Here' = Here
  BY <1>1, SameContext
<1>8. resolve_permission_from_context(walk.resource)' = resolve_permission_from_context(walk.resource)
  BY <1>1 DEF resolve_permission_from_context, FromContext
<1>9. \A w \in Workspace : \A p : Knows(origin[w], w, p) => Knows(origin'[w], w, p)
  BY <1>4, KnowsMore
<1>10. WalkHeld'
  <2>1. (memo # NoMemo => Here \in Workspace /\ Knows(origin[Here], Here, memo))'
    BY <1>1, <1>7, <1>9 DEF WalkHeld
  <2>2. (\A w \in Workspace : wsCache[w] # Nil => Knows(origin[w], w, wsCache[w]))'
    BY <1>1, <1>9 DEF WalkHeld
  <2>3. (pc = "store" => walk.found # Nil /\ Knows(origin[Here], Here, walk.found))'
    BY <1>1, <1>3, <1>7, <1>9 DEF WalkHeld, Looking
  <2>4. (pc = "lookup" => Unanswered(origin[Here], Here, walk.at))'
    <3> SUFFICES ASSUME pc = "lookup" PROVE Unanswered(origin'[Here], Here, walk.at)
      BY <1>1, <1>7
    <3>1. Here \in Workspace /\ origin[Here].dbs # {} /\ Unanswered(origin[Here], Here, walk.at)
      BY DEF WalkHeld, Looking
    <3> QED BY <1>4, <3>1, UnansweredMore
  <2>5. (pc = "lookup" /\ walk.gids # {} => \E e \in origin[Here].dbs : walk.gids = Ids(e))'
    BY <1>1, <1>3, <1>4, <1>7 DEF WalkHeld, Looking
  <2>6. (pc \in Looking =>
          /\ memo = NoMemo /\ Here \in Workspace /\ db \in origin[Here].dbs
          /\ walk.resource \in Resource /\ results[walk.resource] = Nil /\ walk.at # 0
          /\ resolve_permission_from_context(walk.resource).kind = "fallback")'
    BY <1>1, <1>4, <1>7, <1>8 DEF WalkHeld
  <2> QED BY <2>1, <2>2, <2>3, <2>4, <2>5, <2>6 DEF WalkHeld
<1>11. AllGiven'
  BY <1>1, GaveMore DEF AllGiven
<1>12. MemoShown' /\ Finished'
  BY <1>1 DEF MemoShown, Finished
<1>13. AsResolved'
  BY <1>1 DEF AsResolved, BatchShape
<1> QED BY <1>5, <1>6, <1>10, <1>11, <1>12, <1>13

LEMMA WritesOnDatabases ==
  ASSUME BatchInv, OtherWrite
  PROVE  \E d \in Database : Commit(d)
<1>1. db \in Database /\ user \in User /\ Targets \subseteq Target /\ Grantable \subseteq ALL_PERMISSIONS /\ RegexRows \subseteq RegexRow
  BY BatchAssumption DEF BatchInv, BatchShape
<1>2. ASSUME NEW h \in {user} \cup Group, NEW t \in Targets, NEW p \in Grantable \cup {Nil}
      PROVE  [db EXCEPT !.direct[<<h, t>>] = p] \in Database
  <2>1. p \in ALL_PERMISSIONS \cup {Nil}
    BY <1>1
  <2> QED BY <1>1, <2>1 DEF Database
<1>3. ASSUME NEW row \in RegexRows
      PROVE  /\ [db EXCEPT !.regex = db.regex \cup {row}] \in Database
             /\ [db EXCEPT !.regex = db.regex \ {row}] \in Database
  BY <1>1 DEF Database
<1>4. ASSUME NEW g \in Group
      PROVE  /\ [db EXCEPT !.member = db.member \cup {<<user, g>>}] \in Database
             /\ [db EXCEPT !.member = db.member \ {<<user, g>>}] \in Database
  BY <1>1 DEF Database
<1> QED BY <1>2, <1>3, <1>4 DEF OtherWrite, SetPermission, SetRegexPermission, SetMembership

LEMMA BatchStep == BatchInv /\ [BatchNext]_batchVars => BatchInv'
<1> SUFFICES ASSUME BatchInv, [BatchNext]_batchVars PROVE BatchInv'
  OBVIOUS
<1>1. CASE OtherWrite
  BY <1>1, WritesOnDatabases, BatchWrites
<1>2. CASE UNCHANGED batchVars
  <2>1. Here' = Here /\ resolve_permission_from_context(walk.resource)' = resolve_permission_from_context(walk.resource)
    BY <1>2 DEF batchVars, Here, mlflow_get_request_workspace, resolve_permission_from_context, FromContext
  <2>2. BatchShape' /\ ContextHeld'
    BY <1>2 DEF batchVars, BatchInv, BatchShape, ContextHeld
  <2>3. WalkHeld'
    BY <1>2, <2>1 DEF batchVars, BatchInv, WalkHeld
  <2>4. AllGiven' /\ MemoShown' /\ Finished'
    BY <1>2 DEF batchVars, BatchInv, AllGiven, MemoShown, Finished
  <2>5. AsResolved'
    BY <1>2, <2>1 DEF batchVars, BatchInv, AsResolved, Quietly
  <2> QED BY <2>2, <2>3, <2>4, <2>5 DEF BatchInv
<1> QED BY <1>1, <1>2, BatchBegins, BatchBuilds, BatchDecides, BatchReads, BatchLooksUp, BatchForgets, BatchReturns
        DEF BatchNext

(* utils/batch_permissions.py and utils/workspace_cache.py: however many   *)
(* writes fall between the queries of a listing, or between those of a     *)
(* workspace lookup, and however old the cached workspace value, each      *)
(* decision is one that a single source gave: in the call's databases, or, *)
(* for a workspace grant, in those of the lookup that found it.            *)
THEOREM ListingsGrantWhatWasHeld == BatchSpec => []GrantsWereHeld
<1>1. BatchInv => GrantsWereHeld
  <2> SUFFICES ASSUME BatchInv, NEW r \in Resource, results[r] # Nil
               PROVE  LET p == results[r].permission
                          k == results[r].kind
                      IN  /\ k \in OfResource => Gave(seen, k, r, p)
                          /\ k = "workspace" =>
                               \E i \in DOMAIN SourceOrder : Gave(origin[Here].dbs, SourceOrder[i], Here, p)
    BY DEF GrantsWereHeld, OfResource, Here
  <2>1. results[r].kind \in OfResource => Gave(seen, results[r].kind, r, results[r].permission)
    BY DEF BatchInv, AllGiven
  <2>2. ASSUME results[r].kind = "workspace"
        PROVE  \E i \in DOMAIN SourceOrder : Gave(origin[Here].dbs, SourceOrder[i], Here, results[r].permission)
    <3>1. memo # NoMemo /\ results[r] = WorkspaceResult(memo)
      BY <2>2 DEF BatchInv, MemoShown, OfWorkspace
    <3>2. memo # Nil /\ results[r].permission = memo
      BY <2>2, <3>1 DEF WorkspaceResult
    <3>3. Knows(origin[Here], Here, memo)
      BY <3>1 DEF BatchInv, WalkHeld
    <3> QED BY <3>2, <3>3 DEF Knows
  <2> QED BY <2>1, <2>2
<1> QED BY <1>1, BatchStarts, BatchStep, PTL DEF BatchSpec

(* utils/batch_permissions.py and utils/permissions.py: a listing that no  *)
(* write overlapped, and whose workspace value is the present one, decides *)
(* every resource as resolve_permission does, for every order of sources   *)
(* and every number of resources.                                          *)
THEOREM ListingsAgreeWithLookups == BatchSpec => []BatchAgreesWhenQuiet
<1>1. ASSUME BatchInv, pc = "done", seen = {db},
             EnableWorkspaces => header # NoWorkspace /\ WorkspaceSettled(header)
      PROVE  /\ ListingAgrees
             /\ returned = {r \in Resource : "manage" \in capabilities[resolve_permission(db, user, r, header).permission]}
             /\ {r \in Resource : results[r].kind = "fallback"} \subseteq recorded
  <2>1. Here = header /\ (header # NoWorkspace => EnableWorkspaces)
    BY <1>1, BatchAssumption DEF Here, mlflow_get_request_workspace, BatchInv, BatchShape, Context
  <2>2. ASSUME NEW r \in Resource PROVE results[r] = resolve_permission(db, user, r, header)
    <3> DEFINE g == get_permission_from_store_or_default(db, user, r)
    <3>1. Quietly(results[r], r) /\ results[r] # Nil
      BY <1>1 DEF BatchInv, Finished, AsResolved
    <3>2. CASE g.kind # "fallback" \/ header = NoWorkspace
      BY <2>1, <3>1, <3>2 DEF Quietly, resolve_permission, apply_workspace_fallback
    <3>3. CASE g.kind = "fallback" /\ header # NoWorkspace
      <4>1. memo # NoMemo /\ results[r] = WorkspaceResult(memo)
        BY <1>1, <2>1, <3>1, <3>3 DEF Quietly, BatchInv, MemoShown
      <4>2. Here \in Workspace /\ Knows(origin[Here], Here, memo)
        BY <1>1, <4>1 DEF BatchInv, WalkHeld
      <4>3. WorkspaceSettled(Here)
        BY <1>1, <2>1, <3>3
      <4>4. PICK d \in origin[Here].dbs : TRUE
        BY <4>2 DEF Knows
      <4>5. /\ origin[Here].dbs = {d} /\ ~origin[Here].failed /\ d \in Database
            /\ lookup_workspace_permission(d, user, Here) = lookup_workspace_permission(db, user, Here)
        BY <1>1, <4>2, <4>3, <4>4 DEF WorkspaceSettled, BatchInv, BatchShape, OriginShape
      <4>6. memo = lookup_workspace_permission(db, user, Here)
        BY <4>2, <4>5 DEF Knows
      <4> QED BY <2>1, <3>3, <4>1, <4>6 DEF resolve_permission, apply_workspace_fallback
    <3> QED BY <3>2, <3>3
  <2>3. \A r \in Resource : results[r].kind = "fallback" => r \in recorded
    BY <1>1 DEF BatchInv, Finished, AsResolved
  <2>4. returned = filter_manageable(results)
    BY <1>1 DEF BatchInv, Finished
  <2> QED BY <2>2, <2>3, <2>4 DEF ListingAgrees, filter_manageable
<1>2. BatchInv => BatchAgreesWhenQuiet
  BY <1>1 DEF BatchAgreesWhenQuiet
<1> QED BY <1>2, BatchStarts, BatchStep, PTL DEF BatchSpec

=============================================================================
