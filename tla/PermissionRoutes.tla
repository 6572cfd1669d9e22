-------------------------- MODULE PermissionRoutes --------------------------
(***************************************************************************)
(* The handlers of the permission management routes, as requests that      *)
(* overlap in several server processes.  A handler first resolves who      *)
(* calls (get_username, get_is_admin: a fresh read of the users table),    *)
(* then what the caller may do (the effective permission), then writes one *)
(* row and emits an audit event, or reads rows and filters them; every     *)
(* one of these is a transaction of its own.                               *)
(*                                                                         *)
(* There is one resource of each type and one workspace, named by their    *)
(* type.  Registered models and prompts share one namespace and one table  *)
(* of direct rows: a row under either name is the same row.  The table of  *)
(* group rows has a column prompt, the router that made the row.           *)
(* Caches are left to PermissionCache: decisions here are uncached.        *)
(* entitled, origins and torn are history.                                 *)
(***************************************************************************)
EXTENDS PermissionResolution, RouteTable

CONSTANTS Slot,          \* requests in flight at once
          Callers,       \* the authenticated users who call
          Scenarios,     \* what one behaviour is about: types, routes, slots, the
                         \* workspace header, and who is member and administrator first
          Levels,        \* the permissions each write operation grants
          SeedSources,   \* <<holder, scope>> of the MANAGE row Init may hold
          MaxRequests, MaxChanges

DirectRow == [permission : ALL_PERMISSIONS, prompt : BOOLEAN]
PatternRow == [matches : BOOLEAN, permission : ALL_PERMISSIONS]
Handling == [caller : Callers, route : Routes, op : Writes \cup {"get", "list"}, holder : Holder,
             level : ALL_PERMISSIONS, matches : BOOLEAN, isAdmin : BOOLEAN,
             at : {"check", "act", "audit", "filter", "reply"},
             fetched : ALL_PERMISSIONS \cup {Nil}, shown : BOOLEAN, entitled : BOOLEAN]

ASSUME RoutesAssumption ==
  /\ Nil \notin DirectRow /\ Nil \notin PatternRow /\ Nil \notin Handling
  /\ SeedSources \subseteq Holder \X {"direct", "pattern"}
  /\ Resource = {"experiment", "registered_model", "prompt", "scorer", "gateway_endpoint",
                 "gateway_model_definition", "gateway_secret"}
  /\ Workspace = {"workspace"} /\ NoWorkspace \in STRING
  /\ Callers \subseteq User /\ MaxRequests \in Nat /\ MaxChanges \in Nat
  /\ Levels \in [{"create", "update"} -> SUBSET ALL_PERMISSIONS]
  /\ \A c \in Scenarios : /\ c.types \subseteq Target /\ c.routes \subseteq Routes
                           /\ c.slots \subseteq Slot /\ c.header \in {NoWorkspace} \cup Workspace
                           /\ c.member \subseteq User \X Group /\ c.admins \subseteq User
VARIABLES grants, pattern, \* the rows, or Nil
          member, admins,
          req,       \* the request in each slot, or Nil
          log,       \* the last audit event of each row that has one
          focus,     \* the scenario of this behaviour
          origins, torn, requests, changes

tables == <<grants, pattern, member, admins>>
vars == <<tables, req, log, focus, origins, torn, requests, changes>>

-----------------------------------------------------------------------------
(* A direct row of a prompt and of the model of that name are one row. *)
SharedRow(t) == IF t \in {"registered_model", "prompt"} THEN {"registered_model", "prompt"} ELSE {t}
RowType(t) == IF t = "prompt" THEN "registered_model" ELSE t
RowKeys == Holder \X (Target \ {"prompt"})

direct == [k \in Holder \X Target |->
             LET row == grants[<<k[1], RowType(k[2])>>] IN IF row = Nil THEN Nil ELSE row.permission]

DB == [direct |-> direct,
       regex |-> {[holder |-> k[1], matches |-> {k[2]}, priority |-> 1, permission |-> pattern[k].permission] :
                   k \in {i \in Holder \X Target : pattern[i] # Nil /\ pattern[i].matches}},
       member |-> member]

effective_permission(d, u, t, x) ==
  IF t \in Workspace THEN WorkspaceResult(lookup_workspace_permission(d, u, t)).permission
  ELSE resolve_permission(d, u, t, x).permission

may(d, u, cap, t, x) == cap \in capabilities[effective_permission(d, u, t, x)]

(* Who may decide about a resource: its own managers, and for a scorer the *)
(* managers of its experiment; a model and a prompt of one name share.     *)
Stewards(t) == IF t = "scorer" THEN {"scorer", "experiment"} ELSE SharedRow(t)

Entitled(d, adm, q) ==
  \/ q.caller \in adm
  \/ /\ q.route.scope = "direct"
     /\ \E t \in Stewards(q.route.type) : may(d, q.caller, "manage", t, focus.header)
  \/ q.op = "list" /\ q.route.type = "workspace" /\ may(d, q.caller, "read", "workspace", focus.header)

(* Every change of the tables is seen by the requests in flight. *)
Witness(r) ==
  [s \in Slot |-> IF r[s] = Nil THEN Nil
                  ELSE [r[s] EXCEPT !.entitled = @ \/ Entitled(DB', admins', r[s])]]

-----------------------------------------------------------------------------
HoldersOf(route) ==
  CASE route.holder = "user" -> User
    [] route.holder = "group" -> Group
    [] OTHER -> Holder

NoRows == [k \in Holder \X Target |-> Nil]

(* One MANAGE row from an earlier time, of any source, on anything. *)
Init ==
  /\ focus \in Scenarios
  /\ \E source \in SeedSources, t \in focus.types :
       /\ grants = [k \in RowKeys |->
                      IF source[2] = "direct" /\ k = <<source[1], RowType(t)>>
                      THEN [permission |-> "MANAGE", prompt |-> source[1] \in Group /\ t = "prompt"] ELSE Nil]
       /\ pattern = [NoRows EXCEPT ![<<source[1], t>>] =
                       IF source[2] = "pattern" THEN [matches |-> TRUE, permission |-> "MANAGE"] ELSE Nil]
       /\ origins = IF source[2] = "direct" THEN SharedRow(t) ELSE {t}
  /\ member = focus.member
  /\ admins = focus.admins
  /\ req = [s \in Slot |-> Nil]
  /\ log = <<>>
  /\ torn = {} /\ requests = 0 /\ changes = 0

(* get_username and get_is_admin, the first reads of a request the         *)
(* authentication middleware passed on.                                    *)
get_is_admin(u) == u \in admins

(* A request up to its authorisation.  check_admin_permission turns other  *)
(* callers away, which leaves no trace here.                               *)
Begin(s, caller, route, op, holder, level, matches) ==
  /\ route.cap = "admin" => get_is_admin(caller)
  /\ requests' = requests + 1
  /\ LET q == [caller |-> caller, route |-> route, op |-> op, holder |-> holder, level |-> level,
               matches |-> matches, isAdmin |-> get_is_admin(caller),
               at |-> IF get_is_admin(caller) \/ route.cap = "none" THEN "act" ELSE "check",
               fetched |-> Nil, shown |-> FALSE, entitled |-> FALSE]
     IN  req' = [req EXCEPT ![s] = [q EXCEPT !.entitled = Entitled(DB, admins, q)]]
  /\ UNCHANGED <<tables, log, focus, origins, torn, changes>>

Step(s, q) == /\ req' = [req EXCEPT ![s] = q]
              /\ UNCHANGED <<tables, log, focus, origins, torn, requests, changes>>

(* The check_*_manage_permission dependencies, and the inline checks of    *)
(* the group routes of models and prompts.                                 *)
check_manage_permission(s) ==
  /\ req[s] # Nil /\ req[s].at = "check"
  /\ LET q == req[s]
     IN  Step(s, IF may(DB, q.caller, q.route.cap, q.route.over, focus.header) THEN [q EXCEPT !.at = "act"] ELSE Nil)

-----------------------------------------------------------------------------
(* The store methods behind the write handlers: one transaction, which     *)
(* fails when the row to create exists, or the one to change does not.     *)
Key(q) == <<q.route.scope, q.holder, IF q.route.scope = "direct" THEN RowType(q.route.type) ELSE q.route.type>>
RowAt(k) == IF k[1] = "direct" THEN direct[<<k[2], k[3]>>] ELSE pattern[<<k[2], k[3]>>]

(* The group prompt repository sees rows with prompt = True only, and the  *)
(* list of a model's groups those with prompt = False.                     *)
Visible(q) ==
  LET t == q.route.type
      row == grants[<<q.holder, RowType(t)>>]
  IN  q.route.scope = "direct" /\ q.holder \in Group /\ row # Nil =>
        /\ t = "prompt" => row.prompt
        /\ t = "registered_model" /\ q.op = "list" /\ q.route.holder = "all" => ~row.prompt

Accepted(q) == IF q.op = "create" THEN RowAt(Key(q)) = Nil ELSE RowAt(Key(q)) # Nil /\ Visible(q)

NewRow(q) ==
  CASE q.op = "create" -> [permission |-> q.level, prompt |-> q.route.type = "prompt" /\ q.holder \in Group]
    [] q.op = "update" -> [grants[<<q.holder, RowType(q.route.type)>>] EXCEPT !.permission = q.level]
    [] OTHER -> Nil

DirectWrite(q) ==
  /\ grants' = [grants EXCEPT ![<<q.holder, RowType(q.route.type)>>] = NewRow(q)]
  /\ UNCHANGED pattern

(* The update of a user's pattern on a model, a prompt or a gateway        *)
(* resource takes the new priority and permission, and keeps the regex.    *)
RegexIsWritten(q) == q.holder \in Group \/ q.route.type \in {"experiment", "scorer", "workspace"}

NewPattern(q) ==
  CASE q.op = "create" -> [matches |-> q.matches, permission |-> q.level]
    [] q.op = "update" -> [matches |-> IF RegexIsWritten(q) THEN q.matches ELSE RowAt(Key(q)).matches,
                           permission |-> q.level]
    [] OTHER -> Nil

AnyPrompt(q) ==
  /\ pattern' = [k \in Holder \X Target |->
                   IF k[1] = q.holder /\ k[2] \in SharedRow(q.route.type) THEN NewPattern(q) ELSE pattern[k]]
  /\ UNCHANGED grants
PatternWrite(q) ==
  /\ pattern' = [pattern EXCEPT ![<<q.holder, q.route.type>>] = NewPattern(q)]
  /\ UNCHANGED grants

Overlapped(q) == \E s \in Slot : req[s] # Nil /\ req[s].at = "audit" /\ Key(req[s]) = Key(q)

Write(s) ==
  /\ req[s] # Nil /\ req[s].at = "act" /\ req[s].op \in Writes
  /\ LET q == req[s]
     IN  /\ Accepted(q)
         /\ IF q.route.scope = "direct" THEN DirectWrite(q) ELSE PatternWrite(q)
         /\ UNCHANGED <<member, admins>>
         /\ req' = Witness([req EXCEPT ![s].at = "audit"])
         /\ torn' = IF Overlapped(q) THEN torn \cup {Key(q)} ELSE torn
         /\ origins' = IF q.isAdmin /\ q.level = "MANAGE"
                       THEN origins \cup (IF q.route.scope = "direct" THEN SharedRow(q.route.type) ELSE {q.route.type})
                       ELSE origins
  /\ UNCHANGED <<log, focus, requests, changes>>

(* An error is answered as 4xx or 500 and leaves no audit event. *)
FailsAudited(s) ==
  /\ req[s] # Nil /\ req[s].at = "act" /\ req[s].op \in Writes
  /\ ~Accepted(req[s])
  /\ Step(s, [req[s] EXCEPT !.at = "audit"])
WriteFails(s) ==
  /\ req[s] # Nil /\ req[s].at = "act" /\ req[s].op \in Writes
  /\ ~Accepted(req[s])
  /\ Step(s, Nil)

(* emit_audit_event, with the values of the request. *)
Event(q) == IF q.op = "delete" THEN Nil
            ELSE IF q.route.scope = "direct" THEN q.level
            ELSE [matches |-> q.matches, permission |-> q.level]

emit_audit_event(s) ==
  /\ req[s] # Nil /\ req[s].at = "audit"
  /\ log' = [k \in DOMAIN log \cup {Key(req[s])} |-> IF k = Key(req[s]) THEN Event(req[s]) ELSE log[k]]
  /\ req' = [req EXCEPT ![s] = Nil]
  /\ UNCHANGED <<tables, focus, origins, torn, requests, changes>>

-----------------------------------------------------------------------------
(* The read handlers: rows first, then the filter on the caller. *)
Listed(q) == q.op = "list" /\ q.route.holder = "user" /\ q.route.type # "scorer"
RowsFor(q) ==
  LET t == q.route.type
  IN  CASE q.route.scope = "pattern" -> IF pattern[<<q.holder, t>>] = Nil THEN Nil ELSE pattern[<<q.holder, t>>].permission
        [] q.route.scope = "direct" /\ Listed(q) -> effective_permission(DB, q.holder, t, focus.header)
        [] OTHER -> IF Visible(q) THEN direct[<<q.holder, t>>] ELSE Nil

Fetch(s) ==
  /\ req[s] # Nil /\ req[s].at = "act" /\ req[s].op \notin Writes
  /\ LET q == req[s]
     IN  Step(s, [q EXCEPT !.fetched = RowsFor(q),
                           !.shown = q.route.cap # "none" /\ RowsFor(q) # Nil,
                           !.at = IF q.route.cap = "none" THEN "filter" ELSE "reply"])

(* An administrator sees everything, a caller their own permissions, and   *)
(* of other holders' only those on resources the caller may manage.        *)
FilterByRow(q) == q.isAdmin \/ q.holder = q.caller \/ q.fetched = "MANAGE"
Shows(q) ==
  \/ q.isAdmin
  \/ q.holder = q.caller /\ q.route.holder = "user" /\ (q.fetched # "NO_PERMISSIONS" \/ q.route.type = "scorer")
  \/ (q.holder # q.caller \/ q.route.holder # "user") /\ may(DB, q.caller, "manage", q.route.over, focus.header)

Filter(s) ==
  /\ req[s] # Nil /\ req[s].at = "filter"
  /\ LET q == req[s]
     IN  Step(s, [q EXCEPT !.at = "reply", !.shown = (q.fetched # Nil \/ q.route.holder = "self") /\ Shows(q)])

Reply(s) == req[s] # Nil /\ req[s].at = "reply" /\ Step(s, Nil)

-----------------------------------------------------------------------------
(* The process dies between commit and event: the row keeps no event.      *)
(* Before the commit, a crash is a request that was never made.            *)
Crash(s) ==
  /\ req[s] # Nil /\ req[s].at = "audit"
  /\ req' = [req EXCEPT ![s] = Nil]
  /\ torn' = torn \cup {Key(req[s])}
  /\ UNCHANGED <<tables, log, focus, origins, requests, changes>>

(* An administrator flag is set or cleared (UserAccounts). *)
SetAdmin(u) ==
  /\ changes < MaxChanges
  /\ admins' = IF u \in admins THEN admins \ {u} ELSE admins \cup {u}
  /\ changes' = changes + 1
  /\ UNCHANGED <<grants, pattern, member>>
  /\ req' = Witness(req)
  /\ UNCHANGED <<log, focus, origins, torn, requests>>

(* A group synchronisation adds or removes a membership (GroupSync). *)
SetMember(u, g) ==
  /\ changes < MaxChanges
  /\ member' = IF <<u, g>> \in member THEN member \ {<<u, g>>} ELSE member \cup {<<u, g>>}
  /\ changes' = changes + 1
  /\ UNCHANGED <<grants, pattern, admins>>
  /\ req' = Witness(req)
  /\ UNCHANGED <<log, focus, origins, torn, requests>>

(* What a request may carry; a field its operation ignores is fixed. *)
LevelsOf(op) == IF op \in DOMAIN Levels THEN Levels[op] ELSE {"READ"}
RegexesOf(route, op) == IF op \in {"create", "update"} /\ route.scope = "pattern" THEN BOOLEAN ELSE {TRUE}

Request(s) ==
  /\ s \in focus.slots /\ req[s] = Nil /\ requests < MaxRequests
  /\ \E route \in focus.routes : \E caller \in Callers, op \in route.methods :
       \E holder \in IF route.holder = "self" THEN {caller} ELSE HoldersOf(route),
          level \in LevelsOf(op), matches \in RegexesOf(route, op) :
         Begin(s, caller, route, op, holder, level, matches)

Next ==
  \/ \E s \in Slot : \/ Request(s) \/ check_manage_permission(s)
                     \/ Write(s) \/ WriteFails(s) \/ emit_audit_event(s)
                     \/ Fetch(s) \/ Filter(s) \/ Reply(s) \/ Crash(s)
  \/ \E u \in Callers : SetAdmin(u) \/ \E g \in Group : SetMember(u, g)

Spec == Init /\ [][Next]_vars

-----------------------------------------------------------------------------
(* However requests, demotions and membership changes interleave, a row is *)
(* written, and a row of someone else is shown, only to a caller who at    *)
(* some instant of the request was an administrator or could manage the    *)
(* resource (a scorer's experiment, the model of a prompt's name) or, for  *)
(* the members of a workspace, could read it; patterns only to             *)
(* administrators.                                                         *)
EntitledDuringRequest ==
  \A s \in Slot : req[s] # Nil =>
    /\ req[s].at = "audit" => req[s].entitled
    /\ req[s].shown /\ ~(req[s].holder = req[s].caller /\ req[s].route.scope = "direct") => req[s].entitled

(* No sequence of calls makes authority over a resource out of authority   *)
(* over another one: who can manage a resource owes it to a MANAGE row     *)
(* that was there before, or that an administrator wrote, on that          *)
(* resource, on one its stewards share, or on the workspace; or to the     *)
(* configured default.                                                     *)
AuthorityIsInherited ==
  \A u \in User, t \in focus.types, x \in {NoWorkspace} \cup Workspace :
    may(DB, u, "manage", t, x) =>
      DefaultPermission = "MANAGE" \/ (Stewards(t) \cup Workspace) \cap origins # {}

(* Once no write of a row is in flight, the last audit event of the row    *)
(* tells its permission, unless two writes of that row overlapped or a     *)
(* process died between commit and event.  A pattern's regex is told too,  *)
(* where an update writes it.                                              *)
Tells(k) ==
  LET told == log[k]
      row == RowAt(k)
  IN  \/ told = row
      \/ /\ k[1] = "pattern" /\ told # Nil /\ row # Nil /\ told.permission = row.permission
         /\ k[2] \in User /\ k[3] \notin {"experiment", "scorer", "workspace"}

AuditTellsTheRow ==
  \A k \in DOMAIN log :
    \/ k \in torn
    \/ \E s \in Slot : req[s] # Nil /\ req[s].at = "audit" /\ Key(req[s]) = k
    \/ Tells(k)

(* A request changes the decisions about its own type (or the type that    *)
(* shares its row), of its own holder or the members of its group; only a  *)
(* row of a workspace reaches other types, and only through the fallback.  *)
Touches(q, u, t) ==
  /\ q.holder = u \/ <<u, q.holder>> \in member
  /\ q.route.type = "workspace" \/ t \in (IF q.route.scope = "direct" THEN SharedRow(q.route.type) ELSE {q.route.type})

DecisionsChangeByRequest ==
  [][\A u \in User, t \in focus.types, x \in {NoWorkspace} \cup Workspace :
       \/ UNCHANGED <<grants, pattern>>
       \/ effective_permission(DB', u, t, x) = effective_permission(DB, u, t, x)
       \/ \E s \in Slot :
            /\ req[s] # Nil /\ req[s].at = "act" /\ req'[s].at = "audit"
            /\ Touches(req[s], u, t)
            /\ (x = NoWorkspace /\ t \notin Workspace) => req[s].route.type # "workspace"]_vars

=============================================================================
