------------------------- MODULE ResourceLifecycle -------------------------
(***************************************************************************)
(* One MLflow request from the before-request hook to the after-request    *)
(* hook: who may act on which resource, what MLflow commits, and how the   *)
(* permission rows, which are keyed by name, follow the resources.         *)
(*                                                                         *)
(* A behaviour is about one resource type.  objects maps the identity of   *)
(* each resource ever made to its present name; names are reused, except   *)
(* an experiment's (its name here is its id).  Every row remembers in `of` *)
(* the resource it was granted for.  of, could, fresh, spoiled and         *)
(* abandoned are history.                                                  *)
(***************************************************************************)
EXTENDS Permissions, Naturals, Sequences, FiniteSets

CONSTANTS User, Group, Name, Nil, Slot,
          Types,             \* the resource types behaviours are about
          Admins,            \* users the middleware reports as administrators
          Strangers,         \* authenticated users who never had a row in the users table
          member,            \* <<user, group>> pairs
          ExperimentEditors, \* who may update the experiment of the scorers
          WorkspaceManagers, \* who manages the workspace of the request header
          Configs,           \* workspace settings, one per behaviour
          MaxObjects, MaxRequests, MaxChanges, MaxFaults

gateway == {"gateway_endpoint", "gateway_secret", "gateway_model_definition"}

(* A request under way, and the store calls of its after-request handler.  *)
Call == {"grant", "wipe_users", "wipe_groups", "wipe_all", "rename_users", "rename_groups"}
ReqState ==
  [caller : User, op : {"create", "delete", "rename", "update", "read", "search"}, refs : SUBSET Name, ids : SUBSET Nat,
   new : Name \cup {Nil}, at : {"validate", "mlflow", "after"}, stash : SUBSET Name, hit : Nat \cup {Nil},
   todo : Seq(Call), could : SUBSET Nat, fresh : SUBSET Nat]

ASSUME LifecycleAssumption ==
  /\ Types \subseteq gateway \cup {"experiment", "registered_model", "scorer", "workspace"}
  /\ Admins \cup Strangers \cup ExperimentEditors \cup WorkspaceManagers \subseteq User
  /\ User \cap Group = {} /\ member \subseteq User \X Group
  /\ \A c \in Configs : {c.enabled, c.requireContext, c.denyDefault} \subseteq BOOLEAN
                        /\ c.header \in {Nil, "default", "other"}
  /\ \A i \in {MaxObjects, MaxRequests, MaxChanges, MaxFaults} : i \in Nat
  /\ IsFiniteSet(Name) /\ Nil \notin User \cup Group \cup Name
  /\ Nil \notin [level : ALL_PERMISSIONS, of : Nat] /\ Nil \notin ReqState

VARIABLES type, config, objects, rows, users, req, spoiled, abandoned,
          requests, changes, faults

bounds == <<requests, changes, faults>>
vars == <<type, config, objects, rows, users, req, spoiled, abandoned, bounds>>

Holder == User \cup Group
Named(n) == {i \in DOMAIN objects : objects[i] = n}
NamesOf(ids) == {objects[i] : i \in ids \cap DOMAIN objects} \ {Nil}

(* The effective permission: the caller's own row, else a group's. *)
effective_permission(u, n) ==
  IF rows[<<u, n>>] # Nil THEN rows[<<u, n>>].level
  ELSE LET levels == {rows[<<g, n>>].level : g \in {h \in Group : <<u, h>> \in member /\ rows[<<h, n>>] # Nil}}
       IN  IF levels = {} THEN "NO_PERMISSIONS"
           ELSE CHOOSE p \in levels : \A q \in levels : compare_permissions(q, p)
can(u, cap, n) == cap \in capabilities[effective_permission(u, n)]

-----------------------------------------------------------------------------
(* BEFORE_REQUEST_HANDLERS: the capability each operation asks for. *)
Capability(op) ==
  CASE op = "delete" -> IF type \in gateway \cup {"workspace"} THEN "manage" ELSE "delete"
    [] op \in {"rename", "update"} -> IF type = "workspace" THEN "manage" ELSE "update"
    [] OTHER -> "read"

Operations ==
  CASE type = "experiment" -> {"create", "delete", "update", "search"}
    [] type = "registered_model" -> {"create", "delete", "rename", "update"}
    [] type = "scorer" -> {"create", "delete"}
    [] type = "gateway_secret" -> {"create", "delete", "update", "read"}
    [] type = "workspace" -> {"create", "delete", "update", "read"}
    [] OTHER -> {"create", "delete", "rename", "read"}

(* What a request refers to: names as given (refs) and identities (ids). A *)
(* search lists several; an experiment_id may be spelled twice; gateway    *)
(* updates go by id, reads and deletes by id, name or both.                *)
Singletons(S) == {{x} : x \in S}
Referring(op) ==
  LET ids == DOMAIN objects
  IN  CASE op = "create" -> [refs : {{}}, ids : {{}}]
        [] op = "search" -> [refs : SUBSET Name, ids : {{}}]
        [] type = "experiment" /\ op \in {"delete", "update"} -> [refs : SUBSET Name \ {{}}, ids : {{}}]
        [] type \notin gateway \cup {"experiment"} /\ op \notin {"create", "search"} ->
             [refs : Singletons(Name), ids : {{}}]
        [] type \in gateway /\ (op \in {"rename", "update"} \/ (type = "gateway_endpoint" /\ op = "delete")) ->
             [refs : {{}}, ids : Singletons(ids)]
        [] OTHER -> [refs : {{}} \cup Singletons(Name), ids : {{}} \cup Singletons(ids)]

(* A proto field of one value, spelled in two ways. *)
NoCollision(q) == FALSE
find_dual_spelling_collision(q) == q.op \in {"update", "delete"} /\ Cardinality(q.refs) > 1

(* Create endpoints whose after-request handler grants the creator. *)
NobodyRequired(op) == FALSE
requires_existing_user(op) == op = "create"

(* Creation of a resource (not of a scorer or a workspace) is gated by the *)
(* workspace of the request; a request without one lands in the default.   *)
WorkspaceGate(u, op) ==
  \/ op # "create" \/ type \in {"scorer", "workspace"} \/ ~config.enabled
  \/ /\ ~(config.header = Nil /\ config.requireContext)
     /\ ~(config.header \in {Nil, "default"} /\ config.denyDefault)
     /\ config.header = Nil \/ u \in WorkspaceManagers

(* The validators.  Where several names are referred to, every one is      *)
(* checked, and none at all is denied; a single field is the one the       *)
(* validator happens to read.  A search over no experiment is allowed.     *)
all_names(q) == q.refs \cup NamesOf(q.ids)

validator(q, seen) ==
  CASE q.op = "create" -> CASE type = "workspace" -> FALSE
                            [] type = "scorer" -> q.caller \in ExperimentEditors
                            [] OTHER -> TRUE
    [] q.op = "search" -> \A n \in q.refs : can(q.caller, "read", n)
    [] type = "experiment" /\ q.op \notin {"create", "search"} -> can(q.caller, Capability(q.op), seen)
    [] OTHER -> /\ all_names(q) # {}
                /\ \A n \in all_names(q) : can(q.caller, Capability(q.op), n)

-----------------------------------------------------------------------------
(* A resource someone made; a group may have been given a row on it too. *)
Init ==
  /\ type \in Types /\ config \in Configs
  /\ users = User \ Strangers
  /\ \E n \in Name, owner \in users, g \in Group \cup {Nil} :
       /\ objects = <<n>>
       /\ rows = [k \in Holder \X Name |->
                    IF k = <<owner, n>> THEN [level |-> "MANAGE", of |-> 1]
                    ELSE IF k = <<g, n>> THEN [level |-> "EDIT", of |-> 1] ELSE Nil]
  /\ req = [s \in Slot |-> Nil]
  /\ spoiled = {} /\ abandoned = {}
  /\ requests = 0 /\ changes = 0 /\ faults = 0

Only(s, q) == /\ req' = [req EXCEPT ![s] = q]
              /\ UNCHANGED <<type, config, objects, rows, users, spoiled, abandoned, changes, faults>>

(* What the caller has the capability for at this instant. *)
Could(q) == {i \in DOMAIN objects : q.op # "create" /\ objects[i] # Nil /\ can(q.caller, Capability(q.op), objects[i])}

(* before_request_hook up to the administrators' early return.  It stashes *)
(* the present name of the gateway resource that will be changed; the      *)
(* other handlers take the name from the request.                          *)
stash_gateway_context(q) ==
  IF type \notin gateway \/ (q.op = "delete" /\ type # "gateway_endpoint" /\ q.refs # {})
  THEN q.refs ELSE NamesOf(q.ids)

before_request_hook(s, caller, op, ref, new) ==
  LET q0 == [caller |-> caller, op |-> op, refs |-> ref.refs, ids |-> ref.ids, new |-> new,
             at |-> "validate", stash |-> {}, hit |-> Nil, todo |-> <<>>, could |-> {}, fresh |-> {}]
      q == [q0 EXCEPT !.stash = stash_gateway_context(q0), !.could = Could(q0)]
  IN  /\ requests' = requests + 1
      /\ ~find_dual_spelling_collision(q)
      /\ requires_existing_user(op) => caller \in users
      /\ Only(s, IF caller \in Admins THEN [q EXCEPT !.at = "mlflow"] ELSE q)

validate(s) ==
  /\ req[s] # Nil /\ req[s].at = "validate"
  /\ LET q == req[s]
     IN  \E seen \in IF q.refs = {} THEN {Nil} ELSE q.refs :
           Only(s, IF WorkspaceGate(q.caller, q.op) /\ validator(q, seen)
                   THEN [q EXCEPT !.at = "mlflow", !.could = @ \cup Could(q)] ELSE Nil)
  /\ UNCHANGED requests

-----------------------------------------------------------------------------
(* AFTER_REQUEST_PATH_HANDLERS: the store calls after MLflow's commit, in  *)
(* order.  No handler is reached for an experiment's deletion (its id is   *)
(* never reused), a workspace's (the handler is looked up by the exact     *)
(* path) and a model definition's renaming.                                *)
WipeUsersOnly(op) ==
  CASE op = "create" -> <<"grant">>
    [] op = "delete" /\ type \notin {"experiment", "workspace"} -> <<"wipe_users">>
    [] op = "rename" /\ type # "gateway_model_definition" -> <<"rename_users", "rename_groups">>
    [] OTHER -> <<>>
AFTER_REQUEST_PATH_HANDLERS(op) ==
  CASE op = "create" -> <<"grant">>
    [] op = "delete" /\ type = "registered_model" -> <<"wipe_groups", "wipe_users">>
    [] op = "delete" /\ type = "scorer" -> <<"wipe_all">>
    [] op = "delete" /\ type \in gateway -> <<"wipe_users", "wipe_groups">>
    [] op = "rename" /\ type # "gateway_model_definition" -> <<"rename_users", "rename_groups">>
    [] OTHER -> <<>>

Uncascaded(op) == \/ op = "delete" /\ type = "workspace"
                  \/ op = "rename" /\ type = "gateway_model_definition"

Touched(q) == q.stash \cup ({q.new} \ {Nil})
AtWork(names) == {s \in Slot : req[s] # Nil /\ req[s].todo # <<>> /\ Touched(req[s]) \cap names # {}}
Pending(n) == AtWork({n}) # {}

(* Names whose rows may part from their resource after this commit: no     *)
(* handler moves them, the stashed name is out of date, another request's  *)
(* handler is still at work on them, or they were so before a renaming.    *)
Spoils(q, hit) ==
  LET name == IF hit \in DOMAIN objects THEN {objects[hit]} ELSE {}
      all == Touched(q) \cup name
      others == UNION {Touched(req[s]) : s \in AtWork(all)}
      apart == \/ Uncascaded(q.op)
               \/ q.op # "create" /\ q.stash # name
               \/ q.op = "rename" /\ all \cap spoiled # {}
  IN  IF q.op \in {"create", "delete", "rename"} /\ (others # {} \/ apart) THEN all \cup others ELSE {}

(* MLflow's own commit, on any resource the request refers to; an error    *)
(* response (the name is taken, nothing there) skips the after hook.       *)
Targets(q) == {i \in DOMAIN objects : objects[i] # Nil /\ (i \in q.ids \/ objects[i] \in q.refs)}

Commit(s, hit, after) ==
  /\ objects' = after
  /\ req' = [t \in Slot |->
              IF t = s THEN [req[s] EXCEPT !.at = "after", !.hit = hit, !.todo = AFTER_REQUEST_PATH_HANDLERS(req[s].op)]
              ELSE IF req[t] = Nil \/ after = objects THEN req[t]
              ELSE [req[t] EXCEPT !.fresh = @ \cup {hit}]]
  /\ spoiled' = spoiled \cup Spoils(req[s], hit)
  /\ UNCHANGED <<type, config, rows, users, abandoned, bounds>>

mlflow(s) ==
  /\ req[s] # Nil /\ req[s].at = "mlflow"
  /\ LET q == req[s]
         taken == q.op \in {"create", "rename"} /\ Named(q.new) # {}
     IN  \/ /\ q.op = "create" /\ ~taken /\ Len(objects) < MaxObjects
            /\ Commit(s, Len(objects) + 1, Append(objects, q.new))
         \/ /\ q.op = "create" /\ taken /\ type = "scorer"
            /\ \E i \in Named(q.new) : Commit(s, i, objects)
         \/ /\ IF q.op = "create" THEN taken /\ type # "scorer" ELSE taken \/ Targets(q) = {}
            /\ Only(s, Nil) /\ UNCHANGED requests
         \/ /\ q.op # "create" /\ ~taken
            /\ \E i \in Targets(q) :
                 Commit(s, i, CASE q.op = "delete" /\ type # "experiment" -> [objects EXCEPT ![i] = Nil]
                                [] q.op = "rename" -> [objects EXCEPT ![i] = q.new]
                                [] OTHER -> objects)

-----------------------------------------------------------------------------
(* The store calls of the after-request handlers. *)
Acting(s, step) == req[s] # Nil /\ req[s].at = "after" /\ req[s].todo # <<>> /\ Head(req[s].todo) = step

Advance(s) == req' = [req EXCEPT ![s].todo = Tail(@)]
Give_up(s) == req' = [req EXCEPT ![s].todo = <<>>]
Stray(q, r) == \E h \in Holder, n \in q.stash : r[<<h, n>>] # Nil

(* Handler errors are answered (models, scorers, creators) or swallowed    *)
(* (gateways, workspaces); either way the remaining calls are not made.    *)
GrantUnchecked(s) ==
  /\ Acting(s, "grant")
  /\ LET q == req[s]
     IN  /\ rows' = [rows EXCEPT ![<<q.caller, q.new>>] = [level |-> "MANAGE", of |-> q.hit]]
         /\ Advance(s) /\ UNCHANGED abandoned
  /\ UNCHANGED <<type, config, objects, users, spoiled, bounds>>
grant_permission(s) ==
  /\ Acting(s, "grant")
  /\ LET q == req[s]
     IN  IF q.caller \in users /\ rows[<<q.caller, q.new>>] = Nil
         THEN /\ rows' = [rows EXCEPT ![<<q.caller, q.new>>] = [level |-> "MANAGE", of |-> q.hit]]
              /\ Advance(s) /\ UNCHANGED abandoned
         ELSE /\ Give_up(s) /\ UNCHANGED rows
              /\ abandoned' = IF q.caller \in users \cup Strangers THEN abandoned ELSE abandoned \cup {q.hit}
  /\ UNCHANGED <<type, config, objects, users, spoiled, bounds>>

Members(step) == CASE step \in {"wipe_users", "rename_users"} -> User
                   [] step \in {"wipe_groups", "rename_groups"} -> Group
                   [] OTHER -> Holder

wipe(s) ==
  /\ \E step \in {"wipe_users", "wipe_groups", "wipe_all"} :
       /\ Acting(s, step)
       /\ rows' = [k \in Holder \X Name |-> IF k[1] \in Members(step) /\ k[2] \in req[s].stash THEN Nil ELSE rows[k]]
  /\ Advance(s)
  /\ UNCHANGED <<type, config, objects, users, spoiled, abandoned, bounds>>

(* All rows of one table, in one transaction; a row already there under    *)
(* the new name makes it fail, and so does, for models, no row at all.     *)
Held(q, h) == CHOOSE old \in q.stash : rows[<<h, old>>] # Nil
Renamed(q, held) ==
  [k \in Holder \X Name |-> IF k[1] \in held /\ k[2] = q.new THEN rows[<<k[1], Held(q, k[1])>>]
                            ELSE IF k[1] \in held /\ k[2] \in q.stash THEN Nil ELSE rows[k]]
rename(s) ==
  /\ \E step \in {"rename_users", "rename_groups"} :
       /\ Acting(s, step)
       /\ LET q == req[s]
              held == {h \in Members(step) : \E old \in q.stash : rows[<<h, old>>] # Nil}
          IN  IF \/ type = "registered_model" /\ held = {}
                 \/ q.new \notin q.stash /\ \E h \in held : rows[<<h, q.new>>] # Nil
              THEN /\ Give_up(s) /\ UNCHANGED rows
                   /\ spoiled' = IF Stray(q, rows) THEN spoiled \cup Touched(q) ELSE spoiled
              ELSE Advance(s) /\ rows' = Renamed(q, held) /\ UNCHANGED spoiled
  /\ UNCHANGED <<type, config, objects, users, abandoned, bounds>>

Answer(s) ==
  /\ req[s] # Nil /\ req[s].at = "after" /\ req[s].todo = <<>>
  /\ Only(s, Nil) /\ UNCHANGED requests

(* The store raises, or the process dies: the rest of the handler is lost. *)
Fault(s) ==
  /\ req[s] # Nil /\ req[s].at = "after" /\ req[s].todo # <<>>
  /\ faults < MaxFaults /\ faults' = faults + 1
  /\ Give_up(s)
  /\ spoiled' = spoiled \cup Touched(req[s])
  /\ UNCHANGED <<type, config, objects, rows, users, abandoned, requests, changes>>

-----------------------------------------------------------------------------
(* A user is deleted, with all rows (UserAccounts). *)
DeleteUser(u) ==
  /\ u \in users /\ changes < MaxChanges /\ changes' = changes + 1
  /\ users' = users \ {u}
  /\ abandoned' = abandoned \cup {rows[<<u, n>>].of : n \in {m \in Name : rows[<<u, m>>] # Nil}}
  /\ rows' = [k \in Holder \X Name |-> IF k[1] = u THEN Nil ELSE rows[k]]
  /\ UNCHANGED <<type, config, objects, req, spoiled, requests, faults>>

(* A permission route grants a row on a resource (PermissionRoutes). *)
Share(h, n) ==
  /\ h \in users \cup Group /\ rows[<<h, n>>] = Nil /\ Named(n) # {}
  /\ changes < MaxChanges /\ changes' = changes + 1
  /\ \E i \in Named(n) : rows' = [rows EXCEPT ![<<h, n>>] = [level |-> "EDIT", of |-> i]]
  /\ spoiled' = spoiled \cup UNION {Touched(req[s]) : s \in AtWork({n})}
  /\ UNCHANGED <<type, config, objects, users, req, abandoned, requests, faults>>

Request(s) ==
  /\ req[s] = Nil /\ requests < MaxRequests
  /\ \E caller \in User, op \in Operations : \E ref \in Referring(op) :
       \E new \in IF op \in {"create", "rename"} THEN Name ELSE {Nil} :
         before_request_hook(s, caller, op, ref, new)

Next ==
  \/ \E s \in Slot : \/ Request(s) \/ validate(s) \/ mlflow(s) \/ grant_permission(s)
                     \/ wipe(s) \/ rename(s) \/ Answer(s) \/ Fault(s)
  \/ \E u \in User : DeleteUser(u)
  \/ \E h \in Holder, n \in Name : Share(h, n)

Spec == Init /\ [][Next]_vars

-----------------------------------------------------------------------------
(* Rows belong to users the users table knows, and were granted for        *)
(* resources that were made; two resources never bear one name.            *)
TypeOK ==
  /\ \A k \in Holder \X Name : rows[k] # Nil => rows[k].of \in DOMAIN objects /\ k[1] \in users \cup Group
  /\ \A n \in Name : Cardinality(Named(n)) <= 1

Settled(n) == n \notin spoiled /\ ~Pending(n)

(* Whoever a resource's name gave access to before, a new resource of that *)
(* name starts without their rows: every row at a name is of the resource  *)
(* that bears it.  Excepted are names where a handler was cut short, where *)
(* no handler moves the rows (a workspace's deletion, a model definition's *)
(* renaming), where a model's renaming left the other table behind, where  *)
(* the name stashed before MLflow's commit was out of date, and where two  *)
(* requests' commits and handlers interleaved.                             *)
NoInheritedRows ==
  \A n \in Name : Settled(n) =>
    \A i \in Named(n), h \in Holder : rows[<<h, n>>] # Nil => rows[<<h, n>>].of = i

(* Issue #262: a committed creation never leaves a resource nobody         *)
(* manages; with the same exceptions, and unless its manager was deleted.  *)
NoOwnerlessResource ==
  \A n \in Name : Settled(n) =>
    \A i \in Named(n) \ abandoned : \E u \in User : rows[<<u, n>>] # Nil /\ rows[<<u, n>>].level = "MANAGE"

(* However a request refers to resources (by name, by id, by both, in two  *)
(* spellings), MLflow acts for a caller who is no administrator only on a  *)
(* resource the caller had the capability for when the request was         *)
(* checked, or on one that took the name while the request was under way.  *)
ActsWherePermitted ==
  \A s \in Slot : (req[s] # Nil /\ req[s].at = "after" /\ req[s].op # "create" /\ req[s].caller \notin Admins) =>
    req[s].hit \in req[s].could \cup req[s].fresh

(* "Changing the model registry name must be propagated to all users or    *)
(* groups" (after_request.py:460-461): once the handler is done, no row of *)
(* an existing model is left under another name.                           *)
RenameReachesGroups ==
  \A k \in Holder \X Name :
    (type = "registered_model" /\ rows[k] # Nil /\ ~\E n \in Name : Pending(n)) =>
      objects[rows[k].of] \in {Nil, k[2]}

=============================================================================
