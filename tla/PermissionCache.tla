-------------------------- MODULE PermissionCache --------------------------
(***************************************************************************)
(* Permission resolution through the two TTL caches, concurrent with the   *)
(* writes that invalidate them.                                            *)
(*                                                                         *)
(* Workers run resolve_permission.  Every read is a transaction of its     *)
(* own, so a resolve is a sequence of steps: perm-cache lookup, one step   *)
(* per source (two for group-regex), workspace-cache lookup, one step per  *)
(* workspace source, workspace-cache set, perm-cache set.  Admins run the  *)
(* store's permission writes: commit, then flush_permission_cache, then    *)
(* the workspace-cache invalidation, three separate steps.  With the local *)
(* backend each server process has its own caches; with the redis backend  *)
(* all servers share one.                                                  *)
(*                                                                         *)
(* basis (of an entry or a resolve), lastChange, missed and deleted are    *)
(* history: no guard reads them.                                           *)
(***************************************************************************)
EXTENDS PermissionResolution, FiniteSets

CONSTANTS Server, Worker, Admin,
          home,            \* the server process each worker and admin request runs in
          SharedCache,     \* CACHE_BACKEND = "redis"
          EnableWorkspaces,\* config.MLFLOW_ENABLE_WORKSPACES
          cacheId,         \* the resource id part of a resource's cache key
          PermTTL, WsTTL,  \* PERMISSION_CACHE_TTL_SECONDS, WORKSPACE_CACHE_TTL_SECONDS
          PermMax, WsMax,  \* maxsize of the two local caches
          MaxResolve,      \* the longest a resolve stays in flight
          Grantable,       \* the permissions the admins write
          RegexRows,       \* the regex rows the admins write
          InitialDatabases,\* what the tables hold when the processes start
          Faults,          \* whether redis errors, swallowed reads and restarts happen
          MaxTime, MaxChanges

ASSUME CacheAssumption ==
  /\ home \in [Worker \cup Admin -> Server]
  /\ SharedCache \in BOOLEAN /\ EnableWorkspaces \in BOOLEAN /\ Faults \in BOOLEAN
  /\ PermTTL \in Nat \ {0} /\ WsTTL \in Nat \ {0}
  /\ PermMax \in Nat \ {0} /\ WsMax \in Nat \ {0}
  /\ MaxResolve \in Nat /\ MaxTime \in Nat /\ MaxChanges \in Nat
  /\ Grantable \subseteq ALL_PERMISSIONS
  /\ RegexRows \subseteq RegexRow /\ InitialDatabases \subseteq Database
  /\ DOMAIN cacheId = Resource

VARIABLES db,         \* the committed database
          now,        \* the clock the TTLs are measured with
          permCache,  \* utils/permissions.py: _permission_cache, per cache node
          wsCache,    \* utils/workspace_cache.py: _cache, per cache node
          worker,     \* the resolve each worker is in
          admin,      \* the write each admin request is in
          lastChange, \* when the database last changed or a read error was swallowed
          missed,     \* nodes at which a write and a resolve were not serialised
          deleted,    \* users deleted so far
          changes     \* number of commits, for the bound

history == <<lastChange, missed, deleted>>
vars == <<db, now, permCache, wsCache, worker, admin, history, changes>>

Context == IF EnableWorkspaces THEN Workspace \cup {NoWorkspace} ELSE {NoWorkspace}

(* make_cache_key: user, resource id and the request's workspace or the    *)
(* no-workspace marker.                                                    *)
CacheId == {cacheId[r] : r \in Resource}
Key == User \X CacheId \X Context
WorkspaceBlindKey(u, r, x) == <<u, cacheId[r], NoWorkspace>>
make_cache_key(u, r, x) == <<u, cacheId[r], x>>
WsKey == User \X Workspace

(* One cache per server process, or one for all of them. *)
Node(s) == IF SharedCache THEN CHOOSE n \in Server : TRUE ELSE s
NodeOf(p) == Node(home[p])

Kind == {"fallback", "workspace", "workspace-deny"} \cup {SourceOrder[i] : i \in DOMAIN SourceOrder}
Entry == [permission : ALL_PERMISSIONS, kind : Kind, at : Nat, basis : Nat]
WsEntry == [permission : ALL_PERMISSIONS, at : Nat, basis : Nat]

Idle == [pc |-> "idle", user |-> Nil, res |-> Nil, ctx |-> Nil, idx |-> 1, gids |-> {},
         permission |-> Nil, kind |-> Nil, began |-> 0, basis |-> 0]
Quiet == [pc |-> "idle", scope |-> "none", user |-> Nil, group |-> Nil, ws |-> Nil]

Busy(k) == worker[k].pc # "idle"
Writing(a) == admin[a].pc # "idle"

-----------------------------------------------------------------------------
(* The caches. *)

(* The caches c can become when key k is set: a full local cache drops     *)
(* another entry (cachetools' choice is not modelled), redis has no limit. *)
Stores(c, k, e, max) ==
  LET held == {j \in DOMAIN c : c[j] # Nil}
  IN  IF SharedCache \/ k \in held \/ Cardinality(held) < max
      THEN {[c EXCEPT ![k] = e]}
      ELSE {[c EXCEPT ![k] = e, ![v] = Nil] : v \in held}

(* The entries of c that are still alive at time t. *)
ExpiredLate(c, ttl, t) ==
  [k \in DOMAIN c |-> IF c[k] # Nil /\ t <= c[k].at + ttl THEN c[k] ELSE Nil]
Unexpired(c, ttl, t) ==
  [k \in DOMAIN c |-> IF c[k] # Nil /\ t < c[k].at + ttl THEN c[k] ELSE Nil]

flush_permission_cache(c) == [k \in DOMAIN c |-> Nil]

Drop(c, keys) == [k \in DOMAIN c |-> IF k \in keys THEN Nil ELSE c[k]]

-----------------------------------------------------------------------------
(* resolve_permission *)

(* A resolve of u on r in context x that starts at time t. *)
Started(u, r, x, t) ==
  [pc |-> "sources", user |-> u, res |-> r, ctx |-> x, idx |-> 1, gids |-> {},
   permission |-> Nil, kind |-> Nil, began |-> t, basis |-> t]

(* A hit returns the cached entry and changes nothing, so only the miss is *)
(* a step.                                                                 *)
StartResolve(k, u, r, x) ==
  LET n == NodeOf(k) IN
  /\ ~Busy(k)
  /\ permCache[n][make_cache_key(u, r, x)] = Nil
  /\ worker' = [worker EXCEPT ![k] = Started(u, r, x, now)]
  /\ missed' = IF \E a \in Admin : Writing(a) THEN missed \cup {n} ELSE missed
  /\ UNCHANGED <<db, now, permCache, wsCache, admin, lastChange, deleted, changes>>

(* The resolve w, walking the sources of pc, about to ask source i. *)
AtSource(w, pc, i) == [w EXCEPT !.pc = pc, !.idx = i]

(* The resolve w with a result, to go on at pc. *)
Settled(w, pc, permission, kind) ==
  [w EXCEPT !.pc = pc, !.permission = permission, !.kind = kind]

(* The resolve w after one source answered v (Nil: RESOURCE_DOES_NOT_EXIST)*)
(* to the walk at pc = walk; an answer ends the walk at pc = done.         *)
Answered(w, v, walk, done) ==
  IF v = Nil THEN AtSource(w, walk, w.idx + 1)
  ELSE Settled(w, done, v, SourceOrder[w.idx])

(* The resolve w after it read the group ids for the group-regex source.   *)
GotGroups(w, next) == [w EXCEPT !.pc = next, !.gids = get_groups_ids_for_user(db, w.user)]

(* get_permission_from_store_or_default, one source at a time.  The        *)
(* group-regex source reads the group ids first and the rows afterwards.   *)
ReadSource(k) ==
  LET w == worker[k] IN
  /\ w.pc = "sources" /\ w.idx <= Len(SourceOrder)
  /\ worker' = [worker EXCEPT ![k] =
       IF SourceOrder[w.idx] = "group-regex" THEN GotGroups(w, "gregex")
       ELSE Answered(w, SourceLookup(db, SourceOrder[w.idx], w.user, w.res), "sources", "store")]
  /\ UNCHANGED <<db, now, permCache, wsCache, admin, history, changes>>

ReadGroupRegex(k) ==
  LET w == worker[k] IN
  /\ w.pc = "gregex"
  /\ worker' = [worker EXCEPT ![k] =
       Answered(w, MatchRegex(list_permissions_for_groups_ids(db, w.gids), w.res),
                "sources", "store")]
  /\ UNCHANGED <<db, now, permCache, wsCache, admin, history, changes>>

FallBackUnsettled(k) ==
  /\ worker[k].pc = "sources" /\ worker[k].idx > Len(SourceOrder)
  /\ worker' = [worker EXCEPT ![k].pc = IF worker[k].ctx = NoWorkspace THEN "store" ELSE "workspace"]
  /\ UNCHANGED <<db, now, permCache, wsCache, admin, history, changes>>

(* No source answered: the default, which a request with a workspace       *)
(* defers to the workspace permission.                                     *)
FallBack(k) ==
  LET w == worker[k] IN
  /\ w.pc = "sources" /\ w.idx > Len(SourceOrder)
  /\ worker' = [worker EXCEPT ![k] =
       Settled(w, IF w.ctx = NoWorkspace THEN "store" ELSE "workspace",
               DefaultPermission, "fallback")]
  /\ UNCHANGED <<db, now, permCache, wsCache, admin, history, changes>>

(* The resolve w now also rests on what was read at time b. *)
OnBasis(w, b) == [w EXCEPT !.basis = IF b < w.basis THEN b ELSE w.basis]

(* get_workspace_permission_cached: a hit supplies the permission, a miss  *)
(* starts the walk over the workspace sources.                             *)
get_workspace_permission_cached(k) ==
  LET w == worker[k]
      e == wsCache[NodeOf(k)][<<w.user, w.ctx>>] IN
  /\ w.pc = "workspace"
  /\ worker' = [worker EXCEPT ![k] =
       IF e # Nil
       THEN Settled(OnBasis(w, e.basis), "store", e.permission, "workspace")
       ELSE AtSource(w, "wssources", 1)]
  /\ UNCHANGED <<db, now, permCache, wsCache, admin, history, changes>>

(* lookup_workspace_permission, one source at a time. *)
ReadWorkspaceSource(k) ==
  LET w == worker[k] IN
  /\ w.pc = "wssources" /\ w.idx <= Len(SourceOrder)
  /\ worker' = [worker EXCEPT ![k] =
       IF SourceOrder[w.idx] = "group-regex" THEN GotGroups(w, "wsgregex")
       ELSE Answered(w, SourceLookup(db, SourceOrder[w.idx], w.user, w.ctx), "wssources", "wsset")]
  /\ UNCHANGED <<db, now, permCache, wsCache, admin, history, changes>>

ReadWorkspaceGroupRegex(k) ==
  LET w == worker[k] IN
  /\ w.pc = "wsgregex"
  /\ worker' = [worker EXCEPT ![k] =
       Answered(w, MatchRegex(list_permissions_for_groups_ids(db, w.gids), w.ctx),
                "wssources", "wsset")]
  /\ UNCHANGED <<db, now, permCache, wsCache, admin, history, changes>>

(* An exception in a workspace source is logged and taken for "no row". *)
WorkspaceReadFails(k) ==
  LET w == worker[k] IN
  /\ Faults
  /\ w.pc \in {"wssources", "wsgregex"} /\ w.idx <= Len(SourceOrder)
  /\ worker' = [worker EXCEPT ![k] = Answered(w, Nil, "wssources", "wsset")]
  /\ lastChange' = now
  /\ missed' = missed \cup {NodeOf(k)}
  /\ UNCHANGED <<db, now, permCache, wsCache, admin, deleted, changes>>

(* A found workspace permission is cached; denials are not. *)
SetWorkspaceCache(k) ==
  LET w == worker[k]
      n == NodeOf(k) IN
  /\ w.pc = "wsset"
  /\ \E c \in Stores(wsCache[n], <<w.user, w.ctx>>,
                     [permission |-> w.permission, at |-> now, basis |-> w.basis], WsMax) :
       wsCache' = [wsCache EXCEPT ![n] = c]
  /\ worker' = [worker EXCEPT ![k] = Settled(w, "store", w.permission, "workspace")]
  /\ UNCHANGED <<db, now, permCache, admin, history, changes>>

DenyByWorkspace(k) ==
  LET w == worker[k] IN
  /\ w.pc = "wssources" /\ w.idx > Len(SourceOrder)
  /\ worker' = [worker EXCEPT ![k] =
       Settled(w, "store", "NO_PERMISSIONS", "workspace-deny")]
  /\ UNCHANGED <<db, now, permCache, wsCache, admin, history, changes>>

(* cache.set, then the decision is returned to the caller. *)
SetPermissionCache(k) ==
  LET w == worker[k]
      n == NodeOf(k) IN
  /\ w.pc = "store"
  /\ \E c \in Stores(permCache[n], make_cache_key(w.user, w.res, w.ctx),
                     [permission |-> w.permission, kind |-> w.kind, at |-> now,
                      basis |-> w.basis], PermMax) :
       permCache' = [permCache EXCEPT ![n] = c]
  /\ worker' = [worker EXCEPT ![k] = Idle]
  /\ UNCHANGED <<db, now, wsCache, admin, history, changes>>

(* A database error in a resource source, or a redis error at any step,    *)
(* aborts the request; nothing is cached.                                  *)
ResolveFails(k) ==
  /\ Busy(k)
  /\ worker[k].pc \in {"sources", "gregex"} \/ (SharedCache /\ Faults)
  /\ worker' = [worker EXCEPT ![k] = Idle]
  /\ UNCHANGED <<db, now, permCache, wsCache, admin, history, changes>>

-----------------------------------------------------------------------------
(* The store's writes.  Each one commits, and leaves the request with a    *)
(* flush of the permission cache and an invalidation of the workspace      *)
(* cache still to do.                                                      *)
ToDo(pc, scope, u, g, w) == [pc |-> pc, scope |-> scope, user |-> u, group |-> g, ws |-> w]

Commit(a, d, step) ==
  /\ changes < MaxChanges
  /\ db' = d
  /\ admin' = [admin EXCEPT ![a] = step]
  /\ changes' = changes + 1
  /\ lastChange' = now
  /\ missed' = missed \cup (Server \ {NodeOf(a)}) \cup {NodeOf(k) : k \in {j \in Worker : Busy(j)}}
  /\ UNCHANGED <<now, permCache, wsCache, worker>>

Begin(a, d, step) == ~Writing(a) /\ Commit(a, d, step) /\ UNCHANGED deleted

(* create_/update_/delete_*_permission of a user or a group on a resource  *)
(* or a workspace; p = Nil deletes, which needs a row.                     *)
SetPermission(a, h, t, p) ==
  /\ p = Nil => db.direct[<<h, t>>] # Nil
  /\ Begin(a, [db EXCEPT !.direct = [db.direct EXCEPT ![<<h, t>>] = p]],
           IF t \in Resource THEN ToDo("flush", "none", Nil, Nil, Nil)
           ELSE IF h \in User THEN ToDo("flush", "entry", h, Nil, t)
           ELSE ToDo("flush", "group", Nil, h, t))

(* create_/update_/delete_*_regex_permission; the router flushes the       *)
(* workspace cache after a workspace pattern changed.                      *)
SetRegexPermission(a, gone, added) ==
  /\ gone \subseteq db.regex /\ gone \cup added # {}
  /\ Begin(a, [db EXCEPT !.regex = (db.regex \ gone) \cup added],
           ToDo("flush", IF \E r \in gone \cup added : r.matches \cap Workspace # {}
                         THEN "all" ELSE "none", Nil, Nil, Nil))

(* set_user_groups; add_user_to_group and remove_user_from_group are the   *)
(* cases that change one pair.                                             *)
set_user_groups(a, u, groups) ==
  Begin(a, [db EXCEPT !.member = {m \in db.member : m[1] # u} \cup ({u} \X groups)],
        ToDo("flush", "user", u, Nil, Nil))

(* wipe_workspace_permissions: the user rows in one transaction, the group *)
(* rows in a second one.                                                   *)
WipeRows(holders, w) ==
  [db EXCEPT !.direct = [c \in DOMAIN db.direct |->
                           IF c[1] \in holders /\ c[2] = w THEN Nil ELSE db.direct[c]]]

wipe_workspace_permissions(a, w) ==
  Begin(a, WipeRows(User, w), ToDo("wipe", "all", Nil, Nil, w))

WipeGroupRows(a) ==
  /\ admin[a].pc = "wipe"
  /\ Commit(a, WipeRows(Group, admin[a].ws), [admin[a] EXCEPT !.pc = "flush"])
  /\ UNCHANGED deleted

(* delete_user removes the user's rows and memberships and is not among    *)
(* the methods wrapped with an invalidation.                               *)
delete_user(a, u) ==
  /\ ~Writing(a)
  /\ Commit(a, [direct |-> [c \in DOMAIN db.direct |-> IF c[1] = u THEN Nil ELSE db.direct[c]],
                regex |-> {r \in db.regex : r.holder # u},
                member |-> {m \in db.member : m[1] # u}], Quiet)
  /\ deleted' = deleted \cup {u}

Flush(a) ==
  /\ admin[a].pc = "flush"
  /\ permCache' = [permCache EXCEPT ![NodeOf(a)] = flush_permission_cache(permCache[NodeOf(a)])]
  /\ admin' = [admin EXCEPT ![a] = IF admin[a].scope = "none" THEN Quiet
                                   ELSE [admin[a] EXCEPT !.pc = "invalidate"]]
  /\ UNCHANGED <<db, now, wsCache, worker, history, changes>>

InvalidatedSansMembership(s) ==
  {k \in WsKey : \/ s.scope = "entry" /\ k = <<s.user, s.ws>>
                 \/ s.scope = "group" /\ <<k[1], s.group>> \in db.member /\ k[2] = s.ws
                 \/ s.scope = "all"}

(* The workspace entries an invalidation drops: one entry, one user's      *)
(* entries, one workspace's entries for the group's current members, all.  *)
Invalidated(s) ==
  {k \in WsKey : \/ s.scope = "entry" /\ k = <<s.user, s.ws>>
                 \/ s.scope = "user" /\ k[1] = s.user
                 \/ s.scope = "group" /\ <<k[1], s.group>> \in db.member /\ k[2] = s.ws
                 \/ s.scope = "all"}

(* Listing the members of the group may fail; then everything is flushed.  *)
InvalidateWorkspaceCache(a) ==
  /\ admin[a].pc = "invalidate"
  /\ \E keys \in {Invalidated(admin[a])} \cup (IF admin[a].scope = "group" THEN {WsKey} ELSE {}) :
       wsCache' = [wsCache EXCEPT ![NodeOf(a)] = Drop(wsCache[NodeOf(a)], keys)]
  /\ admin' = [admin EXCEPT ![a] = Quiet]
  /\ UNCHANGED <<db, now, permCache, worker, history, changes>>

(* The second transaction of a wipe fails, or redis fails during a flush   *)
(* (raised) or a workspace invalidation (logged): the rest is skipped.     *)
WriteAborts(a) ==
  /\ Faults
  /\ admin[a].pc = "wipe" \/ (SharedCache /\ admin[a].pc \in {"flush", "invalidate"})
  /\ admin' = [admin EXCEPT ![a] = Quiet]
  /\ missed' = missed \cup {NodeOf(a)}
  /\ UNCHANGED <<db, now, permCache, wsCache, worker, lastChange, deleted, changes>>

(* A server process dies and comes back: its requests are gone, and its    *)
(* caches too unless they live in redis.                                   *)
Restart(s) ==
  /\ Faults
  /\ worker' = [k \in Worker |-> IF home[k] = s THEN Idle ELSE worker[k]]
  /\ admin' = [a \in Admin |-> IF home[a] = s THEN Quiet ELSE admin[a]]
  /\ IF SharedCache
     THEN /\ missed' = IF \E a \in Admin : home[a] = s /\ Writing(a) THEN missed \cup {Node(s)} ELSE missed
          /\ UNCHANGED <<permCache, wsCache>>
     ELSE /\ permCache' = [permCache EXCEPT ![s] = Drop(permCache[s], Key)]
          /\ wsCache' = [wsCache EXCEPT ![s] = Drop(wsCache[s], WsKey)]
          /\ UNCHANGED missed
  /\ UNCHANGED <<db, now, lastChange, deleted, changes>>

(* Time passes; no resolve is in flight longer than MaxResolve. *)
Tick ==
  /\ now < MaxTime
  /\ \A k \in Worker : Busy(k) => now < worker[k].began + MaxResolve
  /\ now' = now + 1
  /\ permCache' = [n \in Server |-> Unexpired(permCache[n], PermTTL, now')]
  /\ wsCache' = [n \in Server |-> Unexpired(wsCache[n], WsTTL, now')]
  /\ UNCHANGED <<db, worker, admin, history, changes>>

-----------------------------------------------------------------------------
Init ==
  /\ db \in InitialDatabases
  /\ now = 0
  /\ permCache = [n \in Server |-> [k \in Key |-> Nil]]
  /\ wsCache = [n \in Server |-> [k \in WsKey |-> Nil]]
  /\ worker = [k \in Worker |-> Idle]
  /\ admin = [a \in Admin |-> Quiet]
  /\ lastChange = 0
  /\ missed = {}
  /\ deleted = {}
  /\ changes = 0

Resolving(k) ==
  \/ \E u \in User, r \in Resource, x \in Context : StartResolve(k, u, r, x)
  \/ ReadSource(k)
  \/ ReadGroupRegex(k)
  \/ FallBack(k)
  \/ get_workspace_permission_cached(k)
  \/ ReadWorkspaceSource(k)
  \/ ReadWorkspaceGroupRegex(k)
  \/ WorkspaceReadFails(k)
  \/ SetWorkspaceCache(k)
  \/ DenyByWorkspace(k)
  \/ SetPermissionCache(k)
  \/ ResolveFails(k)

Changing(a) ==
  \/ \E h \in Holder, t \in Target, p \in Grantable \cup {Nil} : SetPermission(a, h, t, p)
  \/ \E gone, added \in {{}} \cup {{r} : r \in RegexRows} : SetRegexPermission(a, gone, added)
  \/ \E u \in User, groups \in SUBSET Group : set_user_groups(a, u, groups)
  \/ \E w \in Workspace : wipe_workspace_permissions(a, w)
  \/ WipeGroupRows(a)
  \/ \E u \in User : delete_user(a, u)
  \/ Flush(a)
  \/ InvalidateWorkspaceCache(a)
  \/ WriteAborts(a)

Next == \/ \E k \in Worker : Resolving(k)
        \/ \E a \in Admin : Changing(a)
        \/ \E s \in Server : Restart(s)
        \/ Tick

Spec == Init /\ [][Next]_vars

-----------------------------------------------------------------------------
(* Properties *)

WorkerState ==
  [pc : {"idle", "sources", "gregex", "workspace", "wssources", "wsgregex", "wsset", "store"},
   user : User \cup {Nil}, res : Resource \cup {Nil}, ctx : Context \cup {Nil},
   idx : Nat, gids : SUBSET Group, permission : ALL_PERMISSIONS \cup {Nil},
   kind : Kind \cup {Nil}, began : Nat, basis : Nat]
AdminState ==
  [pc : {"idle", "wipe", "flush", "invalidate"},
   scope : {"none", "entry", "user", "group", "all"},
   user : User \cup {Nil}, group : Group \cup {Nil}, ws : Workspace \cup {Nil}]

(* The shape of the database, the caches and the requests in flight. *)
TypeOK ==
  /\ db \in Database
  /\ now \in Nat /\ lastChange \in Nat /\ changes \in Nat
  /\ permCache \in [Server -> [Key -> Entry \cup {Nil}]]
  /\ wsCache \in [Server -> [WsKey -> WsEntry \cup {Nil}]]
  /\ worker \in [Worker -> WorkerState]
  /\ admin \in [Admin -> AdminState]
  /\ missed \subseteq Server
  /\ deleted \subseteq User

(* The resources whose cache key no other resource shares.  Scorers of one *)
(* experiment share one.                                                   *)
Sole == {r \in Resource : \A q \in Resource : cacheId[q] = cacheId[r] => q = r}

Decided(e, u, r, x) ==
  [permission |-> e.permission, kind |-> e.kind] = resolve_permission(db, u, r, x)

(* What the permission cache of n would serve for u on r agrees with the   *)
(* database.                                                               *)
Agrees(n, u, r, x) ==
  LET e == permCache[n][make_cache_key(u, r, x)] IN e # Nil => Decided(e, u, r, x)

WsAgrees(n, u, w) ==
  LET e == wsCache[n][<<u, w>>] IN e # Nil => e.permission = lookup_workspace_permission(db, u, w)

StaleWindow == PermTTL + WsTTL + 2 * MaxResolve

(* However writes, resolves, failures and restarts interleave, and on      *)
(* every replica, a cached decision disagrees with the database for less   *)
(* than PermTTL + WsTTL plus the time two resolves may take.               *)
StalenessBound ==
  now >= lastChange + StaleWindow =>
    \A n \in Server, u \in User, r \in Sole, x \in Context : Agrees(n, u, r, x)

(* With no write under way at n, its caches agree with the database. *)
Coherent(n, users, resources) ==
  (\A a \in Admin : NodeOf(a) = n => ~Writing(a)) =>
    \A u \in users : /\ \A r \in resources, x \in Context : Agrees(n, u, r, x)
                     /\ \A w \in Workspace : WsAgrees(n, u, w)

(* A cache at which no write overlapped a resolve, and which every write   *)
(* went through, agrees with the database as soon as the write has         *)
(* finished: what each write invalidates covers what it changed.           *)
CoherentUnlessMissed == \A n \in Server \ missed : Coherent(n, User \ deleted, Sole)

(* docs/permissions.md: scorers have permissions of their own, so what is  *)
(* cached for one scorer is that scorer's, on shared keys too.             *)
ScorersKeptApart == \A n \in Server \ missed : Coherent(n, User \ deleted, Resource)

-----------------------------------------------------------------------------
(* The inductive invariant behind StalenessBound.  basis is a time at or   *)
(* after which everything the value was computed from was read: the start  *)
(* of the resolve, or the basis of the workspace entry it used.            *)

(* What a worker at each step of its walk carries. *)
WorkerShape(w) ==
  w.pc # "idle" =>
    /\ w.user \in User /\ w.res \in Resource /\ w.ctx \in Context /\ w.idx >= 1
    /\ w.pc \in {"workspace", "wssources", "wsgregex", "wsset"} => w.ctx \in Workspace
    /\ w.pc \in {"gregex", "wsgregex"} => /\ w.idx \in DOMAIN SourceOrder
                                          /\ SourceOrder[w.idx] = "group-regex"
    /\ w.pc \in {"wsset", "store"} => w.permission \in ALL_PERMISSIONS
    /\ w.pc = "store" => w.kind \in Kind

WorkerTimes(w) ==
  w.pc # "idle" =>
    /\ w.began <= now /\ now <= w.began + MaxResolve
    /\ w.basis <= w.began /\ w.began < w.basis + MaxResolve + WsTTL
    /\ w.pc # "store" => w.basis = w.began

(* No source before the walk's position answers for target t. *)
Passed(w, t) ==
  \A j \in DOMAIN SourceOrder :
    j < w.idx => SourceLookup(db, SourceOrder[j], w.user, t) = Nil

(* What a resolve that has seen the database as it is carries. *)
Sound(w) ==
  w.pc # "idle" =>
    /\ w.pc \in {"sources", "gregex"} => Passed(w, w.res)
    /\ w.pc \in {"workspace", "wssources", "wsgregex", "wsset"} => Answering(db, w.user, w.res) = {}
    /\ w.pc \in {"wssources", "wsgregex"} => Passed(w, w.ctx)
    /\ w.pc \in {"gregex", "wsgregex"} => w.gids = get_groups_ids_for_user(db, w.user)
    /\ w.pc = "wsset" => w.permission = lookup_workspace_permission(db, w.user, w.ctx)
    /\ w.pc = "store" => Decided(w, w.user, w.res, w.ctx)

(* So has one whose basis is later than the last change. *)
WorkerFresh(w) == w.basis > lastChange => Sound(w)

EntryTimes(n, k) ==
  LET e == permCache[n][k] IN
  e # Nil => /\ e.at <= now /\ now < e.at + PermTTL
             /\ e.basis <= e.at /\ e.at < e.basis + 2 * MaxResolve + WsTTL

EntryFresh(n, u, r, x) ==
  LET e == permCache[n][make_cache_key(u, r, x)] IN
  (e # Nil /\ e.basis > lastChange) => Decided(e, u, r, x)

WsEntryTimes(n, k) ==
  LET e == wsCache[n][k] IN
  e # Nil => /\ e.at <= now /\ now < e.at + WsTTL
             /\ e.basis <= e.at /\ e.at <= e.basis + MaxResolve

WsEntryFresh(n, u, w) ==
  LET e == wsCache[n][<<u, w>>] IN
  (e # Nil /\ e.basis > lastChange) => e.permission = lookup_workspace_permission(db, u, w)

(* Every cached value and every resolve in flight whose basis is later     *)
(* than the last change agrees with the database, and no cached value is   *)
(* older than its basis allows.                                            *)
FreshByBasis ==
  /\ \A k \in Worker : /\ WorkerShape(worker[k])
                       /\ WorkerTimes(worker[k])
                       /\ WorkerFresh(worker[k])
  /\ \A n \in Server : /\ \A k \in Key : EntryTimes(n, k)
                       /\ \A u \in User, r \in Sole, x \in Context : EntryFresh(n, u, r, x)
                       /\ \A k \in WsKey : WsEntryTimes(n, k)
                       /\ \A u \in User, w \in Workspace : WsEntryFresh(n, u, w)

=============================================================================
