----------------------- MODULE PermissionCacheProofs -----------------------
(***************************************************************************)
(* Type correctness of PermissionCache, the bound on how long a cached     *)
(* decision can disagree with the database, and coherence where no write   *)
(* overlaps a resolve, for every set of users, groups, resources,          *)
(* workspaces, servers and requests, every source order and every pair of  *)
(* TTLs.                                                                   *)
(***************************************************************************)
EXTENDS PermissionCache, ResolutionProofs, TLAPS

-----------------------------------------------------------------------------
(* Type correctness. *)

LEMMA StoresType ==
  ASSUME NEW K, NEW V, NEW c \in [K -> V], Nil \in V, NEW k \in K, NEW e \in V, NEW max,
         NEW f \in Stores(c, k, e, max)
  PROVE  f \in [K -> V]
BY DEF Stores

LEMMA NodeType == \A s \in Server : Node(s) \in Server
<1>1. ASSUME NEW s \in Server PROVE (CHOOSE n \in Server : TRUE) \in Server
  BY <1>1
<1>2. QED
  BY <1>1 DEF Node

LEMMA NodeOfType == \A p \in Worker \cup Admin : NodeOf(p) \in Server
BY NodeType, CacheAssumption DEF NodeOf

LEMMA ContextType == /\ Context \subseteq Workspace \cup {NoWorkspace}
                     /\ Workspace \subseteq Target /\ Resource \subseteq Target
BY DEF Context, Target

(* A resolve in flight, well typed and with the fields its position in     *)
(* the walk promises.                                                      *)
Shaped(w) == w \in WorkerState /\ WorkerShape(w)

(* TypeOK is inductive only together with the shape of each worker: the    *)
(* types of a worker's fields depend on where it is in its walk.           *)
Typed == TypeOK /\ \A k \in Worker : WorkerShape(worker[k])

LEMMA TypedInit == Init => Typed
<1> SUFFICES ASSUME Init PROVE Typed
  OBVIOUS
<1>1. db \in Database
  BY CacheAssumption DEF Init
<1>2. worker \in [Worker -> WorkerState] /\ admin \in [Admin -> AdminState]
  BY DEF Init, WorkerState, AdminState, Idle, Quiet
<1>3. \A k \in Worker : WorkerShape(worker[k])
  BY DEF Init, WorkerShape, Idle
<1>4. QED
  BY <1>1, <1>2, <1>3 DEF Init, Typed, TypeOK

LEMMA IdleShaped == Shaped(Idle)
BY DEF Shaped, WorkerShape, Idle, WorkerState

(* A step that replaces one worker by a well-shaped one and changes no     *)
(* other typed variable keeps the types.                                   *)
LEMMA TypedWorkerStep ==
  ASSUME Typed, NEW k \in Worker, NEW w, Shaped(w), worker' = [worker EXCEPT ![k] = w],
         UNCHANGED <<db, now, admin, changes>>, lastChange' \in Nat, missed' \subseteq Server,
         deleted' \subseteq User,
         permCache' \in [Server -> [Key -> Entry \cup {Nil}]],
         wsCache' \in [Server -> [WsKey -> WsEntry \cup {Nil}]]
  PROVE  Typed'
<1>1. worker' \in [Worker -> WorkerState]
  BY DEF Typed, TypeOK, Shaped
<1>2. \A j \in Worker : WorkerShape(worker'[j])
  BY DEF Typed, TypeOK, Shaped
<1>3. (\A j \in Worker : WorkerShape(worker[j]))'
  BY <1>2 DEF WorkerShape
<1>4. QED
  BY <1>1, <1>3 DEF Typed, TypeOK

(* The values a walk gives to a worker are well shaped. *)
LEMMA AtSourceShaped ==
  ASSUME NEW w, Shaped(w), w.pc # "idle", NEW i \in Nat, i >= 1, NEW pc,
         pc = "sources" \/ (pc = "wssources" /\ w.ctx \in Workspace)
  PROVE  Shaped(AtSource(w, pc, i))
BY DEF Shaped, WorkerShape, WorkerState, AtSource

LEMMA SettledShaped ==
  ASSUME NEW w, Shaped(w), w.pc # "idle", NEW p \in ALL_PERMISSIONS, NEW kind \in Kind, NEW pc,
         pc = "store" \/ (pc \in {"workspace", "wsset"} /\ w.ctx \in Workspace)
  PROVE  Shaped(Settled(w, pc, p, kind))
BY DEF Shaped, WorkerShape, WorkerState, Settled

LEMMA OnBasisShaped ==
  ASSUME NEW w, Shaped(w), w.pc # "idle", NEW b \in Nat
  PROVE  Shaped(OnBasis(w, b)) /\ OnBasis(w, b).pc # "idle"
BY DEF Shaped, WorkerShape, WorkerState, OnBasis

LEMMA AnsweredShaped ==
  ASSUME NEW w, Shaped(w), w.pc # "idle", w.idx \in DOMAIN SourceOrder, NEW v \in PermOrNil,
         NEW walk, NEW done,
         \/ walk = "sources" /\ done = "store"
         \/ walk = "wssources" /\ done = "wsset" /\ w.ctx \in Workspace
  PROVE  Shaped(Answered(w, v, walk, done))
<1>1. CASE v = Nil
  <2>1. w.idx + 1 \in Nat /\ w.idx + 1 >= 1
    BY DEF Shaped, WorkerShape, WorkerState
  <2>2. QED
    BY <1>1, <2>1, AtSourceShaped DEF Answered
<1>2. CASE v # Nil
  <2>1. v \in ALL_PERMISSIONS /\ SourceOrder[w.idx] \in Kind
    BY <1>2 DEF PermOrNil, Kind
  <2>2. QED
    BY <1>2, <2>1, SettledShaped DEF Answered
<1>3. QED
  BY <1>1, <1>2

LEMMA GotGroupsShaped ==
  ASSUME NEW w, Shaped(w), w.pc # "idle", w.idx \in DOMAIN SourceOrder,
         SourceOrder[w.idx] = "group-regex", NEW next,
         next = "gregex" \/ (next = "wsgregex" /\ w.ctx \in Workspace)
  PROVE  Shaped(GotGroups(w, next))
<1>1. get_groups_ids_for_user(db, w.user) \subseteq Group
  BY DEF get_groups_ids_for_user
<1>2. QED
  BY <1>1 DEF Shaped, WorkerShape, WorkerState, GotGroups

(* Every walking worker has a user, a resource and a context to look up. *)
LEMMA WalkingTyped ==
  ASSUME Typed, NEW k \in Worker, worker[k].pc # "idle"
  PROVE  /\ Shaped(worker[k])
         /\ worker[k].user \in User /\ worker[k].res \in Target /\ worker[k].idx \in Nat
         /\ worker[k].idx <= Len(SourceOrder) => worker[k].idx \in DOMAIN SourceOrder
<1>1. Shaped(worker[k])
  BY DEF Typed, TypeOK, Shaped
<1>2. worker[k].user \in User /\ worker[k].res \in Target /\ worker[k].idx \in Nat /\ worker[k].idx >= 1
  BY <1>1 DEF Shaped, WorkerShape, WorkerState, Target
<1>3. QED
  BY <1>1, <1>2, OrderAssumption

LEMMA GroupRowsType ==
  ASSUME Typed, NEW gs, NEW t \in Target
  PROVE  MatchRegex(list_permissions_for_groups_ids(db, gs), t) \in PermOrNil
<1>1. list_permissions_for_groups_ids(db, gs) \in SUBSET RegexRow
  BY DEF Typed, TypeOK, Database, list_permissions_for_groups_ids
<1>2. QED
  BY <1>1, MatchRegexType

LEMMA TypedResolving ==
  ASSUME Typed, NEW k \in Worker, Resolving(k)
  PROVE  Typed'
<1> DEFINE w == worker[k]
<1>0. /\ NodeOf(k) \in Server /\ Nil \in PermOrNil
      /\ \A s : \A u \in User, t \in Target : SourceLookup(db, s, u, t) \in PermOrNil
  BY NodeOfType, SourceLookupType DEF Typed, TypeOK, PermOrNil
<1>1. ASSUME NEW u \in User, NEW r \in Resource, NEW x \in Context, StartResolve(k, u, r, x)
      PROVE  Typed'
  <2>1. now \in Nat
    BY DEF Typed, TypeOK
  <2>2. \A t \in Nat : Shaped(Started(u, r, x, t))
    BY DEF Shaped, WorkerShape, WorkerState, Idle, Started
  <2>3. QED
    BY <1>0, <1>1, <2>1, <2>2, TypedWorkerStep DEF StartResolve, Typed, TypeOK
<1>2. CASE ReadSource(k)
  <2>1. w.pc # "idle" /\ w.idx <= Len(SourceOrder)
    BY <1>2 DEF ReadSource
  <2>2. /\ Shaped(GotGroups(w, "gregex")) \/ SourceOrder[w.idx] # "group-regex"
        /\ Shaped(Answered(w, SourceLookup(db, SourceOrder[w.idx], w.user, w.res), "sources", "store"))
    BY <1>0, <2>1, WalkingTyped, GotGroupsShaped, AnsweredShaped
  <2>3. QED
    BY <1>2, <2>2, TypedWorkerStep DEF ReadSource, Typed, TypeOK, history
<1>3. CASE ReadGroupRegex(k)
  <2>1. w.pc # "idle" /\ w.idx \in DOMAIN SourceOrder /\ w.res \in Target
    BY <1>3, WalkingTyped DEF ReadGroupRegex, Shaped, WorkerShape
  <2>2. Shaped(Answered(w, MatchRegex(list_permissions_for_groups_ids(db, w.gids), w.res),
                        "sources", "store"))
    BY <2>1, WalkingTyped, GroupRowsType, AnsweredShaped
  <2>3. QED
    BY <1>3, <2>2, TypedWorkerStep DEF ReadGroupRegex, Typed, TypeOK, history
<1>4. CASE FallBack(k)
  <2>1. /\ Shaped(w) /\ w.pc # "idle" /\ "fallback" \in Kind
        /\ w.ctx # NoWorkspace => w.ctx \in Workspace
    BY <1>4, WalkingTyped, ContextType DEF FallBack, Kind, Shaped, WorkerShape
  <2>2. Shaped(Settled(w, IF w.ctx = NoWorkspace THEN "store" ELSE "workspace",
                       DefaultPermission, "fallback"))
    BY <2>1, DefaultAssumption, SettledShaped
  <2>3. QED
    BY <1>4, <2>2, TypedWorkerStep DEF FallBack, Typed, TypeOK, history
<1>5. CASE get_workspace_permission_cached(k)
  <2> DEFINE e == wsCache[NodeOf(k)][<<w.user, w.ctx>>]
  <2>1. Shaped(w) /\ w.pc # "idle" /\ w.user \in User /\ w.ctx \in Workspace
    BY <1>5, WalkingTyped DEF get_workspace_permission_cached, Shaped, WorkerShape
  <2>2. e # Nil => e.permission \in ALL_PERMISSIONS /\ e.basis \in Nat
    BY <1>0, <2>1 DEF Typed, TypeOK, WsKey, WsEntry
  <2>3. e # Nil => Shaped(Settled(OnBasis(w, e.basis), "store", e.permission, "workspace"))
    <3>1. e # Nil => Shaped(OnBasis(w, e.basis)) /\ OnBasis(w, e.basis).pc # "idle"
      BY <2>1, <2>2, OnBasisShaped
    <3>2. QED
      BY <2>2, <3>1, SettledShaped DEF Kind
  <2>4. Shaped(AtSource(w, "wssources", 1))
    BY <2>1, AtSourceShaped
  <2>5. QED
    BY <1>5, <2>3, <2>4, TypedWorkerStep
    DEF get_workspace_permission_cached, Typed, TypeOK, history
<1>6. CASE ReadWorkspaceSource(k)
  <2>1. w.pc # "idle" /\ w.idx <= Len(SourceOrder) /\ w.ctx \in Workspace /\ w.ctx \in Target
    BY <1>6, WalkingTyped DEF ReadWorkspaceSource, Shaped, WorkerShape, Target
  <2>2. /\ Shaped(GotGroups(w, "wsgregex")) \/ SourceOrder[w.idx] # "group-regex"
        /\ Shaped(Answered(w, SourceLookup(db, SourceOrder[w.idx], w.user, w.ctx), "wssources", "wsset"))
    BY <1>0, <2>1, WalkingTyped, GotGroupsShaped, AnsweredShaped
  <2>3. QED
    BY <1>6, <2>2, TypedWorkerStep DEF ReadWorkspaceSource, Typed, TypeOK, history
<1>7. CASE ReadWorkspaceGroupRegex(k)
  <2>1. /\ w.pc # "idle" /\ w.idx \in DOMAIN SourceOrder
        /\ w.ctx \in Workspace /\ w.ctx \in Target
    BY <1>7, WalkingTyped DEF ReadWorkspaceGroupRegex, Shaped, WorkerShape, Target
  <2>2. Shaped(Answered(w, MatchRegex(list_permissions_for_groups_ids(db, w.gids), w.ctx),
                        "wssources", "wsset"))
    BY <2>1, WalkingTyped, GroupRowsType, AnsweredShaped
  <2>3. QED
    BY <1>7, <2>2, TypedWorkerStep DEF ReadWorkspaceGroupRegex, Typed, TypeOK, history
<1>8. CASE WorkspaceReadFails(k)
  <2>1. w.pc # "idle" /\ w.idx <= Len(SourceOrder) /\ w.ctx \in Workspace
    BY <1>8, WalkingTyped DEF WorkspaceReadFails, Shaped, WorkerShape
  <2>2. Shaped(Answered(w, Nil, "wssources", "wsset"))
    BY <1>0, <2>1, WalkingTyped, AnsweredShaped
  <2>3. QED
    BY <1>0, <1>8, <2>2, TypedWorkerStep DEF WorkspaceReadFails, Typed, TypeOK
<1>9. CASE SetWorkspaceCache(k)
  <2>1. /\ Shaped(w) /\ w.pc = "wsset" /\ w.user \in User /\ w.ctx \in Workspace
        /\ w.permission \in ALL_PERMISSIONS /\ w.basis \in Nat
    BY <1>9, WalkingTyped DEF SetWorkspaceCache, Shaped, WorkerShape, WorkerState
  <2>2. [permission |-> w.permission, at |-> now, basis |-> w.basis] \in WsEntry \cup {Nil}
    BY <2>1 DEF WsEntry, Typed, TypeOK
  <2>3. wsCache[NodeOf(k)] \in [WsKey -> WsEntry \cup {Nil}] /\ <<w.user, w.ctx>> \in WsKey
    BY <1>0, <2>1 DEF Typed, TypeOK, WsKey
  <2>4. wsCache' \in [Server -> [WsKey -> WsEntry \cup {Nil}]]
    <3> DEFINE e == [permission |-> w.permission, at |-> now, basis |-> w.basis]
               key == <<w.user, w.ctx>>
    <3>1. e \in WsEntry \cup {Nil} /\ key \in WsKey
      BY <2>2, <2>3
    <3> HIDE DEF e, key
    <3>2. PICK c \in Stores(wsCache[NodeOf(k)], key, e, WsMax) :
             wsCache' = [wsCache EXCEPT ![NodeOf(k)] = c]
      BY <1>9 DEF SetWorkspaceCache, e, key
    <3>3. c \in [WsKey -> WsEntry \cup {Nil}]
      BY <2>3, <3>1, <3>2, StoresType
    <3>4. QED
      BY <1>0, <3>2, <3>3 DEF Typed, TypeOK
  <2>5. Shaped(Settled(w, "store", w.permission, "workspace"))
    BY <2>1, SettledShaped DEF Kind
  <2>6. QED
    BY <1>9, <2>4, <2>5, TypedWorkerStep DEF SetWorkspaceCache, Typed, TypeOK, history
<1>10. CASE DenyByWorkspace(k)
  <2>1. Shaped(w) /\ w.pc # "idle"
    BY <1>10, WalkingTyped DEF DenyByWorkspace
  <2>2. Shaped(Settled(w, "store", "NO_PERMISSIONS", "workspace-deny"))
    BY <2>1, SettledShaped DEF Kind, ALL_PERMISSIONS
  <2>3. QED
    BY <1>10, <2>2, TypedWorkerStep DEF DenyByWorkspace, Typed, TypeOK, history
<1>11. CASE SetPermissionCache(k)
  <2> DEFINE e == [permission |-> w.permission, kind |-> w.kind, at |-> now, basis |-> w.basis]
             key == make_cache_key(w.user, w.res, w.ctx)
  <2>1. /\ w.pc = "store" /\ w.user \in User /\ w.res \in Resource /\ w.ctx \in Context
        /\ w.permission \in ALL_PERMISSIONS /\ w.kind \in Kind /\ w.basis \in Nat
    BY <1>11, WalkingTyped DEF SetPermissionCache, Shaped, WorkerShape, WorkerState
  <2>2. e \in Entry \cup {Nil}
    BY <2>1 DEF Entry, Typed, TypeOK
  <2>3. permCache[NodeOf(k)] \in [Key -> Entry \cup {Nil}] /\ key \in Key
    BY <1>0, <2>1 DEF Typed, TypeOK, Key, CacheId, make_cache_key
  <2> HIDE DEF e, key
  <2>4. permCache' \in [Server -> [Key -> Entry \cup {Nil}]]
    <3>1. PICK c \in Stores(permCache[NodeOf(k)], key, e, PermMax) :
             permCache' = [permCache EXCEPT ![NodeOf(k)] = c]
      BY <1>11 DEF SetPermissionCache, e, key
    <3>2. c \in [Key -> Entry \cup {Nil}]
      BY <2>2, <2>3, StoresType
    <3>3. QED
      BY <1>0, <3>1, <3>2 DEF Typed, TypeOK
  <2>5. QED
    BY <1>11, <2>4, IdleShaped, TypedWorkerStep DEF SetPermissionCache, Typed, TypeOK, history
<1>12. CASE ResolveFails(k)
  BY <1>12, IdleShaped, TypedWorkerStep DEF ResolveFails, Typed, TypeOK, history
<1>13. QED
  BY <1>1, <1>2, <1>3, <1>4, <1>5, <1>6, <1>7, <1>8, <1>9, <1>10, <1>11, <1>12 DEF Resolving

LEMMA CommitTyped ==
  ASSUME Typed, NEW a \in Admin, NEW d \in Database, NEW step \in AdminState, Commit(a, d, step),
         deleted' \subseteq User
  PROVE  Typed'
<1>1. \A p \in Worker \cup Admin : NodeOf(p) \in Server
  BY NodeOfType
<1>2. missed' \subseteq Server
  BY <1>1 DEF Commit, Typed, TypeOK
<1>3. admin' \in [Admin -> AdminState] /\ changes' \in Nat /\ lastChange' \in Nat /\ db' \in Database
  BY DEF Commit, Typed, TypeOK
<1>4. (\A k \in Worker : WorkerShape(worker[k]))' /\ worker' \in [Worker -> WorkerState]
  BY DEF Commit, Typed, TypeOK, WorkerShape
<1>5. QED
  BY <1>2, <1>3, <1>4 DEF Commit, Typed, TypeOK

(* A step of an admin request that leaves the workers and the database     *)
(* alone.                                                                  *)
LEMMA TypedAdminStep ==
  ASSUME Typed, NEW a \in Admin, NEW step \in AdminState, admin' = [admin EXCEPT ![a] = step],
         UNCHANGED <<db, now, worker, lastChange, deleted, changes>>, missed' \subseteq Server,
         permCache' \in [Server -> [Key -> Entry \cup {Nil}]],
         wsCache' \in [Server -> [WsKey -> WsEntry \cup {Nil}]]
  PROVE  Typed'
<1>1. (\A k \in Worker : WorkerShape(worker[k]))'
  BY DEF Typed, WorkerShape
<1>2. QED
  BY <1>1 DEF Typed, TypeOK

LEMMA QuietType == Quiet \in AdminState
BY DEF Quiet, AdminState

LEMMA WipeRowsType == ASSUME Typed, NEW H, NEW w PROVE WipeRows(H, w) \in Database
BY DEF Typed, TypeOK, Database, WipeRows

LEMMA TypedChanging ==
  ASSUME Typed, NEW a \in Admin, Changing(a)
  PROVE  Typed'
<1>0. NodeOf(a) \in Server /\ admin[a] \in AdminState
  BY NodeOfType DEF Typed, TypeOK
<1>1. ASSUME NEW h \in Holder, NEW t \in Target, NEW p \in Grantable \cup {Nil},
             SetPermission(a, h, t, p)
      PROVE  Typed'
  <2>1. [db EXCEPT !.direct = [db.direct EXCEPT ![<<h, t>>] = p]] \in Database
    BY CacheAssumption DEF Typed, TypeOK, Database
  <2>2. (IF t \in Resource THEN ToDo("flush", "none", Nil, Nil, Nil)
         ELSE IF h \in User THEN ToDo("flush", "entry", h, Nil, t)
         ELSE ToDo("flush", "group", Nil, h, t)) \in AdminState
    BY DEF ToDo, AdminState, Holder, Target
  <2>3. QED
    BY <1>1, <2>1, <2>2, CommitTyped DEF SetPermission, Begin, Typed, TypeOK
<1>2. ASSUME NEW gone \in {{}} \cup {{r} : r \in RegexRows},
             NEW added \in {{}} \cup {{r} : r \in RegexRows},
             SetRegexPermission(a, gone, added)
      PROVE  Typed'
  <2>1. [db EXCEPT !.regex = (db.regex \ gone) \cup added] \in Database
    <3> DEFINE rows == (db.regex \ gone) \cup added
    <3>1. added \subseteq RegexRow /\ db.regex \subseteq RegexRow
      BY <1>2, CacheAssumption DEF Typed, TypeOK, Database
    <3>2. rows \in SUBSET RegexRow
      BY <3>1
    <3> HIDE DEF rows
    <3>3. [db EXCEPT !.regex = rows] \in Database
      BY <3>2 DEF Typed, TypeOK, Database
    <3>4. QED
      BY <3>3 DEF rows
  <2>2. \A scope \in {"all", "none"} : ToDo("flush", scope, Nil, Nil, Nil) \in AdminState
    BY DEF ToDo, AdminState
  <2>3. QED
    BY <1>2, <2>1, <2>2, CommitTyped DEF SetRegexPermission, Begin, Typed, TypeOK
<1>3. ASSUME NEW u \in User, NEW groups \in SUBSET Group, set_user_groups(a, u, groups)
      PROVE  Typed'
  <2>1. [db EXCEPT !.member = {m \in db.member : m[1] # u} \cup ({u} \X groups)] \in Database
    <3> DEFINE ms == {m \in db.member : m[1] # u} \cup ({u} \X groups)
    <3>1. ms \in SUBSET (User \X Group)
      BY DEF Typed, TypeOK, Database
    <3> HIDE DEF ms
    <3>2. [db EXCEPT !.member = ms] \in Database
      BY <3>1 DEF Typed, TypeOK, Database
    <3>3. QED
      BY <3>2 DEF ms
  <2>2. ToDo("flush", "user", u, Nil, Nil) \in AdminState
    BY DEF ToDo, AdminState
  <2>3. QED
    BY <1>3, <2>1, <2>2, CommitTyped DEF set_user_groups, Begin, Typed, TypeOK
<1>4. ASSUME NEW w \in Workspace, wipe_workspace_permissions(a, w)
      PROVE  Typed'
  <2>1. ToDo("wipe", "all", Nil, Nil, w) \in AdminState
    BY DEF ToDo, AdminState
  <2>2. QED
    BY <1>4, <2>1, WipeRowsType, CommitTyped DEF wipe_workspace_permissions, Begin, Typed, TypeOK
<1>5. CASE WipeGroupRows(a)
  <2>1. [admin[a] EXCEPT !.pc = "flush"] \in AdminState
    BY <1>0 DEF AdminState
  <2>2. QED
    BY <1>5, <2>1, WipeRowsType, CommitTyped DEF WipeGroupRows, Typed, TypeOK
<1>6. ASSUME NEW u \in User, delete_user(a, u)
      PROVE  Typed'
  <2>1. [direct |-> [c \in DOMAIN db.direct |-> IF c[1] = u THEN Nil ELSE db.direct[c]],
         regex |-> {r \in db.regex : r.holder # u},
         member |-> {m \in db.member : m[1] # u}] \in Database
    BY DEF Typed, TypeOK, Database
  <2>2. QED
    BY <1>6, <2>1, QuietType, CommitTyped DEF delete_user, Typed, TypeOK
<1>7. CASE Flush(a)
  <2>1. (IF admin[a].scope = "none" THEN Quiet ELSE [admin[a] EXCEPT !.pc = "invalidate"]) \in AdminState
    BY <1>0, QuietType DEF AdminState
  <2>2. permCache' \in [Server -> [Key -> Entry \cup {Nil}]]
    BY <1>0, <1>7 DEF Flush, flush_permission_cache, Typed, TypeOK
  <2>3. QED
    BY <1>7, <2>1, <2>2, TypedAdminStep DEF Flush, history, Typed, TypeOK
<1>8. CASE InvalidateWorkspaceCache(a)
  <2>1. wsCache' \in [Server -> [WsKey -> WsEntry \cup {Nil}]]
    BY <1>0, <1>8 DEF InvalidateWorkspaceCache, Drop, Typed, TypeOK
  <2>2. QED
    BY <1>8, <2>1, QuietType, TypedAdminStep DEF InvalidateWorkspaceCache, history, Typed, TypeOK
<1>9. CASE WriteAborts(a)
  BY <1>0, <1>9, QuietType, TypedAdminStep DEF WriteAborts, Typed, TypeOK
<1>10. QED
  BY <1>1, <1>2, <1>3, <1>4, <1>5, <1>6, <1>7, <1>8, <1>9 DEF Changing

LEMMA TypedRestart ==
  ASSUME Typed, NEW s \in Server, Restart(s)
  PROVE  Typed'
<1>1. worker' \in [Worker -> WorkerState] /\ (\A k \in Worker : WorkerShape(worker'[k]))
  BY IdleShaped DEF Restart, Typed, TypeOK, Shaped
<1>2. (\A k \in Worker : WorkerShape(worker[k]))'
  BY <1>1 DEF WorkerShape
<1>3. admin' \in [Admin -> AdminState]
  BY QuietType DEF Restart, Typed, TypeOK
<1>4. /\ permCache' \in [Server -> [Key -> Entry \cup {Nil}]]
      /\ wsCache' \in [Server -> [WsKey -> WsEntry \cup {Nil}]]
  <2>1. /\ Drop(permCache[s], Key) \in [Key -> Entry \cup {Nil}]
        /\ Drop(wsCache[s], WsKey) \in [WsKey -> WsEntry \cup {Nil}]
    BY DEF Drop, Typed, TypeOK
  <2>2. QED
    BY <2>1 DEF Restart, Typed, TypeOK
<1>5. missed' \subseteq Server
  BY NodeType DEF Restart, Typed, TypeOK
<1>6. QED
  BY <1>1, <1>2, <1>3, <1>4, <1>5 DEF Restart, Typed, TypeOK

LEMMA TypedTick == ASSUME Typed, Tick PROVE Typed'
<1>1. (\A k \in Worker : WorkerShape(worker[k]))'
  BY DEF Tick, Typed, WorkerShape
<1>2. /\ permCache' \in [Server -> [Key -> Entry \cup {Nil}]]
      /\ wsCache' \in [Server -> [WsKey -> WsEntry \cup {Nil}]]
  BY DEF Tick, Unexpired, Typed, TypeOK
<1>3. QED
  BY <1>1, <1>2 DEF Tick, history, Typed, TypeOK

LEMMA TypedNext == Typed /\ [Next]_vars => Typed'
<1> SUFFICES ASSUME Typed, [Next]_vars PROVE Typed'
  OBVIOUS
<1>1. CASE UNCHANGED vars
  BY <1>1 DEF vars, history, Typed, TypeOK, WorkerShape
<1>2. CASE Next
  BY <1>2, TypedResolving, TypedChanging, TypedRestart, TypedTick DEF Next
<1>3. QED
  BY <1>1, <1>2

(* The types hold in every reachable state: in particular no resolve       *)
(* reaches cache.set without a permission and a kind to store.             *)
THEOREM TypeCorrect == Spec => []TypeOK
<1>1. Spec => []Typed
  BY TypedInit, TypedNext, PTL DEF Spec
<1>2. Typed => TypeOK
  BY DEF Typed
<1>3. QED
  BY <1>1, <1>2, PTL

-----------------------------------------------------------------------------
(* What a walk that saw the current database has found. *)

(* A source that answers is one of the four, so never a fallback. *)
LEMMA AnswersOwnKind ==
  ASSUME NEW d, NEW s, NEW u, NEW t, SourceLookup(d, s, u, t) # Nil
  PROVE  s # "fallback"
BY DEF SourceLookup

LEMMA FoundInStore ==
  ASSUME NEW u, NEW r, NEW x, NEW i \in DOMAIN SourceOrder,
         SourceLookup(db, SourceOrder[i], u, r) # Nil,
         \A j \in DOMAIN SourceOrder : j < i => SourceLookup(db, SourceOrder[j], u, r) = Nil
  PROVE  resolve_permission(db, u, r, x) =
           [permission |-> SourceLookup(db, SourceOrder[i], u, r), kind |-> SourceOrder[i]]
<1>1. Answering(db, u, r) # {} /\ FirstAnswering(db, u, r) = i
  BY WalkStops
<1>2. get_permission_from_store_or_default(db, u, r) =
        [permission |-> SourceLookup(db, SourceOrder[i], u, r), kind |-> SourceOrder[i]]
  BY <1>1 DEF get_permission_from_store_or_default
<1>3. SourceOrder[i] # "fallback"
  BY AnswersOwnKind
<1>4. QED
  BY <1>2, <1>3 DEF resolve_permission, apply_workspace_fallback

LEMMA FoundInWorkspace ==
  ASSUME NEW u, NEW w, NEW i \in DOMAIN SourceOrder,
         SourceLookup(db, SourceOrder[i], u, w) # Nil,
         \A j \in DOMAIN SourceOrder : j < i => SourceLookup(db, SourceOrder[j], u, w) = Nil
  PROVE  lookup_workspace_permission(db, u, w) = SourceLookup(db, SourceOrder[i], u, w)
<1>1. Answering(db, u, w) # {} /\ FirstAnswering(db, u, w) = i
  BY WalkStops
<1>2. QED
  BY <1>1 DEF lookup_workspace_permission

(* Nothing in the store: the default without a workspace, the workspace's  *)
(* permission with one.                                                    *)
LEMMA NothingInStore ==
  ASSUME NEW u, NEW r, NEW x, Answering(db, u, r) = {}
  PROVE  resolve_permission(db, u, r, x) =
           IF x = NoWorkspace THEN [permission |-> DefaultPermission, kind |-> "fallback"]
           ELSE WorkspaceResult(lookup_workspace_permission(db, u, x))
BY DEF resolve_permission, apply_workspace_fallback, get_permission_from_store_or_default

LEMMA NothingInWorkspace ==
  ASSUME NEW u, NEW w, Answering(db, u, w) = {}
  PROVE  lookup_workspace_permission(db, u, w) = Nil
BY DEF lookup_workspace_permission

(* A walk past the end of the order has been answered by no source. *)
LEMMA WalkedPast ==
  ASSUME NEW w, w.idx \in Nat, w.idx > Len(SourceOrder), NEW t, Passed(w, t)
  PROVE  Answering(db, w.user, t) = {}
<1>1. \A j \in DOMAIN SourceOrder : j < w.idx
  BY OrderAssumption
<1>2. QED
  BY <1>1 DEF Passed, Answering

-----------------------------------------------------------------------------
(* Soundness: one lemma for each value a sound worker takes on. *)

LEMMA IdleSound == Sound(Idle)
BY DEF Sound, Idle

LEMMA StartedSound ==
  ASSUME NEW u, NEW r, NEW x, NEW t
  PROVE  Sound(Started(u, r, x, t))
<1>1. \A j \in DOMAIN SourceOrder : ~(j < 1)
  BY OrderAssumption
<1>2. QED
  BY <1>1 DEF Sound, Passed, Started

(* A source that does not answer moves the walk one position on. *)
LEMMA AdvancedSound ==
  ASSUME NEW w, Shaped(w), Sound(w), NEW i \in Nat, i = w.idx + 1, NEW t, NEW pc,
         \/ pc = "sources" /\ t = w.res /\ w.pc \in {"sources", "gregex"}
         \/ pc = "wssources" /\ t = w.ctx /\ w.pc \in {"wssources", "wsgregex"},
         w.idx \in DOMAIN SourceOrder, SourceLookup(db, SourceOrder[w.idx], w.user, t) = Nil
  PROVE  Sound(AtSource(w, pc, i))
<1> DEFINE n == AtSource(w, pc, i)
<1>1. n.pc = pc /\ n.idx = i /\ n.user = w.user /\ n.res = w.res /\ n.ctx = w.ctx
  BY DEF AtSource, Shaped, WorkerState
<1> HIDE DEF n
<1>2. Passed(n, t)
  <2>1. Passed(w, t)
    BY DEF Sound
  <2>2. DOMAIN SourceOrder \subseteq Int /\ w.idx \in Int
    BY OrderAssumption
  <2>3. QED
    BY <1>1, <2>1, <2>2 DEF Passed
<1>3. Sound(n)
  BY <1>1, <1>2 DEF Sound
<1>4. QED
  BY <1>3 DEF n

(* A source that answers settles the walk. *)
LEMMA FoundSound ==
  ASSUME NEW w, Shaped(w), Sound(w), NEW v \in ALL_PERMISSIONS, NEW t, NEW done,
         \/ done = "store" /\ t = w.res /\ w.pc \in {"sources", "gregex"}
         \/ done = "wsset" /\ t = w.ctx /\ w.pc \in {"wssources", "wsgregex"},
         w.idx \in DOMAIN SourceOrder, SourceLookup(db, SourceOrder[w.idx], w.user, t) = v
  PROVE  Sound(Settled(w, done, v, SourceOrder[w.idx]))
<1> DEFINE n == Settled(w, done, v, SourceOrder[w.idx])
<1>1. /\ n.pc = done /\ n.user = w.user /\ n.res = w.res /\ n.ctx = w.ctx
      /\ n.permission = v /\ n.kind = SourceOrder[w.idx]
  BY DEF Settled, Shaped, WorkerState
<1> HIDE DEF n
<1>2. /\ SourceLookup(db, SourceOrder[w.idx], w.user, t) # Nil
      /\ \A j \in DOMAIN SourceOrder :
           j < w.idx => SourceLookup(db, SourceOrder[j], w.user, t) = Nil
  BY NilAssumption DEF Sound, Passed
<1>3. ASSUME done = "store" PROVE Decided(n, n.user, n.res, n.ctx)
  BY <1>1, <1>2, <1>3, FoundInStore DEF Decided
<1>4. ASSUME done = "wsset" PROVE n.permission = lookup_workspace_permission(db, n.user, n.ctx)
  BY <1>1, <1>2, <1>4, FoundInWorkspace
<1>5. Sound(n)
  BY <1>1, <1>3, <1>4 DEF Sound
<1>6. QED
  BY <1>5 DEF n

LEMMA AnsweredSound ==
  ASSUME NEW w, Shaped(w), Sound(w), NEW v \in PermOrNil, NEW t, NEW walk, NEW done,
         \/ walk = "sources" /\ done = "store" /\ t = w.res /\ w.pc \in {"sources", "gregex"}
         \/ walk = "wssources" /\ done = "wsset" /\ t = w.ctx /\ w.pc \in {"wssources", "wsgregex"},
         w.idx \in DOMAIN SourceOrder, SourceLookup(db, SourceOrder[w.idx], w.user, t) = v
  PROVE  Sound(Answered(w, v, walk, done))
<1>1. CASE v = Nil
  <2>1. w.idx + 1 \in Nat
    BY DEF Shaped, WorkerState
  <2>2. QED
    BY <1>1, <2>1, AdvancedSound DEF Answered
<1>2. CASE v # Nil
  BY <1>2, FoundSound DEF Answered, PermOrNil
<1>3. QED
  BY <1>1, <1>2

LEMMA GotGroupsSound ==
  ASSUME NEW w, Shaped(w), Sound(w),
         NEW next, \/ next = "gregex" /\ w.pc = "sources"
                   \/ next = "wsgregex" /\ w.pc = "wssources"
  PROVE  Sound(GotGroups(w, next))
<1> DEFINE n == GotGroups(w, next)
<1>1. /\ n.pc = next /\ n.idx = w.idx /\ n.user = w.user /\ n.res = w.res /\ n.ctx = w.ctx
      /\ n.gids = get_groups_ids_for_user(db, w.user)
  BY DEF GotGroups, Shaped, WorkerState
<1> HIDE DEF n
<1>2. Sound(n)
  BY <1>1 DEF Sound, Passed
<1>3. QED
  BY <1>2 DEF n

(* A settled result: on the way to cache.set with what the database says. *)
LEMMA SettledSound ==
  ASSUME NEW w, Shaped(w), NEW p, NEW kind,
         [permission |-> p, kind |-> kind] = resolve_permission(db, w.user, w.res, w.ctx)
  PROVE  Sound(Settled(w, "store", p, kind))
<1> DEFINE n == Settled(w, "store", p, kind)
<1>1. /\ n.pc = "store" /\ n.user = w.user /\ n.res = w.res /\ n.ctx = w.ctx
      /\ n.permission = p /\ n.kind = kind
  BY DEF Settled, Shaped, WorkerState
<1> HIDE DEF n
<1>2. Sound(n)
  BY <1>1 DEF Sound, Decided
<1>3. QED
  BY <1>2 DEF n

(* A result found in the workspace, by a walk or in the workspace cache. *)
LEMMA WorkspaceDecides ==
  ASSUME NEW w, Answering(db, w.user, w.res) = {}, w.ctx \in Workspace, NEW p \in ALL_PERMISSIONS,
         p = lookup_workspace_permission(db, w.user, w.ctx)
  PROVE  [permission |-> p, kind |-> "workspace"] = resolve_permission(db, w.user, w.res, w.ctx)
<1>1. WorkspaceResult(p) = [permission |-> p, kind |-> "workspace"]
  BY NilAssumption DEF WorkspaceResult
<1>2. QED
  BY <1>1, NothingInStore, NamesAssumption

LEMMA HitSound ==
  ASSUME NEW w, Shaped(w), Sound(w), w.pc = "workspace", NEW b \in Nat, NEW p \in ALL_PERMISSIONS,
         p = lookup_workspace_permission(db, w.user, w.ctx)
  PROVE  Sound(Settled(OnBasis(w, b), "store", p, "workspace"))
<1> DEFINE m == OnBasis(w, b)
<1>1. Shaped(m)
  BY OnBasisShaped
<1>2. m.user = w.user /\ m.res = w.res /\ m.ctx = w.ctx
  BY DEF OnBasis, Shaped, WorkerState
<1> HIDE DEF m
<1>3. Answering(db, w.user, w.res) = {} /\ w.ctx \in Workspace
  BY DEF Sound, Shaped, WorkerShape
<1>4. [permission |-> p, kind |-> "workspace"] = resolve_permission(db, w.user, w.res, w.ctx)
  BY <1>3, WorkspaceDecides
<1>5. Sound(Settled(m, "store", p, "workspace"))
  BY <1>1, <1>2, <1>4, SettledSound
<1>6. QED
  BY <1>5 DEF m

(* No source answered and the request has a workspace to defer to. *)
LEMMA DeferredSound ==
  ASSUME NEW w, Shaped(w), Answering(db, w.user, w.res) = {}, NEW p, NEW kind
  PROVE  Sound(Settled(w, "workspace", p, kind))
<1> DEFINE n == Settled(w, "workspace", p, kind)
<1>1. n.pc = "workspace" /\ n.user = w.user /\ n.res = w.res
  BY DEF Settled, Shaped, WorkerState
<1> HIDE DEF n
<1>2. Sound(n)
  BY <1>1 DEF Sound
<1>3. QED
  BY <1>2 DEF n

(* A workspace-cache miss starts the walk over the workspace's sources. *)
LEMMA WalkWorkspaceSound ==
  ASSUME NEW w, Shaped(w), Sound(w), w.pc = "workspace"
  PROVE  Sound(AtSource(w, "wssources", 1))
<1> DEFINE n == AtSource(w, "wssources", 1)
<1>1. n.pc = "wssources" /\ n.idx = 1 /\ n.user = w.user /\ n.res = w.res
  BY DEF AtSource, Shaped, WorkerState
<1>2. \A j \in DOMAIN SourceOrder : ~(j < 1)
  BY OrderAssumption
<1> HIDE DEF n
<1>3. Sound(n)
  BY <1>1, <1>2 DEF Sound, Passed
<1>4. QED
  BY <1>3 DEF n

-----------------------------------------------------------------------------
(* Freshness: what a worker takes on is sound if its basis says so. *)

Good(w) == Shaped(w) /\ WorkerTimes(w) /\ WorkerFresh(w)

LEMMA StartedGood ==
  ASSUME Typed, NEW u \in User, NEW r \in Resource, NEW x \in Context
  PROVE  Good(Started(u, r, x, now))
<1>1. Shaped(Started(u, r, x, now))
  BY DEF Shaped, WorkerShape, WorkerState, Started, Typed, TypeOK
<1>2. WorkerTimes(Started(u, r, x, now))
  BY CacheAssumption DEF WorkerTimes, Started, Typed, TypeOK
<1>3. WorkerFresh(Started(u, r, x, now))
  BY StartedSound DEF WorkerFresh
<1>4. QED
  BY <1>1, <1>2, <1>3 DEF Good

LEMMA IdleGood == Good(Idle)
BY IdleShaped, IdleSound DEF Good, WorkerTimes, WorkerFresh, Idle

(* A source that does not answer moves the walk one position on. *)
LEMMA AdvancedGood ==
  ASSUME Typed, NEW w, Good(w), NEW i \in Nat, i = w.idx + 1, NEW t, NEW pc,
         \/ pc = "sources" /\ t = w.res /\ w.pc \in {"sources", "gregex"}
         \/ pc = "wssources" /\ t = w.ctx /\ w.pc \in {"wssources", "wsgregex"},
         w.idx \in DOMAIN SourceOrder,
         w.basis > lastChange => SourceLookup(db, SourceOrder[w.idx], w.user, t) = Nil
  PROVE  Good(AtSource(w, pc, i))
<1> DEFINE n == AtSource(w, pc, i)
<1>1. Shaped(n)
  <2>1. w.pc # "idle" /\ i >= 1 /\ (pc = "wssources" => w.ctx \in Workspace)
    BY DEF Good, Shaped, WorkerShape, WorkerState
  <2>2. QED
    BY <2>1, AtSourceShaped DEF Good
<1>2. /\ n.pc = pc /\ n.idx = i /\ n.user = w.user /\ n.res = w.res /\ n.ctx = w.ctx
      /\ n.began = w.began /\ n.basis = w.basis
  BY DEF AtSource, Good, Shaped, WorkerState
<1> HIDE DEF n
<1>3. WorkerTimes(n)
  BY <1>2 DEF Good, WorkerTimes
<1>4. WorkerFresh(n)
  BY <1>2, AdvancedSound DEF Good, WorkerFresh, n
<1>5. QED
  BY <1>1, <1>3, <1>4 DEF Good, n

(* A source that answers settles the walk. *)
LEMMA FoundGood ==
  ASSUME Typed, NEW w, Good(w), NEW v \in ALL_PERMISSIONS, NEW t, NEW done,
         \/ done = "store" /\ t = w.res /\ w.pc \in {"sources", "gregex"}
         \/ done = "wsset" /\ t = w.ctx /\ w.pc \in {"wssources", "wsgregex"},
         w.idx \in DOMAIN SourceOrder,
         w.basis > lastChange => SourceLookup(db, SourceOrder[w.idx], w.user, t) = v
  PROVE  Good(Settled(w, done, v, SourceOrder[w.idx]))
<1> DEFINE n == Settled(w, done, v, SourceOrder[w.idx])
<1>1. Shaped(n)
  BY SettledShaped DEF Good, Shaped, WorkerShape, Kind
<1>2. /\ n.pc = done /\ n.user = w.user /\ n.res = w.res /\ n.ctx = w.ctx
      /\ n.began = w.began /\ n.basis = w.basis
  BY DEF Settled, Good, Shaped, WorkerState
<1> HIDE DEF n
<1>3. WorkerTimes(n)
  BY <1>2 DEF Good, WorkerTimes
<1>4. WorkerFresh(n)
  BY <1>2, FoundSound DEF Good, WorkerFresh, n
<1>5. QED
  BY <1>1, <1>3, <1>4 DEF Good, n

LEMMA AnsweredGood ==
  ASSUME Typed, NEW w, Good(w), NEW v \in PermOrNil, NEW t, NEW walk, NEW done,
         \/ walk = "sources" /\ done = "store" /\ t = w.res /\ w.pc \in {"sources", "gregex"}
         \/ walk = "wssources" /\ done = "wsset" /\ t = w.ctx /\ w.pc \in {"wssources", "wsgregex"},
         w.idx \in DOMAIN SourceOrder,
         w.basis > lastChange => SourceLookup(db, SourceOrder[w.idx], w.user, t) = v
  PROVE  Good(Answered(w, v, walk, done))
<1>1. CASE v = Nil
  <2>1. w.idx + 1 \in Nat
    BY DEF Good, Shaped, WorkerState
  <2>2. QED
    BY <1>1, <2>1, AdvancedGood DEF Answered
<1>2. CASE v # Nil
  BY <1>2, FoundGood DEF Answered, PermOrNil
<1>3. QED
  BY <1>1, <1>2

LEMMA GotGroupsGood ==
  ASSUME Typed, NEW w, Good(w), w.idx \in DOMAIN SourceOrder, SourceOrder[w.idx] = "group-regex",
         NEW next, \/ next = "gregex" /\ w.pc = "sources"
                   \/ next = "wsgregex" /\ w.pc = "wssources"
  PROVE  Good(GotGroups(w, next))
<1> DEFINE n == GotGroups(w, next)
<1>1. Shaped(n)
  BY GotGroupsShaped DEF Good, Shaped, WorkerShape
<1>2. /\ n.pc = next /\ n.idx = w.idx /\ n.user = w.user /\ n.res = w.res /\ n.ctx = w.ctx
      /\ n.began = w.began /\ n.basis = w.basis /\ n.gids = get_groups_ids_for_user(db, w.user)
  BY DEF GotGroups, Good, Shaped, WorkerState
<1> HIDE DEF n
<1>3. WorkerTimes(n)
  BY <1>2 DEF Good, WorkerTimes
<1>4. WorkerFresh(n)
  BY <1>2, GotGroupsSound DEF Good, WorkerFresh, n
<1>5. QED
  BY <1>1, <1>3, <1>4 DEF Good, n

(* A settled result: on the way to cache.set with what the database says. *)
LEMMA SettledGood ==
  ASSUME NEW w, Good(w), w.pc # "idle", NEW p \in ALL_PERMISSIONS, NEW kind \in Kind,
         w.basis > lastChange =>
           [permission |-> p, kind |-> kind] = resolve_permission(db, w.user, w.res, w.ctx)
  PROVE  Good(Settled(w, "store", p, kind))
<1> DEFINE n == Settled(w, "store", p, kind)
<1>1. Shaped(n)
  BY SettledShaped DEF Good
<1>2. /\ n.pc = "store" /\ n.user = w.user /\ n.res = w.res /\ n.ctx = w.ctx
      /\ n.began = w.began /\ n.basis = w.basis /\ n.permission = p /\ n.kind = kind
  BY DEF Settled, Good, Shaped, WorkerState
<1> HIDE DEF n
<1>3. WorkerTimes(n)
  BY <1>2 DEF Good, WorkerTimes
<1>4. WorkerFresh(n)
  BY <1>2, SettledSound DEF Good, WorkerFresh, n
<1>5. QED
  BY <1>1, <1>3, <1>4 DEF Good, n

(* A workspace-cache hit: the result is as old as the entry it came from. *)
LEMMA HitGood ==
  ASSUME Typed, NEW w, Good(w), w.pc = "workspace", NEW e \in WsEntry,
         e.at <= now, now < e.at + WsTTL, e.basis <= e.at, e.at <= e.basis + MaxResolve,
         e.basis > lastChange => e.permission = lookup_workspace_permission(db, w.user, w.ctx)
  PROVE  Good(Settled(OnBasis(w, e.basis), "store", e.permission, "workspace"))
<1> DEFINE m == OnBasis(w, e.basis)
           n == Settled(m, "store", e.permission, "workspace")
           b == IF e.basis < w.basis THEN e.basis ELSE w.basis
<1>1. /\ Shaped(w) /\ w.basis \in Nat /\ w.began \in Nat /\ now \in Nat /\ e.basis \in Nat
      /\ e.at \in Nat /\ e.permission \in ALL_PERMISSIONS
      /\ WsTTL \in Nat \ {0} /\ MaxResolve \in Nat /\ lastChange \in Nat
  BY CacheAssumption DEF Good, Shaped, WorkerState, Typed, TypeOK, WsEntry
<1>2. Shaped(m) /\ m.pc # "idle"
  BY <1>1, OnBasisShaped
<1>3. Shaped(n)
  BY <1>1, <1>2, SettledShaped DEF Kind
<1>4. /\ m.user = w.user /\ m.res = w.res /\ m.ctx = w.ctx /\ m.began = w.began /\ m.basis = b
  BY <1>1 DEF OnBasis, Shaped, WorkerState
<1> HIDE DEF m
<1>5. /\ n.pc = "store" /\ n.user = w.user /\ n.res = w.res /\ n.ctx = w.ctx
      /\ n.began = w.began /\ n.basis = b /\ n.permission = e.permission /\ n.kind = "workspace"
  BY <1>2, <1>4 DEF Settled, Shaped, WorkerState
<1> HIDE DEF n
<1>6. /\ w.began <= now /\ now <= w.began + MaxResolve /\ w.basis = w.began
  BY DEF Good, WorkerTimes
<1>7. b <= w.began /\ w.began < b + MaxResolve + WsTTL
  BY <1>1, <1>6
<1>8. WorkerTimes(n)
  BY <1>5, <1>6, <1>7 DEF WorkerTimes
<1>9. b > lastChange => w.basis > lastChange /\ e.basis > lastChange
  BY <1>1
<1>10. WorkerFresh(n)
  BY <1>1, <1>5, <1>9, HitSound DEF Good, WorkerFresh, n, m
<1>11. QED
  BY <1>3, <1>8, <1>10 DEF Good, n, m

(* No source answered and the request has a workspace to defer to. *)
LEMMA DeferredGood ==
  ASSUME NEW w, Good(w), w.pc = "sources", w.ctx # NoWorkspace,
         w.basis > lastChange => Answering(db, w.user, w.res) = {}
  PROVE  Good(Settled(w, "workspace", DefaultPermission, "fallback"))
<1> DEFINE n == Settled(w, "workspace", DefaultPermission, "fallback")
<1>1. Shaped(w) /\ w.ctx \in Workspace /\ "fallback" \in Kind
  BY ContextType DEF Good, Shaped, WorkerShape, Kind
<1>2. Shaped(n)
  BY <1>1, DefaultAssumption, SettledShaped
<1>3. /\ n.pc = "workspace" /\ n.user = w.user /\ n.res = w.res /\ n.ctx = w.ctx
      /\ n.began = w.began /\ n.basis = w.basis
  BY <1>1 DEF Settled, Shaped, WorkerState
<1> HIDE DEF n
<1>4. WorkerTimes(n) /\ WorkerFresh(n)
  BY <1>3, DeferredSound DEF Good, WorkerTimes, WorkerFresh, n
<1>5. QED
  BY <1>2, <1>4 DEF Good, n

LEMMA AtSourceTimes ==
  ASSUME NEW w, Shaped(w), WorkerTimes(w), w.pc \in {"workspace", "wssources", "wsgregex"},
         NEW i \in Nat
  PROVE  WorkerTimes(AtSource(w, "wssources", i))
<1> DEFINE n == AtSource(w, "wssources", i)
<1>1. n.pc = "wssources" /\ n.began = w.began /\ n.basis = w.basis
  BY DEF AtSource, Shaped, WorkerState
<1> HIDE DEF n
<1>2. WorkerTimes(n)
  BY <1>1 DEF WorkerTimes
<1>3. QED
  BY <1>2 DEF n

(* A workspace-cache miss starts the walk over the workspace's sources. *)
LEMMA WalkWorkspaceGood ==
  ASSUME NEW w, Good(w), w.pc = "workspace"
  PROVE  Good(AtSource(w, "wssources", 1))
<1> DEFINE n == AtSource(w, "wssources", 1)
<1>1. Shaped(n)
  BY AtSourceShaped DEF Good, Shaped, WorkerShape
<1>2. WorkerTimes(n)
  BY AtSourceTimes DEF Good
<1>3. n.basis = w.basis
  BY DEF AtSource, Good, Shaped, WorkerState
<1> HIDE DEF n
<1>4. WorkerFresh(n)
  BY <1>3, WalkWorkspaceSound DEF Good, WorkerFresh, n
<1>5. QED
  BY <1>1, <1>2, <1>4 DEF Good, n

-----------------------------------------------------------------------------
(* The inductive invariant, action by action. *)

CacheTimes == \A n \in Server : /\ \A k \in Key : EntryTimes(n, k)
                                /\ \A k \in WsKey : WsEntryTimes(n, k)
CacheFresh == \A n \in Server : /\ \A u \in User, r \in Sole, x \in Context : EntryFresh(n, u, r, x)
                                /\ \A u \in User, w \in Workspace : WsEntryFresh(n, u, w)

Inv == Typed /\ FreshByBasis

LEMMA InvParts == Inv <=> /\ Typed /\ CacheTimes /\ CacheFresh
                          /\ \A k \in Worker : Good(worker[k])
BY DEF Inv, FreshByBasis, Typed, TypeOK, CacheTimes, CacheFresh, Good, Shaped

LEMMA InvInit == Init => Inv
<1> SUFFICES ASSUME Init PROVE Inv
  OBVIOUS
<1>1. Typed
  BY TypedInit
<1>2. \A k \in Worker : Good(worker[k])
  BY IdleGood DEF Init
<1>3. CacheTimes
  BY DEF Init, CacheTimes, EntryTimes, WsEntryTimes
<1>4. CacheFresh
  BY DEF Init, CacheFresh, EntryFresh, WsEntryFresh, make_cache_key, Key, CacheId, WsKey, Sole
<1>5. QED
  BY <1>1, <1>2, <1>3, <1>4, InvParts

(* A worker steps and neither the database nor the clock moves. *)
LEMMA GoodWorkerStep ==
  ASSUME Inv, NEW k \in Worker, NEW w, Good(w), worker' = [worker EXCEPT ![k] = w],
         UNCHANGED <<db, now, lastChange>>
  PROVE  (\A j \in Worker : WorkerTimes(worker[j]) /\ WorkerFresh(worker[j]))'
<1>1. \A j \in Worker : WorkerTimes(worker'[j]) /\ WorkerFresh(worker'[j])
  BY InvParts DEF Typed, TypeOK, Good
<1>2. QED
  BY <1>1 DEF WorkerTimes, WorkerFresh, Sound, Passed, Decided

(* Entries that only disappear stay timely and fresh. *)
LEMMA CacheShrinks ==
  ASSUME Inv, UNCHANGED <<db, now, lastChange>>,
         \A n \in Server, k \in Key : permCache'[n][k] \in {permCache[n][k], Nil},
         \A n \in Server, k \in WsKey : wsCache'[n][k] \in {wsCache[n][k], Nil}
  PROVE  (CacheTimes /\ CacheFresh)'
<1>1. CacheTimes'
  BY InvParts DEF CacheTimes, EntryTimes, WsEntryTimes
<1>2. CacheFresh'
  <2>1. \A u \in User, r \in Sole, x \in Context : make_cache_key(u, r, x) \in Key
    BY DEF make_cache_key, Key, CacheId, Sole
  <2>2. \A u \in User, w \in Workspace : <<u, w>> \in WsKey
    BY DEF WsKey
  <2>3. QED
    BY <2>1, <2>2, InvParts DEF CacheFresh, EntryFresh, WsEntryFresh, Decided
<1>3. QED
  BY <1>1, <1>2

(* A worker steps, and the database, the clock and the caches do not. *)
LEMMA WalkStep ==
  ASSUME Inv, NEW k \in Worker, NEW w, Good(w), worker' = [worker EXCEPT ![k] = w],
         UNCHANGED <<db, now, lastChange, permCache, wsCache>>, Typed'
  PROVE  Inv'
<1>1. (CacheTimes /\ CacheFresh)'
  BY CacheShrinks
<1>2. (\A j \in Worker : WorkerTimes(worker[j]) /\ WorkerFresh(worker[j]))'
  BY GoodWorkerStep
<1>3. QED
  BY <1>1, <1>2 DEF Inv, FreshByBasis, CacheTimes, CacheFresh, Typed

(* A cache after a set holds the new entry under its key and, elsewhere,   *)
(* what it held before or nothing.                                         *)
LEMMA StoresEntries ==
  ASSUME NEW c, NEW k \in DOMAIN c, NEW e, NEW max, NEW f \in Stores(c, k, e, max)
  PROVE  \A j \in DOMAIN c : f[j] \in {c[j], Nil} \/ (j = k /\ f[j] = e)
BY DEF Stores

(* Everything in a cache was computed no later than now, so a change of    *)
(* the database makes nothing claim to be fresh.                           *)
LEMMA ChangeStep ==
  ASSUME Inv, Typed', lastChange' = now, UNCHANGED <<now, permCache, wsCache>>,
         \A k \in Worker : \/ worker'[k].pc = "idle"
                           \/ WorkerTimes(worker'[k])
  PROVE  Inv'
<1>1. CacheTimes'
  BY InvParts DEF CacheTimes, EntryTimes, WsEntryTimes
<1>2. (\A k \in Worker : WorkerTimes(worker[k]))'
  BY DEF WorkerTimes
<1>3. \A n \in Server : /\ \A k \in Key : permCache[n][k] # Nil => permCache[n][k].basis <= now
                        /\ \A k \in WsKey : wsCache[n][k] # Nil => wsCache[n][k].basis <= now
  <2>1. \A n \in Server, k \in Key : permCache[n][k] # Nil => permCache[n][k] \in Entry
    BY DEF Inv, Typed, TypeOK
  <2>2. \A n \in Server, k \in WsKey : wsCache[n][k] # Nil => wsCache[n][k] \in WsEntry
    BY DEF Inv, Typed, TypeOK
  <2>3. now \in Nat
    BY DEF Inv, Typed, TypeOK
  <2>4. ASSUME NEW n \in Server, NEW k \in Key, permCache[n][k] # Nil
        PROVE  permCache[n][k].basis <= now
    <3>1. permCache[n][k].at \in Nat /\ permCache[n][k].basis \in Nat
      BY <2>1, <2>4 DEF Entry
    <3>2. permCache[n][k].at <= now /\ permCache[n][k].basis <= permCache[n][k].at
      BY <2>4, InvParts DEF CacheTimes, EntryTimes
    <3>3. QED
      BY <2>3, <3>1, <3>2
  <2>5. ASSUME NEW n \in Server, NEW k \in WsKey, wsCache[n][k] # Nil
        PROVE  wsCache[n][k].basis <= now
    <3>1. wsCache[n][k].at \in Nat /\ wsCache[n][k].basis \in Nat
      BY <2>2, <2>5 DEF WsEntry
    <3>2. wsCache[n][k].at <= now /\ wsCache[n][k].basis <= wsCache[n][k].at
      BY <2>5, InvParts DEF CacheTimes, WsEntryTimes
    <3>3. QED
      BY <2>3, <3>1, <3>2
  <2>6. QED
    BY <2>4, <2>5
<1>4. CacheFresh'
  <2>1. \A u \in User, r \in Sole, x \in Context : make_cache_key(u, r, x) \in Key
    BY DEF make_cache_key, Key, CacheId, Sole
  <2>2. \A u \in User, w \in Workspace : <<u, w>> \in WsKey
    BY DEF WsKey
  <2>3. \A n \in Server, k \in Key : permCache[n][k] # Nil => ~(permCache[n][k].basis > now)
    BY <1>3 DEF Inv, Typed, TypeOK, Entry
  <2>4. \A n \in Server, k \in WsKey : wsCache[n][k] # Nil => ~(wsCache[n][k].basis > now)
    BY <1>3 DEF Inv, Typed, TypeOK, WsEntry
  <2>5. QED
    BY <2>1, <2>2, <2>3, <2>4 DEF CacheFresh, EntryFresh, WsEntryFresh
<1>5. (\A k \in Worker : WorkerFresh(worker[k]))'
  <2>1. \A k \in Worker : worker'[k].pc # "idle" => ~(worker'[k].basis > now)
    <3> SUFFICES ASSUME NEW k \in Worker, worker'[k].pc # "idle" PROVE ~(worker'[k].basis > now)
      OBVIOUS
    <3>1. worker'[k].basis <= worker'[k].began /\ worker'[k].began <= now
      BY DEF WorkerTimes
    <3>2. worker'[k].basis \in Nat /\ worker'[k].began \in Nat /\ now \in Nat
      BY DEF Inv, Typed, TypeOK, WorkerState
    <3>3. QED
      BY <3>1, <3>2
  <2>2. QED
    BY <2>1 DEF WorkerFresh, Sound
<1>6. QED
  BY <1>1, <1>2, <1>4, <1>5 DEF Inv, FreshByBasis, CacheTimes, CacheFresh, Typed

(* The two cache.set steps. *)
LEMMA SetWorkspaceCacheInv ==
  ASSUME Inv, NEW k \in Worker, SetWorkspaceCache(k), Typed'
  PROVE  Inv'
<1> DEFINE w == worker[k]
           e == [permission |-> w.permission, at |-> now, basis |-> w.basis]
           key == <<w.user, w.ctx>>
<1>0. NodeOf(k) \in Server /\ Good(w) /\ w.pc = "wsset"
  BY NodeOfType, InvParts DEF SetWorkspaceCache
<1>1. /\ w.user \in User /\ w.ctx \in Workspace /\ w.permission \in ALL_PERMISSIONS
      /\ w.basis \in Nat /\ w.began \in Nat /\ now \in Nat
      /\ WsTTL \in Nat \ {0} /\ MaxResolve \in Nat
  BY <1>0, CacheAssumption DEF Good, Shaped, WorkerShape, WorkerState, Inv, Typed, TypeOK
<1>2. e \in WsEntry \cup {Nil} /\ key \in WsKey
  BY <1>1 DEF WsEntry, WsKey
<1>3. e.at <= now /\ now < e.at + WsTTL /\ e.basis <= e.at /\ e.at <= e.basis + MaxResolve
  BY <1>0, <1>1 DEF Good, WorkerTimes
<1>4. e.basis > lastChange => e.permission = lookup_workspace_permission(db, w.user, w.ctx)
  BY <1>0 DEF Good, WorkerFresh, Sound
<1>5. PICK c \in Stores(wsCache[NodeOf(k)], key, e, WsMax) :
         wsCache' = [wsCache EXCEPT ![NodeOf(k)] = c]
  BY DEF SetWorkspaceCache
<1>6. \A j \in WsKey : c[j] \in {wsCache[NodeOf(k)][j], Nil} \/ (j = key /\ c[j] = e)
  <2>1. DOMAIN wsCache[NodeOf(k)] = WsKey
    BY <1>0 DEF Inv, Typed, TypeOK
  <2> HIDE DEF e, key
  <2>2. QED
    BY <1>2, <1>5, <2>1, StoresEntries
<1>7. \A n \in Server, j \in WsKey :
        wsCache'[n][j] \in {wsCache[n][j], Nil} \/ (j = key /\ wsCache'[n][j] = e)
  BY <1>0, <1>5, <1>6 DEF Inv, Typed, TypeOK
<1>8. UNCHANGED <<db, now, lastChange, permCache>>
  BY DEF SetWorkspaceCache, history
<1>9. CacheTimes'
  <2> HIDE DEF e, key
  <2>1. (\A n \in Server, j \in WsKey : WsEntryTimes(n, j))'
    BY <1>3, <1>7, <1>8, InvParts DEF CacheTimes, WsEntryTimes
  <2>2. (\A n \in Server, j \in Key : EntryTimes(n, j))'
    BY <1>8, InvParts DEF CacheTimes, EntryTimes
  <2>3. QED
    BY <2>1, <2>2 DEF CacheTimes
<1>10. CacheFresh'
  <2>1. \A u \in User, x \in Workspace : <<u, x>> \in WsKey /\ (<<u, x>> = key => u = w.user /\ x = w.ctx)
    BY DEF WsKey
  <2> HIDE DEF e, key
  <2>2. (\A n \in Server, u \in User, x \in Workspace : WsEntryFresh(n, u, x))'
    BY <1>4, <1>7, <1>8, <2>1, InvParts DEF CacheFresh, WsEntryFresh
  <2>3. (\A n \in Server, u \in User, r \in Sole, x \in Context : EntryFresh(n, u, r, x))'
    BY <1>8, InvParts DEF CacheFresh, EntryFresh, Decided
  <2>4. QED
    BY <2>2, <2>3 DEF CacheFresh
<1>11. Good(Settled(w, "store", w.permission, "workspace"))
  <2>1. ASSUME w.basis > lastChange
        PROVE  [permission |-> w.permission, kind |-> "workspace"] =
                 resolve_permission(db, w.user, w.res, w.ctx)
    <3>1. /\ Answering(db, w.user, w.res) = {}
          /\ w.permission = lookup_workspace_permission(db, w.user, w.ctx)
      BY <1>0, <2>1 DEF Good, WorkerFresh, Sound
    <3>2. QED
      BY <1>1, <3>1, WorkspaceDecides
  <2>2. "workspace" \in Kind
    BY DEF Kind
  <2>3. QED
    BY <1>0, <1>1, <2>1, <2>2, SettledGood
<1>12. (\A j \in Worker : WorkerTimes(worker[j]) /\ WorkerFresh(worker[j]))'
  BY <1>8, <1>11, GoodWorkerStep DEF SetWorkspaceCache
<1>13. QED
  BY <1>9, <1>10, <1>12 DEF Inv, FreshByBasis, CacheTimes, CacheFresh, Typed

LEMMA SetPermissionCacheInv ==
  ASSUME Inv, NEW k \in Worker, SetPermissionCache(k), Typed'
  PROVE  Inv'
<1> DEFINE w == worker[k]
           e == [permission |-> w.permission, kind |-> w.kind, at |-> now, basis |-> w.basis]
           key == make_cache_key(w.user, w.res, w.ctx)
<1>0. NodeOf(k) \in Server /\ Good(w) /\ w.pc = "store"
  BY NodeOfType, InvParts DEF SetPermissionCache
<1>1. /\ w.user \in User /\ w.res \in Resource /\ w.ctx \in Context
      /\ w.permission \in ALL_PERMISSIONS /\ w.kind \in Kind
      /\ w.basis \in Nat /\ w.began \in Nat /\ now \in Nat
      /\ WsTTL \in Nat \ {0} /\ PermTTL \in Nat \ {0} /\ MaxResolve \in Nat
  BY <1>0, CacheAssumption DEF Good, Shaped, WorkerShape, WorkerState, Inv, Typed, TypeOK
<1>2. e \in Entry \cup {Nil} /\ key \in Key
  BY <1>1 DEF Entry, Key, CacheId, make_cache_key
<1>3. /\ e.at <= now /\ now < e.at + PermTTL
      /\ e.basis <= e.at /\ e.at < e.basis + 2 * MaxResolve + WsTTL
  BY <1>0, <1>1 DEF Good, WorkerTimes
<1>4. e.basis > lastChange => Decided(e, w.user, w.res, w.ctx)
  BY <1>0 DEF Good, WorkerFresh, Sound, Decided
<1>5. PICK c \in Stores(permCache[NodeOf(k)], key, e, PermMax) :
         permCache' = [permCache EXCEPT ![NodeOf(k)] = c]
  BY DEF SetPermissionCache
<1>6. \A j \in Key : c[j] \in {permCache[NodeOf(k)][j], Nil} \/ (j = key /\ c[j] = e)
  <2>1. DOMAIN permCache[NodeOf(k)] = Key
    BY <1>0 DEF Inv, Typed, TypeOK
  <2> HIDE DEF e, key
  <2>2. QED
    BY <1>2, <1>5, <2>1, StoresEntries
<1>7. \A n \in Server, j \in Key :
        permCache'[n][j] \in {permCache[n][j], Nil} \/ (j = key /\ permCache'[n][j] = e)
  BY <1>0, <1>5, <1>6 DEF Inv, Typed, TypeOK
<1>8. UNCHANGED <<db, now, lastChange, wsCache>>
  BY DEF SetPermissionCache, history
<1>9. CacheTimes'
  <2> HIDE DEF e, key
  <2>1. (\A n \in Server, j \in Key : EntryTimes(n, j))'
    BY <1>3, <1>7, <1>8, InvParts DEF CacheTimes, EntryTimes
  <2>2. (\A n \in Server, j \in WsKey : WsEntryTimes(n, j))'
    BY <1>8, InvParts DEF CacheTimes, WsEntryTimes
  <2>3. QED
    BY <2>1, <2>2 DEF CacheTimes
<1>10. CacheFresh'
  <2>1. \A u \in User, r \in Sole, x \in Context :
          /\ make_cache_key(u, r, x) \in Key
          /\ make_cache_key(u, r, x) = key => u = w.user /\ r = w.res /\ x = w.ctx
    BY <1>1 DEF make_cache_key, Key, CacheId, Sole
  <2> HIDE DEF e, key
  <2>2. (\A n \in Server, u \in User, r \in Sole, x \in Context : EntryFresh(n, u, r, x))'
    BY <1>4, <1>7, <1>8, <2>1, InvParts DEF CacheFresh, EntryFresh, Decided
  <2>3. (\A n \in Server, u \in User, x \in Workspace : WsEntryFresh(n, u, x))'
    BY <1>8, InvParts DEF CacheFresh, WsEntryFresh
  <2>4. QED
    BY <2>2, <2>3 DEF CacheFresh
<1>11. (\A j \in Worker : WorkerTimes(worker[j]) /\ WorkerFresh(worker[j]))'
  BY <1>8, IdleGood, GoodWorkerStep DEF SetPermissionCache
<1>12. QED
  BY <1>9, <1>10, <1>11 DEF Inv, FreshByBasis, CacheTimes, CacheFresh, Typed

LEMMA InvResolving ==
  ASSUME Inv, NEW k \in Worker, Resolving(k)
  PROVE  Inv'
<1> DEFINE w == worker[k]
<1>0. /\ Typed /\ Typed' /\ NodeOf(k) \in Server /\ Good(w)
      /\ \A s : \A u \in User, t \in Target : SourceLookup(db, s, u, t) \in PermOrNil
  BY TypedResolving, NodeOfType, InvParts, SourceLookupType DEF Inv, Typed, TypeOK
<1>1. ASSUME NEW u \in User, NEW r \in Resource, NEW x \in Context, StartResolve(k, u, r, x)
      PROVE  Inv'
  BY <1>0, <1>1, StartedGood, WalkStep DEF StartResolve
<1>2. CASE ReadSource(k)
  <2>1. /\ w.pc = "sources" /\ w.idx \in DOMAIN SourceOrder
        /\ SourceLookup(db, SourceOrder[w.idx], w.user, w.res) \in PermOrNil
    BY <1>0, <1>2, WalkingTyped DEF ReadSource
  <2>2. /\ Good(GotGroups(w, "gregex")) \/ SourceOrder[w.idx] # "group-regex"
        /\ Good(Answered(w, SourceLookup(db, SourceOrder[w.idx], w.user, w.res), "sources", "store"))
    BY <1>0, <2>1, GotGroupsGood, AnsweredGood
  <2>3. QED
    BY <1>0, <1>2, <2>2, WalkStep DEF ReadSource, history
<1>3. CASE ReadGroupRegex(k)
  <2> DEFINE v == MatchRegex(list_permissions_for_groups_ids(db, w.gids), w.res)
  <2>1. w.pc = "gregex" /\ w.idx \in DOMAIN SourceOrder /\ SourceOrder[w.idx] = "group-regex"
    BY <1>0, <1>3 DEF ReadGroupRegex, Good, Shaped, WorkerShape
  <2>2. v \in PermOrNil
    BY <1>0, <2>1, WalkingTyped, GroupRowsType
  <2>3. w.basis > lastChange => SourceLookup(db, SourceOrder[w.idx], w.user, w.res) = v
    BY <1>0, <2>1 DEF Good, WorkerFresh, Sound, SourceLookup
  <2>4. Good(Answered(w, v, "sources", "store"))
    BY <1>0, <2>1, <2>2, <2>3, AnsweredGood
  <2>5. QED
    BY <1>0, <1>3, <2>4, WalkStep DEF ReadGroupRegex, history
<1>4. CASE FallBack(k)
  <2>1. w.pc = "sources" /\ w.idx \in Nat /\ w.idx > Len(SourceOrder)
    BY <1>0, <1>4, WalkingTyped DEF FallBack
  <2>2. w.basis > lastChange => Answering(db, w.user, w.res) = {}
    BY <1>0, <2>1, WalkedPast DEF Good, WorkerFresh, Sound
  <2>3. "fallback" \in Kind
    BY DEF Kind
  <2>4. CASE w.ctx = NoWorkspace
    <3>1. Good(Settled(w, "store", DefaultPermission, "fallback"))
      BY <1>0, <2>1, <2>2, <2>3, <2>4, DefaultAssumption, NothingInStore, SettledGood
    <3>2. QED
      BY <1>0, <1>4, <2>4, <3>1, WalkStep DEF FallBack, history
  <2>5. CASE w.ctx # NoWorkspace
    <3>1. Good(Settled(w, "workspace", DefaultPermission, "fallback"))
      BY <1>0, <2>1, <2>2, <2>5, DeferredGood
    <3>2. QED
      BY <1>0, <1>4, <2>5, <3>1, WalkStep DEF FallBack, history
  <2>6. QED
    BY <2>4, <2>5
<1>5. CASE get_workspace_permission_cached(k)
  <2> DEFINE e == wsCache[NodeOf(k)][<<w.user, w.ctx>>]
  <2>1. w.pc = "workspace" /\ w.user \in User /\ w.ctx \in Workspace /\ <<w.user, w.ctx>> \in WsKey
    BY <1>0, <1>5 DEF get_workspace_permission_cached, Good, Shaped, WorkerShape, WsKey
  <2>2. CASE e = Nil
    <3>1. Good(AtSource(w, "wssources", 1))
      BY <1>0, <2>1, WalkWorkspaceGood
    <3>2. QED
      BY <1>0, <1>5, <2>2, <3>1, WalkStep DEF get_workspace_permission_cached, history
  <2>3. CASE e # Nil
    <3>1. e \in WsEntry
      BY <1>0, <2>1, <2>3 DEF Typed, TypeOK
    <3>2. /\ e.at <= now /\ now < e.at + WsTTL /\ e.basis <= e.at /\ e.at <= e.basis + MaxResolve
      BY <1>0, <2>1, <2>3, InvParts DEF CacheTimes, WsEntryTimes
    <3>3. e.basis > lastChange => e.permission = lookup_workspace_permission(db, w.user, w.ctx)
      BY <1>0, <2>1, <2>3, InvParts DEF CacheFresh, WsEntryFresh
    <3>4. Good(Settled(OnBasis(w, e.basis), "store", e.permission, "workspace"))
      BY <1>0, <2>1, <3>1, <3>2, <3>3, HitGood
    <3>5. QED
      BY <1>0, <1>5, <2>3, <3>4, WalkStep DEF get_workspace_permission_cached, history
  <2>4. QED
    BY <2>2, <2>3
<1>6. CASE ReadWorkspaceSource(k)
  <2>1. w.pc = "wssources" /\ w.ctx \in Target /\ w.user \in User /\ w.idx \in DOMAIN SourceOrder
    BY <1>0, <1>6, WalkingTyped DEF ReadWorkspaceSource, Good, Shaped, WorkerShape, Target
  <2>2. /\ Good(GotGroups(w, "wsgregex")) \/ SourceOrder[w.idx] # "group-regex"
        /\ Good(Answered(w, SourceLookup(db, SourceOrder[w.idx], w.user, w.ctx), "wssources", "wsset"))
    BY <1>0, <2>1, GotGroupsGood, AnsweredGood
  <2>3. QED
    BY <1>0, <1>6, <2>2, WalkStep DEF ReadWorkspaceSource, history
<1>7. CASE ReadWorkspaceGroupRegex(k)
  <2> DEFINE v == MatchRegex(list_permissions_for_groups_ids(db, w.gids), w.ctx)
  <2>1. /\ w.pc = "wsgregex" /\ w.ctx \in Target
        /\ w.idx \in DOMAIN SourceOrder /\ SourceOrder[w.idx] = "group-regex"
    BY <1>0, <1>7 DEF ReadWorkspaceGroupRegex, Good, Shaped, WorkerShape, Target
  <2>2. v \in PermOrNil
    BY <1>0, <2>1, GroupRowsType
  <2>3. w.basis > lastChange => SourceLookup(db, SourceOrder[w.idx], w.user, w.ctx) = v
    BY <1>0, <2>1 DEF Good, WorkerFresh, Sound, SourceLookup
  <2>4. Good(Answered(w, v, "wssources", "wsset"))
    BY <1>0, <2>1, <2>2, <2>3, AnsweredGood
  <2>5. QED
    BY <1>0, <1>7, <2>4, WalkStep DEF ReadWorkspaceGroupRegex, history
<1>8. CASE WorkspaceReadFails(k)
  <2>1. w.pc # "idle" /\ w.pc \in {"wssources", "wsgregex"} /\ WorkerTimes(w) /\ w.idx \in Nat
    BY <1>0, <1>8 DEF WorkspaceReadFails, Good, Shaped, WorkerState
  <2>2. WorkerTimes(AtSource(w, "wssources", w.idx + 1))
    BY <1>0, <2>1, AtSourceTimes DEF Good
  <2>3. \A j \in Worker : WorkerTimes(worker'[j])
    BY <1>0, <1>8, <2>2, InvParts DEF WorkspaceReadFails, Answered, Good, Typed, TypeOK
  <2>4. lastChange' = now /\ UNCHANGED <<now, permCache, wsCache>>
    BY <1>8 DEF WorkspaceReadFails
  <2>5. QED
    BY <1>0, <2>3, <2>4, ChangeStep
<1>9. CASE SetWorkspaceCache(k)
  BY <1>0, <1>9, SetWorkspaceCacheInv
<1>10. CASE DenyByWorkspace(k)
  <2>1. w.pc = "wssources" /\ w.idx \in Nat /\ w.idx > Len(SourceOrder) /\ w.ctx \in Workspace
    BY <1>0, <1>10, WalkingTyped DEF DenyByWorkspace, Good, Shaped, WorkerShape
  <2>2. ASSUME w.basis > lastChange
        PROVE  [permission |-> "NO_PERMISSIONS", kind |-> "workspace-deny"] =
                 resolve_permission(db, w.user, w.res, w.ctx)
    <3>1. Answering(db, w.user, w.res) = {} /\ Answering(db, w.user, w.ctx) = {}
      BY <1>0, <2>1, <2>2, WalkedPast DEF Good, WorkerFresh, Sound
    <3>2. QED
      BY <2>1, <3>1, NothingInStore, NothingInWorkspace, NamesAssumption DEF WorkspaceResult
  <2>3. "workspace-deny" \in Kind /\ "NO_PERMISSIONS" \in ALL_PERMISSIONS
    BY DEF Kind, ALL_PERMISSIONS
  <2>4. Good(Settled(w, "store", "NO_PERMISSIONS", "workspace-deny"))
    BY <1>0, <2>1, <2>2, <2>3, SettledGood
  <2>5. QED
    BY <1>0, <1>10, <2>4, WalkStep DEF DenyByWorkspace, history
<1>11. CASE SetPermissionCache(k)
  BY <1>0, <1>11, SetPermissionCacheInv
<1>12. CASE ResolveFails(k)
  BY <1>0, <1>12, IdleGood, WalkStep DEF ResolveFails, history
<1>13. QED
  BY <1>1, <1>2, <1>3, <1>4, <1>5, <1>6, <1>7, <1>8, <1>9, <1>10, <1>11, <1>12 DEF Resolving

(* The database changes and no resolve moves. *)
LEMMA CommitInv ==
  ASSUME Inv, Typed', NEW a, NEW d, NEW step, Commit(a, d, step)
  PROVE  Inv'
<1>1. \A k \in Worker : WorkerTimes(worker'[k])
  BY InvParts DEF Commit, Good
<1>2. lastChange' = now /\ UNCHANGED <<now, permCache, wsCache>>
  BY DEF Commit
<1>3. QED
  BY <1>1, <1>2, ChangeStep

(* Entries are dropped and no resolve moves. *)
LEMMA DropInv ==
  ASSUME Inv, Typed', UNCHANGED <<db, now, lastChange, worker>>,
         \A n \in Server, k \in Key : permCache'[n][k] \in {permCache[n][k], Nil},
         \A n \in Server, k \in WsKey : wsCache'[n][k] \in {wsCache[n][k], Nil}
  PROVE  Inv'
<1>1. (CacheTimes /\ CacheFresh)'
  BY CacheShrinks
<1>2. (\A j \in Worker : WorkerTimes(worker[j]) /\ WorkerFresh(worker[j]))'
  BY InvParts DEF Good, WorkerTimes, WorkerFresh, Sound, Passed, Decided
<1>3. QED
  BY <1>1, <1>2 DEF Inv, FreshByBasis, CacheTimes, CacheFresh, Typed

LEMMA InvChanging ==
  ASSUME Inv, NEW a \in Admin, Changing(a)
  PROVE  Inv'
<1>0. Typed /\ Typed' /\ NodeOf(a) \in Server
  BY TypedChanging, NodeOfType DEF Inv
<1>1. ASSUME NEW d, NEW step, Commit(a, d, step) PROVE Inv'
  BY <1>0, <1>1, CommitInv
<1>2. CASE Flush(a)
  <2>1. \A n \in Server, k \in Key : permCache'[n][k] \in {permCache[n][k], Nil}
    BY <1>0, <1>2 DEF Flush, flush_permission_cache, Typed, TypeOK
  <2>2. QED
    BY <1>0, <1>2, <2>1, DropInv DEF Flush, history
<1>3. CASE InvalidateWorkspaceCache(a)
  <2>1. \A n \in Server, k \in WsKey : wsCache'[n][k] \in {wsCache[n][k], Nil}
    BY <1>0, <1>3 DEF InvalidateWorkspaceCache, Drop, Typed, TypeOK
  <2>2. QED
    BY <1>0, <1>3, <2>1, DropInv DEF InvalidateWorkspaceCache, history
<1>4. CASE WriteAborts(a)
  BY <1>0, <1>4, DropInv DEF WriteAborts
<1>5. QED
  BY <1>1, <1>2, <1>3, <1>4
  DEF Changing, SetPermission, SetRegexPermission, set_user_groups, wipe_workspace_permissions,
      WipeGroupRows, delete_user, Begin

LEMMA InvRestart ==
  ASSUME Inv, NEW s \in Server, Restart(s)
  PROVE  Inv'
<1>0. Typed /\ Typed'
  BY TypedRestart DEF Inv
<1>1. UNCHANGED <<db, now, lastChange>>
  BY DEF Restart
<1>2. /\ \A n \in Server, k \in Key : permCache'[n][k] \in {permCache[n][k], Nil}
      /\ \A n \in Server, k \in WsKey : wsCache'[n][k] \in {wsCache[n][k], Nil}
  <2>1. CASE SharedCache
    BY <2>1 DEF Restart
  <2>2. CASE ~SharedCache
    <3>1. /\ permCache' = [permCache EXCEPT ![s] = Drop(permCache[s], Key)]
          /\ wsCache' = [wsCache EXCEPT ![s] = Drop(wsCache[s], WsKey)]
      BY <2>2 DEF Restart
    <3>2. QED
      BY <1>0, <3>1 DEF Drop, Typed, TypeOK
  <2>3. QED
    BY <2>1, <2>2
<1>3. (CacheTimes /\ CacheFresh)'
  BY <1>1, <1>2, CacheShrinks
<1>4. \A k \in Worker : Good(worker'[k])
  BY IdleGood, InvParts DEF Restart
<1>5. (\A k \in Worker : WorkerTimes(worker[k]) /\ WorkerFresh(worker[k]))'
  BY <1>1, <1>4 DEF Good, WorkerTimes, WorkerFresh, Sound, Passed, Decided
<1>6. QED
  BY <1>0, <1>3, <1>5 DEF Inv, FreshByBasis, CacheTimes, CacheFresh, Typed

LEMMA InvTick == ASSUME Inv, Tick PROVE Inv'
<1>0. Typed /\ Typed'
  BY TypedTick DEF Inv
<1>1. UNCHANGED <<db, lastChange, worker>> /\ now' = now + 1 /\ now \in Nat /\ MaxResolve \in Nat
  BY <1>0, CacheAssumption DEF Tick, history, Typed, TypeOK
<1>2. (\A k \in Worker : WorkerTimes(worker[k]))'
  <2>1. ASSUME NEW k \in Worker, worker[k].pc # "idle"
        PROVE  worker[k].began <= now + 1 /\ now + 1 <= worker[k].began + MaxResolve
    <3>1. worker[k].began \in Nat
      BY <1>0 DEF Typed, TypeOK, WorkerState
    <3>2. now < worker[k].began + MaxResolve /\ worker[k].began <= now
      BY <2>1, InvParts DEF Tick, Busy, Good, WorkerTimes
    <3>3. QED
      BY <1>1, <3>1, <3>2
  <2>2. QED
    BY <1>1, <2>1, InvParts DEF Good, WorkerTimes
<1>3. (\A k \in Worker : WorkerFresh(worker[k]))'
  BY <1>1, InvParts DEF Good, WorkerFresh, Sound, Passed, Decided
<1>4. /\ \A n \in Server, k \in Key : permCache'[n][k] # Nil =>
           permCache'[n][k] = permCache[n][k] /\ now' < permCache[n][k].at + PermTTL
      /\ \A n \in Server, k \in WsKey : wsCache'[n][k] # Nil =>
           wsCache'[n][k] = wsCache[n][k] /\ now' < wsCache[n][k].at + WsTTL
  BY <1>0 DEF Tick, Unexpired, Typed, TypeOK
<1>5. CacheTimes'
  <2>1. ASSUME NEW n \in Server, NEW k \in Key, permCache'[n][k] # Nil
        PROVE  permCache[n][k].at <= now + 1
    BY <1>0, <1>1, <1>4, <2>1, InvParts DEF CacheTimes, EntryTimes, Typed, TypeOK, Entry
  <2>2. ASSUME NEW n \in Server, NEW k \in WsKey, wsCache'[n][k] # Nil
        PROVE  wsCache[n][k].at <= now + 1
    BY <1>0, <1>1, <1>4, <2>2, InvParts DEF CacheTimes, WsEntryTimes, Typed, TypeOK, WsEntry
  <2>3. (\A n \in Server, k \in Key : EntryTimes(n, k))'
    BY <1>1, <1>4, <2>1, InvParts DEF CacheTimes, EntryTimes
  <2>4. (\A n \in Server, k \in WsKey : WsEntryTimes(n, k))'
    BY <1>1, <1>4, <2>2, InvParts DEF CacheTimes, WsEntryTimes
  <2>5. QED
    BY <2>3, <2>4 DEF CacheTimes
<1>6. CacheFresh'
  <2>1. \A u \in User, r \in Sole, x \in Context : make_cache_key(u, r, x) \in Key
    BY DEF make_cache_key, Key, CacheId, Sole
  <2>2. \A u \in User, w \in Workspace : <<u, w>> \in WsKey
    BY DEF WsKey
  <2>3. QED
    BY <1>1, <1>4, <2>1, <2>2, InvParts DEF CacheFresh, EntryFresh, WsEntryFresh, Decided
<1>7. QED
  BY <1>0, <1>2, <1>3, <1>5, <1>6 DEF Inv, FreshByBasis, CacheTimes, CacheFresh, Typed

LEMMA InvNext == Inv /\ [Next]_vars => Inv'
<1> SUFFICES ASSUME Inv, [Next]_vars PROVE Inv'
  OBVIOUS
<1>1. CASE UNCHANGED vars
  <2>1. Typed'
    BY TypedNext DEF Inv
  <2>2. QED
    BY <1>1, <2>1, DropInv DEF vars, history
<1>2. CASE Next
  BY <1>2, InvResolving, InvChanging, InvRestart, InvTick DEF Next
<1>3. QED
  BY <1>1, <1>2

LEMMA Invariance == Spec => []Inv
BY InvInit, InvNext, PTL DEF Spec

(* Whatever a resolve in flight or a cache entry was computed from was     *)
(* read at or after its basis, and it agrees with the database when the    *)
(* database has not changed since.                                         *)
THEOREM Freshness == Spec => []FreshByBasis
<1>1. Inv => FreshByBasis
  BY DEF Inv
<1>2. QED
  BY <1>1, Invariance, PTL

(* An entry that is still alive was set less than PermTTL ago, from reads  *)
(* at most WsTTL and two resolves older than that.                         *)
LEMMA InvStaleness == Inv => StalenessBound
<1> SUFFICES ASSUME Inv, now >= lastChange + StaleWindow,
                    NEW n \in Server, NEW u \in User, NEW r \in Sole, NEW x \in Context
             PROVE  Agrees(n, u, r, x)
  BY DEF StalenessBound
<1> DEFINE key == make_cache_key(u, r, x)
           e == permCache[n][key]
<1>1. key \in Key
  BY DEF make_cache_key, Key, CacheId, Sole
<1>2. ASSUME e # Nil PROVE e.basis > lastChange
  <2>1. e \in Entry
    BY <1>1, <1>2 DEF Inv, Typed, TypeOK
  <2>2. /\ e.at \in Nat /\ e.basis \in Nat /\ now \in Nat /\ lastChange \in Nat
        /\ PermTTL \in Nat /\ WsTTL \in Nat /\ MaxResolve \in Nat
    BY <2>1, CacheAssumption DEF Entry, Inv, Typed, TypeOK
  <2>3. now < e.at + PermTTL /\ e.at < e.basis + 2 * MaxResolve + WsTTL
    BY <1>1, <1>2, InvParts DEF CacheTimes, EntryTimes
  <2>4. QED
    BY <2>2, <2>3 DEF StaleWindow
<1>3. EntryFresh(n, u, r, x)
  BY InvParts DEF CacheFresh
<1>4. QED
  BY <1>2, <1>3 DEF EntryFresh, Agrees

(* A cached decision disagrees with the database for less than             *)
(* PermTTL + WsTTL + 2 * MaxResolve after the last change, for every       *)
(* number of servers and requests, every source order, both cache          *)
(* backends, with faults and restarts.                                     *)
THEOREM BoundedStaleness == Spec => []StalenessBound
BY Invariance, InvStaleness, PTL

-----------------------------------------------------------------------------
(* Coherence.  At a node where no write has overlapped a resolve, a cache  *)
(* agrees with the database or a write in progress is still to drop what   *)
(* does not.                                                               *)

(* The invalidation that s is to make drops u's entry for workspace w, if  *)
(* it finds the memberships of d.                                          *)
Cuts(s, d, u, w) ==
  \/ s.scope = "entry" /\ s.user = u /\ s.ws = w
  \/ s.scope = "user" /\ s.user = u
  \/ s.scope = "group" /\ s.group \in get_groups_ids_for_user(d, u) /\ s.ws = w
  \/ s.scope = "all"

Clear(n) == \A k \in Worker : NodeOf(k) = n /\ Busy(k) => \A a \in Admin : ~Writing(a)
WalkSound(n) ==
  \A k \in Worker : NodeOf(k) = n /\ worker[k].user \notin deleted => Sound(worker[k])

Flushing(n) == \E a \in Admin : NodeOf(a) = n /\ admin[a].pc \in {"wipe", "flush"}
PermSound(n) ==
  Flushing(n) \/ \A u \in User \ deleted, r \in Sole, x \in Context : Agrees(n, u, r, x)

Covered(n, u, w) == \E a \in Admin : NodeOf(a) = n /\ Writing(a) /\ Cuts(admin[a], db, u, w)
WsSound(n) ==
  \A u \in User \ deleted, w \in Workspace : WsAgrees(n, u, w) \/ Covered(n, u, w)

Whole(n) == Clear(n) /\ WalkSound(n) /\ PermSound(n) /\ WsSound(n)

(* The second transaction of a wipe leaves every entry to be dropped. *)
WipeShape == \A a \in Admin : admin[a].pc = "wipe" => admin[a].scope = "all"

Kept == Typed /\ WipeShape /\ \A n \in Server \ missed : Whole(n)

LEMMA KeysInCache ==
  /\ \A u \in User, r \in Sole, x \in Context : make_cache_key(u, r, x) \in Key
  /\ \A u \in User, w \in Workspace : <<u, w>> \in WsKey
BY DEF make_cache_key, Key, CacheId, Sole, WsKey

(* A step that commits nothing. *)
LEMMA WholeStep ==
  ASSUME NEW n, Whole(n), UNCHANGED <<db, deleted>>,
         \A k \in Worker : NodeOf(k) = n /\ worker'[k].pc # "idle" =>
           /\ Busy(k) \/ \A a \in Admin : ~Writing(a)
           /\ worker'[k].user \notin deleted => Sound(worker'[k]),
         \A a \in Admin : admin'[a].pc # "idle" => Writing(a),
         \A u \in User \ deleted, r \in Sole, x \in Context :
           LET key == make_cache_key(u, r, x)
           IN  permCache'[n][key] \in {permCache[n][key], Nil} \/ Decided(permCache'[n][key], u, r, x),
         \/ \A u \in User \ deleted, r \in Sole, x \in Context : permCache'[n][make_cache_key(u, r, x)] = Nil
         \/ \A a \in Admin : NodeOf(a) = n /\ admin[a].pc \in {"wipe", "flush"} => admin'[a].pc \in {"wipe", "flush"},
         \A u \in User \ deleted, w \in Workspace :
           \/ wsCache'[n][<<u, w>>] \in {wsCache[n][<<u, w>>], Nil}
           \/ wsCache'[n][<<u, w>>].permission = lookup_workspace_permission(db, u, w),
         \A u \in User \ deleted, w \in Workspace :
           \/ wsCache'[n][<<u, w>>] = Nil
           \/ \A a \in Admin : NodeOf(a) = n /\ Writing(a) /\ Cuts(admin[a], db, u, w) =>
                admin'[a].pc # "idle" /\ Cuts(admin'[a], db, u, w)
  PROVE  Whole(n)'
<1>1. Clear(n)'
  BY DEF Whole, Clear, Busy, Writing
<1>2. WalkSound(n)'
  <2>1. \A k \in Worker : NodeOf(k) = n /\ worker'[k].user \notin deleted => Sound(worker'[k])
    BY DEF Sound
  <2>2. QED
    BY <2>1 DEF WalkSound, Sound, Passed, Decided
<1>3. PermSound(n)'
  <2>1. CASE \A u \in User \ deleted, r \in Sole, x \in Context : permCache'[n][make_cache_key(u, r, x)] = Nil
    BY <2>1 DEF PermSound, Agrees
  <2>2. CASE \A a \in Admin : NodeOf(a) = n /\ admin[a].pc \in {"wipe", "flush"} => admin'[a].pc \in {"wipe", "flush"}
    <3>1. CASE Flushing(n)
      BY <2>2, <3>1 DEF PermSound, Flushing
    <3>2. CASE ~Flushing(n)
      <4>1. \A u \in User \ deleted, r \in Sole, x \in Context : Agrees(n, u, r, x)
        BY <3>2 DEF Whole, PermSound
      <4>2. \A u \in User \ deleted, r \in Sole, x \in Context :
              permCache'[n][make_cache_key(u, r, x)] # Nil => Decided(permCache'[n][make_cache_key(u, r, x)], u, r, x)
        BY <4>1 DEF Agrees
      <4>3. (\A u \in User \ deleted, r \in Sole, x \in Context : Agrees(n, u, r, x))'
        BY <4>2 DEF Agrees, Decided
      <4>4. QED
        BY <4>3 DEF PermSound
    <3>3. QED
      BY <3>1, <3>2
  <2>3. QED
    BY <2>1, <2>2
<1>4. WsSound(n)'
  <2>1. ASSUME NEW u \in User \ deleted, NEW w \in Workspace
        PROVE  \/ wsCache'[n][<<u, w>>] # Nil => wsCache'[n][<<u, w>>].permission = lookup_workspace_permission(db, u, w)
               \/ \E a \in Admin : NodeOf(a) = n /\ admin'[a].pc # "idle" /\ Cuts(admin'[a], db, u, w)
    <3>1. WsAgrees(n, u, w) \/ Covered(n, u, w)
      BY DEF Whole, WsSound
    <3>2. CASE WsAgrees(n, u, w)
      BY <3>2 DEF WsAgrees
    <3>3. CASE Covered(n, u, w)
      BY <3>3 DEF Covered
    <3>4. QED
      BY <3>1, <3>2, <3>3
  <2>2. ASSUME NEW u \in User \ deleted, NEW w \in Workspace
        PROVE  WsAgrees(n, u, w)' \/ Covered(n, u, w)'
    <3>1. CASE wsCache'[n][<<u, w>>] # Nil => wsCache'[n][<<u, w>>].permission = lookup_workspace_permission(db, u, w)
      BY <3>1 DEF WsAgrees
    <3>2. CASE \E a \in Admin : NodeOf(a) = n /\ admin'[a].pc # "idle" /\ Cuts(admin'[a], db, u, w)
      BY <3>2 DEF Covered, Writing, Cuts
    <3>3. QED
      BY <2>1, <3>1, <3>2
  <2>3. QED
    BY <2>2 DEF WsSound
<1>5. QED
  BY <1>1, <1>2, <1>3, <1>4 DEF Whole

(* A worker steps, and the database, the caches and the writes do not. *)
LEMMA WholeWalk ==
  ASSUME Typed, NEW n, Whole(n), NEW k \in Worker, NEW w, worker' = [worker EXCEPT ![k] = w],
         UNCHANGED <<db, deleted, admin, permCache, wsCache>>,
         NodeOf(k) = n /\ w.pc # "idle" => /\ Busy(k) \/ \A a \in Admin : ~Writing(a)
                                           /\ w.user \notin deleted => Sound(w)
  PROVE  Whole(n)'
<1>1. \A j \in Worker : worker'[j] = IF j = k THEN w ELSE worker[j]
  BY DEF Typed, TypeOK
<1>2. \A j \in Worker : NodeOf(j) = n /\ worker'[j].pc # "idle" =>
           /\ Busy(j) \/ \A a \in Admin : ~Writing(a)
           /\ worker'[j].user \notin deleted => Sound(worker'[j])
  BY <1>1 DEF Whole, WalkSound, Busy
<1>3. \A a \in Admin : admin'[a].pc # "idle" => Writing(a)
  BY DEF Writing
<1>4. QED
  BY <1>2, <1>3, WholeStep DEF Writing

LEMMA UserKept ==
  ASSUME NEW w, Shaped(w)
  PROVE  /\ \A pc, i : AtSource(w, pc, i).user = w.user
         /\ \A pc, p, kind : Settled(w, pc, p, kind).user = w.user
         /\ \A b : OnBasis(w, b).user = w.user
         /\ \A next : GotGroups(w, next).user = w.user
         /\ \A v, walk, done : Answered(w, v, walk, done).user = w.user
<1>1. /\ \A pc, i : AtSource(w, pc, i).user = w.user
      /\ \A pc, p, kind : Settled(w, pc, p, kind).user = w.user
      /\ \A b : OnBasis(w, b).user = w.user
      /\ \A next : GotGroups(w, next).user = w.user
  BY DEF Shaped, WorkerState, AtSource, Settled, OnBasis, GotGroups
<1>2. QED
  BY <1>1 DEF Answered

(* The two cache.set steps. *)
LEMMA WholeSetWorkspaceCache ==
  ASSUME Typed, NEW n \in Server, Whole(n), NEW k \in Worker, SetWorkspaceCache(k)
  PROVE  Whole(n)'
<1> DEFINE w == worker[k]
           e == [permission |-> w.permission, at |-> now, basis |-> w.basis]
           key == <<w.user, w.ctx>>
           v == Settled(w, "store", w.permission, "workspace")
<1>0. /\ NodeOf(k) \in Server /\ Shaped(w) /\ w.pc = "wsset" /\ Busy(k)
      /\ w.user \in User /\ w.ctx \in Workspace /\ w.permission \in ALL_PERMISSIONS
  BY NodeOfType, WalkingTyped DEF SetWorkspaceCache, Busy, Shaped, WorkerShape
<1>1. /\ worker' = [worker EXCEPT ![k] = v] /\ UNCHANGED <<db, deleted, admin, permCache>>
  BY DEF SetWorkspaceCache, history
<1>2. NodeOf(k) = n /\ w.user \notin deleted =>
        /\ Answering(db, w.user, w.res) = {}
        /\ w.permission = lookup_workspace_permission(db, w.user, w.ctx)
  BY <1>0 DEF Whole, WalkSound, Sound
<1>3. NodeOf(k) = n /\ w.user \notin deleted => Sound(v)
  BY <1>0, <1>2, WorkspaceDecides, SettledSound
<1>4. v.user = w.user
  BY <1>0, UserKept
<1>5. \A j \in WsKey : \/ wsCache'[n][j] \in {wsCache[n][j], Nil}
                       \/ NodeOf(k) = n /\ j = key /\ wsCache'[n][j] = e
  <2>1. PICK c \in Stores(wsCache[NodeOf(k)], key, e, WsMax) :
           wsCache' = [wsCache EXCEPT ![NodeOf(k)] = c]
    BY DEF SetWorkspaceCache
  <2>2. DOMAIN wsCache[NodeOf(k)] = WsKey /\ key \in WsKey
    BY <1>0 DEF Typed, TypeOK, WsKey
  <2> HIDE DEF e, key
  <2>3. \A j \in WsKey : c[j] \in {wsCache[NodeOf(k)][j], Nil} \/ (j = key /\ c[j] = e)
    BY <2>1, <2>2, StoresEntries
  <2>4. QED
    BY <1>0, <2>1, <2>3 DEF Typed, TypeOK
<1>6. \A u \in User \ deleted, x \in Workspace :
        \/ wsCache'[n][<<u, x>>] \in {wsCache[n][<<u, x>>], Nil}
        \/ wsCache'[n][<<u, x>>].permission = lookup_workspace_permission(db, u, x)
  <2> SUFFICES ASSUME NEW u \in User \ deleted, NEW x \in Workspace,
                      ~(wsCache'[n][<<u, x>>] \in {wsCache[n][<<u, x>>], Nil})
               PROVE  wsCache'[n][<<u, x>>].permission = lookup_workspace_permission(db, u, x)
    OBVIOUS
  <2>1. NodeOf(k) = n /\ <<u, x>> = key /\ wsCache'[n][<<u, x>>] = e
    BY <1>5, KeysInCache
  <2>2. u = w.user /\ x = w.ctx /\ e.permission = w.permission
    BY <2>1
  <2>3. QED
    BY <1>2, <2>1, <2>2
<1> HIDE DEF e, key, v
<1>7. \A j \in Worker : NodeOf(j) = n /\ worker'[j].pc # "idle" =>
           /\ Busy(j) \/ \A a \in Admin : ~Writing(a)
           /\ worker'[j].user \notin deleted => Sound(worker'[j])
  <2>1. \A j \in Worker : worker'[j] = IF j = k THEN v ELSE worker[j]
    BY <1>1 DEF Typed, TypeOK
  <2>2. QED
    BY <1>0, <1>3, <1>4, <2>1 DEF Whole, WalkSound, Busy
<1>8. QED
  BY <1>1, <1>6, <1>7, WholeStep DEF Writing

LEMMA WholeSetPermissionCache ==
  ASSUME Typed, NEW n \in Server, Whole(n), NEW k \in Worker, SetPermissionCache(k)
  PROVE  Whole(n)'
<1> DEFINE w == worker[k]
           e == [permission |-> w.permission, kind |-> w.kind, at |-> now, basis |-> w.basis]
           key == make_cache_key(w.user, w.res, w.ctx)
<1>0. /\ NodeOf(k) \in Server /\ w.pc = "store"
      /\ w.user \in User /\ w.res \in Resource /\ w.ctx \in Context
  BY NodeOfType, WalkingTyped DEF SetPermissionCache, Shaped, WorkerShape
<1>1. /\ worker' = [worker EXCEPT ![k] = Idle] /\ UNCHANGED <<db, deleted, admin, wsCache>>
  BY DEF SetPermissionCache, history
<1>2. NodeOf(k) = n /\ w.user \notin deleted => Decided(e, w.user, w.res, w.ctx)
  BY <1>0 DEF Whole, WalkSound, Sound, Decided
<1>3. \A j \in Key : \/ permCache'[n][j] \in {permCache[n][j], Nil}
                     \/ NodeOf(k) = n /\ j = key /\ permCache'[n][j] = e
  <2>1. PICK c \in Stores(permCache[NodeOf(k)], key, e, PermMax) :
           permCache' = [permCache EXCEPT ![NodeOf(k)] = c]
    BY DEF SetPermissionCache
  <2>2. DOMAIN permCache[NodeOf(k)] = Key /\ key \in Key
    BY <1>0 DEF Typed, TypeOK, Key, CacheId, make_cache_key
  <2> HIDE DEF e, key
  <2>3. \A j \in Key : c[j] \in {permCache[NodeOf(k)][j], Nil} \/ (j = key /\ c[j] = e)
    BY <2>1, <2>2, StoresEntries
  <2>4. QED
    BY <1>0, <2>1, <2>3 DEF Typed, TypeOK
<1>4. ASSUME NEW u \in User \ deleted, NEW r \in Sole, NEW x \in Context
      PROVE  LET j == make_cache_key(u, r, x)
             IN  permCache'[n][j] \in {permCache[n][j], Nil} \/ Decided(permCache'[n][j], u, r, x)
  <2> DEFINE j == make_cache_key(u, r, x)
  <2>1. j = key => u = w.user /\ r = w.res /\ x = w.ctx
    BY <1>0 DEF make_cache_key, Sole
  <2>2. j \in Key
    BY KeysInCache
  <2> HIDE DEF j, key, e
  <2>3. permCache'[n][j] \in {permCache[n][j], Nil} \/ Decided(permCache'[n][j], u, r, x)
    BY <1>2, <1>3, <2>1, <2>2
  <2>4. QED
    BY <2>3 DEF j
<1>5. \A j \in Worker : NodeOf(j) = n /\ worker'[j].pc # "idle" =>
           /\ Busy(j) \/ \A a \in Admin : ~Writing(a)
           /\ worker'[j].user \notin deleted => Sound(worker'[j])
  <2>1. \A j \in Worker : worker'[j] = IF j = k THEN Idle ELSE worker[j]
    BY <1>1 DEF Typed, TypeOK
  <2>2. QED
    BY <2>1 DEF Whole, WalkSound, Busy, Idle
<1>6. QED
  BY <1>1, <1>4, <1>5, WholeStep DEF Writing

(* The step of a resolve at a node where no write overlaps it. *)
LEMMA WholeResolving ==
  ASSUME Typed, NEW n \in Server, n \notin missed', Whole(n), NEW k \in Worker, Resolving(k)
  PROVE  Whole(n)'
<1> DEFINE w == worker[k]
<1>0. /\ NodeOf(k) \in Server
      /\ \A s : \A u \in User, t \in Target : SourceLookup(db, s, u, t) \in PermOrNil
  BY NodeOfType, SourceLookupType DEF Typed, TypeOK
<1>a. ASSUME NEW v, worker' = [worker EXCEPT ![k] = v], w.pc # "idle", v.user = w.user,
             UNCHANGED <<db, deleted, admin, permCache, wsCache>>,
             NodeOf(k) = n /\ w.user \notin deleted /\ Sound(w) => Sound(v)
      PROVE  Whole(n)'
  <2>1. NodeOf(k) = n /\ w.user \notin deleted => Sound(w)
    BY DEF Whole, WalkSound
  <2>2. Busy(k)
    BY <1>a DEF Busy
  <2>3. QED
    BY <1>a, <2>1, <2>2, WholeWalk
<1>1. ASSUME NEW u \in User, NEW r \in Resource, NEW x \in Context, StartResolve(k, u, r, x)
      PROVE  Whole(n)'
  <2> DEFINE v == Started(u, r, x, now)
  <2>1. Sound(v)
    BY StartedSound
  <2>2. NodeOf(k) = n => \A a \in Admin : ~Writing(a)
    BY <1>1 DEF StartResolve
  <2>3. worker' = [worker EXCEPT ![k] = v] /\ UNCHANGED <<db, deleted, admin, permCache, wsCache>>
    BY <1>1 DEF StartResolve
  <2> HIDE DEF v
  <2>4. QED
    BY <2>1, <2>2, <2>3, WholeWalk
<1>2. CASE ReadSource(k)
  <2> DEFINE v == SourceLookup(db, SourceOrder[w.idx], w.user, w.res)
  <2>1. Shaped(w) /\ w.pc = "sources" /\ w.idx \in DOMAIN SourceOrder /\ v \in PermOrNil
    BY <1>0, <1>2, WalkingTyped DEF ReadSource
  <2>2. UNCHANGED <<db, deleted, admin, permCache, wsCache>>
    BY <1>2 DEF ReadSource, history
  <2>3. CASE SourceOrder[w.idx] = "group-regex"
    <3>1. worker' = [worker EXCEPT ![k] = GotGroups(w, "gregex")]
      BY <1>2, <2>3 DEF ReadSource
    <3>2. Sound(w) => Sound(GotGroups(w, "gregex"))
      BY <2>1, GotGroupsSound
    <3>3. GotGroups(w, "gregex").user = w.user
      BY <2>1, UserKept
    <3>4. QED
      BY <1>a, <2>1, <2>2, <3>1, <3>2, <3>3
  <2>4. CASE SourceOrder[w.idx] # "group-regex"
    <3>1. worker' = [worker EXCEPT ![k] = Answered(w, v, "sources", "store")]
      BY <1>2, <2>4 DEF ReadSource
    <3>2. Sound(w) => Sound(Answered(w, v, "sources", "store"))
      BY <2>1, AnsweredSound
    <3>3. Answered(w, v, "sources", "store").user = w.user
      BY <2>1, UserKept
    <3>4. QED
      BY <1>a, <2>1, <2>2, <3>1, <3>2, <3>3
  <2>5. QED
    BY <2>3, <2>4
<1>3. CASE ReadGroupRegex(k)
  <2> DEFINE v == MatchRegex(list_permissions_for_groups_ids(db, w.gids), w.res)
  <2>1. Shaped(w) /\ w.pc = "gregex" /\ w.idx \in DOMAIN SourceOrder /\ SourceOrder[w.idx] = "group-regex"
    BY <1>3, WalkingTyped DEF ReadGroupRegex, Shaped, WorkerShape
  <2>2. v \in PermOrNil
    BY <2>1, WalkingTyped, GroupRowsType
  <2>3. Sound(w) => SourceLookup(db, SourceOrder[w.idx], w.user, w.res) = v
    BY <2>1 DEF Sound, SourceLookup
  <2>4. /\ worker' = [worker EXCEPT ![k] = Answered(w, v, "sources", "store")]
        /\ UNCHANGED <<db, deleted, admin, permCache, wsCache>>
    BY <1>3 DEF ReadGroupRegex, history
  <2> HIDE DEF v
  <2>5. Sound(w) => Sound(Answered(w, v, "sources", "store"))
    BY <2>1, <2>2, <2>3, AnsweredSound
  <2>6. Answered(w, v, "sources", "store").user = w.user
    BY <2>1, UserKept
  <2>7. QED
    BY <1>a, <2>1, <2>4, <2>5, <2>6
<1>4. CASE FallBack(k)
  <2>1. Shaped(w) /\ w.pc = "sources" /\ w.idx \in Nat /\ w.idx > Len(SourceOrder)
    BY <1>4, WalkingTyped DEF FallBack
  <2>2. Sound(w) => Answering(db, w.user, w.res) = {}
    BY <2>1, WalkedPast DEF Sound
  <2>3. UNCHANGED <<db, deleted, admin, permCache, wsCache>>
    BY <1>4 DEF FallBack, history
  <2>4. CASE w.ctx = NoWorkspace
    <3>1. worker' = [worker EXCEPT ![k] = Settled(w, "store", DefaultPermission, "fallback")]
      BY <1>4, <2>4 DEF FallBack
    <3>2. Sound(w) => Sound(Settled(w, "store", DefaultPermission, "fallback"))
      BY <2>1, <2>2, <2>4, NothingInStore, SettledSound
    <3>3. Settled(w, "store", DefaultPermission, "fallback").user = w.user
      BY <2>1, UserKept
    <3>4. QED
      BY <1>a, <2>1, <2>3, <3>1, <3>2, <3>3
  <2>5. CASE w.ctx # NoWorkspace
    <3>1. worker' = [worker EXCEPT ![k] = Settled(w, "workspace", DefaultPermission, "fallback")]
      BY <1>4, <2>5 DEF FallBack
    <3>2. Sound(w) => Sound(Settled(w, "workspace", DefaultPermission, "fallback"))
      BY <2>1, <2>2, DeferredSound
    <3>3. Settled(w, "workspace", DefaultPermission, "fallback").user = w.user
      BY <2>1, UserKept
    <3>4. QED
      BY <1>a, <2>1, <2>3, <3>1, <3>2, <3>3
  <2>6. QED
    BY <2>4, <2>5
<1>5. CASE get_workspace_permission_cached(k)
  <2> DEFINE e == wsCache[NodeOf(k)][<<w.user, w.ctx>>]
  <2>1. /\ Shaped(w) /\ w.pc = "workspace" /\ w.user \in User /\ w.ctx \in Workspace
        /\ <<w.user, w.ctx>> \in WsKey
    BY <1>5, WalkingTyped DEF get_workspace_permission_cached, Shaped, WorkerShape, WsKey
  <2>2. UNCHANGED <<db, deleted, admin, permCache, wsCache>>
    BY <1>5 DEF get_workspace_permission_cached, history
  <2>3. CASE e = Nil
    <3>1. worker' = [worker EXCEPT ![k] = AtSource(w, "wssources", 1)]
      BY <1>5, <2>3 DEF get_workspace_permission_cached
    <3>2. Sound(w) => Sound(AtSource(w, "wssources", 1))
      BY <2>1, WalkWorkspaceSound
    <3>3. AtSource(w, "wssources", 1).user = w.user
      BY <2>1, UserKept
    <3>4. QED
      BY <1>a, <2>1, <2>2, <3>1, <3>2, <3>3
  <2>4. CASE e # Nil
    <3>1. e.permission \in ALL_PERMISSIONS /\ e.basis \in Nat
      BY <1>0, <2>1, <2>4 DEF Typed, TypeOK, WsEntry
    <3>2. NodeOf(k) = n /\ w.user \notin deleted => e.permission = lookup_workspace_permission(db, w.user, w.ctx)
      <4>1. NodeOf(k) = n => \A a \in Admin : ~Writing(a)
        BY <2>1 DEF Whole, Clear, Busy
      <4>2. NodeOf(k) = n /\ w.user \notin deleted => WsAgrees(n, w.user, w.ctx)
        BY <2>1, <4>1 DEF Whole, WsSound, Covered
      <4>3. QED
        BY <2>4, <4>2 DEF WsAgrees
    <3> DEFINE v == Settled(OnBasis(w, e.basis), "store", e.permission, "workspace")
    <3>3. NodeOf(k) = n /\ w.user \notin deleted /\ Sound(w) => Sound(v)
      BY <2>1, <3>1, <3>2, HitSound
    <3>4. v.user = w.user
      <4>1. Shaped(OnBasis(w, e.basis)) /\ OnBasis(w, e.basis).user = w.user
        BY <2>1, <3>1, OnBasisShaped, UserKept
      <4>2. QED
        BY <4>1, UserKept
    <3>5. worker' = [worker EXCEPT ![k] = v]
      BY <1>5, <2>4 DEF get_workspace_permission_cached
    <3> HIDE DEF v
    <3>6. QED
      BY <1>a, <2>1, <2>2, <3>3, <3>4, <3>5
  <2>5. QED
    BY <2>3, <2>4
<1>6. CASE ReadWorkspaceSource(k)
  <2> DEFINE v == SourceLookup(db, SourceOrder[w.idx], w.user, w.ctx)
  <2>1. /\ Shaped(w) /\ w.pc = "wssources" /\ w.idx \in DOMAIN SourceOrder
        /\ w.user \in User /\ w.ctx \in Target
    BY <1>6, WalkingTyped DEF ReadWorkspaceSource, Shaped, WorkerShape, Target
  <2>2. UNCHANGED <<db, deleted, admin, permCache, wsCache>> /\ v \in PermOrNil
    BY <1>0, <1>6, <2>1 DEF ReadWorkspaceSource, history
  <2>3. CASE SourceOrder[w.idx] = "group-regex"
    <3>1. worker' = [worker EXCEPT ![k] = GotGroups(w, "wsgregex")]
      BY <1>6, <2>3 DEF ReadWorkspaceSource
    <3>2. Sound(w) => Sound(GotGroups(w, "wsgregex"))
      BY <2>1, GotGroupsSound
    <3>3. GotGroups(w, "wsgregex").user = w.user
      BY <2>1, UserKept
    <3>4. QED
      BY <1>a, <2>1, <2>2, <3>1, <3>2, <3>3
  <2>4. CASE SourceOrder[w.idx] # "group-regex"
    <3>1. worker' = [worker EXCEPT ![k] = Answered(w, v, "wssources", "wsset")]
      BY <1>6, <2>4 DEF ReadWorkspaceSource
    <3>2. Sound(w) => Sound(Answered(w, v, "wssources", "wsset"))
      BY <2>1, <2>2, AnsweredSound
    <3>3. Answered(w, v, "wssources", "wsset").user = w.user
      BY <2>1, UserKept
    <3>4. QED
      BY <1>a, <2>1, <2>2, <3>1, <3>2, <3>3
  <2>5. QED
    BY <2>3, <2>4
<1>7. CASE ReadWorkspaceGroupRegex(k)
  <2> DEFINE v == MatchRegex(list_permissions_for_groups_ids(db, w.gids), w.ctx)
  <2>1. /\ Shaped(w) /\ w.pc = "wsgregex" /\ w.ctx \in Target
        /\ w.idx \in DOMAIN SourceOrder /\ SourceOrder[w.idx] = "group-regex"
    BY <1>7, WalkingTyped DEF ReadWorkspaceGroupRegex, Shaped, WorkerShape, Target
  <2>2. v \in PermOrNil
    BY <2>1, GroupRowsType
  <2>3. Sound(w) => SourceLookup(db, SourceOrder[w.idx], w.user, w.ctx) = v
    BY <2>1 DEF Sound, SourceLookup
  <2>4. /\ worker' = [worker EXCEPT ![k] = Answered(w, v, "wssources", "wsset")]
        /\ UNCHANGED <<db, deleted, admin, permCache, wsCache>>
    BY <1>7 DEF ReadWorkspaceGroupRegex, history
  <2> HIDE DEF v
  <2>5. Sound(w) => Sound(Answered(w, v, "wssources", "wsset"))
    BY <2>1, <2>2, <2>3, AnsweredSound
  <2>6. Answered(w, v, "wssources", "wsset").user = w.user
    BY <2>1, UserKept
  <2>7. QED
    BY <1>a, <2>1, <2>4, <2>5, <2>6
<1>8. CASE WorkspaceReadFails(k)
  <2>1. NodeOf(k) # n
    BY <1>8 DEF WorkspaceReadFails
  <2>2. /\ worker' = [worker EXCEPT ![k] = Answered(w, Nil, "wssources", "wsset")]
        /\ UNCHANGED <<db, deleted, admin, permCache, wsCache>>
    BY <1>8 DEF WorkspaceReadFails
  <2>3. QED
    BY <2>1, <2>2, WholeWalk
<1>9. CASE SetWorkspaceCache(k)
  BY <1>9, WholeSetWorkspaceCache
<1>10. CASE DenyByWorkspace(k)
  <2>1. Shaped(w) /\ w.pc = "wssources" /\ w.idx \in Nat /\ w.idx > Len(SourceOrder) /\ w.ctx \in Workspace
    BY <1>10, WalkingTyped DEF DenyByWorkspace, Shaped, WorkerShape
  <2>2. Sound(w) => [permission |-> "NO_PERMISSIONS", kind |-> "workspace-deny"] =
                      resolve_permission(db, w.user, w.res, w.ctx)
    <3>1. Sound(w) => Answering(db, w.user, w.res) = {} /\ Answering(db, w.user, w.ctx) = {}
      BY <2>1, WalkedPast DEF Sound
    <3>2. QED
      BY <2>1, <3>1, NothingInStore, NothingInWorkspace, NamesAssumption DEF WorkspaceResult
  <2>3. Sound(w) => Sound(Settled(w, "store", "NO_PERMISSIONS", "workspace-deny"))
    BY <2>1, <2>2, SettledSound
  <2>4. /\ worker' = [worker EXCEPT ![k] = Settled(w, "store", "NO_PERMISSIONS", "workspace-deny")]
        /\ UNCHANGED <<db, deleted, admin, permCache, wsCache>>
    BY <1>10 DEF DenyByWorkspace, history
  <2>5. Settled(w, "store", "NO_PERMISSIONS", "workspace-deny").user = w.user
    BY <2>1, UserKept
  <2>6. QED
    BY <1>a, <2>1, <2>3, <2>4, <2>5
<1>11. CASE SetPermissionCache(k)
  BY <1>11, WholeSetPermissionCache
<1>12. CASE ResolveFails(k)
  <2>1. worker' = [worker EXCEPT ![k] = Idle] /\ UNCHANGED <<db, deleted, admin, permCache, wsCache>>
    BY <1>12 DEF ResolveFails, history
  <2>2. QED
    BY <2>1, WholeWalk DEF Idle
<1>13. QED
  BY <1>1, <1>2, <1>3, <1>4, <1>5, <1>6, <1>7, <1>8, <1>9, <1>10, <1>11, <1>12 DEF Resolving

LEMMA InvalidatedIs ==
  ASSUME Typed, NEW s, NEW u \in User, NEW w \in Workspace
  PROVE  Cuts(s, db, u, w) => <<u, w>> \in Invalidated(s)
BY DEF Cuts, Invalidated, WsKey, get_groups_ids_for_user

(* No resolve moves and no entry changes except for being dropped. *)
LEMMA WholeDrop ==
  ASSUME NEW n, Whole(n), UNCHANGED <<db, deleted>>,
         \A k \in Worker : worker'[k] \in {worker[k], Idle},
         \A a \in Admin : admin'[a].pc # "idle" => Writing(a),
         \A k \in Key : permCache'[n][k] \in {permCache[n][k], Nil},
         \A k \in WsKey : wsCache'[n][k] \in {wsCache[n][k], Nil},
         \/ \A k \in Key : permCache'[n][k] = Nil
         \/ \A a \in Admin : NodeOf(a) = n /\ admin[a].pc \in {"wipe", "flush"} => admin'[a].pc \in {"wipe", "flush"},
         \A u \in User \ deleted, w \in Workspace :
           \/ wsCache'[n][<<u, w>>] = Nil
           \/ \A a \in Admin : NodeOf(a) = n /\ Writing(a) /\ Cuts(admin[a], db, u, w) =>
                admin'[a].pc # "idle" /\ Cuts(admin'[a], db, u, w)
  PROVE  Whole(n)'
<1>1. \A k \in Worker : NodeOf(k) = n /\ worker'[k].pc # "idle" =>
           /\ Busy(k) \/ \A a \in Admin : ~Writing(a)
           /\ worker'[k].user \notin deleted => Sound(worker'[k])
  BY DEF Whole, WalkSound, Busy, Idle
<1>2. \A u \in User \ deleted, r \in Sole, x \in Context :
         permCache'[n][make_cache_key(u, r, x)] \in {permCache[n][make_cache_key(u, r, x)], Nil}
  BY KeysInCache
<1>3. \/ \A u \in User \ deleted, r \in Sole, x \in Context : permCache'[n][make_cache_key(u, r, x)] = Nil
      \/ \A a \in Admin : NodeOf(a) = n /\ admin[a].pc \in {"wipe", "flush"} => admin'[a].pc \in {"wipe", "flush"}
  BY KeysInCache
<1>4. \A u \in User \ deleted, w \in Workspace : wsCache'[n][<<u, w>>] \in {wsCache[n][<<u, w>>], Nil}
  BY KeysInCache
<1>5. QED
  BY <1>1, <1>2, <1>3, <1>4, WholeStep

LEMMA WholeFlush ==
  ASSUME Typed, NEW n \in Server, Whole(n), NEW a \in Admin, Flush(a)
  PROVE  Whole(n)'
<1> DEFINE step == IF admin[a].scope = "none" THEN Quiet ELSE [admin[a] EXCEPT !.pc = "invalidate"]
<1>0. NodeOf(a) \in Server /\ admin[a] \in AdminState /\ Writing(a)
  BY NodeOfType DEF Typed, TypeOK, Flush, Writing
<1>1. \A b \in Admin : admin'[b] = IF b = a THEN step ELSE admin[b]
  BY DEF Flush, Typed, TypeOK
<1>2. UNCHANGED <<db, deleted, wsCache, worker>>
  BY DEF Flush, history
<1>3. \/ admin[a].scope = "none"
      \/ step.pc = "invalidate" /\ \A u, w : Cuts(admin[a], db, u, w) => Cuts(step, db, u, w)
  BY <1>0 DEF AdminState, Cuts
<1>4. \A u, w : ~Cuts(Quiet, db, u, w) /\ (admin[a].scope = "none" => ~Cuts(admin[a], db, u, w))
  BY DEF Cuts, Quiet
<1>5. IF NodeOf(a) = n THEN \A k \in Key : permCache'[n][k] = Nil ELSE permCache'[n] = permCache[n]
  BY <1>0 DEF Flush, flush_permission_cache, Typed, TypeOK
<1>6. \A b \in Admin : admin'[b].pc # "idle" => Writing(b)
  BY <1>0, <1>1 DEF Writing
<1> HIDE DEF step
<1>7. \A u, w : \A b \in Admin : Writing(b) /\ Cuts(admin[b], db, u, w) => admin'[b].pc # "idle" /\ Cuts(admin'[b], db, u, w)
  BY <1>1, <1>3, <1>4 DEF Writing
<1>8. \/ \A k \in Key : permCache'[n][k] = Nil
      \/ \A b \in Admin : NodeOf(b) = n /\ admin[b].pc \in {"wipe", "flush"} => admin'[b].pc \in {"wipe", "flush"}
  BY <1>1, <1>5
<1>9. QED
  BY <1>2, <1>5, <1>6, <1>7, <1>8, WholeDrop

LEMMA WholeInvalidate ==
  ASSUME Typed, NEW n \in Server, Whole(n), NEW a \in Admin, InvalidateWorkspaceCache(a)
  PROVE  Whole(n)'
<1>0. NodeOf(a) \in Server /\ admin[a].pc = "invalidate"
  BY NodeOfType DEF InvalidateWorkspaceCache
<1>1. \A b \in Admin : admin'[b] = IF b = a THEN Quiet ELSE admin[b]
  BY DEF InvalidateWorkspaceCache, Typed, TypeOK
<1>2. UNCHANGED <<db, deleted, permCache, worker>>
  BY DEF InvalidateWorkspaceCache, history
<1>3. PICK keys : /\ Invalidated(admin[a]) \subseteq keys
                  /\ wsCache' = [wsCache EXCEPT ![NodeOf(a)] = Drop(wsCache[NodeOf(a)], keys)]
  BY DEF InvalidateWorkspaceCache, Invalidated
<1>4. \A k \in WsKey : wsCache'[n][k] = IF NodeOf(a) = n /\ k \in keys THEN Nil ELSE wsCache[n][k]
  BY <1>0, <1>3 DEF Drop, Typed, TypeOK
<1>5. \A b \in Admin : /\ admin'[b].pc # "idle" => Writing(b)
                       /\ admin[b].pc \in {"wipe", "flush"} => admin'[b].pc \in {"wipe", "flush"}
  BY <1>0, <1>1 DEF Writing, Quiet
<1>6. ASSUME NEW u \in User \ deleted, NEW w \in Workspace
      PROVE  \/ wsCache'[n][<<u, w>>] = Nil
             \/ \A b \in Admin : NodeOf(b) = n /\ Writing(b) /\ Cuts(admin[b], db, u, w) =>
                  admin'[b].pc # "idle" /\ Cuts(admin'[b], db, u, w)
  <2>1. CASE NodeOf(a) = n /\ Cuts(admin[a], db, u, w)
    <3>1. <<u, w>> \in keys
      BY <1>3, <2>1, InvalidatedIs
    <3>2. QED
      BY <1>4, <2>1, <3>1, KeysInCache
  <2>2. CASE ~(NodeOf(a) = n /\ Cuts(admin[a], db, u, w))
    BY <1>1, <2>2 DEF Writing
  <2>3. QED
    BY <2>1, <2>2
<1>7. QED
  BY <1>2, <1>4, <1>5, <1>6, WholeDrop

(* An admin request elsewhere gives up. *)
LEMMA WholeAbort ==
  ASSUME Typed, NEW n \in Server, n \notin missed', Whole(n), NEW a \in Admin, WriteAborts(a)
  PROVE  Whole(n)'
<1>1. NodeOf(a) # n /\ UNCHANGED <<db, deleted, permCache, wsCache, worker>>
  BY DEF WriteAborts
<1>2. \A b \in Admin : admin'[b] = IF b = a THEN Quiet ELSE admin[b]
  BY DEF WriteAborts, Typed, TypeOK
<1>3. \A b \in Admin : /\ admin'[b].pc # "idle" => Writing(b)
                       /\ NodeOf(b) = n => admin'[b] = admin[b]
  BY <1>1, <1>2 DEF Writing, Quiet
<1>4. QED
  BY <1>1, <1>3, WholeDrop DEF Writing

LEMMA WholeRestart ==
  ASSUME Typed, NEW n \in Server, n \notin missed', Whole(n), NEW s \in Server, Restart(s)
  PROVE  Whole(n)'
<1>1. UNCHANGED <<db, deleted>> /\ \A k \in Worker : worker'[k] \in {worker[k], Idle}
  BY DEF Restart
<1>2. \A a \in Admin : admin'[a] = IF home[a] = s THEN Quiet ELSE admin[a]
  BY DEF Restart
<1>3. \A a \in Admin : admin'[a].pc # "idle" => Writing(a)
  BY <1>2 DEF Quiet, Writing
<1>4. CASE SharedCache
  <2>1. UNCHANGED <<permCache, wsCache>>
    BY <1>4 DEF Restart
  <2>2. \A a \in Admin : NodeOf(a) = n /\ Writing(a) => admin'[a] = admin[a]
    BY <1>2, <1>4 DEF Restart, NodeOf, Node
  <2>3. \A a \in Admin : NodeOf(a) = n /\ admin[a].pc \in {"wipe", "flush"} => admin'[a] = admin[a]
    BY <2>2 DEF Writing
  <2>4. QED
    BY <1>1, <1>3, <2>1, <2>2, <2>3, WholeDrop DEF Writing
<1>5. CASE ~SharedCache
  <2>1. /\ permCache' = [permCache EXCEPT ![s] = Drop(permCache[s], Key)]
        /\ wsCache' = [wsCache EXCEPT ![s] = Drop(wsCache[s], WsKey)]
    BY <1>5 DEF Restart
  <2>2. CASE n = s
    <3>1. (\A k \in Key : permCache'[n][k] = Nil) /\ (\A k \in WsKey : wsCache'[n][k] = Nil)
      BY <2>1, <2>2 DEF Drop, Typed, TypeOK
    <3>2. QED
      BY <1>1, <1>3, <3>1, KeysInCache, WholeDrop
  <2>3. CASE n # s
    <3>1. permCache'[n] = permCache[n] /\ wsCache'[n] = wsCache[n]
      BY <2>1, <2>3 DEF Typed, TypeOK
    <3>2. \A a \in Admin : NodeOf(a) = n => admin'[a] = admin[a]
      BY <1>2, <1>5, <2>3 DEF NodeOf, Node
    <3>3. QED
      BY <1>1, <1>3, <3>1, <3>2, WholeDrop DEF Writing
  <2>4. QED
    BY <2>2, <2>3
<1>6. QED
  BY <1>4, <1>5

LEMMA WholeTick ==
  ASSUME Typed, NEW n \in Server, Whole(n), Tick
  PROVE  Whole(n)'
<1>1. UNCHANGED <<db, deleted, worker, admin>>
  BY DEF Tick, history
<1>2. /\ \A k \in Key : permCache'[n][k] \in {permCache[n][k], Nil}
      /\ \A k \in WsKey : wsCache'[n][k] \in {wsCache[n][k], Nil}
  BY DEF Tick, Unexpired, Typed, TypeOK
<1>3. QED
  BY <1>1, <1>2, WholeDrop DEF Writing

(* A commit.  A node that it leaves out of missed is the writer's own and  *)
(* has no resolve in flight; what the new rows may change there is what    *)
(* the writer has still to flush and to invalidate.                        *)
LEMMA WholeCommit ==
  ASSUME Typed, NEW n \in Server, n \notin missed', Whole(n), NEW a \in Admin, NEW d, NEW step,
         Commit(a, d, step), deleted \subseteq deleted',
         ~Writing(a) \/ (step.pc \in {"wipe", "flush"} /\ step.scope = "all"),
         \/ step.pc \in {"wipe", "flush"}
         \/ \A u \in User \ deleted', r \in Sole, x \in Context :
              resolve_permission(d, u, r, x) = resolve_permission(db, u, r, x),
         \A u \in User \ deleted', w \in Workspace :
           \/ step.pc # "idle" /\ Cuts(step, d, u, w)
           \/ SameRows(db, d, u, w)
  PROVE  Whole(n)'
<1>1. NodeOf(a) = n /\ \A k \in Worker : NodeOf(k) = n => ~Busy(k)
  BY DEF Commit
<1>2. /\ db' = d /\ UNCHANGED <<permCache, wsCache, worker>>
      /\ \A b \in Admin : admin'[b] = IF b = a THEN step ELSE admin[b]
  BY DEF Commit, Typed, TypeOK
<1>3. Clear(n)' /\ WalkSound(n)'
  BY <1>1, <1>2 DEF Clear, WalkSound, Busy, Sound
<1>4. PermSound(n)'
  <2>1. CASE step.pc \in {"wipe", "flush"}
    BY <1>1, <1>2, <2>1 DEF PermSound, Flushing
  <2>2. CASE step.pc \notin {"wipe", "flush"}
    <3>1. ~Writing(a) /\ \A u \in User \ deleted', r \in Sole, x \in Context :
                           resolve_permission(d, u, r, x) = resolve_permission(db, u, r, x)
      BY <2>2
    <3>2. CASE Flushing(n)
      <4>1. \E b \in Admin : NodeOf(b) = n /\ admin'[b].pc \in {"wipe", "flush"}
        BY <1>2, <3>1, <3>2 DEF Flushing, Writing
      <4>2. QED
        BY <4>1 DEF PermSound, Flushing
    <3>3. CASE ~Flushing(n)
      <4>1. ASSUME NEW u \in User \ deleted', NEW r \in Sole, NEW x \in Context
            PROVE  Agrees(n, u, r, x)'
        <5>1. Agrees(n, u, r, x) /\ resolve_permission(d, u, r, x) = resolve_permission(db, u, r, x)
          BY <3>1, <3>3, <4>1 DEF Whole, PermSound
        <5>2. QED
          BY <1>2, <5>1 DEF Agrees, Decided
      <4>2. QED
        BY <4>1 DEF PermSound
    <3>4. QED
      BY <3>2, <3>3
  <2>3. QED
    BY <2>1, <2>2
<1>5. ASSUME NEW u \in User \ deleted', NEW w \in Workspace
      PROVE  WsAgrees(n, u, w)' \/ Covered(n, u, w)'
  <2>1. CASE step.pc # "idle" /\ Cuts(step, d, u, w)
    <3>1. \E b \in Admin : NodeOf(b) = n /\ admin'[b].pc # "idle" /\ Cuts(admin'[b], d, u, w)
      BY <1>1, <1>2, <2>1
    <3>2. QED
      BY <1>2, <3>1 DEF Covered, Writing, Cuts
  <2>2. CASE ~(step.pc # "idle" /\ Cuts(step, d, u, w)) /\ SameRows(db, d, u, w)
    <3>1. lookup_workspace_permission(db, u, w) = lookup_workspace_permission(d, u, w)
      BY <2>2, SameWalk
    <3>2. ~Writing(a)
      BY <2>2 DEF Cuts
    <3>3. \A z : Cuts(z, db, u, w) => Cuts(z, d, u, w)
      BY <2>2 DEF SameRows, Cuts
    <3>4. WsAgrees(n, u, w) \/ Covered(n, u, w)
      BY DEF Whole, WsSound
    <3>5. CASE WsAgrees(n, u, w)
      BY <1>2, <3>1, <3>5 DEF WsAgrees
    <3>6. CASE Covered(n, u, w)
      <4>1. \E b \in Admin : NodeOf(b) = n /\ admin'[b].pc # "idle" /\ Cuts(admin'[b], d, u, w)
        BY <1>2, <3>2, <3>3, <3>6 DEF Covered, Writing
      <4>2. QED
        BY <1>2, <4>1 DEF Covered, Writing, Cuts
    <3>7. QED
      BY <3>4, <3>5, <3>6
  <2>3. QED
    BY <2>1, <2>2
<1>6. WsSound(n)'
  BY <1>5 DEF WsSound
<1>7. QED
  BY <1>3, <1>4, <1>6 DEF Whole

(* What each write leaves alone. *)
LEMMA ServesHolder ==
  ASSUME NEW d, NEW u \in User, NEW h \in Serves(d, u)
  PROVE  h \in Holder /\ (h \in User => h = u) /\ (h \in Group => h \in get_groups_ids_for_user(d, u))
BY NamesAssumption DEF Serves, get_groups_ids_for_user, Holder

LEMMA SetPermissionKeeps ==
  ASSUME Typed, NEW h \in Holder, NEW t \in Target, NEW p, NEW u \in User, NEW w \in Target,
         ~(w = t /\ h \in Serves(db, u))
  PROVE  SameRows(db, [db EXCEPT !.direct = [db.direct EXCEPT ![<<h, t>>] = p]], u, w)
<1> DEFINE rows == [db.direct EXCEPT ![<<h, t>>] = p]
           d == [db EXCEPT !.direct = rows]
<1>1. /\ DOMAIN db.direct = Holder \X Target
      /\ \A k \in Holder \X Target : rows[k] = IF k = <<h, t>> THEN p ELSE db.direct[k]
  BY DEF Typed, TypeOK, Database
<1> HIDE DEF rows
<1>2. d.direct = rows /\ d.regex = db.regex /\ d.member = db.member
  BY DEF Typed, TypeOK, Database
<1> HIDE DEF d
<1>3. ASSUME NEW g \in Serves(db, u) PROVE d.direct[<<g, w>>] = db.direct[<<g, w>>]
  <2>1. <<g, w>> \in Holder \X Target /\ <<g, w>> # <<h, t>>
    BY ServesHolder
  <2>2. QED
    BY <1>1, <1>2, <2>1
<1>4. SameRows(db, d, u, w)
  BY <1>2, <1>3 DEF SameRows, Matching, get_groups_ids_for_user
<1>5. QED
  BY <1>4 DEF d, rows

LEMMA SetRegexKeeps ==
  ASSUME Typed, NEW gone, NEW added, NEW u, NEW w, \A r \in gone \cup added : w \notin r.matches
  PROVE  SameRows(db, [db EXCEPT !.regex = (db.regex \ gone) \cup added], u, w)
<1> DEFINE rows == (db.regex \ gone) \cup added
           d == [db EXCEPT !.regex = rows]
<1>1. {r \in rows : w \in r.matches} = {r \in db.regex : w \in r.matches}
  OBVIOUS
<1> HIDE DEF rows
<1>2. d.direct = db.direct /\ d.regex = rows /\ d.member = db.member
  BY DEF Typed, TypeOK, Database
<1> HIDE DEF d
<1>3. \A h : Matching(db, h, w) = Matching(d, h, w)
  BY <1>1, <1>2 DEF Matching
<1>4. SameRows(db, d, u, w)
  BY <1>2, <1>3 DEF SameRows, get_groups_ids_for_user
<1>5. QED
  BY <1>4 DEF d, rows

LEMMA SetGroupsKeeps ==
  ASSUME Typed, NEW v, NEW groups, NEW u, u # v, NEW w
  PROVE  SameRows(db, [db EXCEPT !.member = {m \in db.member : m[1] # v} \cup ({v} \X groups)], u, w)
<1> DEFINE ms == {m \in db.member : m[1] # v} \cup ({v} \X groups)
           d == [db EXCEPT !.member = ms]
<1>1. \A g : <<u, g>> \in ms <=> <<u, g>> \in db.member
  OBVIOUS
<1> HIDE DEF ms
<1>2. d.direct = db.direct /\ d.regex = db.regex /\ d.member = ms
  BY DEF Typed, TypeOK, Database
<1> HIDE DEF d
<1>3. SameRows(db, d, u, w)
  BY <1>1, <1>2 DEF SameRows, Matching, get_groups_ids_for_user
<1>4. QED
  BY <1>3 DEF d, ms

LEMMA DeleteUserKeeps ==
  ASSUME Typed, NEW v \in User, NEW u \in User, u # v, NEW w \in Target
  PROVE  SameRows(db, [direct |-> [c \in DOMAIN db.direct |-> IF c[1] = v THEN Nil ELSE db.direct[c]],
                       regex |-> {r \in db.regex : r.holder # v},
                       member |-> {m \in db.member : m[1] # v}], u, w)
<1> DEFINE rows == [c \in DOMAIN db.direct |-> IF c[1] = v THEN Nil ELSE db.direct[c]]
           rs == {r \in db.regex : r.holder # v}
           ms == {m \in db.member : m[1] # v}
           d == [direct |-> rows, regex |-> rs, member |-> ms]
<1>1. \A h \in Holder \ {v} : rows[<<h, w>>] = db.direct[<<h, w>>]
  BY DEF Typed, TypeOK, Database
<1>2. (\A g : <<u, g>> \in ms <=> <<u, g>> \in db.member) /\ \A r : r.holder # v => (r \in rs <=> r \in db.regex)
  OBVIOUS
<1> HIDE DEF rows, rs, ms
<1>3. d.direct = rows /\ d.regex = rs /\ d.member = ms
  OBVIOUS
<1> HIDE DEF d
<1>4. \A h \in Serves(db, u) : h \in Holder \ {v}
  BY ServesHolder
<1>5. \A h \in Serves(db, u) : db.direct[<<h, w>>] = d.direct[<<h, w>>] /\ Matching(db, h, w) = Matching(d, h, w)
  BY <1>1, <1>2, <1>3, <1>4 DEF Matching
<1>6. SameRows(db, d, u, w)
  BY <1>2, <1>3, <1>5 DEF SameRows, get_groups_ids_for_user
<1>7. QED
  BY <1>6 DEF d, rows, rs, ms

LEMMA WholeChanging ==
  ASSUME Typed, WipeShape, NEW n \in Server, n \notin missed', Whole(n), NEW a \in Admin, Changing(a)
  PROVE  Whole(n)'
<1>1. ASSUME NEW h \in Holder, NEW t \in Target, NEW p \in Grantable \cup {Nil},
             SetPermission(a, h, t, p)
      PROVE  Whole(n)'
  <2> DEFINE d == [db EXCEPT !.direct = [db.direct EXCEPT ![<<h, t>>] = p]]
             step == IF t \in Resource THEN ToDo("flush", "none", Nil, Nil, Nil)
                     ELSE IF h \in User THEN ToDo("flush", "entry", h, Nil, t)
                     ELSE ToDo("flush", "group", Nil, h, t)
  <2>1. ~Writing(a) /\ Commit(a, d, step) /\ deleted' = deleted
    BY <1>1 DEF SetPermission, Begin
  <2>2. step.pc = "flush"
    BY DEF ToDo
  <2>3. ASSUME NEW u \in User \ deleted', NEW w \in Workspace
        PROVE  Cuts(step, d, u, w) \/ SameRows(db, d, u, w)
    <3>1. CASE w = t /\ h \in Serves(db, u)
      <4>1. t \notin Resource
        BY <3>1, NamesAssumption
      <4>2. get_groups_ids_for_user(d, u) = get_groups_ids_for_user(db, u)
        BY DEF Typed, TypeOK, Database, get_groups_ids_for_user
      <4>3. IF h \in User THEN h = u ELSE h \in get_groups_ids_for_user(db, u)
        BY <3>1, ServesHolder DEF Holder
      <4>4. CASE h \in User
        <5>1. step.scope = "entry" /\ step.user = h /\ step.ws = t
          BY <4>1, <4>4 DEF ToDo
        <5>2. QED
          BY <3>1, <4>3, <4>4, <5>1 DEF Cuts
      <4>5. CASE h \notin User
        <5>1. step.scope = "group" /\ step.group = h /\ step.ws = t
          BY <4>1, <4>5 DEF ToDo
        <5> HIDE DEF step, d
        <5>2. QED
          BY <3>1, <4>2, <4>3, <4>5, <5>1 DEF Cuts
      <4>6. QED
        BY <4>4, <4>5
    <3>2. CASE ~(w = t /\ h \in Serves(db, u))
      BY <3>2, SetPermissionKeeps, ContextType
    <3>3. QED
      BY <3>1, <3>2
  <2> HIDE DEF d, step
  <2>4. QED
    BY <2>1, <2>2, <2>3, WholeCommit
<1>2. ASSUME NEW gone, NEW added, SetRegexPermission(a, gone, added)
      PROVE  Whole(n)'
  <2> DEFINE d == [db EXCEPT !.regex = (db.regex \ gone) \cup added]
             touched == \E r \in gone \cup added : r.matches \cap Workspace # {}
             step == ToDo("flush", IF touched THEN "all" ELSE "none", Nil, Nil, Nil)
  <2>1. ~Writing(a) /\ Commit(a, d, step) /\ deleted' = deleted
    BY <1>2 DEF SetRegexPermission, Begin
  <2>2. step.pc = "flush" /\ (touched => step.scope = "all")
    BY DEF ToDo
  <2>3. ASSUME NEW u \in User \ deleted', NEW w \in Workspace
        PROVE  Cuts(step, d, u, w) \/ SameRows(db, d, u, w)
    <3>1. CASE touched
      BY <2>2, <3>1 DEF Cuts
    <3>2. CASE ~touched
      <4>1. \A r \in gone \cup added : w \notin r.matches
        BY <3>2
      <4>2. QED
        BY <4>1, SetRegexKeeps
    <3>3. QED
      BY <3>1, <3>2
  <2> HIDE DEF d, step, touched
  <2>4. QED
    BY <2>1, <2>2, <2>3, WholeCommit
<1>3. ASSUME NEW v \in User, NEW groups, set_user_groups(a, v, groups)
      PROVE  Whole(n)'
  <2> DEFINE d == [db EXCEPT !.member = {m \in db.member : m[1] # v} \cup ({v} \X groups)]
             step == ToDo("flush", "user", v, Nil, Nil)
  <2>1. ~Writing(a) /\ Commit(a, d, step) /\ deleted' = deleted
    BY <1>3 DEF set_user_groups, Begin
  <2>2. step.pc = "flush" /\ step.scope = "user" /\ step.user = v
    BY DEF ToDo
  <2>3. ASSUME NEW u \in User \ deleted', NEW w \in Workspace
        PROVE  Cuts(step, d, u, w) \/ SameRows(db, d, u, w)
    BY <2>2, SetGroupsKeeps DEF Cuts
  <2> HIDE DEF d, step
  <2>4. QED
    BY <2>1, <2>2, <2>3, WholeCommit
<1>4. ASSUME NEW x \in Workspace, wipe_workspace_permissions(a, x)
      PROVE  Whole(n)'
  <2> DEFINE step == ToDo("wipe", "all", Nil, Nil, x)
  <2>1. ~Writing(a) /\ Commit(a, WipeRows(User, x), step) /\ deleted' = deleted
    BY <1>4 DEF wipe_workspace_permissions, Begin
  <2>2. step.pc = "wipe" /\ step.scope = "all"
    BY DEF ToDo
  <2> HIDE DEF step
  <2>3. QED
    BY <2>1, <2>2, WholeCommit DEF Cuts
<1>5. CASE WipeGroupRows(a)
  <2> DEFINE step == [admin[a] EXCEPT !.pc = "flush"]
  <2>1. Commit(a, WipeRows(Group, admin[a].ws), step) /\ deleted' = deleted
    BY <1>5 DEF WipeGroupRows
  <2>2. step.pc = "flush" /\ step.scope = "all"
    <3>1. admin[a] \in AdminState /\ admin[a].scope = "all"
      BY <1>5 DEF Typed, TypeOK, WipeShape, WipeGroupRows
    <3>2. QED
      BY <3>1 DEF AdminState
  <2> HIDE DEF step
  <2>3. QED
    BY <2>1, <2>2, WholeCommit DEF Cuts
<1>6. ASSUME NEW v \in User, delete_user(a, v)
      PROVE  Whole(n)'
  <2> DEFINE d == [direct |-> [c \in DOMAIN db.direct |-> IF c[1] = v THEN Nil ELSE db.direct[c]],
                   regex |-> {r \in db.regex : r.holder # v},
                   member |-> {m \in db.member : m[1] # v}]
  <2>1. ~Writing(a) /\ Commit(a, d, Quiet) /\ deleted' = deleted \cup {v}
    BY <1>6 DEF delete_user
  <2>2. \A u \in User \ deleted', w \in Target : SameRows(db, d, u, w)
    BY <2>1, DeleteUserKeeps
  <2> HIDE DEF d
  <2>3. ASSUME NEW u \in User \ deleted', NEW r \in Sole, NEW x \in Context
        PROVE  resolve_permission(d, u, r, x) = resolve_permission(db, u, r, x)
    <3>1. SameRows(db, d, u, r) /\ (x = NoWorkspace \/ SameRows(db, d, u, x))
      BY <2>2, ContextType DEF Sole
    <3>2. QED
      BY <3>1, SameDecision
  <2>4. QED
    BY <2>1, <2>2, <2>3, ContextType, WholeCommit
<1>7. QED
  BY <1>1, <1>2, <1>3, <1>4, <1>5, <1>6, WholeFlush, WholeInvalidate, WholeAbort DEF Changing

LEMMA KeptInit == Init => Kept
<1> SUFFICES ASSUME Init PROVE Kept
  OBVIOUS
<1>1. Typed
  BY TypedInit
<1>2. WipeShape
  BY DEF Init, WipeShape, Quiet
<1>3. ASSUME NEW n \in Server PROVE Whole(n)
  <2>1. Clear(n) /\ WalkSound(n)
    BY IdleSound DEF Init, Clear, WalkSound, Busy, Idle
  <2>2. PermSound(n) /\ WsSound(n)
    BY KeysInCache DEF Init, PermSound, WsSound, Agrees, WsAgrees
  <2>3. QED
    BY <2>1, <2>2 DEF Whole
<1>4. QED
  BY <1>1, <1>2, <1>3 DEF Kept

LEMMA WipeShapeStep ==
  ASSUME Typed, WipeShape, NEW a \in Admin, NEW step, admin' = [admin EXCEPT ![a] = step],
         step.pc = "wipe" => step.scope = "all"
  PROVE  WipeShape'
BY DEF WipeShape, Typed, TypeOK

LEMMA WipeShapeChanging ==
  ASSUME Typed, WipeShape, NEW a \in Admin, Changing(a)
  PROVE  WipeShape'
<1>1. \A scope, u, g, w : /\ ToDo("flush", scope, u, g, w).pc = "flush"
                          /\ ToDo("wipe", "all", u, g, w).scope = "all"
  BY DEF ToDo
<1>2. admin[a] \in AdminState /\ Quiet.pc = "idle"
  BY DEF Typed, TypeOK, Quiet
<1>3. \A pc \in {"flush", "invalidate"} : [admin[a] EXCEPT !.pc = pc].pc # "wipe"
  BY <1>2 DEF AdminState
<1>4. PICK step : admin' = [admin EXCEPT ![a] = step] /\ (step.pc = "wipe" => step.scope = "all")
  <2>1. ASSUME NEW h, NEW t, NEW p, SetPermission(a, h, t, p)
        PROVE  \E step : admin' = [admin EXCEPT ![a] = step] /\ (step.pc = "wipe" => step.scope = "all")
    BY <1>1, <2>1 DEF SetPermission, Begin, Commit
  <2>2. ASSUME NEW gone, NEW added, SetRegexPermission(a, gone, added)
        PROVE  \E step : admin' = [admin EXCEPT ![a] = step] /\ (step.pc = "wipe" => step.scope = "all")
    BY <1>1, <2>2 DEF SetRegexPermission, Begin, Commit
  <2>3. ASSUME NEW u, NEW groups, set_user_groups(a, u, groups)
        PROVE  \E step : admin' = [admin EXCEPT ![a] = step] /\ (step.pc = "wipe" => step.scope = "all")
    BY <1>1, <2>3 DEF set_user_groups, Begin, Commit
  <2>4. ASSUME NEW w, wipe_workspace_permissions(a, w)
        PROVE  \E step : admin' = [admin EXCEPT ![a] = step] /\ (step.pc = "wipe" => step.scope = "all")
    BY <1>1, <2>4 DEF wipe_workspace_permissions, Begin, Commit
  <2>5. CASE WipeGroupRows(a)
    BY <1>3, <2>5 DEF WipeGroupRows, Commit
  <2>6. ASSUME NEW u, delete_user(a, u)
        PROVE  \E step : admin' = [admin EXCEPT ![a] = step] /\ (step.pc = "wipe" => step.scope = "all")
    BY <1>2, <2>6 DEF delete_user, Commit
  <2>7. CASE Flush(a)
    BY <1>2, <1>3, <2>7 DEF Flush
  <2>8. CASE InvalidateWorkspaceCache(a) \/ WriteAborts(a)
    BY <1>2, <2>8 DEF InvalidateWorkspaceCache, WriteAborts
  <2>9. QED
    BY <2>1, <2>2, <2>3, <2>4, <2>5, <2>6, <2>7, <2>8 DEF Changing
<1>5. QED
  BY <1>4, WipeShapeStep

LEMMA KeptNext == Kept /\ [Next]_vars => Kept'
<1> SUFFICES ASSUME Kept, [Next]_vars PROVE Kept'
  OBVIOUS
<1>1. Typed /\ Typed' /\ WipeShape
  BY TypedNext DEF Kept
<1>2. WipeShape'
  <2>1. ASSUME NEW k \in Worker, Resolving(k) PROVE admin' = admin
    BY <2>1 DEF Resolving, StartResolve, ReadSource, ReadGroupRegex, FallBack, get_workspace_permission_cached,
                ReadWorkspaceSource, ReadWorkspaceGroupRegex, WorkspaceReadFails, SetWorkspaceCache,
                DenyByWorkspace, SetPermissionCache, ResolveFails
  <2>2. ASSUME NEW s \in Server, Restart(s) PROVE WipeShape'
    BY <1>1, <2>2 DEF Restart, WipeShape, Quiet
  <2>3. CASE admin' = admin
    BY <1>1, <2>3 DEF WipeShape
  <2>4. QED
    BY <1>1, <2>1, <2>2, <2>3, WipeShapeChanging DEF Next, Tick, vars
<1>3. ASSUME NEW n \in Server \ missed' PROVE Whole(n)'
  <2>1. n \in Server /\ n \notin missed'
    OBVIOUS
  <2>2. missed \subseteq missed'
    <3>1. ASSUME NEW k \in Worker, Resolving(k) PROVE missed \subseteq missed'
      BY <3>1 DEF Resolving, StartResolve, ReadSource, ReadGroupRegex, FallBack, get_workspace_permission_cached,
                  ReadWorkspaceSource, ReadWorkspaceGroupRegex, WorkspaceReadFails, SetWorkspaceCache,
                  DenyByWorkspace, SetPermissionCache, ResolveFails, history
    <3>2. ASSUME NEW a \in Admin, Changing(a) PROVE missed \subseteq missed'
      BY <3>2 DEF Changing, SetPermission, SetRegexPermission, set_user_groups, wipe_workspace_permissions,
                  WipeGroupRows, delete_user, Begin, Commit, Flush, InvalidateWorkspaceCache, WriteAborts, history
    <3>3. ASSUME NEW s \in Server, Restart(s) PROVE missed \subseteq missed'
      BY <3>3 DEF Restart
    <3>4. QED
      BY <3>1, <3>2, <3>3 DEF Next, Tick, history, vars
  <2>3. Whole(n)
    BY <2>1, <2>2 DEF Kept
  <2>4. CASE UNCHANGED vars
    <3>1. UNCHANGED <<db, deleted, worker, admin, permCache, wsCache>>
      BY <2>4 DEF vars, history
    <3>2. QED
      BY <2>3, <3>1, WholeDrop DEF Writing
  <2>5. CASE Next
    BY <1>1, <2>1, <2>3, <2>5, WholeResolving, WholeChanging, WholeRestart, WholeTick DEF Next
  <2>6. QED
    BY <2>4, <2>5
<1>4. QED
  BY <1>1, <1>2, <1>3 DEF Kept

(* At a node through which every write went and at which none overlapped a *)
(* resolve, both caches agree with the database whenever no write is in    *)
(* progress there, for every user that still exists: what flush and        *)
(* invalidation drop after each write covers what the write can change.    *)
THEOREM CoherentAfterWrites == Spec => []CoherentUnlessMissed
<1>1. Kept => CoherentUnlessMissed
  <2> SUFFICES ASSUME Kept, NEW n \in Server \ missed, \A a \in Admin : NodeOf(a) = n => ~Writing(a),
                      NEW u \in User \ deleted
               PROVE  /\ \A r \in Sole, x \in Context : Agrees(n, u, r, x)
                      /\ \A w \in Workspace : WsAgrees(n, u, w)
    BY DEF CoherentUnlessMissed, Coherent
  <2>1. PermSound(n) /\ WsSound(n)
    BY DEF Kept, Whole
  <2>2. ~Flushing(n) /\ \A w \in Workspace : ~Covered(n, u, w)
    BY DEF Flushing, Covered, Writing
  <2>3. QED
    BY <2>1, <2>2 DEF PermSound, WsSound
<1>2. Spec => []Kept
  BY KeptInit, KeptNext, PTL DEF Spec
<1>3. QED
  BY <1>1, <1>2, PTL

=============================================================================
