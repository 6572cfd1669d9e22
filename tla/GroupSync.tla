------------------------------ MODULE GroupSync ------------------------------
(***************************************************************************)
(* How group membership follows tokens: the group part of a browser login  *)
(* (the end of LoginFlow's callback: routers/auth.py and                   *)
(* provisioning_policy.py) and the two provisioning paths of               *)
(* middleware/auth_middleware.py, for bearer tokens and for Kubernetes     *)
(* service accounts.  All three end in populate_groups and set_user_groups *)
(* (repository/group.py).                                                  *)
(*                                                                         *)
(* Each store call is a transaction that reads and then writes, and under  *)
(* READ COMMITTED others may commit in between: two steps.  A membership   *)
(* row has an id: a transaction deletes the rows it read, not the rows     *)
(* another one has put in their place.                                     *)
(*                                                                         *)
(* written, overlapped and contended are history.                          *)
(***************************************************************************)
EXTENDS Integers, FiniteSets

CONSTANTS User, Request, Nil,
          Provider, DEFAULT_PROVIDER_ID,
          Claimable,       \* the group names a token may carry
          OIDC_GROUP_NAME, \* the names that allow a login, the admin groups included
          path,            \* how each user authenticates: "login", "bearer" or "k8s"
          idp,             \* the provider of each user
          namespace,       \* the namespace of each service account
          namespace_allowlist,
          group_sync,      \* per provider: "none", "first_login" or another strategy
          group_sync_mode, \* per provider: "additive" or "authoritative"
          MaxOps, MaxFailures

ASSUME SyncAssumption ==
  /\ DEFAULT_PROVIDER_ID \in Provider /\ OIDC_GROUP_NAME \subseteq Claimable
  /\ path \in [User -> {"login", "bearer", "k8s"}] /\ idp \in [User -> Provider]
  /\ DOMAIN namespace = User /\ DOMAIN group_sync = Provider
  /\ group_sync_mode \in [Provider -> {"additive", "authoritative"}]
  /\ MaxOps \in Nat /\ MaxFailures \in Nat
  /\ Nil \notin Provider /\ IsFiniteSet(Claimable)

VARIABLES users,    \* the user rows
          groups,   \* the group rows, by name
          member,   \* the user_groups rows of each user
          request,  \* the login or provisioning each request is in
          ops, failures,
          written,  \* the memberships that were written for each user
          overlapped,\* users for whom two requests were in flight at once
          contended \* some write began between another transaction's reads and its writes

vars == <<users, groups, member, request, ops, failures, written, overlapped, contended>>

Resting == [pc |-> "idle", user |-> Nil, claims |-> {}, new |-> FALSE, names |-> {}, read |-> {}]

Init ==
  /\ users = {u \in User : path[u] = "login"}   \* created by LoginFlow
  /\ groups = {} /\ member = [u \in User |-> {}]
  /\ request = [q \in Request |-> Resting]
  /\ ops = 0 /\ failures = 0
  /\ written = [u \in User |-> {}] /\ overlapped = {} /\ contended = FALSE

InFlight(u) == {q \in Request : request[q].pc # "idle" /\ request[q].user = u}
Membership(u) == {row.group : row \in member[u]}

(* A database that runs one writing transaction at a time (SQLite,         *)
(* SERIALIZABLE) shows the behaviours in which contended stays FALSE.      *)
Contended(pc) == /\ pc \in {"insert", "populate", "set"}
                 /\ \E q \in Request : request[q].pc \in {"creating", "setting"}

-----------------------------------------------------------------------------
(* provisioning_policy.py *)

(* A local name is the claimed one, or has the provider in front of it. *)
local_group_name(p, g) == IF p = DEFAULT_PROVIDER_ID THEN <<Nil, g>> ELSE <<p, g>>

(* The membership to write, or Nil to leave it alone; current is Nil when  *)
(* it could not be read.                                                   *)
UnknownIsEmpty(p, claims, current, new) ==
  LET claimed == {local_group_name(p, g) : g \in claims}
  IN  IF group_sync[p] = "none" \/ (group_sync[p] = "first_login" /\ ~new) THEN Nil
      ELSE IF group_sync_mode[p] = "authoritative" \/ current = Nil THEN claimed
      ELSE current \cup claimed
groups_to_apply(p, claims, current, new) ==
  LET claimed == {local_group_name(p, g) : g \in claims}
  IN  IF group_sync[p] = "none" \/ (group_sync[p] = "first_login" /\ ~new) THEN Nil
      ELSE IF group_sync_mode[p] = "authoritative" THEN claimed
      ELSE IF current = Nil THEN Nil
      ELSE current \cup claimed

Authorised(claims) == claims \cap OIDC_GROUP_NAME # {}

-----------------------------------------------------------------------------
Start(q, u, w) ==
  /\ request[q].pc = "idle" /\ ops < MaxOps
  /\ request' = [request EXCEPT ![q] = w]
  /\ ops' = ops + 1
  /\ overlapped' = IF InFlight(u) # {} THEN overlapped \cup {u} ELSE overlapped
  /\ UNCHANGED <<users, groups, member, failures, written, contended>>

(* A login whose identity is resolved and bound; only an account that was  *)
(* never synchronised can be new.                                          *)
Login(q, u, claims, new) ==
  /\ path[u] = "login" /\ Authorised(claims) /\ (new => written[u] = {})
  /\ Start(q, u, [Resting EXCEPT !.pc = "current", !.user = u, !.claims = claims, !.new = new])

(* _maybe_provision_bearer_user, for a user has_user does not know; the    *)
(* claimed names are used as they are.                                     *)
Bearer(q, u, claims) ==
  /\ path[u] = "bearer" /\ u \notin users /\ Authorised(claims)
  /\ Start(q, u, [Resting EXCEPT !.pc = "lookup", !.user = u, !.names = {<<Nil, g>> : g \in claims}])

(* _authenticate_service_account and _provision_service_account. *)
ServiceAccount(q, u) ==
  /\ path[u] = "k8s" /\ u \notin users /\ namespace[u] \in namespace_allowlist
  /\ Start(q, u, [Resting EXCEPT !.pc = "lookup", !.user = u, !.names = {<<"k8s", namespace[u]>>}])

Proceed(q, w) ==
  /\ request' = [request EXCEPT ![q] = w]
  /\ contended' = (contended \/ Contended(request[q].pc))
  /\ UNCHANGED <<ops, failures, overlapped>>

(* _current_groups, whose read may fail, and groups_to_apply. *)
ReadCurrent(q) ==
  LET w == request[q] IN
  /\ w.pc = "current"
  /\ \E current \in {Membership(w.user)} \cup (IF MaxFailures > 0 THEN {Nil} ELSE {}) :
       LET names == groups_to_apply(idp[w.user], w.claims, current, w.new) IN
       Proceed(q, IF names = Nil THEN Resting ELSE [w EXCEPT !.pc = "populate", !.names = names])
  /\ UNCHANGED <<users, groups, member, written>>

(* create_user: the lookup, and the insert, which the unique username may  *)
(* refuse.                                                                 *)
LookUpUser(q) ==
  /\ request[q].pc = "lookup"
  /\ Proceed(q, [request[q] EXCEPT !.pc = IF request[q].user \in users THEN "populate" ELSE "insert"])
  /\ UNCHANGED <<users, groups, member, written>>

InsertUser(q) ==
  LET w == request[q] IN
  /\ w.pc = "insert"
  /\ Proceed(q, IF w.user \in users THEN Resting ELSE [w EXCEPT !.pc = "populate"])
  /\ users' = users \cup {w.user}
  /\ UNCHANGED <<groups, member, written>>

(* create_groups: the names that have no row, and the inserts, which the   *)
(* unique name may refuse.                                                 *)
SkipWhenKnown(q) ==
  LET w == request[q] IN
  /\ w.pc = "populate"
  /\ Proceed(q, IF w.names \subseteq groups THEN Resting
                ELSE [w EXCEPT !.pc = "creating", !.read = w.names \ groups])
  /\ UNCHANGED <<users, groups, member, written>>
NoPopulate(q) ==
  /\ request[q].pc = "populate"
  /\ Proceed(q, [request[q] EXCEPT !.pc = "set"])
  /\ UNCHANGED <<users, groups, member, written>>
ReadGroups(q) ==
  LET w == request[q] IN
  /\ w.pc = "populate"
  /\ Proceed(q, [w EXCEPT !.pc = "creating", !.read = w.names \ groups])
  /\ UNCHANGED <<users, groups, member, written>>

CreateGroups(q) ==
  LET w == request[q]
      refused == w.read \cap groups # {} IN
  /\ w.pc = "creating"
  /\ Proceed(q, IF refused THEN Resting ELSE [w EXCEPT !.pc = "set", !.read = {}])
  /\ groups' = IF refused THEN groups ELSE groups \cup w.read
  /\ UNCHANGED <<users, member, written>>

(* set_groups_for_user: the rows there are, and their replacement, which   *)
(* the unique (user, group) pair may refuse.                               *)
ReadMembership(q) ==
  LET w == request[q] IN
  /\ w.pc = "set"
  /\ Proceed(q, [w EXCEPT !.pc = "setting", !.read = member[w.user]])
  /\ UNCHANGED <<users, groups, member, written>>

KeepOldRows(w) == {}
Deleted(w) == w.read

WriteMembership(q) ==
  LET w == request[q]
      kept == member[w.user] \ Deleted(w)
      refused == w.names \cap {row.group : row \in kept} # {} IN
  /\ w.pc = "setting"
  /\ Proceed(q, Resting)
  /\ IF refused THEN UNCHANGED <<member, written>>
     ELSE /\ member' = [member EXCEPT ![w.user] = kept \cup [group : w.names, id : {<<q, ops>>}]]
          /\ written' = [written EXCEPT ![w.user] = @ \cup {w.names}]
  /\ UNCHANGED <<users, groups>>

(* Any other error ends the login or the provisioning; what is committed   *)
(* stays.                                                                  *)
Fail(q) ==
  /\ request[q].pc # "idle" /\ failures < MaxFailures
  /\ failures' = failures + 1
  /\ request' = [request EXCEPT ![q] = Resting]
  /\ UNCHANGED <<users, groups, member, ops, written, overlapped, contended>>

Handles(q) ==
  \/ \E u \in User, claims \in SUBSET Claimable, new \in BOOLEAN : Login(q, u, claims, new)
  \/ \E u \in User, claims \in SUBSET Claimable : Bearer(q, u, claims)
  \/ \E u \in User : ServiceAccount(q, u)
  \/ ReadCurrent(q) \/ LookUpUser(q) \/ InsertUser(q) \/ ReadGroups(q) \/ CreateGroups(q)
  \/ ReadMembership(q) \/ WriteMembership(q) \/ Fail(q)

Next == \E q \in Request : Handles(q)

Spec == Init /\ [][Next]_vars

-----------------------------------------------------------------------------
(* Every membership row names a user row and a group row, and no user is   *)
(* twice in a group.                                                       *)
TypeOK ==
  \A u \in User : /\ member[u] # {} => u \in users
                  /\ Membership(u) \subseteq groups
                  /\ Cardinality(Membership(u)) = Cardinality(member[u])

Synced(u, mode) == path[u] = "login" /\ group_sync_mode[idp[u]] = mode

(* An additive synchronisation never takes a group away, also when the     *)
(* current membership cannot be read or the login fails half-way, as long  *)
(* as the user's logins do not overlap.                                    *)
AdditiveKeeps ==
  \A u \in User \ overlapped : Synced(u, "additive") => UNION written[u] \subseteq Membership(u)

(* provider_registry.py: authoritative replaces the membership with the    *)
(* claim, so what a user ends up in is what one of the logins claimed, as  *)
(* long as no two writing transactions overlap.                            *)
AuthoritativeReplaces ==
  ~contended =>
    \A u \in User : Synced(u, "authoritative") => Membership(u) \in written[u] \cup {{}}

(* docs/kubernetes-auth.md: every provisioned service account is in the    *)
(* group of its namespace, unless a store call failed.                     *)
ServiceAccountsGrouped ==
  failures = 0 =>
    \A u \in users : (path[u] = "k8s" /\ InFlight(u) = {}) => Membership(u) = {<<"k8s", namespace[u]>>}

(* That holds when no two writing transactions overlap, whichever first    *)
(* requests of one namespace interleave.                                   *)
GroupedWithoutContention == ~contended => ServiceAccountsGrouped

=============================================================================
