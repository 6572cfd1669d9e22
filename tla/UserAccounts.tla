---------------------------- MODULE UserAccounts ----------------------------
(***************************************************************************)
(* The users and auth_sessions tables: repository/user.py and              *)
(* repository/auth_session.py with their callers (the user routes, the     *)
(* login's create_user, the break-glass and ownership commands of          *)
(* db/cli.py).                                                             *)
(*                                                                         *)
(* update and delete read first (the row, its owner, the other admins) and *)
(* write at the end of the transaction; under the databases' default       *)
(* isolation (READ COMMITTED) another transaction may commit in between,   *)
(* so a transaction is two steps.                                          *)
(*                                                                         *)
(* ended, foreign and overlapped are history; a guard reads ended only     *)
(* because the random id of a deleted session is not drawn again.          *)
(***************************************************************************)
EXTENDS Integers, FiniteSets

CONSTANTS User, Session, Request, Nil,
          Source,       \* who may own a row: "manual", "scim", "oidc:<provider>"
          Enforcement,  \* config.MANAGED_BY_ENFORCEMENT
          MaxOps, MaxId

ASSUME AccountAssumption ==
  /\ "manual" \in Source /\ Enforcement \in {"off", "report", "enforce"}
  /\ MaxOps \in Nat /\ MaxId \in Nat \ {0}
  /\ Nil \notin Source /\ Nil \notin BOOLEAN
  /\ Nil \notin [id : Nat, admin : BOOLEAN, active : BOOLEAN, managed_by : Source]
  /\ Nil \notin [user_id : Nat, expired : BOOLEAN, revoked : BOOLEAN]

VARIABLES users,    \* the row of each user, or Nil
          sessions, \* the row of each session id, or Nil
          txn,      \* the transaction each request is in
          journal,  \* reconcile-ownership's journal file
          nextId, ops,
          ended,    \* sessions that were live when their account was deactivated or deleted
          foreign,  \* rows written without override by a source that did not own them
          overlapped\* some write began between another transaction's reads and its commit

history == <<ended, foreign, overlapped>>
vars == <<users, sessions, txn, journal, nextId, ops, history>>

Row == [id : 1..MaxId, admin : BOOLEAN, active : BOOLEAN, managed_by : Source]
SessionRow == [user_id : 1..MaxId, expired : BOOLEAN, revoked : BOOLEAN]
Change == [admin : BOOLEAN \cup {Nil}, active : BOOLEAN \cup {Nil}, managed_by : Source \cup {Nil}]
Keep == [admin |-> Nil, active |-> Nil, managed_by |-> Nil]
NoTxn == [pc |-> "idle", user |-> Nil, row |-> Nil, change |-> Keep, writer |-> Nil, override |-> FALSE]

Init ==
  /\ \E a \in User : users = [u \in User |->
       IF u = a THEN [id |-> 1, admin |-> TRUE, active |-> TRUE, managed_by |-> "manual"] ELSE Nil]
  /\ sessions = [s \in Session |-> Nil]
  /\ txn = [q \in Request |-> NoTxn]
  /\ journal = Nil /\ nextId = 2 /\ ops = 0
  /\ ended = {} /\ foreign = {} /\ overlapped = FALSE

Count == ops < MaxOps /\ ops' = ops + 1

(* A database that runs one writing transaction at a time (SQLite,         *)
(* SERIALIZABLE) shows the behaviours in which overlapped stays FALSE.     *)
NoteOverlap ==
  overlapped' = (overlapped \/ \E q \in Request : txn[q].pc \in {"update", "delete"})

-----------------------------------------------------------------------------
(* Guards of repository/user.py. *)

ActiveAdmin(u) == users[u] # Nil /\ users[u].admin /\ users[u].active

GuardIgnoresActive(u) ==
  ActiveAdmin(u) => \E v \in User \ {u} : users[v] # Nil /\ users[v].admin
assert_not_last_active_admin(u) == ActiveAdmin(u) => \E v \in User \ {u} : ActiveAdmin(v)

evaluate_write(owner, writer, override) ==
  \/ owner \in {writer, "manual"}
  \/ override
  \/ Enforcement # "enforce"

-----------------------------------------------------------------------------
(* UserRepository.update: the reads and guards, then the assignments. *)

BeginUpdate(q, u, change, writer, override) ==
  /\ txn[q].pc = "idle" /\ users[u] # Nil /\ Count /\ NoteOverlap
  /\ evaluate_write(users[u].managed_by, writer, override)
  /\ (change.active = FALSE \/ change.admin = FALSE) => assert_not_last_active_admin(u)
  /\ txn' = [txn EXCEPT ![q] = [pc |-> "update", user |-> u, row |-> users[u], change |-> change,
                                writer |-> writer, override |-> override]]
  /\ UNCHANGED <<users, sessions, journal, nextId, ended, foreign>>

(* The ORM writes the columns whose value differs from the loaded row. *)
Column(new, loaded, stored) == IF new # Nil /\ new # loaded THEN new ELSE stored

WriteWholeRow(t, stored) ==
  [t.row EXCEPT !.admin = Column(t.change.admin, Nil, @),
                !.active = Column(t.change.active, Nil, @),
                !.managed_by = Column(t.change.managed_by, Nil, @)]
Written(t, stored) ==
  [stored EXCEPT !.admin = Column(t.change.admin, t.row.admin, stored.admin),
                 !.active = Column(t.change.active, t.row.active, stored.active),
                 !.managed_by = Column(t.change.managed_by, t.row.managed_by, stored.managed_by)]

LiveOf(id) == {s \in Session : sessions[s] # Nil /\ sessions[s].user_id = id /\ ~sessions[s].revoked}

RevokeNone(ss) == sessions
Revoke(ss) == [s \in Session |-> IF s \in ss THEN [sessions[s] EXCEPT !.revoked = TRUE] ELSE sessions[s]]

StillThere(t) == users[t.user] # Nil /\ users[t.user].id = t.row.id

CommitUpdate(q) ==
  LET t == txn[q]
      deactivates == t.change.active = FALSE IN
  /\ t.pc = "update"
  /\ txn' = [txn EXCEPT ![q] = NoTxn]
  /\ IF ~StillThere(t)
     THEN UNCHANGED <<users, sessions, history>>         \* the flush fails and rolls back
     ELSE /\ users' = [users EXCEPT ![t.user] = Written(t, @)]
          /\ sessions' = IF deactivates THEN Revoke(LiveOf(t.row.id)) ELSE sessions
          /\ ended' = IF deactivates THEN ended \cup LiveOf(t.row.id) ELSE ended
          /\ foreign' = IF users'[t.user] = users[t.user] \/ users[t.user].managed_by \in {t.writer, "manual"} \/ t.override
                        THEN foreign ELSE foreign \cup {t.user}
          /\ UNCHANGED overlapped
  /\ UNCHANGED <<journal, nextId, ops>>

(* UserRepository.delete removes the sessions with the row. *)
BeginDelete(q, u) ==
  /\ txn[q].pc = "idle" /\ users[u] # Nil /\ Count /\ NoteOverlap
  /\ assert_not_last_active_admin(u)
  /\ txn' = [txn EXCEPT ![q] = [NoTxn EXCEPT !.pc = "delete", !.user = u, !.row = users[u]]]
  /\ UNCHANGED <<users, sessions, journal, nextId, ended, foreign>>

DeleteRowOnly(q) ==
  LET t == txn[q] IN
  /\ t.pc = "delete"
  /\ txn' = [txn EXCEPT ![q] = NoTxn]
  /\ users' = IF StillThere(t) THEN [users EXCEPT ![t.user] = Nil] ELSE users
  /\ UNCHANGED <<sessions, journal, nextId, ops, history>>
CommitDelete(q) ==
  LET t == txn[q] IN
  /\ t.pc = "delete"
  /\ txn' = [txn EXCEPT ![q] = NoTxn]
  /\ IF ~StillThere(t)
     THEN UNCHANGED <<users, sessions, ended>>
     ELSE /\ users' = [users EXCEPT ![t.user] = Nil]
          /\ ended' = ended \cup LiveOf(t.row.id)
          /\ sessions' = [s \in Session |->
               IF sessions[s] # Nil /\ sessions[s].user_id = t.row.id THEN Nil ELSE sessions[s]]
  /\ UNCHANGED <<journal, nextId, ops, foreign, overlapped>>

-----------------------------------------------------------------------------
(* mlflow_oidc_auth.user.create_user: look the profile up, then update or  *)
(* create, each in a transaction of its own.                               *)
BeginCreateUser(q, u, admin, writer) ==
  /\ txn[q].pc = "idle" /\ Count
  /\ txn' = [txn EXCEPT ![q] =
       [NoTxn EXCEPT !.pc = IF users[u] # Nil THEN "sync" ELSE "create", !.user = u,
                     !.change = [Keep EXCEPT !.admin = admin], !.writer = writer]]
  /\ UNCHANGED <<users, sessions, journal, nextId, history>>

(* The update of an existing account; the user may be gone by now, in      *)
(* which case the missing-user error leads to the create as well.          *)
SyncUser(q) ==
  LET t == txn[q] IN
  /\ t.pc = "sync" /\ NoteOverlap
  /\ txn' = [txn EXCEPT ![q] =
       IF users[t.user] = Nil THEN [t EXCEPT !.pc = "create"]
       ELSE IF /\ evaluate_write(users[t.user].managed_by, t.writer, FALSE)
               /\ t.change.admin = FALSE => assert_not_last_active_admin(t.user)
       THEN [t EXCEPT !.pc = "update", !.row = users[t.user]]
       ELSE NoTxn]
  /\ UNCHANGED <<users, sessions, journal, nextId, ops, ended, foreign>>

(* UserRepository.create; the unique username refuses a second row. *)
CreateUser(q) ==
  LET t == txn[q] IN
  /\ t.pc = "create" /\ NoteOverlap
  /\ txn' = [txn EXCEPT ![q] = NoTxn]
  /\ IF users[t.user] # Nil THEN UNCHANGED <<users, nextId>>
     ELSE /\ nextId <= MaxId
          /\ nextId' = nextId + 1
          /\ users' = [users EXCEPT ![t.user] =
               [id |-> nextId, admin |-> t.change.admin, active |-> TRUE, managed_by |-> "manual"]]
  /\ UNCHANGED <<sessions, journal, ops, ended, foreign>>

-----------------------------------------------------------------------------
(* The database commands of db/cli.py, each a transaction of its own. *)

restore_admin(u) ==
  /\ users[u] # Nil /\ Count /\ NoteOverlap
  /\ users' = [users EXCEPT ![u].admin = TRUE, ![u].active = TRUE, ![u].managed_by = "manual"]
  /\ UNCHANGED <<sessions, txn, journal, nextId, ended, foreign>>

(* reconcile-ownership --from-owner --journal --apply *)
reconcile_ownership(from_owner, set_owner) ==
  LET rows == {u \in User : users[u] # Nil /\ users[u].managed_by = from_owner} IN
  /\ journal = Nil /\ from_owner # set_owner /\ rows # {} /\ Count /\ NoteOverlap
  /\ journal' = [set_owner |-> set_owner, previous |-> [u \in rows |-> users[u].managed_by]]
  /\ users' = [u \in User |-> IF u \in rows THEN [users[u] EXCEPT !.managed_by = set_owner] ELSE users[u]]
  /\ UNCHANGED <<sessions, txn, nextId, ended, foreign>>

(* restore-ownership --apply: the names in the journal whose row has the   *)
(* owner that the reconciliation set.                                      *)
Restorable(u) ==
  u \in DOMAIN journal.previous /\ users[u] # Nil /\ users[u].managed_by = journal.set_owner

restore_ownership ==
  /\ journal # Nil /\ Count /\ NoteOverlap
  /\ users' = [u \in User |->
       IF Restorable(u) THEN [users[u] EXCEPT !.managed_by = journal.previous[u]] ELSE users[u]]
  /\ UNCHANGED <<sessions, txn, journal, nextId, ended, foreign>>

-----------------------------------------------------------------------------
(* Sessions. *)

(* _open_server_session at the end of a login; it asks only that the user  *)
(* exists.                                                                 *)
create_session(s, u) ==
  /\ sessions[s] = Nil /\ s \notin ended /\ users[u] # Nil
  /\ sessions' = [sessions EXCEPT ![s] = [user_id |-> users[u].id, expired |-> FALSE, revoked |-> FALSE]]
  /\ UNCHANGED <<users, txn, journal, nextId, ops, history>>

(* Logout, or a re-login that retires the session the browser carried. *)
revoke(s) ==
  /\ sessions[s] # Nil /\ ~sessions[s].revoked
  /\ sessions' = Revoke({s})
  /\ UNCHANGED <<users, txn, journal, nextId, ops, history>>

Expire(s) ==
  /\ sessions[s] # Nil /\ ~sessions[s].expired
  /\ sessions' = [sessions EXCEPT ![s].expired = TRUE]
  /\ UNCHANGED <<users, txn, journal, nextId, ops, history>>

prune_sessions ==
  /\ \E s \in Session : sessions[s] # Nil /\ sessions[s].expired
  /\ sessions' = [s \in Session |-> IF sessions[s] # Nil /\ sessions[s].expired THEN Nil ELSE sessions[s]]
  /\ ended' = {s \in ended : sessions[s] # Nil => ~sessions[s].expired}
  /\ UNCHANGED <<users, txn, journal, nextId, ops, foreign, overlapped>>

(* AuthSessionRepository.resolve: the users whose row the session names. *)
resolve(s) ==
  {u \in User : /\ sessions[s] # Nil /\ ~sessions[s].revoked /\ ~sessions[s].expired
                /\ users[u] # Nil /\ users[u].id = sessions[s].user_id}

-----------------------------------------------------------------------------
(* Who calls what: the ownership route writes managed_by with override;    *)
(* logins and the create route set is_admin; a directory sets active.      *)
Writes(q) ==
  \/ \E u \in User, o \in Source : BeginUpdate(q, u, [Keep EXCEPT !.managed_by = o], "manual", TRUE)
  \/ \E u \in User, a \in BOOLEAN, w \in Source : BeginUpdate(q, u, [Keep EXCEPT !.active = a], w, FALSE)
  \/ \E u \in User, a \in BOOLEAN, w \in Source : BeginCreateUser(q, u, a, w)
  \/ \E u \in User : BeginDelete(q, u)
  \/ CommitUpdate(q) \/ CommitDelete(q) \/ SyncUser(q) \/ CreateUser(q)

Commands ==
  \/ \E u \in User : restore_admin(u)
  \/ \E f, o \in Source : reconcile_ownership(f, o)
  \/ restore_ownership

Sessions ==
  \/ \E s \in Session, u \in User : create_session(s, u)
  \/ \E s \in Session : revoke(s) \/ Expire(s)
  \/ prune_sessions

Next == (\E q \in Request : Writes(q)) \/ Commands \/ Sessions

Spec == Init /\ [][Next]_vars

-----------------------------------------------------------------------------
(* The row and session tables are well formed, and every session row names *)
(* a user row that exists (its foreign key).                               *)
TypeOK ==
  /\ users \in [User -> Row \cup {Nil}]
  /\ sessions \in [Session -> SessionRow \cup {Nil}]
  /\ \A s \in Session : sessions[s] # Nil =>
       \E u \in User : users[u] # Nil /\ users[u].id = sessions[s].user_id

(* repository/user.py: no operation leaves the deployment without an       *)
(* active administrator.                                                   *)
SomeActiveAdmin == \E u \in User : ActiveAdmin(u)

(* On a database that runs one writing transaction at a time the guard     *)
(* keeps that promise, whatever demotions, deactivations, deletions,       *)
(* logins and commands follow one another.                                 *)
SerialWritesKeepAnAdmin == ~overlapped => SomeActiveAdmin

(* A session that was live when its account was deactivated or deleted     *)
(* never resolves again, not even after the account is reactivated or the  *)
(* name is created anew, and however transactions overlap.                 *)
EndedForGood == \A s \in ended : resolve(s) = {}

(* The transaction of q commits and asked for what the column holds now. *)
Asks(q, u, column) ==
  /\ txn[q].pc = "update" /\ txn[q].user = u /\ txn'[q].pc = "idle"
  /\ txn[q].change[column] = users'[u][column]
  /\ column = "managed_by" => txn[q].override

OnDemand(u) ==
  users[u] # Nil /\ users'[u] # Nil =>
    \A column \in {"admin", "active", "managed_by"} :
      users'[u][column] = users[u][column] \/ Commands \/ \E q \in Request : Asks(q, u, column)

(* However transactions overlap, a column of an account that exists        *)
(* changes only to what the committing writer asked for, or by a database  *)
(* command, and the owner only for a writer with override.  A transaction  *)
(* that read the row earlier never writes its stale copy back: a login's   *)
(* sync under way neither reactivates an account that a directory          *)
(* deactivated meanwhile nor undoes a change of owner.                     *)
ColumnsChangeOnDemand == [][\A u \in User : OnDemand(u)]_vars

(* repository/user.py:324: "A write from one source must not silently      *)
(* overwrite a row another source owns", which enforce refuses.            *)
ForeignRowsNeverWritten == Enforcement = "enforce" => foreign = {}

=============================================================================
