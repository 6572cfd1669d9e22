------------------------- MODULE UserAccountsProofs -------------------------
(***************************************************************************)
(* Theorems about UserAccounts, for any users, sessions, requests, sources *)
(* and enforcement.  What a transaction has read is inductive only as long *)
(* as no other transaction overlaps it: Undisturbed says that the row and  *)
(* the guard's answer are then still what they were.                       *)
(***************************************************************************)
EXTENDS UserAccounts, TLAPS

TxnState == [pc : {"idle", "update", "delete", "sync", "create"}, user : User \cup {Nil},
             row : Row \cup {Nil}, change : Change, writer : Source \cup {Nil}, override : BOOLEAN]

(* What a transaction's fields hold depends on where it is. *)
TxnShape(t) ==
  /\ t \in TxnState
  /\ t.pc # "idle" => t.user \in User
  /\ t.pc \in {"update", "delete"} => t.row \in Row
  /\ t.pc \in {"sync", "create"} => t.change.admin \in BOOLEAN

Pending(q) == txn[q].pc \in {"update", "delete"}

JournalOK ==
  journal # Nil => /\ journal.set_owner \in Source
                   /\ \A u \in DOMAIN journal.previous : journal.previous[u] \in Source

Typed ==
  /\ TypeOK
  /\ txn \in [Request -> TxnState] /\ \A q \in Request : TxnShape(txn[q])
  /\ JournalOK
  /\ nextId \in Nat \ {0} /\ overlapped \in BOOLEAN
  /\ ended \subseteq Session

-----------------------------------------------------------------------------
LEMMA NilIsNoRow == Nil \notin Row /\ Nil \notin SessionRow
BY AccountAssumption DEF Row, SessionRow

LEMMA NoTxnShaped == TxnShape(NoTxn)
BY DEF TxnShape, TxnState, NoTxn, Keep, Change

LEMMA TypedInit == Init => Typed
<1> SUFFICES ASSUME Init PROVE Typed
  OBVIOUS
<1>1. users \in [User -> Row \cup {Nil}]
  BY AccountAssumption DEF Init, Row
<1>2. txn \in [Request -> TxnState] /\ \A q \in Request : TxnShape(txn[q])
  BY NoTxnShaped DEF Init, TxnShape
<1>3. TypeOK
  BY <1>1 DEF Init, TypeOK
<1>4. nextId \in Nat \ {0} /\ ended \subseteq Session
  BY DEF Init
<1>5. JournalOK /\ overlapped \in BOOLEAN
  BY DEF Init, JournalOK
<1>6. QED
  BY <1>2, <1>3, <1>4, <1>5 DEF Typed

(* A step that puts one transaction into a well-shaped state keeps the     *)
(* types of all of them.                                                   *)
LEMMA TxnStep ==
  ASSUME Typed, NEW q \in Request, NEW t, TxnShape(t), txn' = [txn EXCEPT ![q] = t]
  PROVE  txn' \in [Request -> TxnState] /\ (\A r \in Request : TxnShape(txn[r]))'
<1>1. t \in TxnState
  BY DEF TxnShape
<1>2. \A r \in Request : TxnShape(txn'[r])
  BY DEF Typed
<1>3. QED
  BY <1>1, <1>2 DEF Typed, TxnShape

(* No row loses its id: the sessions keep the row they name. *)
KeepsIds == \A u \in User : users[u] # Nil => users'[u] # Nil /\ users'[u].id = users[u].id

LEMMA SessionsKeepTheirRow ==
  ASSUME TypeOK, KeepsIds, users' \in [User -> Row \cup {Nil}],
         sessions' \in [Session -> SessionRow \cup {Nil}],
         \A s \in Session : sessions'[s] # Nil => sessions[s] # Nil /\ sessions'[s].user_id = sessions[s].user_id
  PROVE  TypeOK'
<1>1. ASSUME NEW s \in Session, sessions'[s] # Nil
      PROVE  \E u \in User : users'[u] # Nil /\ users'[u].id = sessions'[s].user_id
  BY <1>1 DEF TypeOK, KeepsIds
<1>2. QED
  BY <1>1 DEF TypeOK

-----------------------------------------------------------------------------
(* The types are kept, action by action. *)
LEMMA TypedSessions ==
  ASSUME Typed, Sessions
  PROVE  Typed'
<1>1. ASSUME NEW s \in Session, NEW u \in User, create_session(s, u)
      PROVE  TypeOK'
  <2>1. users[u] \in Row
    BY <1>1 DEF create_session, Typed, TypeOK
  <2>2. [user_id |-> users[u].id, expired |-> FALSE, revoked |-> FALSE] \in SessionRow
    BY <2>1 DEF Row, SessionRow
  <2>3. sessions' \in [Session -> SessionRow \cup {Nil}] /\ UNCHANGED users
    BY <1>1, <2>2 DEF create_session, Typed, TypeOK
  <2>4. ASSUME NEW r \in Session, sessions'[r] # Nil
        PROVE  \E v \in User : users[v] # Nil /\ users[v].id = sessions'[r].user_id
    BY <1>1, <2>1, <2>4, NilIsNoRow DEF create_session, Typed, TypeOK
  <2>5. QED
    BY <2>3, <2>4 DEF Typed, TypeOK
<1>2. ASSUME NEW s \in Session, revoke(s) \/ Expire(s)
      PROVE  TypeOK'
  <2>1. sessions[s] \in SessionRow
    BY <1>2 DEF revoke, Expire, Typed, TypeOK
  <2>2. PICK row \in SessionRow : row.user_id = sessions[s].user_id /\ sessions' = [sessions EXCEPT ![s] = row]
    <3>1. CASE revoke(s)
      <4>1. [sessions[s] EXCEPT !.revoked = TRUE] \in SessionRow
        BY <2>1 DEF SessionRow
      <4>2. sessions' = [sessions EXCEPT ![s] = [sessions[s] EXCEPT !.revoked = TRUE]]
        BY <3>1 DEF revoke, Revoke, Typed, TypeOK
      <4>3. [sessions[s] EXCEPT !.revoked = TRUE].user_id = sessions[s].user_id
        BY <2>1 DEF SessionRow
      <4>4. QED
        BY <4>1, <4>2, <4>3
    <3>2. CASE Expire(s)
      <4>1. [sessions[s] EXCEPT !.expired = TRUE] \in SessionRow
        BY <2>1 DEF SessionRow
      <4>2. sessions' = [sessions EXCEPT ![s] = [sessions[s] EXCEPT !.expired = TRUE]]
        BY <3>2 DEF Expire, Typed, TypeOK
      <4>3. [sessions[s] EXCEPT !.expired = TRUE].user_id = sessions[s].user_id
        BY <2>1 DEF SessionRow
      <4>4. QED
        BY <4>1, <4>2, <4>3
    <3>3. QED
      BY <1>2, <3>1, <3>2
  <2>3. UNCHANGED users /\ KeepsIds
    BY <1>2 DEF revoke, Expire, KeepsIds
  <2>4. QED
    BY <2>1, <2>2, <2>3, NilIsNoRow, SessionsKeepTheirRow DEF Typed, TypeOK
<1>3. ASSUME prune_sessions
      PROVE  TypeOK'
  <2>1. UNCHANGED users /\ KeepsIds
    BY <1>3 DEF prune_sessions, KeepsIds
  <2>2. /\ sessions' \in [Session -> SessionRow \cup {Nil}]
        /\ \A s \in Session : sessions'[s] # Nil => sessions'[s] = sessions[s]
    BY <1>3 DEF prune_sessions, Typed, TypeOK
  <2>3. QED
    BY <2>1, <2>2, SessionsKeepTheirRow DEF Typed, TypeOK
<1>4. TypeOK'
  BY <1>1, <1>2, <1>3 DEF Sessions
<1>5. UNCHANGED <<txn, journal, nextId, overlapped>> /\ ended' \subseteq ended
  BY DEF Sessions, create_session, revoke, Expire, prune_sessions, history
<1>6. QED
  BY <1>4, <1>5 DEF Typed, JournalOK, TxnShape

(* A step that leaves the sessions and the history alone and writes a      *)
(* table of users that keeps the ids.                                      *)
LEMMA TypedUserStep ==
  ASSUME Typed, KeepsIds, users' \in [User -> Row \cup {Nil}],
         txn' \in [Request -> TxnState], (\A q \in Request : TxnShape(txn[q]))',
         nextId' \in Nat \ {0}, JournalOK', overlapped' \in BOOLEAN, UNCHANGED <<sessions, ended>>
  PROVE  Typed'
<1>1. TypeOK'
  BY SessionsKeepTheirRow DEF Typed, TypeOK
<1>2. QED
  BY <1>1 DEF Typed

LEMMA TypedCommands ==
  ASSUME Typed, Commands
  PROVE  Typed'
<1>0. /\ UNCHANGED <<txn, nextId, sessions, ended>> /\ overlapped' \in BOOLEAN
      /\ txn' \in [Request -> TxnState] /\ (\A q \in Request : TxnShape(txn[q]))'
  BY DEF Commands, restore_admin, reconcile_ownership, restore_ownership, NoteOverlap, Typed, TxnShape
<1>1. ASSUME NEW u \in User, restore_admin(u)
      PROVE  Typed'
  <2>1. users[u] \in Row /\ UNCHANGED journal
    BY <1>1 DEF restore_admin, Typed, TypeOK
  <2> DEFINE row == [users[u] EXCEPT !.admin = TRUE, !.active = TRUE, !.managed_by = "manual"]
  <2>2. row \in Row /\ row.id = users[u].id
    BY <2>1, AccountAssumption DEF Row
  <2>3. users' = [users EXCEPT ![u] = row]
    BY <1>1, <2>1 DEF restore_admin, Typed, TypeOK
  <2> HIDE DEF row
  <2>4. users' \in [User -> Row \cup {Nil}] /\ KeepsIds
    BY <2>1, <2>2, <2>3, NilIsNoRow DEF KeepsIds, Typed, TypeOK
  <2>5. JournalOK'
    BY <2>1 DEF Typed, JournalOK
  <2>6. QED
    BY <1>0, <2>4, <2>5, TypedUserStep DEF Typed
<1>2. ASSUME NEW f \in Source, NEW o \in Source, reconcile_ownership(f, o)
      PROVE  Typed'
  <2> DEFINE rows == {u \in User : users[u] # Nil /\ users[u].managed_by = f}
  <2>1. \A u \in rows : /\ users[u] \in Row /\ [users[u] EXCEPT !.managed_by = o] \in Row
                        /\ [users[u] EXCEPT !.managed_by = o].id = users[u].id
    BY DEF Typed, TypeOK, Row
  <2>2. users' = [u \in User |-> IF u \in rows THEN [users[u] EXCEPT !.managed_by = o] ELSE users[u]]
    BY <1>2 DEF reconcile_ownership
  <2>3. users' \in [User -> Row \cup {Nil}] /\ KeepsIds
    BY <2>1, <2>2, NilIsNoRow DEF KeepsIds, Typed, TypeOK
  <2>4. journal' = [set_owner |-> o, previous |-> [u \in rows |-> users[u].managed_by]]
    BY <1>2 DEF reconcile_ownership
  <2>5. JournalOK'
    BY <2>4 DEF JournalOK
  <2>6. QED
    BY <1>0, <2>3, <2>5, TypedUserStep DEF Typed
<1>3. ASSUME restore_ownership
      PROVE  Typed'
  <2> DEFINE rows == {u \in User : Restorable(u)}
  <2>1. \A u \in rows : /\ users[u] \in Row /\ [users[u] EXCEPT !.managed_by = journal.previous[u]] \in Row
                        /\ [users[u] EXCEPT !.managed_by = journal.previous[u]].id = users[u].id
    BY <1>3 DEF restore_ownership, Restorable, Typed, TypeOK, JournalOK, Row
  <2>2. /\ users' = [u \in User |-> IF u \in rows THEN [users[u] EXCEPT !.managed_by = journal.previous[u]] ELSE users[u]]
        /\ UNCHANGED journal
    BY <1>3 DEF restore_ownership
  <2>3. users' \in [User -> Row \cup {Nil}] /\ KeepsIds
    BY <2>1, <2>2, NilIsNoRow DEF KeepsIds, Typed, TypeOK
  <2>4. JournalOK'
    BY <2>2 DEF Typed, JournalOK
  <2>5. QED
    BY <1>0, <2>3, <2>4, TypedUserStep DEF Typed
<1>4. QED
  BY <1>1, <1>2, <1>3 DEF Commands

(* What the requests write: a change of one column. *)
LEMMA ChangeTypes ==
  /\ Keep \in Change
  /\ \A o \in Source : [Keep EXCEPT !.managed_by = o] \in Change
  /\ \A a \in BOOLEAN : [Keep EXCEPT !.active = a] \in Change /\ [Keep EXCEPT !.admin = a] \in Change
BY DEF Keep, Change

LEMMA TypedBegin ==
  ASSUME Typed, NEW q \in Request, NEW t, TxnShape(t), txn' = [txn EXCEPT ![q] = t],
         UNCHANGED <<users, sessions, journal, nextId, ended>>, overlapped' \in BOOLEAN
  PROVE  Typed'
<1>1. KeepsIds /\ users' \in [User -> Row \cup {Nil}] /\ JournalOK' /\ nextId' \in Nat \ {0}
  BY DEF KeepsIds, Typed, TypeOK, JournalOK
<1>2. QED
  BY <1>1, TxnStep, TypedUserStep

LEMMA WrittenKeepsTypes ==
  ASSUME NEW t, t.change \in Change, NEW row \in Row
  PROVE  Written(t, row) \in Row /\ Written(t, row).id = row.id
<1>1. /\ Column(t.change.admin, t.row.admin, row.admin) \in BOOLEAN
      /\ Column(t.change.active, t.row.active, row.active) \in BOOLEAN
      /\ Column(t.change.managed_by, t.row.managed_by, row.managed_by) \in Source
  BY DEF Change, Column, Row
<1>2. QED
  BY <1>1 DEF Written, Row

LEMMA RevokedRows ==
  ASSUME TypeOK, NEW id
  PROVE  \A s \in LiveOf(id) : /\ s \in Session /\ sessions[s] \in SessionRow /\ sessions[s].user_id = id
                              /\ [sessions[s] EXCEPT !.revoked = TRUE] \in SessionRow
                              /\ [sessions[s] EXCEPT !.revoked = TRUE].user_id = id
BY DEF TypeOK, LiveOf, SessionRow

LEMMA TypedCommitUpdate ==
  ASSUME Typed, NEW q \in Request, CommitUpdate(q)
  PROVE  Typed'
<1> DEFINE t == txn[q]
<1>1. TxnShape(t) /\ t.pc = "update"
  BY DEF CommitUpdate, Typed
<1>2. txn' \in [Request -> TxnState] /\ (\A r \in Request : TxnShape(txn[r]))'
  BY NoTxnShaped, TxnStep DEF CommitUpdate
<1>3. JournalOK' /\ nextId' \in Nat \ {0}
  BY DEF CommitUpdate, Typed, JournalOK
<1>4. CASE ~StillThere(t)
  <2>1. UNCHANGED <<users, sessions, ended, overlapped>>
    BY <1>4 DEF CommitUpdate, history
  <2>2. QED
    BY <1>2, <1>3, <2>1 DEF Typed, TypeOK
<1>5. CASE StillThere(t)
  <2>1. t.user \in User /\ t.change \in Change /\ users[t.user] \in Row /\ users[t.user].id = t.row.id
    BY <1>1, <1>5 DEF TxnShape, TxnState, StillThere, Typed, TypeOK
  <2>2. users' = [users EXCEPT ![t.user] = Written(t, users[t.user])]
    BY <1>5, <2>1 DEF CommitUpdate, Typed, TypeOK
  <2>3. Written(t, users[t.user]) \in Row /\ Written(t, users[t.user]).id = users[t.user].id
    BY <2>1, WrittenKeepsTypes
  <2>4. users' \in [User -> Row \cup {Nil}] /\ KeepsIds
    BY <2>1, <2>2, <2>3, NilIsNoRow DEF KeepsIds, Typed, TypeOK
  <2>5. sessions' = sessions \/ sessions' = Revoke(LiveOf(t.row.id))
    BY <1>5 DEF CommitUpdate
  <2>6. /\ sessions' \in [Session -> SessionRow \cup {Nil}]
        /\ \A s \in Session : sessions'[s] # Nil => sessions[s] # Nil /\ sessions'[s].user_id = sessions[s].user_id
    <3>1. CASE sessions' = sessions
      BY <3>1 DEF Typed, TypeOK
    <3>2. CASE sessions' = Revoke(LiveOf(t.row.id))
      <4>1. \A s \in LiveOf(t.row.id) : /\ sessions'[s] = [sessions[s] EXCEPT !.revoked = TRUE]
                                         /\ sessions'[s] \in SessionRow /\ sessions'[s].user_id = t.row.id
                                         /\ sessions[s] \in SessionRow /\ sessions[s].user_id = t.row.id
        BY <3>2, RevokedRows DEF Typed, Revoke
      <4>2. \A s \in Session \ LiveOf(t.row.id) : sessions'[s] = sessions[s]
        BY <3>2 DEF Revoke
      <4>3. sessions' = [s \in Session |-> sessions'[s]]
        BY <3>2 DEF Revoke
      <4>4. QED
        BY <4>1, <4>2, <4>3, NilIsNoRow DEF Typed, TypeOK
    <3>3. QED
      BY <2>5, <3>1, <3>2
  <2>7. TypeOK'
    BY <2>4, <2>6, SessionsKeepTheirRow DEF Typed
  <2>8. ended' \subseteq Session /\ overlapped' \in BOOLEAN
    BY <1>5, <2>1 DEF CommitUpdate, Typed, LiveOf
  <2>9. QED
    BY <1>2, <1>3, <2>7, <2>8 DEF Typed
<1>6. QED
  BY <1>4, <1>5

LEMMA TypedCommitDelete ==
  ASSUME Typed, NEW q \in Request, CommitDelete(q)
  PROVE  Typed'
<1> DEFINE t == txn[q]
<1>1. TxnShape(t) /\ t.pc = "delete"
  BY DEF CommitDelete, Typed
<1>2. txn' \in [Request -> TxnState] /\ (\A r \in Request : TxnShape(txn[r]))'
  BY NoTxnShaped, TxnStep DEF CommitDelete
<1>3. JournalOK' /\ nextId' \in Nat \ {0} /\ overlapped' \in BOOLEAN
  BY DEF CommitDelete, Typed, JournalOK
<1>4. CASE ~StillThere(t)
  BY <1>2, <1>3, <1>4 DEF CommitDelete, Typed, TypeOK
<1>5. CASE StillThere(t)
  <2>1. t.user \in User /\ users[t.user] \in Row /\ users[t.user].id = t.row.id
    BY <1>1, <1>5 DEF TxnShape, StillThere, Typed, TypeOK
  <2>2. /\ users' = [users EXCEPT ![t.user] = Nil] /\ ended' = ended \cup LiveOf(t.row.id)
        /\ sessions' = [s \in Session |-> IF sessions[s] # Nil /\ sessions[s].user_id = t.row.id THEN Nil ELSE sessions[s]]
    BY <1>5 DEF CommitDelete
  <2>3. users' \in [User -> Row \cup {Nil}] /\ sessions' \in [Session -> SessionRow \cup {Nil}]
    BY <2>1, <2>2 DEF Typed, TypeOK
  <2>4. ASSUME NEW s \in Session, sessions'[s] # Nil
        PROVE  \E u \in User : users'[u] # Nil /\ users'[u].id = sessions'[s].user_id
    <3>1. sessions'[s] = sessions[s] /\ sessions[s] # Nil /\ sessions[s].user_id # t.row.id
      BY <2>2, <2>4
    <3>2. PICK u \in User : users[u] # Nil /\ users[u].id = sessions[s].user_id
      BY <3>1 DEF Typed, TypeOK
    <3>3. u # t.user
      BY <2>1, <3>1, <3>2
    <3>4. QED
      BY <2>2, <3>1, <3>2, <3>3 DEF Typed, TypeOK
  <2>5. QED
    BY <1>2, <1>3, <2>2, <2>3, <2>4 DEF Typed, TypeOK, LiveOf
<1>6. QED
  BY <1>4, <1>5

LEMMA TypedCreateUser ==
  ASSUME Typed, NEW q \in Request, CreateUser(q)
  PROVE  Typed'
<1> DEFINE t == txn[q]
<1>1. TxnShape(t) /\ t.pc = "create" /\ t.user \in User /\ t.change.admin \in BOOLEAN
  BY DEF CreateUser, Typed, TxnShape
<1>2. txn' \in [Request -> TxnState] /\ (\A r \in Request : TxnShape(txn[r]))'
  BY NoTxnShaped, TxnStep DEF CreateUser
<1>3. JournalOK' /\ UNCHANGED <<sessions, ended>>
  BY DEF CreateUser, Typed, JournalOK
<1>4. overlapped' \in BOOLEAN
  BY DEF CreateUser, NoteOverlap, Typed
<1>5. CASE users[t.user] # Nil
  <2>1. KeepsIds /\ users' \in [User -> Row \cup {Nil}] /\ nextId' \in Nat \ {0}
    BY <1>5 DEF CreateUser, KeepsIds, Typed, TypeOK
  <2>2. QED
    BY <1>2, <1>3, <1>4, <2>1, TypedUserStep
<1>6. CASE users[t.user] = Nil
  <2> DEFINE row == [id |-> nextId, admin |-> t.change.admin, active |-> TRUE, managed_by |-> "manual"]
  <2>1. nextId <= MaxId /\ nextId' = nextId + 1 /\ users' = [users EXCEPT ![t.user] = row]
    BY <1>6 DEF CreateUser
  <2>2. row \in Row /\ nextId' \in Nat \ {0}
    BY <1>1, <2>1, AccountAssumption DEF Row, Typed
  <2> HIDE DEF row
  <2>3. KeepsIds /\ users' \in [User -> Row \cup {Nil}]
    BY <1>6, <2>1, <2>2 DEF KeepsIds, Typed, TypeOK
  <2>4. QED
    BY <1>2, <1>3, <1>4, <2>2, <2>3, TypedUserStep
<1>7. QED
  BY <1>5, <1>6

LEMMA TypedWrites ==
  ASSUME Typed, NEW q \in Request, Writes(q)
  PROVE  Typed'
<1>1. ASSUME NEW u \in User, NEW change \in Change, NEW w \in Source, NEW o \in BOOLEAN,
             BeginUpdate(q, u, change, w, o)
      PROVE  Typed'
  <2> DEFINE t == [pc |-> "update", user |-> u, row |-> users[u], change |-> change, writer |-> w, override |-> o]
  <2>1. users[u] \in Row
    BY <1>1 DEF BeginUpdate, Typed, TypeOK
  <2>2. TxnShape(t)
    BY <2>1 DEF TxnShape, TxnState
  <2>3. /\ txn' = [txn EXCEPT ![q] = t]
        /\ UNCHANGED <<users, sessions, journal, nextId, ended>> /\ overlapped' \in BOOLEAN
    BY <1>1 DEF BeginUpdate, NoteOverlap
  <2>4. QED
    BY <2>2, <2>3, TypedBegin
<1>2. ASSUME NEW u \in User, NEW a \in BOOLEAN, NEW w \in Source, BeginCreateUser(q, u, a, w)
      PROVE  Typed'
  <2> DEFINE pc == IF users[u] # Nil THEN "sync" ELSE "create"
             t == [NoTxn EXCEPT !.pc = pc, !.user = u, !.change = [Keep EXCEPT !.admin = a], !.writer = w]
  <2>1. /\ t \in TxnState /\ t.pc \in {"sync", "create"} /\ t.user = u
        /\ t.change = [Keep EXCEPT !.admin = a]
    BY NoTxnShaped, ChangeTypes DEF TxnShape, TxnState
  <2>2. [Keep EXCEPT !.admin = a].admin = a
    BY DEF Keep
  <2>3. TxnShape(t)
    BY <2>1, <2>2 DEF TxnShape
  <2>4. /\ txn' = [txn EXCEPT ![q] = t]
        /\ UNCHANGED <<users, sessions, journal, nextId, ended>> /\ overlapped' \in BOOLEAN
    BY <1>2 DEF BeginCreateUser, history, Typed
  <2>5. QED
    BY <2>3, <2>4, TypedBegin
<1>3. ASSUME NEW u \in User, BeginDelete(q, u)
      PROVE  Typed'
  <2> DEFINE t == [NoTxn EXCEPT !.pc = "delete", !.user = u, !.row = users[u]]
  <2>1. users[u] \in Row
    BY <1>3 DEF BeginDelete, Typed, TypeOK
  <2>2. t \in TxnState /\ t.pc = "delete" /\ t.user = u /\ t.row = users[u]
    BY <2>1, NoTxnShaped DEF TxnShape, TxnState
  <2>3. TxnShape(t)
    BY <2>1, <2>2 DEF TxnShape
  <2>4. /\ txn' = [txn EXCEPT ![q] = t]
        /\ UNCHANGED <<users, sessions, journal, nextId, ended>> /\ overlapped' \in BOOLEAN
    BY <1>3 DEF BeginDelete, NoteOverlap
  <2>5. QED
    BY <2>3, <2>4, TypedBegin
<1>4. CASE SyncUser(q)
  <2> DEFINE t == txn[q]
  <2>1. TxnShape(t) /\ t.pc = "sync" /\ t.user \in User
    BY <1>4 DEF SyncUser, Typed, TxnShape
  <2>2. TxnShape([t EXCEPT !.pc = "create"])
    BY <2>1 DEF TxnShape, TxnState
  <2>3. users[t.user] # Nil => TxnShape([t EXCEPT !.pc = "update", !.row = users[t.user]])
    BY <2>1 DEF TxnShape, TxnState, Typed, TypeOK
  <2>4. /\ UNCHANGED <<users, sessions, journal, nextId, ended>> /\ overlapped' \in BOOLEAN
        /\ \/ txn' = [txn EXCEPT ![q] = [t EXCEPT !.pc = "create"]]
           \/ users[t.user] # Nil /\ txn' = [txn EXCEPT ![q] = [t EXCEPT !.pc = "update", !.row = users[t.user]]]
           \/ txn' = [txn EXCEPT ![q] = NoTxn]
    BY <1>4 DEF SyncUser, NoteOverlap
  <2>5. QED
    BY <2>2, <2>3, <2>4, NoTxnShaped, TypedBegin
<1>5. QED
  BY <1>1, <1>2, <1>3, <1>4, ChangeTypes, AccountAssumption,
     TypedCommitUpdate, TypedCommitDelete, TypedCreateUser DEF Writes

LEMMA TypedNext == Typed /\ [Next]_vars => Typed'
<1> SUFFICES ASSUME Typed, [Next]_vars PROVE Typed'
  OBVIOUS
<1>1. CASE UNCHANGED vars
  BY <1>1 DEF vars, history, Typed, TypeOK, TxnShape, JournalOK
<1>2. QED
  BY <1>1, TypedWrites, TypedCommands, TypedSessions DEF Next

(* The users and auth_sessions tables stay well formed and every session   *)
(* row names a user row that exists, whatever transactions overlap.        *)
THEOREM AccountsWellFormed == Spec => []TypeOK
<1>1. Typed => TypeOK
  BY DEF Typed
<1>2. QED
  BY <1>1, TypedInit, TypedNext, PTL DEF Spec

-----------------------------------------------------------------------------
(* Ended sessions.  A session that ended is gone or revoked, and neither   *)
(* is ever undone: its id is not drawn again, and no step clears revoked.  *)
EndedRevoked == \A s \in ended : sessions[s] # Nil => sessions[s].revoked

LEMMA EndedNext == Typed /\ EndedRevoked /\ [Next]_vars => EndedRevoked'
<1> SUFFICES ASSUME Typed, EndedRevoked, [Next]_vars PROVE EndedRevoked'
  OBVIOUS
<1>1. ASSUME NEW q \in Request, CommitUpdate(q)
      PROVE  EndedRevoked'
  <2> DEFINE id == txn[q].row.id
  <2>1. CASE UNCHANGED <<sessions, ended>>
    BY <2>1 DEF EndedRevoked
  <2>2. CASE sessions' = Revoke(LiveOf(id)) /\ ended' = ended \cup LiveOf(id)
    <3>1. \A s \in LiveOf(id) : sessions'[s].revoked
      BY <2>2, RevokedRows DEF Typed, TypeOK, Revoke, SessionRow
    <3>2. \A s \in ended \ LiveOf(id) : sessions'[s] = sessions[s]
      BY <2>2 DEF Revoke, Typed
    <3>3. QED
      BY <2>2, <3>1, <3>2 DEF EndedRevoked
  <2>3. QED
    BY <1>1, <2>1, <2>2 DEF CommitUpdate, history
<1>2. ASSUME NEW q \in Request, CommitDelete(q)
      PROVE  EndedRevoked'
  <2> DEFINE id == txn[q].row.id
  <2>1. CASE UNCHANGED <<sessions, ended>>
    BY <2>1 DEF EndedRevoked
  <2>2. CASE /\ ended' = ended \cup LiveOf(id)
             /\ sessions' = [s \in Session |-> IF sessions[s] # Nil /\ sessions[s].user_id = id THEN Nil ELSE sessions[s]]
    BY <2>2 DEF EndedRevoked, LiveOf, Typed
  <2>3. QED
    BY <1>2, <2>1, <2>2 DEF CommitDelete
<1>3. ASSUME NEW s \in Session, NEW u \in User, create_session(s, u)
      PROVE  EndedRevoked'
  BY <1>3 DEF create_session, history, EndedRevoked, Typed, TypeOK
<1>4. ASSUME NEW s \in Session, revoke(s)
      PROVE  EndedRevoked'
  <2>1. sessions[s] \in SessionRow
    BY <1>4 DEF revoke, Typed, TypeOK
  <2>2. \A r \in Session : sessions'[r] = IF r = s THEN [sessions[s] EXCEPT !.revoked = TRUE] ELSE sessions[r]
    BY <1>4 DEF revoke, Revoke
  <2>3. QED
    BY <1>4, <2>1, <2>2 DEF revoke, history, EndedRevoked, Typed, SessionRow
<1>5. ASSUME NEW s \in Session, Expire(s)
      PROVE  EndedRevoked'
  <2>1. sessions[s] \in SessionRow
    BY <1>5 DEF Expire, Typed, TypeOK
  <2>2. \A r \in Session : sessions'[r] = IF r = s THEN [sessions[s] EXCEPT !.expired = TRUE] ELSE sessions[r]
    BY <1>5 DEF Expire, Typed, TypeOK
  <2>3. QED
    BY <1>5, <2>1, <2>2 DEF Expire, history, EndedRevoked, Typed, SessionRow
<1>6. CASE prune_sessions
  BY <1>6 DEF prune_sessions, EndedRevoked, Typed
<1>7. CASE UNCHANGED <<sessions, ended>>
  BY <1>7 DEF EndedRevoked
<1>8. ASSUME NEW q \in Request, Writes(q)
      PROVE  EndedRevoked'
  <2>1. CommitUpdate(q) \/ CommitDelete(q) \/ UNCHANGED <<sessions, ended>>
    BY <1>8 DEF Writes, BeginUpdate, BeginCreateUser, BeginDelete, SyncUser, CreateUser, history
  <2>2. QED
    BY <1>1, <1>2, <1>7, <2>1
<1>9. CASE Commands
  BY <1>7, <1>9 DEF Commands, restore_admin, reconcile_ownership, restore_ownership
<1>10. CASE UNCHANGED vars
  BY <1>7, <1>10 DEF vars, history
<1>11. QED
  BY <1>3, <1>4, <1>5, <1>6, <1>8, <1>9, <1>10 DEF Next, Sessions

(* A session that was live when its account was deactivated or deleted     *)
(* never resolves again, however transactions overlap, whether the account *)
(* is reactivated or its name used again.                                  *)
THEOREM EndedSessionsStayEnded == Spec => []EndedForGood
<1>1. Init => EndedRevoked
  BY DEF Init, EndedRevoked
<1>2. Typed /\ EndedRevoked => EndedForGood
  BY DEF Typed, EndedRevoked, EndedForGood, resolve
<1>3. QED
  BY <1>1, <1>2, TypedInit, TypedNext, EndedNext, PTL DEF Spec

-----------------------------------------------------------------------------
(* The administrator and the owner of a row.  update and delete decide on  *)
(* what they read and write later; what they read is still there, and the  *)
(* guard's answer still right, when nothing was written in between.        *)
Lowers(t) == t.pc = "delete" \/ t.change.active = FALSE \/ t.change.admin = FALSE

Alone(q) ==
  /\ users[txn[q].user] = txn[q].row
  /\ Lowers(txn[q]) => assert_not_last_active_admin(txn[q].user)
  /\ \A r \in Request : Pending(r) => r = q

Undisturbed == ~overlapped => \A q \in Request : Pending(q) => Alone(q)

(* The login's update sets is_admin alone, and without override. *)
SyncShape ==
  \A q \in Request : txn[q].pc \in {"sync", "create"} => txn[q].change.active = Nil /\ ~txn[q].override

Serial == Undisturbed /\ SyncShape /\ SerialWritesKeepAnAdmin

(* A step that notes the overlap and finds none began while nothing was    *)
(* between its reads and its commit.                                       *)
LEMMA NobodyPending ==
  ASSUME NoteOverlap, ~overlapped'
  PROVE  ~overlapped /\ \A q \in Request : ~Pending(q)
BY DEF NoteOverlap, Pending

LEMMA NoneAfter ==
  ASSUME NEW q \in Request, Typed, txn' = [txn EXCEPT ![q] = NoTxn], \A r \in Request \ {q} : ~Pending(r)
  PROVE  \A r \in Request : ~Pending(r)'
BY DEF Typed, Pending, NoTxn

(* Ending a transaction keeps what is known of the others. *)
LEMMA EndKeeps ==
  ASSUME Typed, SyncShape, NEW q \in Request, txn' = [txn EXCEPT ![q] = NoTxn]
  PROVE  SyncShape'
<1>1. NoTxn.pc = "idle"
  BY DEF NoTxn
<1>2. \A r \in Request : txn'[r] = IF r = q THEN NoTxn ELSE txn[r]
  BY DEF Typed
<1>3. QED
  BY <1>1, <1>2 DEF SyncShape

(* A step that begins a pending transaction, with the guards update and    *)
(* delete apply to what they have just read.                               *)
Begun(q) ==
  LET t == txn'[q] IN
  /\ txn' = [txn EXCEPT ![q] = t] /\ t.pc \in {"update", "delete"} /\ users[t.user] = t.row
  /\ Lowers(t) => assert_not_last_active_admin(t.user)
  /\ NoteOverlap /\ UNCHANGED users

LEMMA SerialBegin ==
  ASSUME Typed, Serial, NEW q \in Request, Begun(q)
  PROVE  Serial'
<1> DEFINE t == txn'[q]
<1>1. \A r \in Request : txn'[r] = IF r = q THEN t ELSE txn[r]
  BY DEF Typed, Begun
<1>2. Undisturbed'
  <2> SUFFICES ASSUME ~overlapped', NEW r \in Request, Pending(r)'
               PROVE  Alone(r)'
    BY DEF Undisturbed
  <2>1. r = q /\ \A s \in Request : Pending(s)' => s = q
    BY <1>1, NobodyPending DEF Pending, Begun
  <2>2. users'[txn'[q].user] = txn'[q].row
    BY <1>1 DEF Begun
  <2>4. Lowers(txn[q])' => assert_not_last_active_admin(txn[q].user)'
    BY DEF Begun, Lowers, assert_not_last_active_admin, ActiveAdmin
  <2>5. QED
    BY <2>1, <2>2, <2>4 DEF Alone
<1>3. SyncShape'
  BY <1>1 DEF Serial, SyncShape, Begun
<1>4. SerialWritesKeepAnAdmin'
  BY NobodyPending DEF Serial, SerialWritesKeepAnAdmin, SomeActiveAdmin, ActiveAdmin, Begun
<1>5. QED
  BY <1>2, <1>3, <1>4 DEF Serial

LEMMA SerialBegins ==
  ASSUME Typed, Serial, NEW q \in Request, Writes(q)
  PROVE  Serial' \/ CommitUpdate(q) \/ CommitDelete(q) \/ CreateUser(q)
<1>1. ASSUME NEW u \in User, NEW change \in Change, NEW w \in Source, NEW o \in BOOLEAN,
             BeginUpdate(q, u, change, w, o)
      PROVE  Serial'
  <2> DEFINE t == [pc |-> "update", user |-> u, row |-> users[u], change |-> change, writer |-> w, override |-> o]
  <2>1. t.pc = "update" /\ t.user = u /\ t.row = users[u] /\ t.change = change /\ t.writer = w /\ t.override = o
    OBVIOUS
  <2>2. txn' = [txn EXCEPT ![q] = t] /\ NoteOverlap /\ UNCHANGED users
    BY <1>1 DEF BeginUpdate
  <2>3. Lowers(t) => assert_not_last_active_admin(t.user)
    BY <1>1, <2>1 DEF BeginUpdate, Lowers
  <2>4. txn'[q] = t
    BY <2>2 DEF Typed
  <2> HIDE DEF t
  <2>5. Begun(q)
    BY <2>1, <2>2, <2>3, <2>4 DEF Begun
  <2>6. QED
    BY <2>5, SerialBegin
<1>2. ASSUME NEW u \in User, BeginDelete(q, u)
      PROVE  Serial'
  <2> DEFINE t == [NoTxn EXCEPT !.pc = "delete", !.user = u, !.row = users[u]]
  <2>1. t.pc = "delete" /\ t.user = u /\ t.row = users[u]
    BY DEF NoTxn
  <2>2. /\ txn' = [txn EXCEPT ![q] = t] /\ NoteOverlap /\ UNCHANGED users
        /\ assert_not_last_active_admin(u)
    BY <1>2 DEF BeginDelete
  <2>3. txn'[q] = t
    BY <2>2 DEF Typed
  <2> HIDE DEF t
  <2>4. Begun(q)
    BY <2>1, <2>2, <2>3 DEF Begun
  <2>5. QED
    BY <2>4, SerialBegin
<1>3. ASSUME NEW u \in User, NEW a \in BOOLEAN, NEW w \in Source, BeginCreateUser(q, u, a, w)
      PROVE  Serial'
  <2> DEFINE t == txn'[q]
  <2>1. t.pc \in {"sync", "create"} /\ t.change.active = Nil /\ ~t.override
    BY <1>3, NoTxnShaped DEF BeginCreateUser, Typed, NoTxn, Keep
  <2>2. \A r \in Request \ {q} : txn'[r] = txn[r]
    BY <1>3 DEF BeginCreateUser, Typed
  <2>3. UNCHANGED <<users, overlapped>>
    BY <1>3 DEF BeginCreateUser, history
  <2>4. ~Pending(q)' /\ \A r \in Request \ {q} : Pending(r)' => Pending(r)
    BY <2>1, <2>2 DEF Pending
  <2>5. Undisturbed'
    <3> SUFFICES ASSUME ~overlapped', NEW r \in Request, Pending(r)' PROVE Alone(r)'
      BY DEF Undisturbed
    <3>1. r # q /\ txn'[r] = txn[r] /\ Alone(r)
      BY <2>2, <2>3, <2>4 DEF Serial, Undisturbed
    <3>2. \A s \in Request : Pending(s)' => s = r
      BY <2>4, <3>1 DEF Alone
    <3>3. QED
      BY <2>3, <3>1, <3>2 DEF Alone, Lowers, assert_not_last_active_admin, ActiveAdmin
  <2>6. SyncShape'
    BY <2>1, <2>2 DEF Serial, SyncShape
  <2>7. SerialWritesKeepAnAdmin'
    BY <2>3 DEF Serial, SerialWritesKeepAnAdmin, SomeActiveAdmin, ActiveAdmin
  <2>8. QED
    BY <2>5, <2>6, <2>7 DEF Serial
<1>4. CASE SyncUser(q)
  <2> DEFINE t == txn[q]
  <2>0. TxnShape(t) /\ t.pc = "sync" /\ t.change.active = Nil /\ ~t.override
    BY <1>4 DEF SyncUser, Serial, SyncShape, Typed
  <2>1. CASE txn' = [txn EXCEPT ![q] = NoTxn] \/ txn' = [txn EXCEPT ![q] = [t EXCEPT !.pc = "create"]]
    <3>1. \A r \in Request \ {q} : txn'[r] = txn[r]
      BY <2>1 DEF Typed
    <3>2. txn'[q].pc = "idle" \/ (txn'[q].pc = "create" /\ txn'[q].change.active = Nil /\ ~txn'[q].override)
      BY <2>0, <2>1, NoTxnShaped DEF Typed, NoTxn, TxnShape, TxnState
    <3>3. SyncShape'
      BY <3>1, <3>2 DEF Serial, SyncShape
    <3>4. NoteOverlap /\ UNCHANGED users
      BY <1>4 DEF SyncUser
    <3>5. Undisturbed'
      BY <3>1, <3>2, <3>4, NobodyPending DEF Undisturbed, Pending
    <3>6. SerialWritesKeepAnAdmin'
      BY <3>4, NobodyPending DEF Serial, SerialWritesKeepAnAdmin, SomeActiveAdmin, ActiveAdmin
    <3>7. QED
      BY <3>3, <3>5, <3>6 DEF Serial
  <2>2. CASE /\ txn' = [txn EXCEPT ![q] = [t EXCEPT !.pc = "update", !.row = users[t.user]]]
             /\ t.change.admin = FALSE => assert_not_last_active_admin(t.user)
    <3> DEFINE n == [t EXCEPT !.pc = "update", !.row = users[t.user]]
    <3>1. /\ n.pc = "update" /\ n.user = t.user /\ n.row = users[t.user] /\ n.change = t.change
          /\ n.writer = t.writer /\ n.override = t.override
      BY <2>0 DEF TxnShape, TxnState
    <3> HIDE DEF n
    <3>2. Lowers(n) => assert_not_last_active_admin(n.user)
      BY <2>0, <2>2, <3>1, AccountAssumption DEF Lowers
    <3>3. NoteOverlap /\ UNCHANGED users /\ txn' = [txn EXCEPT ![q] = n]
      BY <1>4, <2>2 DEF SyncUser, n
    <3>4. txn'[q] = n
      BY <3>3 DEF Typed
    <3>5. Begun(q)
      BY <3>1, <3>2, <3>3, <3>4 DEF Begun
    <3>6. QED
      BY <3>5, SerialBegin
  <2>3. QED
    BY <1>4, <2>1, <2>2 DEF SyncUser
<1>5. QED
  BY <1>1, <1>2, <1>3, <1>4, ChangeTypes, AccountAssumption DEF Writes

(* A step after which nobody is pending, that keeps an administrator. *)
LEMMA SerialCommit ==
  ASSUME Typed, Serial, NEW q \in Request, txn' = [txn EXCEPT ![q] = NoTxn],
         ~overlapped' => \A r \in Request \ {q} : ~Pending(r),
         SerialWritesKeepAnAdmin'
  PROVE  Serial'
<1>1. Undisturbed'
  BY NoneAfter DEF Undisturbed
<1>2. QED
  BY <1>1, EndKeeps DEF Serial

LEMMA WrittenColumns ==
  ASSUME NEW row \in Row, NEW t, t.change \in Change, t.row = row
  PROVE  /\ t.change.admin # FALSE /\ row.admin => Written(t, row).admin
         /\ t.change.active # FALSE /\ row.active => Written(t, row).active
<1>1. /\ Written(t, row).admin = Column(t.change.admin, row.admin, row.admin)
      /\ Written(t, row).active = Column(t.change.active, row.active, row.active)
  BY DEF Written, Row
<1>2. QED
  BY <1>1 DEF Column, Change, Row

LEMMA SerialCommitUpdate ==
  ASSUME Typed, Serial, NEW q \in Request, CommitUpdate(q)
  PROVE  Serial'
<1> DEFINE t == txn[q]
<1>1. TxnShape(t) /\ t.pc = "update" /\ t.user \in User /\ t.change \in Change /\ t.row \in Row /\ Pending(q)
  BY DEF CommitUpdate, Typed, TxnShape, TxnState, Pending
<1>2. overlapped' = overlapped /\ txn' = [txn EXCEPT ![q] = NoTxn]
  BY DEF CommitUpdate, history
<1>3. ~overlapped => Alone(q)
  BY <1>1 DEF Serial, Undisturbed
<1>4. ~overlapped' => \A r \in Request \ {q} : ~Pending(r)
  BY <1>2, <1>3 DEF Alone
<1>5. SerialWritesKeepAnAdmin'
  <2> SUFFICES ASSUME ~overlapped, StillThere(t) PROVE SomeActiveAdmin'
    <3>1. CASE ~StillThere(t)
      BY <1>2, <3>1 DEF CommitUpdate, history, Serial, SerialWritesKeepAnAdmin, SomeActiveAdmin, ActiveAdmin
    <3>2. QED
      BY <1>2, <3>1 DEF SerialWritesKeepAnAdmin
  <2>1. users' = [users EXCEPT ![t.user] = Written(t, users[t.user])]
    BY DEF CommitUpdate
  <2>2. users[t.user] = t.row
    BY <1>3 DEF Alone
  <2>3. Written(t, t.row) \in Row
    BY <1>1, WrittenKeepsTypes
  <2>4. \A v \in User \ {t.user} : ActiveAdmin(v) => ActiveAdmin(v)'
    BY <2>1 DEF ActiveAdmin, Typed, TypeOK
  <2>5. CASE Lowers(t)
    BY <1>3, <2>4, <2>5 DEF Alone, assert_not_last_active_admin, Serial, SerialWritesKeepAnAdmin, SomeActiveAdmin
  <2>6. CASE ~Lowers(t)
    <3>1. t.row.admin => Written(t, t.row).admin
      BY <1>1, <2>6, WrittenColumns DEF Lowers
    <3>2. t.row.active => Written(t, t.row).active
      BY <1>1, <2>6, WrittenColumns DEF Lowers
    <3>3. users'[t.user] = Written(t, t.row)
      BY <1>1, <2>1, <2>2 DEF Typed, TypeOK
    <3>4. ActiveAdmin(t.user) => users'[t.user] # Nil /\ users'[t.user].admin /\ users'[t.user].active
      BY <2>2, <2>3, <3>1, <3>2, <3>3, NilIsNoRow DEF ActiveAdmin
    <3>5. \A v \in User : ActiveAdmin(v) => ActiveAdmin(v)'
      BY <2>4, <3>4 DEF ActiveAdmin
    <3>6. QED
      BY <3>5 DEF Serial, SerialWritesKeepAnAdmin, SomeActiveAdmin
  <2>7. QED
    BY <2>5, <2>6
<1>6. QED
  BY <1>2, <1>4, <1>5, SerialCommit

LEMMA SerialCommitDelete ==
  ASSUME Typed, Serial, NEW q \in Request, CommitDelete(q)
  PROVE  Serial'
<1> DEFINE t == txn[q]
<1>1. t.pc = "delete" /\ t.user \in User /\ Pending(q) /\ Lowers(t)
  BY DEF CommitDelete, Typed, TxnShape, Pending, Lowers
<1>2. overlapped' = overlapped /\ txn' = [txn EXCEPT ![q] = NoTxn]
  BY DEF CommitDelete
<1>3. ~overlapped => Alone(q)
  BY <1>1 DEF Serial, Undisturbed
<1>4. ~overlapped' => \A r \in Request \ {q} : ~Pending(r)
  BY <1>2, <1>3 DEF Alone
<1>5. \A v \in User \ {t.user} : ActiveAdmin(v) => ActiveAdmin(v)'
  BY <1>1 DEF CommitDelete, ActiveAdmin, Typed, TypeOK
<1>6. SerialWritesKeepAnAdmin'
  BY <1>1, <1>2, <1>3, <1>5 DEF Alone, assert_not_last_active_admin, Serial, SerialWritesKeepAnAdmin, SomeActiveAdmin
<1>7. QED
  BY <1>2, <1>4, <1>6, SerialCommit

LEMMA SerialCreateUser ==
  ASSUME Typed, Serial, NEW q \in Request, CreateUser(q)
  PROVE  Serial'
<1>1. NoteOverlap /\ txn' = [txn EXCEPT ![q] = NoTxn]
  BY DEF CreateUser
<1>2. ~overlapped' => ~overlapped /\ \A r \in Request \ {q} : ~Pending(r)
  BY <1>1, NobodyPending
<1>3. \A v \in User : ActiveAdmin(v) => ActiveAdmin(v)'
  BY DEF CreateUser, ActiveAdmin, Typed, TypeOK
<1>4. SerialWritesKeepAnAdmin'
  BY <1>1, <1>2, <1>3 DEF Serial, SerialWritesKeepAnAdmin, SomeActiveAdmin
<1>5. QED
  BY <1>1, <1>2, <1>4, SerialCommit

LEMMA SerialCommands ==
  ASSUME Typed, Serial, Commands
  PROVE  Serial'
<1>1. NoteOverlap /\ UNCHANGED txn
  BY DEF Commands, restore_admin, reconcile_ownership, restore_ownership
<1>2. Undisturbed'
  BY <1>1, NobodyPending DEF Undisturbed, Pending, Serial
<1>3. SyncShape'
  BY <1>1 DEF Serial, SyncShape
<1>4. \A v \in User : ActiveAdmin(v) => ActiveAdmin(v)'
  <2>1. ASSUME NEW u \in User, restore_admin(u)
        PROVE  \A v \in User : ActiveAdmin(v) => ActiveAdmin(v)'
    <3>1. \A v \in User \ {u} : users'[v] = users[v]
      BY <2>1 DEF restore_admin, Typed, TypeOK
    <3>2. users[u] \in Row
      BY <2>1 DEF restore_admin, Typed, TypeOK
    <3> DEFINE row == [users[u] EXCEPT !.admin = TRUE, !.active = TRUE, !.managed_by = "manual"]
    <3>3. users'[u] = row /\ row \in Row /\ row.admin /\ row.active
      BY <2>1, <3>2, AccountAssumption DEF restore_admin, Typed, TypeOK, Row
    <3> HIDE DEF row
    <3>4. users'[u] # Nil /\ users'[u].admin /\ users'[u].active
      BY <3>3, NilIsNoRow
    <3>5. QED
      BY <3>1, <3>4 DEF ActiveAdmin
  <2>2. ASSUME NEW v \in User, NEW o \in Source, ActiveAdmin(v), users'[v] = [users[v] EXCEPT !.managed_by = o]
        PROVE  users'[v] # Nil /\ users'[v].admin /\ users'[v].active
    <3>1. users[v] \in Row /\ users[v].admin /\ users[v].active
      BY <2>2 DEF ActiveAdmin, Typed, TypeOK
    <3> DEFINE row == [users[v] EXCEPT !.managed_by = o]
    <3>2. row \in Row /\ row.admin = users[v].admin /\ row.active = users[v].active
      BY <3>1 DEF Row
    <3> HIDE DEF row
    <3>3. QED
      BY <2>2, <3>1, <3>2, NilIsNoRow DEF row
  <2>3. ASSUME NEW f \in Source, NEW o \in Source, reconcile_ownership(f, o)
        PROVE  \A v \in User : ActiveAdmin(v) => ActiveAdmin(v)'
    <3>1. \A v \in User : users'[v] = users[v] \/ users'[v] = [users[v] EXCEPT !.managed_by = o]
      BY <2>3 DEF reconcile_ownership
    <3>2. QED
      BY <2>2, <3>1 DEF ActiveAdmin
  <2>4. ASSUME restore_ownership
        PROVE  \A v \in User : ActiveAdmin(v) => ActiveAdmin(v)'
    <3>1. ASSUME NEW v \in User
          PROVE  \/ users'[v] = users[v]
                 \/ \E o \in Source : users'[v] = [users[v] EXCEPT !.managed_by = o]
      BY <2>4 DEF restore_ownership, Restorable, Typed, JournalOK
    <3>2. QED
      BY <2>2, <3>1 DEF ActiveAdmin
  <2>5. QED
    BY <2>1, <2>3, <2>4 DEF Commands
<1>5. SerialWritesKeepAnAdmin'
  BY <1>1, <1>4, NobodyPending DEF Serial, SerialWritesKeepAnAdmin, SomeActiveAdmin
<1>6. QED
  BY <1>2, <1>3, <1>5 DEF Serial

LEMMA SerialSame ==
  ASSUME Serial, UNCHANGED <<users, txn, overlapped>>
  PROVE  Serial'
BY DEF Serial, Undisturbed, Pending, Alone, Lowers, assert_not_last_active_admin, ActiveAdmin, SyncShape,
       SerialWritesKeepAnAdmin, SomeActiveAdmin

LEMMA SerialInit == Init => Serial
<1> SUFFICES ASSUME Init PROVE Serial
  OBVIOUS
<1>1. NoTxn.pc = "idle"
  BY DEF NoTxn
<1>2. \A q \in Request : txn[q].pc = "idle"
  BY <1>1 DEF Init
<1>3. Undisturbed /\ SyncShape
  BY <1>2 DEF Undisturbed, Pending, SyncShape
<1>4. SomeActiveAdmin
  <2> DEFINE row == [id |-> 1, admin |-> TRUE, active |-> TRUE, managed_by |-> "manual"]
  <2>1. PICK a \in User : users = [u \in User |-> IF u = a THEN row ELSE Nil]
    BY DEF Init
  <2>2. row \in Row /\ row.admin /\ row.active
    BY AccountAssumption DEF Row
  <2> HIDE DEF row
  <2>3. users[a] = row
    BY <2>1
  <2>4. QED
    BY <2>2, <2>3, NilIsNoRow DEF SomeActiveAdmin, ActiveAdmin
<1>5. QED
  BY <1>3, <1>4 DEF Init, Serial, SerialWritesKeepAnAdmin

LEMMA SerialNext == Typed /\ Serial /\ [Next]_vars => Serial'
<1> SUFFICES ASSUME Typed, Serial, [Next]_vars PROVE Serial'
  OBVIOUS
<1>1. Sessions \/ UNCHANGED vars => UNCHANGED <<users, txn, overlapped>>
  BY DEF Sessions, create_session, revoke, Expire, prune_sessions, vars, history
<1>2. QED
  BY <1>1, SerialSame, SerialCommands, SerialBegins, SerialCommitUpdate, SerialCommitDelete, SerialCreateUser DEF Next

(* Without overlapping writes, whatever demotions, deactivations,          *)
(* deletions, logins and commands follow one another, the guard of         *)
(* repository/user.py keeps an active administrator.                       *)
THEOREM SerialKeepsAnAdmin == Spec => []SerialWritesKeepAnAdmin
<1>1. Serial => SerialWritesKeepAnAdmin
  BY DEF Serial
<1>2. QED
  BY <1>1, TypedInit, TypedNext, SerialInit, SerialNext, PTL DEF Spec

-----------------------------------------------------------------------------
(* Only the ownership route, which overrides, asks for another owner. *)
Overridden == \A q \in Request : txn[q].change.managed_by # Nil => txn[q].override

LEMMA OverriddenInit == Init => Overridden
BY DEF Init, Overridden, NoTxn, Keep

LEMMA OverriddenStep ==
  ASSUME Typed, Overridden, NEW q \in Request, NEW t, txn' = [txn EXCEPT ![q] = t],
         t.change.managed_by # Nil => t.override
  PROVE  Overridden'
BY DEF Typed, Overridden

LEMMA OverriddenNext == Typed /\ Overridden /\ [Next]_vars => Overridden'
<1> SUFFICES ASSUME Typed, Overridden, [Next]_vars PROVE Overridden'
  OBVIOUS
<1>1. CASE UNCHANGED txn
  BY <1>1 DEF Overridden
<1>2. ASSUME NEW q \in Request, Writes(q) PROVE Overridden'
  <2>1. NoTxn.change.managed_by = Nil
    BY DEF NoTxn, Keep
  <2>2. CASE txn' = [txn EXCEPT ![q] = NoTxn]
    BY <2>1, <2>2, OverriddenStep
  <2>3. CASE \E u \in User, o \in Source : BeginUpdate(q, u, [Keep EXCEPT !.managed_by = o], "manual", TRUE)
    <3>1. PICK u \in User, o \in Source : BeginUpdate(q, u, [Keep EXCEPT !.managed_by = o], "manual", TRUE)
      BY <2>3
    <3> DEFINE t == [pc |-> "update", user |-> u, row |-> users[u], change |-> [Keep EXCEPT !.managed_by = o],
                     writer |-> "manual", override |-> TRUE]
    <3>2. txn' = [txn EXCEPT ![q] = t] /\ t.override
      BY <3>1 DEF BeginUpdate
    <3> HIDE DEF t
    <3>3. QED
      BY <3>2, OverriddenStep
  <2>4. CASE \E u \in User, a \in BOOLEAN, w \in Source : BeginUpdate(q, u, [Keep EXCEPT !.active = a], w, FALSE)
    <3>1. PICK u \in User, a \in BOOLEAN, w \in Source : BeginUpdate(q, u, [Keep EXCEPT !.active = a], w, FALSE)
      BY <2>4
    <3> DEFINE t == [pc |-> "update", user |-> u, row |-> users[u], change |-> [Keep EXCEPT !.active = a],
                     writer |-> w, override |-> FALSE]
    <3>2. txn' = [txn EXCEPT ![q] = t] /\ t.change.managed_by = Nil
      BY <3>1 DEF BeginUpdate, Keep
    <3> HIDE DEF t
    <3>3. QED
      BY <3>2, OverriddenStep
  <2>5. CASE \E u \in User, a \in BOOLEAN, w \in Source : BeginCreateUser(q, u, a, w)
    <3>1. PICK u \in User, a \in BOOLEAN, w \in Source : BeginCreateUser(q, u, a, w)
      BY <2>5
    <3> DEFINE t == [NoTxn EXCEPT !.pc = IF users[u] # Nil THEN "sync" ELSE "create", !.user = u,
                                  !.change = [Keep EXCEPT !.admin = a], !.writer = w]
    <3>2. txn' = [txn EXCEPT ![q] = t] /\ t.change.managed_by = Nil
      BY <3>1 DEF BeginCreateUser, NoTxn, Keep
    <3> HIDE DEF t
    <3>3. QED
      BY <3>2, OverriddenStep
  <2>6. CASE \E u \in User : BeginDelete(q, u)
    <3>1. PICK u \in User : BeginDelete(q, u)
      BY <2>6
    <3> DEFINE t == [NoTxn EXCEPT !.pc = "delete", !.user = u, !.row = users[u]]
    <3>2. txn' = [txn EXCEPT ![q] = t] /\ t.change.managed_by = Nil
      BY <3>1 DEF BeginDelete, NoTxn, Keep
    <3> HIDE DEF t
    <3>3. QED
      BY <3>2, OverriddenStep
  <2>7. CASE SyncUser(q)
    <3>1. PICK p, row : txn' = [txn EXCEPT ![q] = NoTxn] \/ txn' = [txn EXCEPT ![q] = [txn[q] EXCEPT !.pc = p, !.row = row]]
                        \/ txn' = [txn EXCEPT ![q] = [txn[q] EXCEPT !.pc = p]]
      BY <2>7 DEF SyncUser
    <3>2. txn[q] \in TxnState /\ (txn[q].change.managed_by # Nil => txn[q].override)
      BY DEF Typed, Overridden
    <3> DEFINE a == [txn[q] EXCEPT !.pc = p, !.row = row]
               b == [txn[q] EXCEPT !.pc = p]
    <3>3. a.change = txn[q].change /\ a.override = txn[q].override /\ b.change = txn[q].change /\ b.override = txn[q].override
      BY <3>2 DEF TxnState
    <3>4. txn' = [txn EXCEPT ![q] = NoTxn] \/ txn' = [txn EXCEPT ![q] = a] \/ txn' = [txn EXCEPT ![q] = b]
      BY <3>1
    <3> HIDE DEF a, b
    <3>5. QED
      BY <2>2, <3>2, <3>3, <3>4, OverriddenStep
  <2>8. CASE CommitUpdate(q) \/ CommitDelete(q) \/ CreateUser(q)
    BY <2>2, <2>8 DEF CommitUpdate, CommitDelete, CreateUser
  <2>9. QED
    BY <1>2, <2>3, <2>4, <2>5, <2>6, <2>7, <2>8 DEF Writes
<1>3. Commands \/ Sessions \/ UNCHANGED vars => UNCHANGED txn
  BY DEF Commands, restore_admin, reconcile_ownership, restore_ownership, Sessions, create_session, revoke, Expire,
         prune_sessions, vars
<1>4. QED
  BY <1>1, <1>2, <1>3 DEF Next

LEMMA WrittenOnDemand ==
  ASSUME NEW t, NEW row \in Row, NEW column \in {"admin", "active", "managed_by"}
  PROVE  \/ Written(t, row)[column] = row[column]
         \/ t.change[column] # Nil /\ Written(t, row)[column] = t.change[column]
<1>1. /\ Written(t, row).admin = Column(t.change.admin, t.row.admin, row.admin)
      /\ Written(t, row).active = Column(t.change.active, t.row.active, row.active)
      /\ Written(t, row).managed_by = Column(t.change.managed_by, t.row.managed_by, row.managed_by)
  BY DEF Written, Row
<1>2. CASE column = "admin"
  BY <1>1, <1>2 DEF Column
<1>3. CASE column = "active"
  BY <1>1, <1>3 DEF Column
<1>4. CASE column = "managed_by"
  BY <1>1, <1>4 DEF Column
<1>5. QED
  BY <1>2, <1>3, <1>4

LEMMA CommitsOnDemand ==
  ASSUME Typed, Overridden, NEW q \in Request, CommitUpdate(q), NEW u \in User
  PROVE  OnDemand(u)
<1> DEFINE t == txn[q]
<1>1. t.pc = "update" /\ t.user \in User /\ txn'[q].pc = "idle" /\ (t.change.managed_by # Nil => t.override)
  BY DEF CommitUpdate, Typed, TxnShape, Overridden, NoTxn
<1>2. CASE ~StillThere(t) \/ u # t.user
  BY <1>1, <1>2 DEF CommitUpdate, OnDemand, Typed, TypeOK
<1>3. CASE StillThere(t) /\ u = t.user
  <2>1. users'[u] = Written(t, users[u]) /\ users[u] \in Row
    BY <1>1, <1>3 DEF CommitUpdate, StillThere, Typed, TypeOK
  <2>2. ASSUME NEW column \in {"admin", "active", "managed_by"}
        PROVE  users'[u][column] = users[u][column] \/ Asks(q, u, column)
    <3>1. \/ Written(t, users[u])[column] = users[u][column]
          \/ t.change[column] # Nil /\ Written(t, users[u])[column] = t.change[column]
      BY <2>1, WrittenOnDemand
    <3>2. column = "managed_by" => t.change[column] = t.change.managed_by
      OBVIOUS
    <3>3. QED
      BY <1>1, <1>3, <2>1, <3>1, <3>2 DEF Asks
  <2>3. QED
    BY <2>2 DEF OnDemand
<1>4. QED
  BY <1>2, <1>3

(* repository/user.py: whatever transactions overlap, an account's columns *)
(* change only to what the committing writer asked for, or by a database   *)
(* command, and its owner only with override.                              *)
THEOREM StaleCopiesStayUnwritten == Spec => ColumnsChangeOnDemand
<1>1. Typed /\ Overridden /\ [Next]_vars => [\A u \in User : OnDemand(u)]_vars
  <2> SUFFICES ASSUME Typed, Overridden, Next, NEW u \in User PROVE OnDemand(u)
    BY DEF OnDemand
  <2>1. CASE Commands
    BY <2>1 DEF OnDemand
  <2>2. CASE UNCHANGED users
    BY <2>2 DEF OnDemand
  <2>3. ASSUME NEW q \in Request, CommitDelete(q) \/ CreateUser(q) PROVE OnDemand(u)
    <3>1. users[u] = Nil \/ users'[u] = Nil \/ users'[u] = users[u]
      BY <2>3 DEF CommitDelete, CreateUser, Typed, TypeOK
    <3>2. QED
      BY <3>1 DEF OnDemand
  <2>4. ASSUME NEW q \in Request, Writes(q)
        PROVE  CommitUpdate(q) \/ CommitDelete(q) \/ CreateUser(q) \/ UNCHANGED users
    BY <2>4 DEF Writes, BeginUpdate, BeginCreateUser, BeginDelete, SyncUser
  <2>5. Sessions => UNCHANGED users
    BY DEF Sessions, create_session, revoke, Expire, prune_sessions
  <2>6. QED
    BY <2>1, <2>2, <2>3, <2>4, <2>5, CommitsOnDemand DEF Next
<1>2. QED
  BY <1>1, TypedInit, TypedNext, OverriddenInit, OverriddenNext, PTL DEF Spec, ColumnsChangeOnDemand
=============================================================================
