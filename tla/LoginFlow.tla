----------------------------- MODULE LoginFlow -----------------------------
(***************************************************************************)
(* Browser login with several identity providers: routers/auth.py from     *)
(* _begin_login to the session, repository/auth_state.py,                  *)
(* identity_resolution.py, provisioning_policy.py and                      *)
(* repository/user_identity.py.                                            *)
(*                                                                         *)
(* A callback is a chain of transactions with an await (the code exchange) *)
(* in it: read and claim the attempt, exchange, resolve the identity,      *)
(* apply the provisioning policy, create or update the user, bind the      *)
(* identity (its checks, then its insert), open the session.  Two          *)
(* callbacks may be at any two of these steps.                             *)
(*                                                                         *)
(* An identity is a claim: provider, subject (Nil when the provider sends  *)
(* none), derived username, and whether its email passes every test of     *)
(* _resolve_by_email (present, verified, one address, allowed domain,      *)
(* equal to the derived username).  claimedBy, overlapped and disturbed    *)
(* are history.                                                            *)
(***************************************************************************)
EXTENDS Integers, FiniteSets

CONSTANTS Provider, DEFAULT_PROVIDER_ID, State, Flow, Browser, User, Subject, Nil,
          identity_binding, \* "subject" or "email", per provider
          provisioning,     \* "jit" or another mode, per provider
          admin_source,     \* "claims" or "none", per provider
          Claims,           \* the identities the providers can assert
          MaxUid, MaxDeletes, MaxFailures

ASSUME LoginAssumption ==
  /\ DEFAULT_PROVIDER_ID \in Provider
  /\ identity_binding \in [Provider -> {"subject", "email"}]
  /\ DOMAIN provisioning = Provider /\ DOMAIN admin_source = Provider
  /\ Claims \subseteq [provider : Provider, subject : Subject \cup {Nil}, username : User, email : BOOLEAN]
  /\ MaxUid \in Nat /\ MaxDeletes \in Nat /\ MaxFailures \in Nat
  /\ Nil \notin [provider : Provider, status : {"open", "expired", "gone"}]

VARIABLES attempts,  \* auth_state: the row of each state value
          users,     \* the id of each user row, 0 when there is none
          bindings,  \* user_identities rows
          sessions,  \* live auth_sessions rows, with the identity that logged in
          flow,      \* the callback each handler is in
          cookie,    \* what the browser's cookie carries
          nextUid, deletes, failures,
          claimedBy, \* handlers that took each attempt
          overlapped,\* two callbacks were between the checks and the insert of link
          disturbed  \* the attempts whose callback an account's deletion overlapped

history == <<claimedBy, overlapped, disturbed>>
vars == <<attempts, users, bindings, sessions, flow, cookie, nextUid, deletes, failures, history>>

NoCookie == [session |-> Nil, refresh |-> Nil]
Resting == [pc |-> "idle", state |-> Nil, path |-> Nil, browser |-> Nil, carried |-> NoCookie,
            claim |-> Nil, decision |-> Nil, user |-> Nil, create |-> FALSE, uid |-> 0]

Init ==
  /\ attempts = [st \in State |-> Nil]
  /\ \E old \in SUBSET User : users = [u \in User |-> IF u \in old THEN 1 ELSE 0]
  /\ Cardinality({u \in User : users[u] = 1}) <= 1
  /\ bindings = {} /\ sessions = {}
  /\ flow = [f \in Flow |-> Resting] /\ cookie = [b \in Browser |-> NoCookie]
  /\ nextUid = 2 /\ deletes = 0 /\ failures = 0
  /\ claimedBy = [st \in State |-> {}]
  /\ overlapped = FALSE /\ disturbed = {}

Row(st) == attempts[st] # Nil /\ attempts[st].status # "gone"

-----------------------------------------------------------------------------
(* Attempts. *)

(* _begin_login records the provider it redirects to. *)
BeginLogin(st, p) ==
  /\ attempts[st] = Nil
  /\ attempts' = [attempts EXCEPT ![st] = [provider |-> p, status |-> "open"]]
  /\ UNCHANGED <<users, bindings, sessions, flow, cookie, nextUid, deletes, failures, history>>

ExpireAttempt(st) ==
  /\ Row(st) /\ attempts[st].status = "open"
  /\ attempts' = [attempts EXCEPT ![st].status = "expired"]
  /\ UNCHANGED <<users, bindings, sessions, flow, cookie, nextUid, deletes, failures, history>>

(* consume: the read, by a callback that arrives at the path of provider p *)
(* (the unscoped path is the default provider's).                          *)
ReadAttempt(f, st, p, b) ==
  /\ flow[f].pc = "idle" /\ Row(st)
  /\ flow' = [flow EXCEPT ![f] = [Resting EXCEPT !.pc = "seen", !.state = st, !.path = p,
                                                 !.browser = b, !.carried = cookie[b]]]
  /\ UNCHANGED <<attempts, users, bindings, sessions, cookie, nextUid, deletes, failures, history>>

(* consume: the delete.  Only the handler whose delete matched the row has *)
(* the attempt; it goes on unless the attempt had expired or came back at  *)
(* another provider's path, and then retires the login the browser carried.*)
TakeUnclaimed(f) == TRUE
TakesAttempt(f) == Row(flow[f].state)

RetireSessionOnly(w) == [w EXCEPT !.pc = "claimed", !.carried.session = Nil]
retire_previous_login(w) == [w EXCEPT !.pc = "claimed", !.carried = NoCookie]

ClaimAttempt(f) ==
  LET w == flow[f]
      st == w.state
      accepted == /\ TakesAttempt(f) /\ attempts[st].status # "expired"
                  /\ attempts[st].provider = w.path IN
  /\ w.pc = "seen"
  /\ attempts' = [attempts EXCEPT ![st].status = "gone"]
  /\ flow' = [flow EXCEPT ![f] = IF accepted THEN retire_previous_login(w) ELSE Resting]
  /\ \E revoked \in BOOLEAN :                           \* best effort
       sessions' = IF accepted /\ revoked THEN {s \in sessions : s.id # w.carried.session} ELSE sessions
  /\ claimedBy' = [claimedBy EXCEPT ![st] = IF accepted THEN @ \cup {f} ELSE @]
  /\ UNCHANGED <<users, bindings, cookie, nextUid, deletes, failures, overlapped, disturbed>>

-----------------------------------------------------------------------------
(* The login fails with errors: what is left of the cookie goes back. *)
Refuse(f) ==
  /\ flow' = [flow EXCEPT ![f] = Resting]
  /\ cookie' = [cookie EXCEPT ![flow[f].browser] = flow[f].carried]
  /\ UNCHANGED <<attempts, users, bindings, sessions, nextUid, deletes, history>>

(* An exception at any database or provider call ends the login. *)
Fail(f) ==
  /\ flow[f].pc \notin {"idle", "seen"}
  /\ failures < MaxFailures /\ failures' = failures + 1
  /\ Refuse(f)

GoOn(f, w) ==
  /\ flow' = [flow EXCEPT ![f] = w]
  /\ overlapped' = (overlapped \/ (w.pc = "linking" /\ \E g \in Flow : flow[g].pc = "linking"))
  /\ UNCHANGED <<attempts, sessions, cookie, deletes, failures, claimedBy, disturbed>>

(* The code exchange at the attempt's provider yields an identity there. A *)
(* missing subject is only accepted from the default provider.             *)
Exchange(f, c) ==
  /\ flow[f].pc = "claimed" /\ c.provider = attempts[flow[f].state].provider
  /\ IF c.subject # Nil \/ c.provider = DEFAULT_PROVIDER_ID
     THEN GoOn(f, [flow[f] EXCEPT !.pc = "exchanged", !.claim = c]) /\ UNCHANGED <<users, bindings, nextUid>>
     ELSE Refuse(f) /\ UNCHANGED failures

BoundTo(p, s) == {u \in User : users[u] # 0 /\ \E b \in bindings :
                                 b.provider = p /\ b.subject = s /\ b.uid = users[u]}
list_providers_for_username(u) == {b.provider : b \in {x \in bindings : x.uid = users[u]}}

(* resolve_identity: a bound identity wins; email binding links an         *)
(* existing account no other provider is bound to; else a new principal.   *)
resolve_identity(c) ==
  IF c.subject = Nil THEN "CREATE"
  ELSE IF BoundTo(c.provider, c.subject) # {} THEN "MATCHED"
  ELSE IF identity_binding[c.provider] = "subject" THEN "CREATE"
  ELSE IF ~c.email THEN "REFUSED"
  ELSE IF users[c.username] = 0 THEN "CREATE"
  ELSE IF list_providers_for_username(c.username) \ {c.provider} # {} THEN "REFUSED"
  ELSE "LINK"

ResolveIdentity(f) ==
  LET c == flow[f].claim
      d == resolve_identity(c) IN
  /\ flow[f].pc = "exchanged"
  /\ IF d = "REFUSED" THEN Refuse(f) /\ UNCHANGED failures
     ELSE /\ \E u \in IF d = "MATCHED" THEN BoundTo(c.provider, c.subject) ELSE {c.username} :
               GoOn(f, [flow[f] EXCEPT !.pc = "resolved", !.decision = d, !.user = u])
          /\ UNCHANGED <<users, bindings, nextUid>>

(* apply_provisioning_policy: a name that is taken is adopted by the       *)
(* default provider alone, and only if no other provider is bound to it.   *)
MayAdopt(p, u) == p = DEFAULT_PROVIDER_ID /\ list_providers_for_username(u) \ {p} = {}

ApplyPolicy(f) ==
  LET w == flow[f]
      p == w.claim.provider
      taken == users[w.user] # 0
      allowed == \/ w.decision \in {"MATCHED", "LINK"}
                 \/ taken /\ MayAdopt(p, w.user)
                 \/ ~taken /\ provisioning[p] = "jit" IN
  /\ w.pc = "resolved"
  /\ IF ~allowed THEN Refuse(f) /\ UNCHANGED failures
     ELSE /\ GoOn(f, [w EXCEPT !.pc = "allowed", !.create = w.decision = "CREATE" /\ ~taken])
          /\ UNCHANGED <<users, bindings, nextUid>>

(* create_user, when the account is new or the provider decides who is an  *)
(* administrator: it creates the row if there is none at that moment.      *)
Provision(f) ==
  LET w == flow[f]
      calls == w.create \/ admin_source[w.claim.provider] = "claims" IN
  /\ w.pc = "allowed"
  /\ GoOn(f, [w EXCEPT !.pc = "provisioned"])
  /\ UNCHANGED bindings
  /\ IF ~calls \/ users[w.user] # 0 THEN UNCHANGED <<users, nextUid>>
     ELSE /\ nextUid <= MaxUid /\ nextUid' = nextUid + 1
          /\ users' = [users EXCEPT ![w.user] = nextUid]

(* link: its reads.  The pair may be bound already; another user's pair    *)
(* and a user of another provider are refused.                             *)
AllowsSecond(c, u) == TRUE
MayBind(c, u) == list_providers_for_username(u) \ {c.provider} = {}

LinkBestEffort(f) ==
  /\ flow[f].pc = "provisioned"
  /\ GoOn(f, [flow[f] EXCEPT !.uid = users[flow[f].user], !.pc =
       IF flow[f].claim.subject # Nil /\ users[flow[f].user] # 0 /\ MayBind(flow[f].claim, flow[f].user)
       THEN "linking" ELSE "linked"])
  /\ UNCHANGED <<users, bindings, nextUid>>
CheckLink(f) ==
  LET w == flow[f]
      c == w.claim
      bound == BoundTo(c.provider, c.subject) IN
  /\ w.pc = "provisioned"
  /\ IF c.subject = Nil \/ bound = {w.user}
     THEN GoOn(f, [w EXCEPT !.pc = "linked"]) /\ UNCHANGED <<users, bindings, nextUid>>
     ELSE IF users[w.user] # 0 /\ bound = {} /\ MayBind(c, w.user)
     THEN GoOn(f, [w EXCEPT !.pc = "linking", !.uid = users[w.user]]) /\ UNCHANGED <<users, bindings, nextUid>>
     ELSE Refuse(f) /\ UNCHANGED failures

(* link: the insert of the row that was read.  (provider, subject) is      *)
(* unique, and the user row must still exist.                              *)
WriteLink(f) ==
  LET w == flow[f]
      c == w.claim IN
  /\ w.pc = "linking"
  /\ IF users[w.user] # w.uid \/ BoundTo(c.provider, c.subject) # {}
     THEN Refuse(f) /\ UNCHANGED failures
     ELSE /\ bindings' = bindings \cup {[provider |-> c.provider, subject |-> c.subject, uid |-> w.uid]}
          /\ GoOn(f, [w EXCEPT !.pc = "linked"])
          /\ UNCHANGED <<users, nextUid>>

(* _persist_session_auth and _open_server_session: the response may carry  *)
(* a refresh token; without one the cookie keeps what it carried.          *)
OpenSession(f, refreshed) ==
  LET w == flow[f]
      sid == <<w.state, w.claim>> IN
  /\ w.pc = "linked"
  /\ flow' = [flow EXCEPT ![f] = Resting]
  /\ IF users[w.user] = 0
     THEN cookie' = [cookie EXCEPT ![w.browser] = NoCookie] /\ UNCHANGED sessions
     ELSE /\ sessions' = sessions \cup {[id |-> sid, uid |-> users[w.user]]}
          /\ cookie' = [cookie EXCEPT ![w.browser] =
               [session |-> sid, refresh |-> IF refreshed THEN w.claim ELSE w.carried.refresh]]
  /\ UNCHANGED <<attempts, users, bindings, nextUid, deletes, failures, history>>

(* An administrator deletes an account, with its bindings and sessions. *)
DeleteUser(u) ==
  /\ users[u] # 0 /\ deletes < MaxDeletes
  /\ deletes' = deletes + 1
  /\ users' = [users EXCEPT ![u] = 0]
  /\ bindings' = {b \in bindings : b.uid # users[u]}
  /\ sessions' = {s \in sessions : s.uid # users[u]}
  /\ disturbed' = disturbed \cup {flow[f].state : f \in {g \in Flow : flow[g].pc # "idle"}}
  /\ UNCHANGED <<attempts, flow, cookie, nextUid, failures, claimedBy, overlapped>>

Callback(f) ==
  \/ \E st \in State, p \in Provider, b \in Browser : ReadAttempt(f, st, p, b)
  \/ ClaimAttempt(f)
  \/ \E c \in Claims : Exchange(f, c)
  \/ ResolveIdentity(f) \/ ApplyPolicy(f) \/ Provision(f) \/ CheckLink(f) \/ WriteLink(f)
  \/ \E refreshed \in BOOLEAN : OpenSession(f, refreshed)
  \/ Fail(f)

Next ==
  \/ \E st \in State, p \in Provider : BeginLogin(st, p)
  \/ \E st \in State : ExpireAttempt(st)
  \/ \E f \in Flow : Callback(f)
  \/ \E u \in User : DeleteUser(u)

Spec == Init /\ [][Next]_vars

-----------------------------------------------------------------------------
(* A login attempt is used by one callback at most, however many arrive    *)
(* with its state at once.                                                 *)
AttemptUsedOnce == \A st \in State : Cardinality(claimedBy[st]) <= 1

(* Every live session belongs to an account its identity is bound to, so a *)
(* provider never reaches an account by what its tokens say; only the      *)
(* default provider may log in without a subject to bind.  (A callback     *)
(* during which the account is deleted finds its name anew afterwards.)    *)
SessionsAreBound ==
  \A s \in sessions :
    LET c == s.id[2] IN
    IF c.subject = Nil THEN c.provider = DEFAULT_PROVIDER_ID
    ELSE \/ [provider |-> c.provider, subject |-> c.subject, uid |-> s.uid] \in bindings
         \/ s.id[1] \in disturbed

(* No account is bound to two providers, as long as no two callbacks are   *)
(* between the checks and the insert of link at once.                      *)
OneProviderPerUser ==
  ~overlapped => \A b, c \in bindings : b.uid = c.uid => b.provider = c.provider

(* A cookie's refresh token is the one of the identity whose session the   *)
(* cookie names: a login never inherits its predecessor's.                 *)
CookieOwnsItsTokens ==
  \A b \in Browser : cookie[b].session # Nil => cookie[b].refresh \in {Nil, cookie[b].session[2]}

=============================================================================
