----------------------- MODULE RequestAuthentication -----------------------
(***************************************************************************)
(* AuthMiddleware: how a request becomes a user, or is turned away.  One   *)
(* account; a browser whose cookie holds the session id, the expiry the    *)
(* identity provider gave and the refresh token; API clients with basic    *)
(* and bearer credentials.  The middleware runs on the event loop, which   *)
(* takes one step of one request at a time and blocks while the store is   *)
(* initialised; it awaits the basic-auth worker and the provider's token   *)
(* endpoint, and everything may happen meanwhile.  A response carries the  *)
(* session of its request back into the browser's cookie, whatever another *)
(* response put there in between.                                          *)
(*   entitled, overlapped, failed, vouched, loggedOut are history.         *)
(***************************************************************************)
EXTENDS LazyStore, KeyCache

CONSTANTS Request, loop, worker,
          Sid,               \* server-side session ids, in the order they are used
          Never,             \* no expires_at
          DefaultProvider,
          Lifetime, Leeway,
          Scenarios          \* the deployment, and bounds on what happens in it

ASSUME AuthAssumption ==
  /\ Thread = {loop, worker} /\ loop # worker
  /\ Sid \subseteq Nat \ {0} /\ Never \notin Nat /\ Lifetime \in Nat \ {0} /\ Leeway \in Nat
  /\ DefaultProvider \in Provider
  /\ Nil \notin [provider : Provider, n : Nat]
  /\ Nil \notin [expires_at : Nat \cup {Never}, refresh_token : [provider : Provider, n : Nat] \cup {Nil}]
  /\ Scenarios \subseteq [credentials : SUBSET {"session", "basic", "bearer"}, provider : Provider,
                          rotating : BOOLEAN,     \* the provider rotates refresh tokens
                          refresh : BOOLEAN,      \* OIDC_USE_REFRESH_TOKEN
                          logouts : BOOLEAN, faults : BOOLEAN, overlap : BOOLEAN,
                          logins : Nat, arrivals : Nat, ticks : Nat, changes : Nat]

VARIABLES scenario,
          account,           \* the columns is_admin and active of the user's row
          sessions,          \* the rows of the sessions table: "unused", "live", "ended"
          cookie,            \* the browser's
          accepts,           \* refresh tokens the default provider's token endpoint accepts
          issued,            \* how many it has issued
          req, entitled, overlapped, failed, vouched, loggedOut,
          arrivals, changes

database == <<account, sessions>>
idp == <<accepts, issued>>
history == <<overlapped, failed, vouched, loggedOut>>
bounds == <<arrivals, changes>>
vars == <<lazy, keys, now, scenario, database, cookie, idp, req, entitled, history, bounds>>

-----------------------------------------------------------------------------
Empty == [sid |-> 0, expires_at |-> Never, refresh_token |-> Nil]
Fresh == [phase |-> "idle", credential |-> "session", logout |-> FALSE,
          session |-> Empty, had |-> FALSE,            \* request.session, and whether it came with one
          is_admin |-> FALSE, is_active |-> FALSE,     \* the resolved row
          answer |-> Nil,                              \* of the token endpoint
          token |-> Nil, served |-> FALSE,             \* bearer token, and whether the provider served its keys
          decided |-> 0, why |-> "", out |-> {}]       \* history: when, why denied, logged out before it came

Init ==
  /\ LazyInit /\ KeysInit /\ now = 0
  /\ scenario \in Scenarios
  /\ account = [is_admin |-> TRUE, active |-> TRUE]
  /\ sessions = [s \in Sid |-> "unused"]
  /\ cookie = Empty
  /\ accepts = {} /\ issued = 0
  /\ req = [r \in Request |-> Fresh]
  /\ entitled = [r \in Request |-> {}]
  /\ overlapped = FALSE /\ failed = FALSE
  /\ vouched = [s \in Sid |-> 0] /\ loggedOut = {}
  /\ arrivals = 0 /\ changes = 0

(* What a request that were decided now could be let through with. *)
Entitlements(acc, rows) ==
  IF ~acc.active THEN {}
  ELSE {[sid |-> s, is_admin |-> acc.is_admin] : s \in {0} \cup {x \in Sid : rows[x] = "live"}}

Busy(r) == req[r].phase # "idle"
Witness == entitled' = [r \in Request |->
             IF req'[r].phase \in {"idle", "handled", "denied"} THEN {}
             ELSE IF Busy(r) THEN entitled[r] \cup Entitlements(account', sessions')
             ELSE Entitlements(account', sessions')]

Go(r, rec) == req' = [req EXCEPT ![r] = rec]
Step(r, phase) == Go(r, [req[r] EXCEPT !.phase = phase])

-----------------------------------------------------------------------------
(* A request reaches the server with its credential; the browser's with    *)
(* the cookie as it is now.                                                *)
Arrive(r) ==
  /\ ~Busy(r) /\ arrivals < scenario.arrivals
  /\ scenario.overlap \/ \A q \in Request : ~Busy(q)
  /\ \E c \in scenario.credentials, out \in BOOLEAN :
       /\ out => c = "session" /\ scenario.logouts
       /\ Go(r, [Fresh EXCEPT !.phase = "arrived", !.credential = c, !.logout = out,
                              !.session = IF c = "session" THEN cookie ELSE Empty,
                              !.had = c = "session" /\ cookie # Empty, !.out = loggedOut])
  /\ overlapped' = (overlapped \/ \E q \in Request : Busy(q))
  /\ arrivals' = arrivals + 1
  /\ UNCHANGED <<lazy, keys, now, scenario, database, cookie, idp, failed, vouched, loggedOut, changes>>

(* Starlette's session middleware: a session that is not empty is written  *)
(* to the cookie, one that was emptied removes it.                         *)
Respond(r) ==
  /\ req[r].phase \in {"denied", "handled"} /\ at[loop] = "idle"
  /\ Go(r, Fresh)
  /\ cookie' = IF req[r].session # Empty THEN req[r].session
               ELSE IF req[r].had THEN Empty ELSE cookie
  /\ UNCHANGED <<lazy, keys, now, scenario, database, idp, history, bounds>>

Rest == UNCHANGED <<keys, now, scenario, database, cookie, idp, vouched, loggedOut, bounds>>
Done(rec, phase) == [Fresh EXCEPT !.phase = phase, !.session = rec.session, !.had = rec.had]
Deny(r, why) == [Done(req[r], "denied") EXCEPT !.why = why]
Clear(r, why) == [Deny(r, why) EXCEPT !.session = Empty]

(* dispatch, once the user is known: an inactive account is turned away.   *)
Dispatch(rec) == IF rec.is_active THEN [rec EXCEPT !.phase = "admitted"]
                 ELSE [Done(rec, "denied") EXCEPT !.why = "inactive"]

LateExpiry(session, leeway) == session.expires_at # Never /\ now >= session.expires_at + leeway
IsSessionExpired(session, leeway) == session.expires_at # Never /\ now + leeway >= session.expires_at

-----------------------------------------------------------------------------
(* The session credential.  The loop enters the store's proxy ...          *)
EnterStore(r, phase) ==
  /\ at[loop] = "idle" /\ Access(loop)
  /\ Step(r, phase)
  /\ Rest /\ UNCHANGED <<overlapped, failed>>

Authenticate(r) ==
  /\ req[r].phase = "arrived" /\ req[r].credential = "session" /\ at[loop] = "idle"
  /\ \/ req[r].session.sid # 0 /\ EnterStore(r, "resolve")
     \/ /\ req[r].session.sid = 0 /\ Go(r, Deny(r, "anonymous"))
        /\ Rest /\ UNCHANGED <<lazy, overlapped, failed>>

AnyRow(sid) == sid \in Sid /\ sessions[sid] # "unused"
Resolves(sid) == sid \in Sid /\ sessions[sid] = "live"

(* ... and, with the store in hand, resolves the session, checks the       *)
(* expiry and either decides or awaits the token endpoint.                 *)
authenticate_session(r) ==
  LET rec == [req[r] EXCEPT !.is_admin = account.is_admin, !.is_active = account.active, !.decided = now]
      refreshable == scenario.refresh /\ rec.session.refresh_token # Nil
  IN  /\ req[r].phase = "resolve" /\ at[loop] = "got" /\ Leave(loop)
      /\ \/ ~Resolves(rec.session.sid) /\ Go(r, Clear(r, "unknown"))
         \/ /\ Resolves(rec.session.sid) /\ ~IsSessionExpired(rec.session, Leeway)
            /\ Go(r, Dispatch(rec))
         \/ /\ Resolves(rec.session.sid) /\ IsSessionExpired(rec.session, Leeway) /\ ~refreshable
            /\ Go(r, Clear(r, "expired"))
         \/ /\ Resolves(rec.session.sid) /\ IsSessionExpired(rec.session, Leeway) /\ refreshable
            /\ Go(r, [rec EXCEPT !.phase = "refresh"])
      /\ Rest /\ UNCHANGED <<overlapped, failed>>

(* The store could not be initialised: denied, and the session is kept.    *)
StoreUnavailable(r) ==
  /\ req[r].phase = "resolve" /\ at[loop] = "raised" /\ Leave(loop)
  /\ Go(r, Deny(r, "error"))
  /\ Rest /\ UNCHANGED <<overlapped, failed>>

(* The token endpoint of the default provider: a token it does not know,   *)
(* used before or from another provider, is refused.  A rotating provider  *)
(* issues a new one; the response may omit the expiry.                     *)
TokenEndpoint(r) ==
  /\ req[r].phase = "refresh"
  /\ LET t == req[r].session.refresh_token
         new == [provider |-> DefaultProvider, n |-> issued + 1]
     IN  \/ /\ t \notin accepts
            /\ Step(r, "resume")
            /\ UNCHANGED <<idp, vouched, failed>>
         \/ /\ t \in accepts
            /\ accepts' = IF scenario.rotating THEN (accepts \ {t}) \cup {new} ELSE accepts
            /\ issued' = IF scenario.rotating THEN issued + 1 ELSE issued
            /\ \E expiry \in {now + Lifetime, Never} :
                 /\ Go(r, [req[r] EXCEPT !.phase = "resume", !.decided = now,
                             !.answer = [expires_at |-> expiry, refresh_token |-> IF scenario.rotating THEN new ELSE Nil]])
                 /\ vouched' = [vouched EXCEPT ![req[r].session.sid] =
                      IF expiry = Never \/ @ = Never THEN Never ELSE expiry]
            /\ UNCHANGED failed
  /\ UNCHANGED <<lazy, keys, now, scenario, database, cookie, overlapped, loggedOut, bounds>>

(* The request never arrives, or its answer is lost. *)
TokenEndpointFails(r) ==
  /\ scenario.faults
  /\ req[r].phase = "refresh" \/ (req[r].phase = "resume" /\ req[r].answer # Nil)
  /\ Go(r, [req[r] EXCEPT !.phase = "resume", !.answer = Nil])
  /\ failed' = TRUE
  /\ UNCHANGED <<lazy, keys, now, scenario, database, cookie, idp, overlapped, vouched, loggedOut, bounds>>

KeepOldToken(session, answer) == [session EXCEPT !.expires_at = answer.expires_at]
persist_session_auth(session, answer) ==
  [session EXCEPT !.expires_at = answer.expires_at,
                  !.refresh_token = IF answer.refresh_token # Nil THEN answer.refresh_token ELSE @]

(* Back on the loop: with new tokens the request goes on as the user that  *)
(* was resolved before the await.                                          *)
refresh_session_with_idp(r) ==
  /\ req[r].phase = "resume" /\ at[loop] = "idle"
  /\ \/ req[r].answer = Nil /\ Go(r, Clear(r, "expired"))
     \/ /\ req[r].answer # Nil
        /\ Go(r, Dispatch([req[r] EXCEPT !.session = persist_session_auth(@, req[r].answer), !.answer = Nil]))
  /\ Rest /\ UNCHANGED <<lazy, overlapped, failed>>

-----------------------------------------------------------------------------
(* Basic credentials are verified by the only worker; then the loop reads  *)
(* the account's row.                                                      *)
AwaitWorker(r) ==
  /\ req[r].phase = "arrived" /\ req[r].credential = "basic" /\ at[worker] = "idle"
  /\ Access(worker) /\ Step(r, "verify")
  /\ Rest /\ UNCHANGED <<overlapped, failed>>

authenticate_basic_auth(r) ==
  /\ req[r].phase = "verify" /\ at[worker] \in {"got", "raised"} /\ Leave(worker)
  /\ \/ at[worker] = "got" /\ Step(r, "verified")
     \/ Go(r, Deny(r, "password"))
  /\ Rest /\ UNCHANGED <<overlapped, failed>>

(* Bearer tokens are validated on the loop. *)
authenticate_bearer_token(r) ==
  /\ req[r].phase = "arrived" /\ req[r].credential = "bearer" /\ at[loop] = "idle"
  /\ \E token \in Token, served \in SUBSET {1, 2} :
       /\ token.signer \in Provider => token.generation <= published[token.signer]
       /\ scenario.faults \/ served = {1, 2}
       /\ LET result == validate_token(token, served)
          IN  /\ jwks' = result.cache
              /\ Go(r, [req[r] EXCEPT !.phase = IF result.valid THEN "verified" ELSE "denied",
                                      !.why = IF result.valid THEN "" ELSE "token",
                                      !.token = token, !.served = served = {1, 2}, !.decided = now])
  /\ UNCHANGED <<lazy, now, published, rotated, scenario, database, cookie, idp, history, bounds>>

ReadProfile(r) == req[r].phase = "verified" /\ EnterStore(r, "profile")

get_user_auth_state(r) ==
  /\ req[r].phase = "profile" /\ at[loop] \in {"got", "raised"} /\ Leave(loop)
  /\ Go(r, IF at[loop] = "raised" THEN Deny(r, "error")
           ELSE Dispatch([req[r] EXCEPT !.is_admin = account.is_admin, !.is_active = account.active]))
  /\ Rest /\ UNCHANGED <<overlapped, failed>>

-----------------------------------------------------------------------------
(* The handler behind the middleware. *)
Handle(r) ==
  /\ req[r].phase = "admitted" /\ ~req[r].logout
  /\ Go(r, Done(req[r], "handled"))
  /\ Rest /\ UNCHANGED <<lazy, overlapped, failed>>

Ended(sid) == [sessions EXCEPT ![sid] = "ended"]

SwallowedLogout(r) ==
  /\ req[r].phase = "admitted" /\ req[r].logout /\ at[loop] = "idle"
  /\ Go(r, [Done(req[r], "handled") EXCEPT !.session = Empty])
  /\ loggedOut' = loggedOut \cup {req[r].session.sid}
  /\ UNCHANGED <<lazy, keys, now, scenario, database, cookie, idp, overlapped, failed, vouched, bounds>>

logout(r) ==
  /\ req[r].phase = "admitted" /\ req[r].logout /\ at[loop] = "idle"
  /\ sessions' = Ended(req[r].session.sid)
  /\ Go(r, [Done(req[r], "handled") EXCEPT !.session = Empty])
  /\ loggedOut' = loggedOut \cup {req[r].session.sid}
  /\ UNCHANGED <<lazy, keys, now, scenario, account, cookie, idp, overlapped, failed, vouched, bounds>>

(* The row could not be revoked: an error, and the cookie stays. *)
LogoutFails(r) ==
  /\ scenario.faults /\ req[r].phase = "admitted" /\ req[r].logout /\ at[loop] = "idle"
  /\ Go(r, Done(req[r], "handled"))
  /\ Rest /\ UNCHANGED <<lazy, overlapped, failed>>

Middleware(r) ==
  \/ Respond(r) \/ Authenticate(r) \/ authenticate_session(r) \/ StoreUnavailable(r)
  \/ TokenEndpoint(r) \/ refresh_session_with_idp(r)
  \/ AwaitWorker(r) \/ authenticate_basic_auth(r) \/ authenticate_bearer_token(r)
  \/ ReadProfile(r) \/ get_user_auth_state(r) \/ Handle(r) \/ logout(r)

StoreStep(t) ==
  /\ get_instance(t) \/ (scenario.faults /\ InitFails(t))
  /\ UNCHANGED <<keys, now, scenario, database, cookie, idp, req, history, bounds>>

-----------------------------------------------------------------------------
(* The rest of the world: a login in the browser, other processes' account *)
(* writes, key rotation and time.                                          *)
Change(act) ==
  /\ changes < scenario.changes /\ changes' = changes + 1 /\ act
  /\ UNCHANGED <<lazy, now, scenario, req, failed, loggedOut, arrivals>>

Login ==
  \E s \in Sid :
    /\ \A x \in Sid : sessions[x] = "unused" <=> x >= s
    /\ account.active /\ s <= scenario.logins
    /\ sessions' = [sessions EXCEPT ![s] = "live"]
    /\ LET token == [provider |-> scenario.provider, n |-> issued + 1]
       IN  /\ accepts' = IF scenario.provider = DefaultProvider THEN accepts \cup {token} ELSE accepts
           /\ issued' = issued + 1
           /\ cookie' = [sid |-> s, expires_at |-> now + Lifetime,
                         refresh_token |-> IF scenario.refresh THEN token ELSE Nil]
    /\ vouched' = [vouched EXCEPT ![s] = now + Lifetime]
    /\ overlapped' = (overlapped \/ \E r \in Request : Busy(r))
    /\ UNCHANGED <<lazy, keys, now, scenario, account, req, failed, loggedOut, bounds>>

SetAdmin ==
  Change(/\ account' = [account EXCEPT !.is_admin = ~@]
         /\ UNCHANGED <<keys, sessions, cookie, idp, overlapped, vouched>>)

(* UserRepository.update with active = False revokes the sessions. *)
SetActive ==
  Change(/\ account' = [account EXCEPT !.active = ~@]
         /\ sessions' = IF account.active THEN [s \in Sid |-> IF sessions[s] = "live" THEN "ended" ELSE sessions[s]]
                        ELSE sessions
         /\ UNCHANGED <<keys, cookie, idp, overlapped, vouched>>)

RotateKeys ==
  \E p \in Provider :
    /\ "bearer" \in scenario.credentials /\ Rotate(p)
    /\ UNCHANGED <<lazy, now, scenario, database, cookie, idp, req, history, bounds>>

Tick ==
  /\ now < scenario.ticks /\ now' = now + 1
  /\ UNCHANGED <<lazy, keys, scenario, database, cookie, idp, req, history, bounds>>

Next ==
  /\ \/ \E r \in Request : Arrive(r) \/ Middleware(r) \/ TokenEndpointFails(r) \/ LogoutFails(r)
     \/ \E t \in Thread : StoreStep(t)
     \/ Login \/ SetAdmin \/ SetActive \/ RotateKeys \/ Tick
  /\ Witness

(* The loop and the worker keep running, the database answers or raises,   *)
(* and the token endpoint answers or the client's timeout expires.         *)
Fairness ==
  /\ \A r \in Request : WF_vars(Middleware(r) /\ Witness)
  /\ \A t \in Thread : WF_vars(StoreStep(t) /\ Witness)

Spec == Init /\ [][Next]_vars /\ Fairness

-----------------------------------------------------------------------------
(* auth_middleware.py:454-470, 640-665: the row is read before the await   *)
(* of the refresh, or of the worker, and used after it.  Who is admitted   *)
(* was, at some moment of this very request, an active user with that      *)
(* admin flag and, with a cookie, a live session: a revocation or a        *)
(* demotion is missed by requests under way only.                          *)
AdmittedWasEntitled ==
  \A r \in Request : req[r].phase = "admitted" =>
    [sid |-> req[r].session.sid, is_admin |-> req[r].is_admin] \in entitled[r]

(* auth_middleware.py:424: a session "cannot outlive the underlying        *)
(* token".  Whoever is admitted by a cookie is within an expiry that the   *)
(* provider gave for that session, however responses of overlapping        *)
(* requests overwrite the cookie; a response without an expiry ends it.    *)
NoSessionOutlivesItsToken ==
  \A r \in Request : req[r].phase = "admitted" /\ req[r].credential = "session" =>
    LET v == vouched[req[r].session.sid] IN v = Never \/ req[r].decided < v

(* routers/auth.py:163-178: with a provider that answers and a refresh     *)
(* token of the default provider, a browser with a live session is made to *)
(* log in again only if the provider rotates tokens and two requests (or   *)
(* a login) overlapped.                                                    *)
OnlyARaceLogsOut ==
  \A r \in Request :
    req[r].why = "expired" /\ scenario.refresh /\ scenario.provider = DefaultProvider /\ ~failed
      => scenario.rotating /\ overlapped

(* routers/auth.py:565-589: after a logout that was reported as done, no   *)
(* request that arrives later is admitted by that session, although a      *)
(* response that was still under way may put the cookie back.              *)
LoggedOutStaysOut ==
  \A r \in Request : req[r].phase = "admitted" => req[r].session.sid \notin req[r].out

(* A token that provider p vouched for at a moment: signed with its key of *)
(* now, or one withdrawn less than the cache's lifetime before; its iss is *)
(* p's, if p has one.                                                      *)
SignedLately(p, t, moment) ==
  /\ t.signer = p /\ ClaimsFit(t, p)
  /\ t.generation = published[p] \/ moment < rotated[p] + JwksTTL

(* auth.py:320-383: a bearer token is accepted only if the provider that   *)
(* validates it signed it, with its present key or one withdrawn less than *)
(* the cache's lifetime ago; and only if it names that provider, unless    *)
(* the one provider there is has no issuer configured.                     *)
AcceptedKeyIsTheIssuers ==
  \A r \in Request : req[r].credential = "bearer" /\ req[r].phase \in {"verified", "profile", "admitted"} =>
    \E p \in resolve_provider(req[r].token) : SignedLately(p, req[r].token, req[r].decided)

(* A token that its provider would call valid: signed with the present     *)
(* key, under that key's id or none, with the iss the provider is known by.*)
Genuine(t, p) ==
  /\ t.signer = p /\ t.generation = published[p] /\ ClaimsFit(t, p)
  /\ t.kid \in {NoKid, KeyId[p][published[p]]}

(* It names a key id that an earlier key did not have, less than the       *)
(* cache's lifetime after the rotation.                                    *)
NewToTheCache(t, p, moment) ==
  /\ t.kid # NoKid /\ \E g \in 0 .. MaxGeneration : g < published[p] /\ KeyId[p][g] # t.kid
  /\ moment < rotated[p] + JwksTTL

(* auth.py:366-383: a provider that serves its keys never has a genuine    *)
(* token refused, except one under a new key id, and that only until the   *)
(* cached set expires.                                                     *)
PresentKeyIsAccepted ==
  \A r \in Request : req[r].why = "token" /\ req[r].served =>
    \A p \in resolve_provider(req[r].token) :
      Genuine(req[r].token, p) => NewToTheCache(req[r].token, p, req[r].decided)

(* Every request is answered: no initialisation that fails, no awaited     *)
(* worker and no refresh leaves the loop, the lock or the request hanging. *)
RequestsAreAnswered == \A r \in Request : Busy(r) ~> ~Busy(r)
=============================================================================
