-------------------- MODULE RequestAuthenticationProofs --------------------
(***************************************************************************)
(* Theorems about RequestAuthentication, for any requests, sessions,       *)
(* providers, expiries and scenarios.  The actions are first brought to a  *)
(* dozen kinds of step that say what becomes of the fields of one          *)
(* request's record; each property then has an invariant of its own, shown *)
(* to survive every kind of step.                                          *)
(***************************************************************************)
EXTENDS RequestAuthentication, TLAPS

RefreshToken == [provider : Provider, n : Nat]
Jar == [sid : {0} \cup Sid, expires_at : Nat \cup {Never}, refresh_token : RefreshToken \cup {Nil}]
Answer == [expires_at : Nat \cup {Never}, refresh_token : RefreshToken \cup {Nil}]

Reason == {"", "anonymous", "unknown", "expired", "error", "password", "token", "inactive"}
Phase == {"idle", "arrived", "resolve", "refresh", "resume", "verify", "verified", "profile",
          "admitted", "handled", "denied"}
ReqState ==
  [phase : Phase, credential : {"session", "basic", "bearer"}, logout : BOOLEAN, session : Jar, had : BOOLEAN,
   is_admin : BOOLEAN, is_active : BOOLEAN, answer : Answer \cup {Nil}, token : Token \cup {Nil},
   served : BOOLEAN, decided : Nat, why : Reason, out : SUBSET Nat]

(* What a request's record holds by where the request is. *)
Shape(q) ==
  /\ q.credential # "session" => q.session.sid = 0 /\ ~q.logout
  /\ q.phase = "verify" => q.credential = "basic"
  /\ q.phase \in {"verified", "profile"} => q.credential # "session"
  /\ q.phase \in {"resolve", "refresh", "resume"} => q.credential = "session" /\ q.session.sid # 0
  /\ q.phase = "admitted" /\ q.credential = "session" => q.session.sid # 0
  /\ q.phase = "idle" => q.session.sid = 0
  /\ q.phase # "resume" => q.answer = Nil
  /\ q.session.sid # 0 => q.had

World ==
  /\ scenario \in Scenarios /\ now \in Nat /\ issued \in Nat /\ accepts \subseteq RefreshToken
  /\ account \in [is_admin : BOOLEAN, active : BOOLEAN]
  /\ sessions \in [Sid -> {"unused", "live", "ended"}]
  /\ cookie \in Jar /\ loggedOut \subseteq Nat
  /\ overlapped \in BOOLEAN /\ failed \in BOOLEAN

Typed ==
  /\ World /\ req \in [Request -> ReqState]
  /\ \A r \in Request : Shape(req[r])

-----------------------------------------------------------------------------
(* The kinds of step.  Same(n, q): the fields that most steps leave alone. *)
Same(n, q) ==
  /\ n.credential = q.credential /\ n.logout = q.logout /\ n.had = q.had /\ n.out = q.out
  /\ n.token = q.token /\ n.served = q.served /\ n.why = q.why

Outside == <<now, keys, scenario, database, cookie, idp, vouched, loggedOut, overlapped, failed>>
Acts(r) == req' = [req EXCEPT ![r] = req'[r]] /\ req'[r] \in ReqState

Arrives(r) ==
  LET n == req'[r] IN
  /\ Acts(r) /\ req[r].phase = "idle" /\ n.phase = "arrived" /\ n.answer = Nil /\ n.token = Nil /\ n.decided = 0
  /\ n.why = "" /\ n.out = loggedOut
  /\ \/ n.credential = "session" /\ n.session = cookie /\ n.had = (cookie # Empty)
     \/ n.credential # "session" /\ n.session = Empty /\ ~n.logout
  /\ overlapped' = (overlapped \/ \E q \in Request : Busy(q))
  /\ UNCHANGED <<now, keys, scenario, database, cookie, idp, vouched, loggedOut, failed>>

Responds(r) ==
  /\ Acts(r) /\ req[r].phase \in {"denied", "handled"} /\ req'[r] = Fresh
  /\ cookie' = IF req[r].session # Empty THEN req[r].session
               ELSE IF req[r].had THEN Empty ELSE cookie
  /\ UNCHANGED <<now, keys, scenario, database, idp, vouched, loggedOut, overlapped, failed>>

Reset(n, q) ==
  /\ n.credential = "session" /\ ~n.logout /\ n.had = q.had /\ n.out = {} /\ n.token = Nil
  /\ n.answer = Nil /\ n.decided = 0 /\ n.why # "token"

Ends(r) ==
  LET q == req[r]
      n == req'[r] IN
  /\ Acts(r) /\ q.phase # "idle" /\ n.phase \in {"denied", "handled"} /\ Reset(n, q)
  /\ \/ n.session = Empty
     \/ q.phase # "resume" /\ n.session = q.session
     \/ q.phase = "resume" /\ q.answer # Nil /\ n.session = persist_session_auth(q.session, q.answer)
  /\ n.why = "expired" => \/ q.phase = "resume" /\ q.answer = Nil
                          \/ q.phase = "resolve" /\ ~(scenario.refresh /\ q.session.refresh_token # Nil)
  /\ UNCHANGED Outside

LogsOut(r) ==
  LET q == req[r]
      n == req'[r] IN
  /\ Acts(r) /\ q.phase = "admitted" /\ q.logout /\ n.phase = "handled" /\ Reset(n, q) /\ n.why = "" /\ n.session = Empty
  /\ sessions' = Ended(q.session.sid) /\ loggedOut' = loggedOut \cup {q.session.sid}
  /\ UNCHANGED <<now, keys, scenario, account, cookie, idp, vouched, overlapped, failed>>

Route ==
  {<<"arrived", "resolve">>, <<"arrived", "verify">>, <<"verify", "verified">>, <<"verified", "profile">>,
   <<"refresh", "resume">>}

Passes(r) ==
  LET q == req[r]
      n == req'[r] IN
  /\ Acts(r) /\ Same(n, q) /\ <<q.phase, n.phase>> \in Route
  /\ n.session = q.session /\ n.answer = q.answer /\ n.decided = q.decided
  /\ n.is_admin = q.is_admin /\ n.is_active = q.is_active
  /\ n.phase = "resolve" => q.credential = "session" /\ q.session.sid # 0
  /\ n.phase = "verify" => q.credential = "basic"
  /\ n.phase = "verified" => q.credential # "bearer"
  /\ n.phase = "resume" => q.session.refresh_token \notin accepts
  /\ UNCHANGED Outside

Decides(r) ==
  LET q == req[r]
      n == req'[r] IN
  /\ Acts(r) /\ Same(n, q) /\ q.phase = "resolve" /\ n.session = q.session /\ n.answer = q.answer
  /\ Resolves(q.session.sid) /\ n.is_admin = account.is_admin /\ n.is_active = account.active /\ n.decided = now
  /\ \/ n.phase = "admitted" /\ account.active /\ ~IsSessionExpired(q.session, Leeway)
     \/ n.phase = "refresh"
  /\ UNCHANGED Outside

Answers(r) ==
  LET q == req[r]
      n == req'[r]
      a == n.answer
      new == [provider |-> DefaultProvider, n |-> issued + 1] IN
  /\ Acts(r) /\ Same(n, q) /\ q.phase = "refresh" /\ n.phase = "resume" /\ n.session = q.session
  /\ n.is_admin = q.is_admin /\ n.is_active = q.is_active /\ n.decided = now
  /\ a \in Answer /\ a.expires_at \in {now + Lifetime, Never}
  /\ q.session.refresh_token \in accepts
  /\ \/ scenario.rotating /\ a.refresh_token = new /\ accepts' = (accepts \ {q.session.refresh_token}) \cup {new}
     \/ ~scenario.rotating /\ a.refresh_token = Nil /\ accepts' = accepts
  /\ issued' \in {issued, issued + 1}
  /\ vouched' = [vouched EXCEPT ![q.session.sid] =
       IF a.expires_at = Never \/ vouched[q.session.sid] = Never THEN Never ELSE a.expires_at]
  /\ UNCHANGED <<now, keys, scenario, database, cookie, loggedOut, overlapped, failed>>

Loses(r) ==
  LET q == req[r]
      n == req'[r] IN
  /\ Acts(r) /\ Same(n, q) /\ q.phase \in {"refresh", "resume"} /\ n.phase = "resume" /\ n.session = q.session
  /\ n.is_admin = q.is_admin /\ n.is_active = q.is_active /\ n.answer = Nil /\ n.decided = q.decided
  /\ failed' = TRUE
  /\ UNCHANGED <<now, keys, scenario, database, cookie, idp, vouched, loggedOut, overlapped>>

Resumes(r) ==
  LET q == req[r]
      n == req'[r] IN
  /\ Acts(r) /\ Same(n, q) /\ q.phase = "resume" /\ q.answer # Nil /\ n.phase = "admitted"
  /\ n.session = persist_session_auth(q.session, q.answer) /\ n.answer = Nil
  /\ q.is_active /\ n.is_admin = q.is_admin /\ n.decided = q.decided
  /\ UNCHANGED Outside

Validates(r) ==
  LET q == req[r]
      n == req'[r] IN
  /\ Acts(r) /\ q.phase = "arrived" /\ q.credential = "bearer" /\ n.credential = "bearer" /\ n.logout = q.logout
  /\ n.session = q.session /\ n.had = q.had /\ n.out = q.out /\ n.answer = q.answer /\ n.decided = now
  /\ \E token \in Token, served \in SUBSET {1, 2} :
       LET result == validate_token(token, served) IN
       /\ n.token = token /\ (token.signer \in Provider => token.generation <= published[token.signer])
       /\ n.served = (served = {1, 2}) /\ jwks' = result.cache
       /\ \/ n.phase = "verified" /\ n.why = "" /\ result.valid
          \/ n.phase = "denied" /\ n.why = "token" /\ ~result.valid
  /\ UNCHANGED <<now, published, rotated, scenario, database, cookie, idp, vouched, loggedOut, overlapped, failed>>

Profiles(r) ==
  LET q == req[r]
      n == req'[r] IN
  /\ Acts(r) /\ Same(n, q) /\ q.phase = "profile" /\ n.phase = "admitted" /\ n.session = q.session
  /\ n.answer = q.answer /\ n.decided = q.decided /\ n.is_admin = account.is_admin /\ account.active
  /\ UNCHANGED Outside

(* The steps of the world leave the requests alone. *)
Worldly ==
  /\ UNCHANGED req
  /\ \/ Login \/ SetAdmin \/ SetActive \/ RotateKeys \/ Tick
     \/ UNCHANGED Outside

Kinds(r) ==
  \/ Arrives(r) \/ Responds(r) \/ Ends(r) \/ LogsOut(r) \/ Passes(r) \/ Decides(r)
  \/ Answers(r) \/ Loses(r) \/ Resumes(r) \/ Validates(r) \/ Profiles(r)

-----------------------------------------------------------------------------
LEMMA NilFacts == Nil \notin RefreshToken /\ Nil \notin Answer
BY AuthAssumption DEF RefreshToken, Answer

LEMMA EmptyJar == Empty \in Jar /\ Empty.sid = 0
BY DEF Empty, Jar

LEMMA FreshState ==
  /\ Fresh \in ReqState /\ Fresh.phase = "idle" /\ Fresh.credential = "session" /\ ~Fresh.logout
  /\ Fresh.session = Empty /\ ~Fresh.had /\ Fresh.answer = Nil /\ Fresh.token = Nil
  /\ Fresh.decided = 0 /\ Fresh.why = "" /\ Fresh.out = {}
BY EmptyJar DEF Fresh, ReqState, Phase, Reason

(* The records that end a request. *)
LEMMA DoneState ==
  ASSUME NEW q, q.session \in Jar, q.had \in BOOLEAN, NEW phase \in {"denied", "handled"}
  PROVE  LET n == Done(q, phase) IN
         /\ n \in ReqState /\ n.phase = phase /\ Reset(n, q) /\ n.session = q.session /\ n.why = ""
<1> DEFINE n == Done(q, phase)
<1>1. n \in ReqState /\ n.phase = phase /\ n.session = q.session /\ n.had = q.had
  BY FreshState DEF Done, ReqState, Phase
<1>2. /\ n.credential = "session" /\ ~n.logout /\ n.out = {} /\ n.token = Nil /\ n.answer = Nil
      /\ n.decided = 0 /\ n.why = ""
  BY FreshState DEF Done, ReqState
<1>3. QED
  BY <1>1, <1>2 DEF Reset

LEMMA ReqTypes ==
  ASSUME Typed, NEW r \in Request
  PROVE  /\ req[r] \in ReqState /\ Shape(req[r]) /\ req[r].session \in Jar /\ req[r].had \in BOOLEAN
BY DEF Typed, ReqState

LEMMA DeniedState ==
  ASSUME Typed, NEW r \in Request, NEW why \in Reason \ {"token"}
  PROVE  LET n == Deny(r, why)
             m == Clear(r, why)
         IN  /\ n \in ReqState /\ n.phase = "denied" /\ Reset(n, req[r]) /\ n.session = req[r].session /\ n.why = why
             /\ m \in ReqState /\ m.phase = "denied" /\ Reset(m, req[r]) /\ m.session = Empty /\ m.why = why
<1> DEFINE q == req[r]
           d == Done(q, "denied")
           n == Deny(r, why)
           m == Clear(r, why)
<1>1. d \in ReqState /\ d.phase = "denied" /\ Reset(d, q) /\ d.session = q.session
  BY ReqTypes, DoneState
<1>2. n = [d EXCEPT !.why = why] /\ m = [n EXCEPT !.session = Empty]
  BY DEF Deny, Clear
<1> HIDE DEF d, n, m
<1>3. n \in ReqState /\ n.phase = "denied" /\ Reset(n, q) /\ n.session = q.session /\ n.why = why
  BY <1>1, <1>2 DEF ReqState, Reset
<1>4. m \in ReqState /\ m.phase = "denied" /\ Reset(m, q) /\ m.session = Empty /\ m.why = why
  BY <1>2, <1>3, EmptyJar DEF ReqState, Reset
<1>5. QED
  BY <1>3, <1>4 DEF n, m

LEMMA GoActs ==
  ASSUME Typed, NEW r \in Request, NEW n, n \in ReqState, req' = [req EXCEPT ![r] = n]
  PROVE  Acts(r) /\ req'[r] = n
BY DEF Acts, Typed

(* What Rest leaves alone, with the history, is what Outside names. *)
LEMMA RestOutside ==
  ASSUME Rest, UNCHANGED <<overlapped, failed>>
  PROVE  UNCHANGED Outside
BY DEF Rest, Outside, database, idp

LEMMA DenyEnds ==
  ASSUME Typed, NEW r \in Request, NEW why \in Reason \ {"token"}, req[r].phase \notin {"idle", "resume"},
         Go(r, Deny(r, why)), why # "expired", UNCHANGED Outside
  PROVE  Ends(r)
<1> DEFINE n == Deny(r, why)
<1>1. n \in ReqState /\ n.phase = "denied" /\ Reset(n, req[r]) /\ n.session = req[r].session /\ n.why = why
  BY DeniedState
<1> HIDE DEF n
<1>2. req' = [req EXCEPT ![r] = n]
  BY DEF n, Go
<1>3. Acts(r) /\ req'[r] = n
  BY <1>1, <1>2, GoActs
<1>4. QED
  BY <1>1, <1>3 DEF Ends

LEMMA ClearEnds ==
  ASSUME Typed, NEW r \in Request, NEW why \in Reason \ {"token"}, req[r].phase # "idle",
         Go(r, Clear(r, why)), UNCHANGED Outside,
         why = "expired" => \/ req[r].phase = "resume" /\ req[r].answer = Nil
                            \/ req[r].phase = "resolve" /\ ~(scenario.refresh /\ req[r].session.refresh_token # Nil)
  PROVE  Ends(r)
<1> DEFINE n == Clear(r, why)
<1>1. n \in ReqState /\ n.phase = "denied" /\ Reset(n, req[r]) /\ n.session = Empty /\ n.why = why
  BY DeniedState
<1> HIDE DEF n
<1>2. req' = [req EXCEPT ![r] = n]
  BY DEF n, Go
<1>3. Acts(r) /\ req'[r] = n
  BY <1>1, <1>2, GoActs
<1>4. QED
  BY <1>1, <1>3 DEF Ends

(* A step that changes the phase alone. *)
LEMMA StepPasses ==
  ASSUME Typed, NEW r \in Request, NEW phase, <<req[r].phase, phase>> \in Route, Step(r, phase), UNCHANGED Outside,
         phase = "resolve" => req[r].credential = "session" /\ req[r].session.sid # 0,
         phase = "verify" => req[r].credential = "basic",
         phase = "verified" => req[r].credential # "bearer",
         phase = "resume" => req[r].session.refresh_token \notin accepts
  PROVE  Passes(r)
<1> DEFINE q == req[r]
           n == [q EXCEPT !.phase = phase]
<1>1. q \in ReqState /\ phase \in Phase
  BY ReqTypes DEF Route, Phase
<1>2. /\ n \in ReqState /\ n.phase = phase /\ Same(n, q) /\ n.session = q.session /\ n.answer = q.answer
      /\ n.decided = q.decided /\ n.is_admin = q.is_admin /\ n.is_active = q.is_active
  BY <1>1 DEF ReqState, Same
<1> HIDE DEF n
<1>3. Acts(r) /\ req'[r] = n
  BY <1>2, GoActs DEF n, Step, Go
<1>4. QED
  BY <1>2, <1>3 DEF Passes

-----------------------------------------------------------------------------
(* Every action of a request is one of the kinds. *)
LEMMA ArriveSteps ==
  ASSUME Typed, NEW r \in Request, Arrive(r)
  PROVE  Arrives(r)
<1>1. PICK c \in scenario.credentials, out \in BOOLEAN :
        /\ out => c = "session" /\ scenario.logouts
        /\ Go(r, [Fresh EXCEPT !.phase = "arrived", !.credential = c, !.logout = out,
                               !.session = IF c = "session" THEN cookie ELSE Empty,
                               !.had = c = "session" /\ cookie # Empty, !.out = loggedOut])
  BY DEF Arrive
<1> DEFINE j == IF c = "session" THEN cookie ELSE Empty
           had == c = "session" /\ cookie # Empty
           n == [Fresh EXCEPT !.phase = "arrived", !.credential = c, !.logout = out,
                              !.session = j, !.had = had, !.out = loggedOut]
<1>2. c \in {"session", "basic", "bearer"} /\ j \in Jar /\ had \in BOOLEAN /\ loggedOut \in SUBSET Nat
  BY AuthAssumption, EmptyJar DEF Typed, World
<1>3. req' = [req EXCEPT ![r] = n]
  BY <1>1 DEF Go
<1>4. (c = "session" => j = cookie /\ had = (cookie # Empty)) /\ (c # "session" => j = Empty /\ ~out)
  BY <1>1
<1> HIDE DEF j, had
<1>5. /\ n \in ReqState /\ n.phase = "arrived" /\ n.credential = c /\ n.logout = out /\ n.session = j
      /\ n.had = had /\ n.out = loggedOut
  BY <1>2, FreshState DEF ReqState, Phase
<1>6. n.answer = Nil /\ n.token = Nil /\ n.decided = 0 /\ n.why = ""
  BY FreshState DEF ReqState
<1> HIDE DEF n
<1>7. Acts(r) /\ req'[r] = n
  BY <1>3, <1>5, GoActs
<1>8. QED
  BY <1>4, <1>5, <1>6, <1>7 DEF Arrive, Arrives, Busy

LEMMA RespondSteps ==
  ASSUME Typed, NEW r \in Request, Respond(r)
  PROVE  Responds(r)
<1>1. Acts(r) /\ req'[r] = Fresh
  BY FreshState, GoActs DEF Respond, Go
<1>2. QED
  BY <1>1 DEF Respond, Responds, history

LEMMA AuthenticateSteps ==
  ASSUME Typed, NEW r \in Request, Authenticate(r) \/ AwaitWorker(r) \/ ReadProfile(r) \/ authenticate_basic_auth(r)
  PROVE  Passes(r) \/ Ends(r)
<1>1. ASSUME Authenticate(r) PROVE Passes(r) \/ Ends(r)
  <2>1. CASE req[r].session.sid # 0 /\ EnterStore(r, "resolve")
    <3>1. Step(r, "resolve") /\ UNCHANGED Outside
      BY <2>1, RestOutside DEF EnterStore
    <3>2. <<req[r].phase, "resolve">> \in Route /\ req[r].credential = "session"
      BY <1>1 DEF Authenticate, Route
    <3>3. QED
      BY <2>1, <3>1, <3>2, StepPasses
  <2>2. CASE Go(r, Deny(r, "anonymous")) /\ Rest /\ UNCHANGED <<lazy, overlapped, failed>>
    <3>1. UNCHANGED Outside
      BY <2>2, RestOutside
    <3>2. QED
      BY <1>1, <2>2, <3>1, DenyEnds DEF Authenticate, Reason
  <2>3. QED
    BY <1>1, <2>1, <2>2 DEF Authenticate
<1>2. ASSUME AwaitWorker(r) PROVE Passes(r)
  <2>1. Step(r, "verify") /\ UNCHANGED Outside
    BY <1>2, RestOutside DEF AwaitWorker
  <2>2. <<req[r].phase, "verify">> \in Route /\ req[r].credential = "basic"
    BY <1>2 DEF AwaitWorker, Route
  <2>3. QED
    BY <2>1, <2>2, StepPasses
<1>3. ASSUME ReadProfile(r) PROVE Passes(r)
  <2>1. Step(r, "profile") /\ UNCHANGED Outside
    BY <1>3, RestOutside DEF ReadProfile, EnterStore
  <2>2. <<req[r].phase, "profile">> \in Route
    BY <1>3 DEF ReadProfile, Route
  <2>3. QED
    BY <2>1, <2>2, StepPasses
<1>4. ASSUME authenticate_basic_auth(r) PROVE Passes(r) \/ Ends(r)
  <2>0. UNCHANGED Outside /\ req[r].phase = "verify" /\ req[r].credential # "bearer"
    BY <1>4, RestOutside, ReqTypes DEF authenticate_basic_auth, Shape
  <2>1. CASE Step(r, "verified")
    <3>1. <<req[r].phase, "verified">> \in Route
      BY <2>0 DEF Route
    <3>2. QED
      BY <2>0, <2>1, <3>1, StepPasses
  <2>2. CASE Go(r, Deny(r, "password"))
    BY <2>0, <2>2, DenyEnds DEF Reason
  <2>3. QED
    BY <1>4, <2>1, <2>2 DEF authenticate_basic_auth
<1>5. QED
  BY <1>1, <1>2, <1>3, <1>4

(* Dispatch, of a record that knows whether the account is active. *)
LEMMA DispatchState ==
  ASSUME NEW rec \in ReqState
  PROVE  /\ rec.is_active => Dispatch(rec) = [rec EXCEPT !.phase = "admitted"]
         /\ ~rec.is_active =>
              /\ Dispatch(rec) \in ReqState /\ Dispatch(rec).phase = "denied" /\ Reset(Dispatch(rec), rec)
              /\ Dispatch(rec).session = rec.session /\ Dispatch(rec).why = "inactive"
<1> DEFINE d == Done(rec, "denied")
<1>1. d \in ReqState /\ d.phase = "denied" /\ Reset(d, rec) /\ d.session = rec.session
  BY DoneState DEF ReqState
<1>2. Dispatch(rec) = IF rec.is_active THEN [rec EXCEPT !.phase = "admitted"] ELSE [d EXCEPT !.why = "inactive"]
  BY DEF Dispatch
<1> HIDE DEF d
<1> DEFINE n == [d EXCEPT !.why = "inactive"]
<1>3. n \in ReqState /\ n.phase = "denied" /\ Reset(n, rec) /\ n.session = rec.session /\ n.why = "inactive"
  BY <1>1 DEF ReqState, Reset, Reason
<1> HIDE DEF n
<1>4. QED
  BY <1>2, <1>3 DEF n

LEMMA SessionSteps ==
  ASSUME Typed, NEW r \in Request, authenticate_session(r)
  PROVE  Decides(r) \/ Ends(r)
<1> DEFINE q == req[r]
           rec == [q EXCEPT !.is_admin = account.is_admin, !.is_active = account.active, !.decided = now]
<1>1. q \in ReqState /\ q.phase = "resolve" /\ account \in [is_admin : BOOLEAN, active : BOOLEAN] /\ now \in Nat
  BY ReqTypes DEF authenticate_session, Typed, World
<1>2. account.is_admin \in BOOLEAN /\ account.active \in BOOLEAN
  BY <1>1
<1>3. /\ rec \in ReqState /\ Same(rec, q) /\ rec.phase = q.phase /\ rec.session = q.session /\ rec.answer = q.answer
      /\ rec.is_admin = account.is_admin /\ rec.is_active = account.active /\ rec.decided = now
  BY <1>1, <1>2 DEF ReqState, Same
<1>4. UNCHANGED Outside
  BY RestOutside DEF authenticate_session
<1>5. \/ Go(r, Clear(r, "unknown"))
      \/ Resolves(rec.session.sid) /\ ~IsSessionExpired(rec.session, Leeway) /\ Go(r, Dispatch(rec))
      \/ Go(r, Clear(r, "expired")) /\ ~(scenario.refresh /\ rec.session.refresh_token # Nil)
      \/ Resolves(rec.session.sid) /\ Go(r, [rec EXCEPT !.phase = "refresh"])
  BY DEF authenticate_session
<1> HIDE DEF rec
<1>6. CASE Go(r, Clear(r, "unknown"))
  BY <1>1, <1>4, <1>6, ClearEnds DEF Reason
<1>7. CASE Go(r, Clear(r, "expired")) /\ ~(scenario.refresh /\ rec.session.refresh_token # Nil)
  BY <1>1, <1>3, <1>4, <1>7, ClearEnds DEF Reason
<1>8. CASE Resolves(rec.session.sid) /\ Go(r, [rec EXCEPT !.phase = "refresh"])
  <2> DEFINE n == [rec EXCEPT !.phase = "refresh"]
  <2>1. /\ n \in ReqState /\ Same(n, q) /\ n.phase = "refresh" /\ n.session = q.session /\ n.answer = q.answer
        /\ n.is_admin = account.is_admin /\ n.is_active = account.active /\ n.decided = now
    BY <1>3 DEF ReqState, Phase, Same
  <2>2. req' = [req EXCEPT ![r] = n]
    BY <1>8 DEF Go
  <2> HIDE DEF n
  <2>3. Acts(r) /\ req'[r] = n
    BY <2>1, <2>2, GoActs
  <2>4. QED
    BY <1>1, <1>3, <1>4, <1>8, <2>1, <2>3 DEF Decides
<1>9. CASE Resolves(rec.session.sid) /\ ~IsSessionExpired(rec.session, Leeway) /\ Go(r, Dispatch(rec))
  <2> DEFINE n == Dispatch(rec)
  <2>1. req' = [req EXCEPT ![r] = n]
    BY <1>9 DEF Go
  <2>2. CASE account.active
    <3>1. n = [rec EXCEPT !.phase = "admitted"]
      BY <1>3, <2>2, DispatchState
    <3> HIDE DEF n
    <3>2. /\ n \in ReqState /\ Same(n, q) /\ n.phase = "admitted" /\ n.session = q.session /\ n.answer = q.answer
          /\ n.is_admin = account.is_admin /\ n.is_active = account.active /\ n.decided = now
      BY <1>3, <3>1 DEF ReqState, Phase, Same
    <3>3. Acts(r) /\ req'[r] = n
      BY <2>1, <3>2, GoActs
    <3>4. QED
      BY <1>1, <1>3, <1>4, <1>9, <2>2, <3>2, <3>3 DEF Decides
  <2>3. CASE ~account.active
    <3>1. n \in ReqState /\ n.phase = "denied" /\ Reset(n, rec) /\ n.session = rec.session /\ n.why = "inactive"
      BY <1>3, <2>3, DispatchState
    <3> HIDE DEF n
    <3>2. Acts(r) /\ req'[r] = n
      BY <2>1, <3>1, GoActs
    <3>3. QED
      BY <1>1, <1>3, <1>4, <3>1, <3>2 DEF Ends, Reset, Same
  <2>4. QED
    BY <2>2, <2>3
<1>10. QED
  BY <1>5, <1>6, <1>7, <1>8, <1>9

LEMMA ProfileSteps ==
  ASSUME Typed, NEW r \in Request, get_user_auth_state(r)
  PROVE  Profiles(r) \/ Ends(r)
<1> DEFINE q == req[r]
           rec == [q EXCEPT !.is_admin = account.is_admin, !.is_active = account.active]
           n == Dispatch(rec)
<1>1. q \in ReqState /\ q.phase = "profile" /\ account \in [is_admin : BOOLEAN, active : BOOLEAN] /\ UNCHANGED Outside
  BY ReqTypes, RestOutside DEF get_user_auth_state, Typed, World
<1>2. account.is_admin \in BOOLEAN /\ account.active \in BOOLEAN
  BY <1>1
<1>3. /\ rec \in ReqState /\ Same(rec, q) /\ rec.phase = q.phase /\ rec.session = q.session /\ rec.answer = q.answer
      /\ rec.is_admin = account.is_admin /\ rec.is_active = account.active /\ rec.decided = q.decided
  BY <1>1, <1>2 DEF ReqState, Same
<1>4. Go(r, Deny(r, "error")) \/ req' = [req EXCEPT ![r] = n]
  BY DEF get_user_auth_state, Go
<1> HIDE DEF rec
<1>5. CASE Go(r, Deny(r, "error"))
  BY <1>1, <1>5, DenyEnds DEF Reason
<1>6. CASE req' = [req EXCEPT ![r] = n] /\ account.active
  <2>1. n = [rec EXCEPT !.phase = "admitted"]
    BY <1>3, <1>6, DispatchState
  <2> HIDE DEF n
  <2>2. /\ n \in ReqState /\ Same(n, q) /\ n.phase = "admitted" /\ n.session = q.session /\ n.answer = q.answer
        /\ n.is_admin = account.is_admin /\ n.decided = q.decided
    BY <1>3, <2>1 DEF ReqState, Phase, Same
  <2>3. Acts(r) /\ req'[r] = n
    BY <1>6, <2>2, GoActs
  <2>4. QED
    BY <1>1, <1>6, <2>2, <2>3 DEF Profiles
<1>7. CASE req' = [req EXCEPT ![r] = n] /\ ~account.active
  <2>1. n \in ReqState /\ n.phase = "denied" /\ Reset(n, rec) /\ n.session = rec.session /\ n.why = "inactive"
    BY <1>3, <1>7, DispatchState
  <2> HIDE DEF n
  <2>2. Acts(r) /\ req'[r] = n
    BY <1>7, <2>1, GoActs
  <2>3. QED
    BY <1>1, <1>3, <2>1, <2>2 DEF Ends, Reset, Same
<1>8. QED
  BY <1>4, <1>5, <1>6, <1>7

LEMMA PersistJar ==
  ASSUME NEW j \in Jar, NEW a \in Answer
  PROVE  LET p == persist_session_auth(j, a) IN
         /\ p \in Jar /\ p.sid = j.sid /\ p.expires_at = a.expires_at
         /\ p.refresh_token = IF a.refresh_token # Nil THEN a.refresh_token ELSE j.refresh_token
BY DEF persist_session_auth, Jar, Answer

LEMMA RefreshSteps ==
  ASSUME Typed, NEW r \in Request, refresh_session_with_idp(r)
  PROVE  Resumes(r) \/ Ends(r)
<1> DEFINE q == req[r]
           j == persist_session_auth(q.session, q.answer)
           rec == [q EXCEPT !.session = j, !.answer = Nil]
           n == Dispatch(rec)
<1>1. q \in ReqState /\ q.phase = "resume" /\ q.session \in Jar /\ UNCHANGED Outside
  BY ReqTypes, RestOutside DEF refresh_session_with_idp
<1>2. \/ q.answer = Nil /\ Go(r, Clear(r, "expired"))
      \/ q.answer # Nil /\ req' = [req EXCEPT ![r] = n]
  BY DEF refresh_session_with_idp, Go
<1>3. CASE q.answer = Nil /\ Go(r, Clear(r, "expired"))
  BY <1>1, <1>3, ClearEnds DEF Reason
<1>4. CASE q.answer # Nil /\ req' = [req EXCEPT ![r] = n]
  <2>1. q.answer \in Answer
    BY <1>1, <1>4 DEF ReqState
  <2>2. j \in Jar
    BY <1>1, <2>1, PersistJar
  <2> HIDE DEF j
  <2>3. /\ rec \in ReqState /\ Same(rec, q) /\ rec.session = j /\ rec.answer = Nil
        /\ rec.is_admin = q.is_admin /\ rec.is_active = q.is_active /\ rec.decided = q.decided
    BY <1>1, <2>2 DEF ReqState, Same
  <2> HIDE DEF rec
  <2>4. CASE q.is_active
    <3>1. n = [rec EXCEPT !.phase = "admitted"]
      BY <2>3, <2>4, DispatchState
    <3> HIDE DEF n
    <3>2. /\ n \in ReqState /\ Same(n, q) /\ n.phase = "admitted" /\ n.session = j /\ n.answer = Nil
          /\ n.is_admin = q.is_admin /\ n.decided = q.decided
      BY <2>3, <3>1 DEF ReqState, Phase, Same
    <3>3. Acts(r) /\ req'[r] = n
      BY <1>4, <3>2, GoActs
    <3>4. QED
      BY <1>1, <1>4, <2>4, <3>2, <3>3 DEF Resumes, j
  <2>5. CASE ~q.is_active
    <3>1. n \in ReqState /\ n.phase = "denied" /\ Reset(n, rec) /\ n.session = rec.session /\ n.why = "inactive"
      BY <2>3, <2>5, DispatchState
    <3> HIDE DEF n
    <3>2. Acts(r) /\ req'[r] = n
      BY <1>4, <3>1, GoActs
    <3>3. Reset(n, q)
      BY <2>3, <3>1 DEF Reset, Same
    <3>4. QED
      BY <1>1, <1>4, <2>3, <3>1, <3>2, <3>3 DEF Ends, j
  <2>6. QED
    BY <2>4, <2>5
<1>5. QED
  BY <1>2, <1>3, <1>4

LEMMA TokenSteps ==
  ASSUME Typed, NEW r \in Request, TokenEndpoint(r)
  PROVE  Passes(r) \/ Answers(r)
<1> DEFINE q == req[r]
           t == q.session.refresh_token
           new == [provider |-> DefaultProvider, n |-> issued + 1]
<1>1. q \in ReqState /\ q.phase = "refresh" /\ now \in Nat /\ issued \in Nat
  BY ReqTypes DEF TokenEndpoint, Typed, World
<1>2. CASE t \notin accepts /\ Step(r, "resume") /\ UNCHANGED <<idp, vouched, failed>>
  <2>1. UNCHANGED Outside
    BY <1>2 DEF TokenEndpoint, Outside
  <2>2. <<q.phase, "resume">> \in Route
    BY <1>1 DEF Route
  <2>3. QED
    BY <1>1, <1>2, <2>1, <2>2, StepPasses
<1>3. CASE ~(t \notin accepts /\ Step(r, "resume") /\ UNCHANGED <<idp, vouched, failed>>)
  <2>1. /\ t \in accepts
        /\ accepts' = IF scenario.rotating THEN (accepts \ {t}) \cup {new} ELSE accepts
        /\ issued' = IF scenario.rotating THEN issued + 1 ELSE issued
        /\ UNCHANGED <<now, keys, scenario, database, cookie, loggedOut, overlapped, failed>>
    BY <1>3 DEF TokenEndpoint
  <2>2. PICK expiry \in {now + Lifetime, Never} :
          /\ Go(r, [q EXCEPT !.phase = "resume", !.decided = now,
                      !.answer = [expires_at |-> expiry, refresh_token |-> IF scenario.rotating THEN new ELSE Nil]])
          /\ vouched' = [vouched EXCEPT ![q.session.sid] =
               IF expiry = Never \/ vouched[q.session.sid] = Never THEN Never ELSE expiry]
    BY <1>3 DEF TokenEndpoint
  <2> DEFINE a == [expires_at |-> expiry, refresh_token |-> IF scenario.rotating THEN new ELSE Nil]
             n == [q EXCEPT !.phase = "resume", !.decided = now, !.answer = a]
  <2>3. new \in RefreshToken
    BY <1>1, AuthAssumption DEF RefreshToken
  <2>4. expiry \in Nat \cup {Never}
    BY <1>1, AuthAssumption
  <2>5. a \in Answer /\ a.expires_at = expiry /\ a.refresh_token = IF scenario.rotating THEN new ELSE Nil
    BY <2>3, <2>4 DEF Answer
  <2>6. req' = [req EXCEPT ![r] = n]
    BY <2>2 DEF Go
  <2> HIDE DEF a
  <2>7. /\ n \in ReqState /\ Same(n, q) /\ n.phase = "resume" /\ n.session = q.session /\ n.answer = a
        /\ n.is_admin = q.is_admin /\ n.is_active = q.is_active /\ n.decided = now
    BY <1>1, <2>5 DEF ReqState, Phase, Same
  <2> HIDE DEF n
  <2>8. Acts(r) /\ req'[r] = n
    BY <2>6, <2>7, GoActs
  <2>9. QED
    BY <1>1, <2>1, <2>2, <2>5, <2>7, <2>8 DEF Answers
<1>4. QED
  BY <1>2, <1>3

LEMMA LosesSteps ==
  ASSUME Typed, NEW r \in Request, TokenEndpointFails(r)
  PROVE  Loses(r)
<1> DEFINE q == req[r]
           n == [q EXCEPT !.phase = "resume", !.answer = Nil]
<1>1. q \in ReqState
  BY ReqTypes
<1>2. /\ n \in ReqState /\ Same(n, q) /\ n.phase = "resume" /\ n.session = q.session /\ n.answer = Nil
      /\ n.is_admin = q.is_admin /\ n.is_active = q.is_active /\ n.decided = q.decided
  BY <1>1 DEF ReqState, Phase, Same
<1>3. req' = [req EXCEPT ![r] = n]
  BY DEF TokenEndpointFails, Go
<1> HIDE DEF n
<1>4. Acts(r) /\ req'[r] = n
  BY <1>2, <1>3, GoActs
<1>5. QED
  BY <1>2, <1>4 DEF TokenEndpointFails, Loses

LEMMA BearerSteps ==
  ASSUME Typed, NEW r \in Request, authenticate_bearer_token(r)
  PROVE  Validates(r)
<1> DEFINE q == req[r]
<1>1. q \in ReqState /\ q.phase = "arrived" /\ q.credential = "bearer" /\ now \in Nat
  BY ReqTypes DEF authenticate_bearer_token, Typed, World
<1>2. PICK token \in Token, served \in SUBSET {1, 2} :
        /\ token.signer \in Provider => token.generation <= published[token.signer]
        /\ LET result == validate_token(token, served)
           IN  /\ jwks' = result.cache
               /\ Go(r, [q EXCEPT !.phase = IF result.valid THEN "verified" ELSE "denied",
                                  !.why = IF result.valid THEN "" ELSE "token",
                                  !.token = token, !.served = served = {1, 2}, !.decided = now])
  BY DEF authenticate_bearer_token
<1> DEFINE valid == validate_token(token, served).valid
           phase == IF valid THEN "verified" ELSE "denied"
           why == IF valid THEN "" ELSE "token"
           all == served = {1, 2}
           n == [q EXCEPT !.phase = phase, !.why = why, !.token = token, !.served = all, !.decided = now]
<1>3. req' = [req EXCEPT ![r] = n]
  BY <1>2 DEF Go
<1>4. phase \in Phase /\ why \in Reason /\ all \in BOOLEAN
  BY DEF Phase, Reason
<1>5. \/ valid /\ phase = "verified" /\ why = ""
      \/ ~valid /\ phase = "denied" /\ why = "token"
  <2> HIDE DEF valid
  <2>1. CASE valid
    BY <2>1
  <2>2. CASE ~valid
    BY <2>2
  <2>3. QED
    BY <2>1, <2>2
<1> HIDE DEF phase, why
<1>6. /\ n \in ReqState /\ n.phase = phase /\ n.why = why /\ n.token = token /\ n.decided = now
  BY <1>1, <1>4 DEF ReqState
<1>7. /\ n.credential = q.credential /\ n.logout = q.logout /\ n.session = q.session /\ n.had = q.had
      /\ n.out = q.out /\ n.answer = q.answer /\ n.served = all
  BY <1>1 DEF ReqState
<1> HIDE DEF n
<1>8. Acts(r) /\ req'[r] = n
  BY <1>3, <1>6, GoActs
<1>9. UNCHANGED <<now, published, rotated, scenario, database, cookie, idp, vouched, loggedOut, overlapped, failed>>
  BY DEF authenticate_bearer_token, history
<1>10. QED
  BY <1>1, <1>2, <1>5, <1>6, <1>7, <1>8, <1>9 DEF Validates

LEMMA HandlerSteps ==
  ASSUME Typed, NEW r \in Request, Handle(r) \/ logout(r) \/ LogoutFails(r) \/ StoreUnavailable(r)
  PROVE  Ends(r) \/ LogsOut(r)
<1> DEFINE q == req[r]
           d == Done(q, "handled")
<1>1. d \in ReqState /\ d.phase = "handled" /\ Reset(d, q) /\ d.session = q.session /\ d.why = ""
  BY ReqTypes, DoneState
<1>2. CASE Handle(r) \/ LogoutFails(r)
  <2>1. req' = [req EXCEPT ![r] = d] /\ q.phase = "admitted" /\ UNCHANGED Outside
    BY <1>2, RestOutside DEF Handle, LogoutFails, Go
  <2> HIDE DEF d
  <2>2. Acts(r) /\ req'[r] = d
    BY <1>1, <2>1, GoActs
  <2>3. QED
    BY <1>1, <2>1, <2>2 DEF Ends
<1>3. CASE logout(r)
  <2> DEFINE n == [d EXCEPT !.session = Empty]
  <2>1. req' = [req EXCEPT ![r] = n]
    BY <1>3 DEF logout, Go
  <2> HIDE DEF d
  <2>2. n \in ReqState /\ n.phase = "handled" /\ Reset(n, q) /\ n.session = Empty /\ n.why = ""
    BY <1>1, EmptyJar DEF ReqState, Reset
  <2> HIDE DEF n
  <2>3. Acts(r) /\ req'[r] = n
    BY <2>1, <2>2, GoActs
  <2>4. QED
    BY <1>3, <2>2, <2>3 DEF logout, LogsOut
<1>4. CASE StoreUnavailable(r)
  <2>1. Go(r, Deny(r, "error")) /\ q.phase = "resolve" /\ UNCHANGED Outside
    BY <1>4, RestOutside DEF StoreUnavailable
  <2>2. QED
    BY <2>1, DenyEnds DEF Reason
<1>5. QED
  BY <1>2, <1>3, <1>4

LEMMA StepKinds ==
  ASSUME Typed, [Next]_vars
  PROVE  Worldly \/ \E r \in Request : Kinds(r)
<1>1. CASE UNCHANGED vars
  BY <1>1 DEF vars, history, Worldly, Outside
<1>2. ASSUME NEW r \in Request, Arrive(r) \/ Middleware(r) \/ TokenEndpointFails(r) \/ LogoutFails(r)
      PROVE  Kinds(r)
  BY <1>2, ArriveSteps, RespondSteps, AuthenticateSteps, SessionSteps, ProfileSteps, RefreshSteps, TokenSteps,
     LosesSteps, BearerSteps, HandlerSteps DEF Middleware, Kinds
<1>3. ASSUME NEW t \in Thread, StoreStep(t)
      PROVE  Worldly
  BY <1>3 DEF StoreStep, history, Worldly, Outside
<1>4. CASE Login \/ SetAdmin \/ SetActive \/ RotateKeys \/ Tick
  <2>1. UNCHANGED req
    BY <1>4 DEF Login, SetAdmin, SetActive, Change, RotateKeys, Tick
  <2>2. QED
    BY <1>4, <2>1 DEF Worldly
<1>5. QED
  BY <1>1, <1>2, <1>3, <1>4 DEF Next

-----------------------------------------------------------------------------
(* Types. *)
LEMMA TypedInit == Init => Typed
<1> SUFFICES ASSUME Init PROVE Typed
  OBVIOUS
<1>1. World
  BY EmptyJar DEF Init, World
<1>2. req \in [Request -> ReqState] /\ \A r \in Request : req[r] = Fresh
  BY FreshState DEF Init
<1>3. Shape(Fresh)
  BY FreshState, EmptyJar DEF Shape
<1>4. QED
  BY <1>1, <1>2, <1>3 DEF Typed

LEMMA ActsOthers ==
  ASSUME Typed, NEW r \in Request, Acts(r)
  PROVE  req' \in [Request -> ReqState] /\ \A g \in Request \ {r} : req'[g] = req[g]
BY DEF Typed, Acts

LEMMA WorldKept ==
  ASSUME World, UNCHANGED <<now, scenario, database, cookie, idp, loggedOut>>,
         overlapped' \in BOOLEAN, failed' \in BOOLEAN
  PROVE  World'
BY DEF World, database, idp

(* The steps of the world, one by one. *)
LEMMA LoginWorld ==
  ASSUME World, Login
  PROVE  /\ World'
         /\ \E s \in Sid : /\ sessions[s] = "unused" /\ sessions' = [sessions EXCEPT ![s] = "live"]
                           /\ cookie'.sid = s /\ cookie'.expires_at = now + Lifetime
                           /\ vouched' = [vouched EXCEPT ![s] = now + Lifetime]
         /\ accepts \subseteq accepts'
         /\ scenario.refresh /\ scenario.provider = DefaultProvider => cookie'.refresh_token \in accepts'
         /\ overlapped' = (overlapped \/ \E r \in Request : Busy(r))
         /\ UNCHANGED <<keys, now, scenario, account, req, failed, loggedOut>>
<1> DEFINE token == [provider |-> scenario.provider, n |-> issued + 1]
<1>1. PICK s \in Sid :
        /\ \A x \in Sid : sessions[x] = "unused" <=> x >= s
        /\ sessions' = [sessions EXCEPT ![s] = "live"]
        /\ accepts' = IF scenario.provider = DefaultProvider THEN accepts \cup {token} ELSE accepts
        /\ issued' = issued + 1
        /\ cookie' = [sid |-> s, expires_at |-> now + Lifetime, refresh_token |-> IF scenario.refresh THEN token ELSE Nil]
        /\ vouched' = [vouched EXCEPT ![s] = now + Lifetime]
        /\ overlapped' = (overlapped \/ \E r \in Request : Busy(r))
        /\ UNCHANGED <<keys, now, scenario, account, req, failed, loggedOut>>
  BY DEF Login
<1>2. sessions[s] = "unused"
  BY <1>1, AuthAssumption
<1>3. scenario.provider \in Provider
  BY AuthAssumption DEF World
<1>4. token \in RefreshToken /\ issued' \in Nat /\ now + Lifetime \in Nat
  BY <1>1, <1>3, AuthAssumption DEF World, RefreshToken
<1> HIDE DEF token
<1>5. cookie' \in Jar
  BY <1>1, <1>4 DEF Jar
<1>6. accepts' \subseteq RefreshToken
  BY <1>1, <1>4 DEF World
<1>7. World'
  BY <1>1, <1>4, <1>5, <1>6 DEF World
<1>8. accepts \subseteq accepts'
  BY <1>1
<1>9. cookie'.sid = s /\ cookie'.expires_at = now + Lifetime
  BY <1>1
<1>10. scenario.refresh /\ scenario.provider = DefaultProvider => cookie'.refresh_token \in accepts'
  BY <1>1
<1>11. QED
  BY <1>1, <1>2, <1>7, <1>8, <1>9, <1>10

(* What else may change while the requests stand still. *)
Drifts ==
  /\ now' \in Nat /\ now <= now'
  /\ \A s \in Sid : sessions[s] # "live" => sessions'[s] = sessions[s]
  /\ \A s \in Sid : sessions[s] = "live" => sessions'[s] # "unused"
  /\ UNCHANGED <<scenario, cookie, idp, vouched, loggedOut, overlapped, failed>>

LEMMA DriftWorld ==
  ASSUME World, SetAdmin \/ SetActive \/ RotateKeys \/ Tick \/ UNCHANGED Outside
  PROVE  World' /\ Drifts
<1>1. account \in [is_admin : BOOLEAN, active : BOOLEAN] /\ sessions \in [Sid -> {"unused", "live", "ended"}]
  BY DEF World
<1>2. CASE SetAdmin
  <2>1. account' = [account EXCEPT !.is_admin = ~account.is_admin]
    BY <1>2 DEF SetAdmin, Change
  <2>2. account' \in [is_admin : BOOLEAN, active : BOOLEAN]
    BY <1>1, <2>1
  <2>3. UNCHANGED <<now, scenario, sessions, cookie, accepts, issued, vouched, loggedOut, overlapped, failed>>
    BY <1>2 DEF SetAdmin, Change, idp
  <2>4. QED
    BY <2>2, <2>3 DEF World, Drifts, idp
<1>3. CASE SetActive
  <2>1. account' = [account EXCEPT !.active = ~account.active]
    BY <1>3 DEF SetActive, Change
  <2>2. account' \in [is_admin : BOOLEAN, active : BOOLEAN]
    BY <1>1, <2>1
  <2>3. /\ sessions' \in [Sid -> {"unused", "live", "ended"}]
        /\ \A s \in Sid : sessions[s] # "live" => sessions'[s] = sessions[s]
        /\ \A s \in Sid : sessions[s] = "live" => sessions'[s] # "unused"
    BY <1>1, <1>3 DEF SetActive, Change
  <2>4. UNCHANGED <<now, scenario, cookie, accepts, issued, vouched, loggedOut, overlapped, failed>>
    BY <1>3 DEF SetActive, Change, idp
  <2>5. QED
    BY <2>2, <2>3, <2>4 DEF World, Drifts, idp
<1>4. CASE RotateKeys \/ UNCHANGED Outside
  <2>1. UNCHANGED <<now, scenario, account, sessions, cookie, accepts, issued, vouched, loggedOut, overlapped, failed>>
    BY <1>4 DEF RotateKeys, Outside, database, idp, history
  <2>2. QED
    BY <1>1, <2>1 DEF World, Drifts, idp
<1>5. CASE Tick
  <2>1. /\ now' = now + 1
        /\ UNCHANGED <<scenario, account, sessions, cookie, accepts, issued, vouched, loggedOut, overlapped, failed>>
    BY <1>5 DEF Tick, database, idp, history
  <2>2. QED
    BY <1>1, <2>1 DEF World, Drifts, idp
<1>6. QED
  BY <1>2, <1>3, <1>4, <1>5

LEMMA TypedKinds ==
  ASSUME Typed, NEW r \in Request, Kinds(r)
  PROVE  Typed'
<1> DEFINE q == req[r]
           n == req'[r]
<1>0. q \in ReqState /\ Shape(q) /\ q.session \in Jar /\ World
  BY ReqTypes DEF Typed
<1>1. Acts(r)
  BY DEF Kinds, Arrives, Responds, Ends, LogsOut, Passes, Decides, Answers, Loses, Resumes, Validates, Profiles
<1>2. World' /\ Shape(n)
  <2>1. CASE Arrives(r)
    <3>1. World'
      BY <1>0, <2>1, WorldKept DEF Arrives, World
    <3>2. n.session.sid # 0 => n.had
      BY <2>1, EmptyJar DEF Arrives
    <3>3. QED
      BY <2>1, <3>1, <3>2, EmptyJar DEF Arrives, Shape
  <2>2. CASE Responds(r)
    <3>1. Shape(Fresh)
      BY FreshState, EmptyJar DEF Shape
    <3>2. cookie' \in Jar
      BY <1>0, <2>2, EmptyJar DEF Responds, World
    <3>3. World'
      BY <1>0, <2>2, <3>2 DEF Responds, World, database, idp
    <3>4. QED
      BY <2>2, <3>1, <3>3 DEF Responds
  <2>3. CASE Ends(r)
    <3>1. World'
      BY <1>0, <2>3, WorldKept DEF Ends, Outside, World
    <3>2. q.answer # Nil => q.answer \in Answer
      BY <1>0 DEF ReqState
    <3>3. n.session.sid \in {0, q.session.sid}
      BY <1>0, <2>3, <3>2, EmptyJar, PersistJar DEF Ends
    <3>4. QED
      BY <1>0, <2>3, <3>1, <3>3 DEF Ends, Reset, Shape
  <2>4. CASE LogsOut(r)
    <3>1. q.session.sid \in Sid
      BY <1>0, <2>4 DEF LogsOut, Shape, Jar
    <3>2. World'
      BY <1>0, <2>4, <3>1, AuthAssumption DEF LogsOut, Ended, World, idp
    <3>3. QED
      BY <1>0, <2>4, <3>2, EmptyJar DEF LogsOut, Reset, Shape
  <2>5. CASE Passes(r)
    <3>1. World'
      BY <1>0, <2>5, WorldKept DEF Passes, Outside, World
    <3>2. Shape(n)
      BY <1>0, <2>5 DEF Passes, Same, Shape, Route
    <3>3. QED
      BY <3>1, <3>2
  <2>6. CASE Decides(r)
    <3>1. World'
      BY <1>0, <2>6, WorldKept DEF Decides, Outside, World
    <3>2. QED
      BY <1>0, <2>6, <3>1 DEF Decides, Same, Shape
  <2>7. CASE Answers(r)
    <3>1. accepts' \subseteq RefreshToken /\ issued' \in Nat
      BY <1>0, <2>7, AuthAssumption DEF Answers, World, RefreshToken
    <3>2. World'
      BY <1>0, <2>7, <3>1 DEF Answers, World, database
    <3>3. QED
      BY <1>0, <2>7, <3>2 DEF Answers, Same, Shape
  <2>8. CASE Loses(r)
    <3>1. World'
      BY <1>0, <2>8, WorldKept DEF Loses, World
    <3>2. QED
      BY <1>0, <2>8, <3>1 DEF Loses, Same, Shape
  <2>9. CASE Resumes(r)
    <3>1. World'
      BY <1>0, <2>9, WorldKept DEF Resumes, Outside, World
    <3>2. q.answer \in Answer
      BY <1>0, <2>9 DEF Resumes, ReqState
    <3>3. n.session.sid = q.session.sid
      BY <1>0, <2>9, <3>2, PersistJar DEF Resumes
    <3>4. QED
      BY <1>0, <2>9, <3>1, <3>3 DEF Resumes, Same, Shape
  <2>10. CASE Validates(r)
    <3>1. World'
      BY <1>0, <2>10, WorldKept DEF Validates, World
    <3>2. QED
      BY <1>0, <2>10, <3>1 DEF Validates, Shape
  <2>11. CASE Profiles(r)
    <3>1. World'
      BY <1>0, <2>11, WorldKept DEF Profiles, Outside, World
    <3>2. QED
      BY <1>0, <2>11, <3>1 DEF Profiles, Same, Shape
  <2>12. QED
    BY <2>1, <2>2, <2>3, <2>4, <2>5, <2>6, <2>7, <2>8, <2>9, <2>10, <2>11 DEF Kinds
<1>3. QED
  BY <1>1, <1>2, ActsOthers DEF Typed

LEMMA TypedNext == Typed /\ [Next]_vars => Typed'
<1> SUFFICES ASSUME Typed, [Next]_vars PROVE Typed'
  OBVIOUS
<1>1. CASE Worldly
  <2>1. World' /\ UNCHANGED req
    BY <1>1, LoginWorld, DriftWorld DEF Worldly, Typed
  <2>2. QED
    BY <2>1 DEF Typed
<1>2. QED
  BY <1>1, StepKinds, TypedKinds

-----------------------------------------------------------------------------
(* Who is admitted.  The entitlement of a request that waits for the token *)
(* endpoint was there when its row was read; entitled only grows while the *)
(* request lasts.                                                          *)
Entitled(r) == [sid |-> req[r].session.sid, is_admin |-> req[r].is_admin] \in entitled[r]
EntitledInv ==
  \A r \in Request : req[r].phase = "admitted" \/ (req[r].phase \in {"refresh", "resume"} /\ req[r].is_active)
                       => Entitled(r)

LEMMA EntitledNext == Typed /\ EntitledInv /\ [Next]_vars => EntitledInv'
<1> SUFFICES ASSUME Typed, EntitledInv, [Next]_vars PROVE EntitledInv'
  OBVIOUS
<1>1. CASE UNCHANGED vars
  BY <1>1 DEF vars, EntitledInv, Entitled
<1>2. CASE Witness
  <2> DEFINE now_entitled == Entitlements(account', sessions')
             Waits(r) == req'[r].phase \in {"admitted", "refresh", "resume"}
  <2>1. \A r \in Request : Waits(r) /\ req[r].phase # "idle" => entitled[r] \subseteq entitled'[r] /\ now_entitled \subseteq entitled'[r]
    BY <1>2 DEF Witness, Busy
  <2>2. ASSUME NEW r \in Request, req'[r] = req[r]
        PROVE  req'[r].phase = "admitted" \/ (req'[r].phase \in {"refresh", "resume"} /\ req'[r].is_active) => Entitled(r)'
    BY <2>1, <2>2 DEF EntitledInv, Entitled
  <2>3. CASE Worldly
    BY <2>2, <2>3 DEF Worldly, EntitledInv
  <2>4. ASSUME NEW r \in Request, Kinds(r)
        PROVE  EntitledInv'
    <3> DEFINE q == req[r]
               n == req'[r]
    <3>0. q \in ReqState /\ Shape(q) /\ q.session \in Jar
      BY ReqTypes
    <3>1. Acts(r)
      BY <2>4 DEF Kinds, Arrives, Responds, Ends, LogsOut, Passes, Decides, Answers, Loses, Resumes, Validates, Profiles
    <3>2. ASSUME n.phase = "admitted" \/ (n.phase \in {"refresh", "resume"} /\ n.is_active)
          PROVE  [sid |-> n.session.sid, is_admin |-> n.is_admin] \in entitled'[r]
      <4>1. CASE Decides(r)
        <5>1. n.is_active = account.active /\ account.active \in BOOLEAN
          BY <4>1 DEF Decides, Typed, World
        <5>2. account.active /\ account' = account /\ sessions' = sessions
          BY <3>2, <4>1, <5>1 DEF Decides, Outside, database
        <5>3. n.session.sid \in {x \in Sid : sessions'[x] = "live"} /\ n.is_admin = account'.is_admin
          BY <4>1, <5>2 DEF Decides, Resolves
        <5>4. [sid |-> n.session.sid, is_admin |-> n.is_admin] \in now_entitled
          BY <5>2, <5>3 DEF Entitlements
        <5>5. QED
          BY <2>1, <3>2, <4>1, <5>4 DEF Decides
      <4>2. CASE Profiles(r)
        <5>1. account.active /\ account' = account /\ n.is_admin = account'.is_admin /\ n.session.sid = 0
          BY <3>0, <4>2 DEF Profiles, Outside, database, Shape
        <5>2. [sid |-> n.session.sid, is_admin |-> n.is_admin] \in now_entitled
          BY <5>1 DEF Entitlements
        <5>3. QED
          BY <2>1, <3>2, <4>2, <5>2 DEF Profiles
      <4>3. CASE Resumes(r)
        <5>1. q.answer \in Answer
          BY <3>0, <4>3 DEF Resumes, ReqState
        <5>2. n.session.sid = q.session.sid /\ n.is_admin = q.is_admin
          BY <3>0, <4>3, <5>1, PersistJar DEF Resumes
        <5>3. [sid |-> q.session.sid, is_admin |-> q.is_admin] \in entitled[r]
          BY <4>3 DEF Resumes, EntitledInv, Entitled
        <5>4. QED
          BY <2>1, <3>2, <4>3, <5>2, <5>3 DEF Resumes
      <4>4. CASE Answers(r) \/ Loses(r) \/ Passes(r)
        <5>1. /\ n.session.sid = q.session.sid /\ n.is_admin = q.is_admin /\ n.is_active = q.is_active
              /\ q.phase \in {"refresh", "resume"} /\ n.phase = "resume"
          BY <3>2, <4>4 DEF Answers, Loses, Passes, Route
        <5>2. [sid |-> q.session.sid, is_admin |-> q.is_admin] \in entitled[r]
          BY <3>2, <5>1 DEF EntitledInv, Entitled
        <5>3. QED
          BY <2>1, <3>2, <5>1, <5>2
      <4>5. CASE Arrives(r) \/ Responds(r) \/ Ends(r) \/ LogsOut(r) \/ Validates(r)
        <5>1. n.phase \notin {"admitted", "refresh", "resume"}
          BY <4>5, FreshState DEF Arrives, Responds, Ends, LogsOut, Validates
        <5>2. QED
          BY <3>2, <5>1
      <4>6. QED
        BY <2>4, <4>1, <4>2, <4>3, <4>4, <4>5 DEF Kinds
    <3>3. ASSUME NEW g \in Request
          PROVE  req'[g].phase = "admitted" \/ (req'[g].phase \in {"refresh", "resume"} /\ req'[g].is_active) => Entitled(g)'
      <4>1. CASE g = r
        BY <3>2, <4>1 DEF Entitled
      <4>2. CASE g # r
        BY <2>2, <3>1, <4>2, ActsOthers
      <4>3. QED
        BY <4>1, <4>2
    <3>4. QED
      BY <3>3 DEF EntitledInv
  <2>5. QED
    BY <2>3, <2>4, StepKinds
<1>3. QED
  BY <1>1, <1>2 DEF Next

(* auth_middleware.py: whoever is admitted was, at some moment of this     *)
(* very request, an active user with that admin flag and, with a cookie, a *)
(* live session, although the row is read before an await and used after.  *)
THEOREM AdmittedWereEntitled == Spec => []AdmittedWasEntitled
<1>1. Init => EntitledInv
  BY FreshState DEF Init, EntitledInv
<1>2. EntitledInv => AdmittedWasEntitled
  BY DEF EntitledInv, Entitled, AdmittedWasEntitled
<1>3. QED
  BY <1>1, <1>2, TypedInit, TypedNext, EntitledNext, PTL DEF Spec

-----------------------------------------------------------------------------
LEMMA KindsActs ==
  ASSUME NEW r \in Request, Kinds(r)
  PROVE  Acts(r)
BY DEF Kinds, Arrives, Responds, Ends, LogsOut, Passes, Decides, Answers, Loses, Resumes, Validates, Profiles

(* Logged out.  A reported logout ended the row; a request that arrives    *)
(* later can still carry the cookie, and gets past the lookup of a live    *)
(* row with another session only.                                          *)
Barred(r) ==
  /\ req[r].out \subseteq loggedOut
  /\ req[r].phase \in {"refresh", "resume", "admitted"} => req[r].session.sid \notin req[r].out
LoggedOutInv ==
  /\ \A s \in loggedOut : s \in Sid /\ sessions[s] = "ended"
  /\ \A r \in Request : Barred(r)

LEMMA LoggedOutKinds ==
  ASSUME Typed, LoggedOutInv, NEW r \in Request, Kinds(r)
  PROVE  /\ \A s \in loggedOut' : s \in Sid /\ sessions'[s] = "ended"
         /\ loggedOut \subseteq loggedOut' /\ Barred(r)'
<1> DEFINE q == req[r]
           n == req'[r]
<1>0. /\ q \in ReqState /\ Shape(q) /\ q.session \in Jar /\ sessions \in [Sid -> {"unused", "live", "ended"}]
      /\ q.out \subseteq loggedOut
      /\ q.phase \in {"refresh", "resume", "admitted"} => q.session.sid \notin q.out
  BY ReqTypes DEF Typed, World, LoggedOutInv, Barred
<1>1. CASE LogsOut(r)
  <2>1. q.session.sid \in Sid
    BY <1>0, <1>1 DEF LogsOut, Shape, Jar
  <2>2. QED
    BY <1>0, <1>1, <2>1 DEF LogsOut, Reset, Ended, LoggedOutInv, Barred
<1>2. CASE ~LogsOut(r)
  <2>1. loggedOut' = loggedOut /\ sessions' = sessions
    BY <1>2 DEF Kinds, Arrives, Responds, Ends, Passes, Decides, Answers, Loses, Resumes, Validates, Profiles,
                Outside, database
  <2>2. Barred(r)'
    <3>1. CASE Decides(r)
      <4>1. q.session.sid \notin loggedOut
        BY <3>1 DEF Decides, Resolves, LoggedOutInv
      <4>2. QED
        BY <1>0, <2>1, <3>1, <4>1 DEF Decides, Same, Barred
    <3>2. CASE Resumes(r)
      <4>1. q.answer \in Answer
        BY <1>0, <3>2 DEF Resumes, ReqState
      <4>2. n.session.sid = q.session.sid
        BY <1>0, <3>2, <4>1, PersistJar DEF Resumes
      <4>3. QED
        BY <1>0, <2>1, <3>2, <4>2 DEF Resumes, Same, Barred
    <3>3. CASE Profiles(r)
      <4>1. n.session.sid = 0 /\ 0 \notin loggedOut
        BY <1>0, <3>3, AuthAssumption DEF Profiles, Shape, LoggedOutInv
      <4>2. QED
        BY <1>0, <2>1, <3>3, <4>1 DEF Profiles, Same, Barred
    <3>4. CASE Passes(r) \/ Answers(r) \/ Loses(r)
      BY <1>0, <2>1, <3>4 DEF Passes, Route, Answers, Loses, Same, Barred
    <3>5. CASE Arrives(r) \/ Responds(r) \/ Ends(r) \/ Validates(r)
      BY <1>0, <2>1, <3>5, FreshState DEF Arrives, Responds, Ends, Validates, Reset, Barred
    <3>6. QED
      BY <1>2, <3>1, <3>2, <3>3, <3>4, <3>5 DEF Kinds
  <2>3. QED
    BY <2>1, <2>2 DEF LoggedOutInv
<1>3. QED
  BY <1>1, <1>2

LEMMA LoggedOutNext == Typed /\ LoggedOutInv /\ [Next]_vars => LoggedOutInv'
<1> SUFFICES ASSUME Typed, LoggedOutInv, [Next]_vars PROVE LoggedOutInv'
  OBVIOUS
<1>1. CASE Worldly
  <2>1. /\ loggedOut' = loggedOut /\ UNCHANGED req
        /\ \A s \in Sid : sessions[s] = "ended" => sessions'[s] = "ended"
    BY <1>1, LoginWorld, DriftWorld DEF Worldly, Typed, World, Drifts
  <2>2. QED
    BY <2>1 DEF LoggedOutInv, Barred
<1>2. ASSUME NEW r \in Request, Kinds(r)
      PROVE  LoggedOutInv'
  <2>1. \A g \in Request \ {r} : req'[g] = req[g]
    BY <1>2, KindsActs, ActsOthers
  <2>2. ASSUME NEW g \in Request PROVE Barred(g)'
    <3>1. CASE g = r
      BY <1>2, <3>1, LoggedOutKinds
    <3>2. CASE g # r
      BY <1>2, <2>1, <3>2, LoggedOutKinds DEF LoggedOutInv, Barred
    <3>3. QED
      BY <3>1, <3>2
  <2>3. QED
    BY <1>2, <2>2, LoggedOutKinds DEF LoggedOutInv
<1>3. QED
  BY <1>1, <1>2, StepKinds

(* routers/auth.py: after a logout that was reported as done, no request   *)
(* that arrives later is admitted by that session, whichever responses     *)
(* still under way put its cookie back.                                    *)
THEOREM LogoutsAreFinal == Spec => []LoggedOutStaysOut
<1>1. Init => LoggedOutInv
  BY FreshState DEF Init, LoggedOutInv, Barred
<1>2. LoggedOutInv => LoggedOutStaysOut
  BY DEF LoggedOutInv, Barred, LoggedOutStaysOut
<1>3. QED
  BY <1>1, <1>2, TypedInit, TypedNext, LoggedOutNext, PTL DEF Spec

-----------------------------------------------------------------------------
(* Expiries.  vouched[s] is the latest expiry the provider gave for a      *)
(* session.  Every copy of the session, in the cookie, in a request or in  *)
(* an answer that was not applied yet, holds one that is no later; so the  *)
(* expiry check made against any of these copies is on the safe side.      *)
Lasts(sid, expiry) == vouched[sid] = Never \/ (expiry # Never /\ expiry <= vouched[sid])
Known(j) == j.sid # 0 => sessions[j.sid] # "unused" /\ Lasts(j.sid, j.expires_at)
InTime(r) == vouched[req[r].session.sid] = Never \/ req[r].decided < vouched[req[r].session.sid]
Kept(r) ==
  /\ Known(req[r].session)
  /\ req[r].phase = "resume" /\ req[r].answer # Nil
       => InTime(r) /\ Lasts(req[r].session.sid, req[r].answer.expires_at)
  /\ req[r].phase = "admitted" /\ req[r].credential = "session" => InTime(r)
Vouches ==
  /\ vouched \in [Sid -> Nat \cup {Never}]
  /\ \A s \in Sid : vouched[s] = Never \/ vouched[s] <= now + Lifetime
VouchedInv == Vouches /\ Known(cookie) /\ \A r \in Request : Kept(r)

(* An expiry once vouched for is only ever extended. *)
Later ==
  \A s \in Sid : sessions[s] # "unused" =>
    /\ sessions'[s] # "unused"
    /\ vouched'[s] = Never \/ (vouched[s] # Never /\ vouched[s] <= vouched'[s])

LEMMA KeptLater ==
  ASSUME Typed, VouchedInv, Later, Vouches', NEW g \in Request, req'[g] = req[g]
  PROVE  Kept(g)'
<1> DEFINE q == req[g]
           s == q.session.sid
<1>0. q \in ReqState /\ Shape(q) /\ q.session \in Jar /\ Kept(g)
  BY ReqTypes DEF VouchedInv
<1>1. q.session.expires_at \in Nat \cup {Never} /\ q.decided \in Nat /\ (q.answer # Nil => q.answer.expires_at \in Nat \cup {Never})
  BY <1>0 DEF ReqState, Jar, Answer
<1>2. CASE s = 0
  BY <1>0, <1>2, ReqTypes DEF Kept, Known, Shape
<1>3. CASE s # 0
  <2>1. s \in Sid
    BY <1>0, <1>3 DEF Jar
  <2>2. /\ sessions[s] # "unused" /\ sessions'[s] # "unused"
        /\ vouched[s] \in Nat \cup {Never} /\ vouched'[s] \in Nat \cup {Never}
        /\ vouched'[s] = Never \/ (vouched[s] # Never /\ vouched[s] <= vouched'[s])
    BY <1>0, <1>3, <2>1 DEF Later, Kept, Known, VouchedInv, Vouches
  <2>3. Known(q.session) => sessions'[s] # "unused" /\ (vouched'[s] = Never \/ (q.session.expires_at # Never /\ q.session.expires_at <= vouched'[s]))
    BY <1>1, <1>3, <2>2, AuthAssumption DEF Known, Lasts
  <2>4. InTime(g) => vouched'[s] = Never \/ q.decided < vouched'[s]
    BY <1>1, <2>2, AuthAssumption DEF InTime
  <2>5. q.answer # Nil /\ Lasts(s, q.answer.expires_at) =>
          vouched'[s] = Never \/ (q.answer.expires_at # Never /\ q.answer.expires_at <= vouched'[s])
    BY <1>1, <2>2, AuthAssumption DEF Lasts
  <2>6. QED
    BY <1>0, <2>3, <2>4, <2>5 DEF Kept, Known, InTime, Lasts
<1>4. QED
  BY <1>2, <1>3

LEMMA CookieLater ==
  ASSUME Typed, VouchedInv, Later, Vouches', cookie' = cookie
  PROVE  Known(cookie)'
<1> DEFINE s == cookie.sid
<1>1. CASE s = 0
  BY <1>1 DEF Known
<1>2. CASE s # 0
  <2>1. s \in Sid /\ cookie.expires_at \in Nat \cup {Never}
    BY <1>2 DEF Typed, World, Jar
  <2>2. /\ sessions[s] # "unused" /\ sessions'[s] # "unused"
        /\ vouched[s] \in Nat \cup {Never} /\ vouched'[s] \in Nat \cup {Never}
        /\ vouched'[s] = Never \/ (vouched[s] # Never /\ vouched[s] <= vouched'[s])
    BY <1>2, <2>1 DEF Later, Known, VouchedInv, Vouches
  <2>3. QED
    BY <1>2, <2>1, <2>2, AuthAssumption DEF VouchedInv, Known, Lasts
<1>3. QED
  BY <1>1, <1>2

LEMMA SteadyLater ==
  ASSUME Typed, Vouches, UNCHANGED vouched, now' \in Nat, now <= now',
         \A s \in Sid : sessions[s] # "unused" => sessions'[s] # "unused"
  PROVE  Later /\ Vouches'
<1>1. vouched \in [Sid -> Nat \cup {Never}] /\ now \in Nat /\ Lifetime \in Nat /\ vouched' = vouched
  BY AuthAssumption DEF Vouches, Typed, World
<1>2. Later
  BY <1>1, AuthAssumption DEF Later
<1>3. ASSUME NEW s \in Sid PROVE vouched[s] = Never \/ vouched[s] <= now' + Lifetime
  BY <1>1 DEF Vouches
<1>4. QED
  BY <1>1, <1>2, <1>3 DEF Vouches

LEMMA AnswersLater ==
  ASSUME Typed, VouchedInv, NEW r \in Request, Answers(r)
  PROVE  Later /\ Vouches' /\ Kept(r)'
<1> DEFINE q == req[r]
           n == req'[r]
           s == q.session.sid
           e == n.answer.expires_at
<1>0. q \in ReqState /\ Shape(q) /\ q.session \in Jar /\ Kept(r)
  BY ReqTypes DEF VouchedInv
<1>1. /\ s \in Sid /\ s # 0 /\ n.session = q.session /\ n.decided = now /\ now' = now /\ sessions' = sessions
      /\ e \in {now + Lifetime, Never} /\ n.phase = "resume"
      /\ vouched' = [vouched EXCEPT ![s] = IF e = Never \/ vouched[s] = Never THEN Never ELSE e]
  BY <1>0 DEF Answers, Shape, Jar, database
<1>2. /\ now \in Nat /\ Lifetime \in Nat \ {0} /\ vouched \in [Sid -> Nat \cup {Never}] /\ Never \notin Nat
      /\ \A x \in Sid : vouched[x] = Never \/ vouched[x] <= now + Lifetime
  BY AuthAssumption DEF Typed, World, VouchedInv, Vouches
<1> HIDE DEF s, e, n
<1>3. vouched'[s] = (IF e = Never \/ vouched[s] = Never THEN Never ELSE e) /\ \A x \in Sid \ {s} : vouched'[x] = vouched[x]
  BY <1>1, <1>2
<1>4. vouched'[s] = Never \/ (vouched'[s] = now + Lifetime /\ e = now + Lifetime /\ vouched[s] # Never)
  BY <1>1, <1>3
<1>5. Vouches'
  BY <1>1, <1>2, <1>3, <1>4 DEF Vouches
<1>6. Later
  BY <1>1, <1>2, <1>3, <1>4 DEF Later
<1>7. sessions[s] # "unused" /\ (vouched'[s] = Never \/ (q.session.expires_at # Never /\ q.session.expires_at <= vouched'[s]))
  <2>1. q.session.expires_at \in Nat \cup {Never} /\ sessions[s] # "unused" /\ Lasts(s, q.session.expires_at)
    BY <1>0, <1>1 DEF Jar, Kept, Known, s
  <2>2. QED
    BY <1>1, <1>2, <1>4, <2>1 DEF Lasts
<1>8. vouched'[s] = Never \/ (now < vouched'[s] /\ e # Never /\ e <= vouched'[s])
  BY <1>2, <1>4
<1>9. QED
  BY <1>1, <1>5, <1>6, <1>7, <1>8 DEF Kept, Known, InTime, Lasts, s, e, n

LEMMA VouchedKinds ==
  ASSUME Typed, VouchedInv, NEW r \in Request, Kinds(r), ~Answers(r)
  PROVE  Later /\ Vouches' /\ Known(cookie)' /\ Kept(r)'
<1> DEFINE q == req[r]
           n == req'[r]
<1>0. q \in ReqState /\ Shape(q) /\ q.session \in Jar /\ Kept(r) /\ now \in Nat
  BY ReqTypes DEF VouchedInv, Typed, World
<1>1. Later /\ Vouches'
  <2>1. vouched' = vouched /\ now' = now
    BY DEF Kinds, Arrives, Responds, Ends, LogsOut, Passes, Decides, Loses, Resumes, Validates, Profiles, Outside
  <2>2. \A s \in Sid : sessions[s] # "unused" => sessions'[s] # "unused"
    <3>1. CASE LogsOut(r)
      BY <3>1 DEF LogsOut, Ended, Typed, World
    <3>2. CASE ~LogsOut(r)
      BY <3>2 DEF Kinds, Arrives, Responds, Ends, Passes, Decides, Loses, Resumes, Validates, Profiles, Outside, database
    <3>3. QED
      BY <3>1, <3>2
  <2>3. QED
    BY <1>0, <2>1, <2>2, SteadyLater DEF VouchedInv
<1>2. CASE LogsOut(r)
  <2>1. cookie' = cookie /\ n.session = Empty /\ n.phase = "handled"
    BY <1>2 DEF LogsOut
  <2>2. Kept(r)'
    BY <2>1, EmptyJar DEF Kept, Known
  <2>3. QED
    BY <1>1, <2>1, <2>2, CookieLater
<1>3. CASE ~LogsOut(r)
  <2>1. vouched' = vouched /\ sessions' = sessions
    BY <1>3 DEF Kinds, Arrives, Responds, Ends, Passes, Decides, Loses, Resumes, Validates, Profiles, Outside, database
  <2>2. Known(cookie)'
    <3>1. CASE Responds(r)
      BY <1>0, <2>1, <3>1, EmptyJar DEF Responds, Known, Kept, Lasts, VouchedInv
    <3>2. CASE ~Responds(r)
      <4>1. cookie' = cookie
        BY <1>3, <3>2 DEF Kinds, Arrives, Ends, Passes, Decides, Loses, Resumes, Validates, Profiles, Outside
      <4>2. QED
        BY <1>1, <4>1, CookieLater
    <3>3. QED
      BY <3>1, <3>2
  <2>3. q.phase = "resume" /\ q.answer # Nil =>
          LET p == persist_session_auth(q.session, q.answer) IN
          p.sid = q.session.sid /\ Lasts(p.sid, p.expires_at) /\ Known(p)
    <3> HAVE q.phase = "resume" /\ q.answer # Nil
    <3>1. q.answer \in Answer
      BY <1>0 DEF ReqState
    <3>2. QED
      BY <1>0, <3>1, PersistJar DEF Kept, Known
  <2>4. Kept(r)'
    <3>1. CASE Arrives(r)
      BY <2>1, <3>1, EmptyJar DEF Arrives, Kept, Known, Lasts, VouchedInv
    <3>2. CASE Responds(r)
      BY <3>2, FreshState, EmptyJar DEF Responds, Kept, Known
    <3>3. CASE Ends(r)
      <4>1. Known(n.session)
        BY <1>0, <2>3, <3>3, EmptyJar DEF Ends, Known, Kept
      <4>2. n.phase \in {"denied", "handled"}
        BY <3>3 DEF Ends
      <4>3. QED
        BY <2>1, <4>1, <4>2 DEF Kept, Known, Lasts
    <3>4. CASE Passes(r) \/ Loses(r)
      <4>1. n.session = q.session /\ n.phase # "admitted" /\ n.answer = Nil
        BY <1>0, <3>4 DEF Passes, Route, Loses, Shape
      <4>2. QED
        BY <1>0, <2>1, <4>1 DEF Kept, Known, Lasts
    <3>5. CASE Decides(r)
      <4>1. n.session = q.session /\ n.phase \in {"admitted", "refresh"} /\ n.decided = now
            /\ (n.phase = "admitted" => ~IsSessionExpired(q.session, Leeway)) /\ q.session.sid # 0
        BY <1>0, <3>5 DEF Decides, Shape
      <4>2. q.session.sid \in Sid /\ vouched[q.session.sid] \in Nat \cup {Never} /\ q.session.expires_at \in Nat \cup {Never}
        BY <1>0, <4>1 DEF Jar, VouchedInv, Vouches
      <4>3. Lasts(q.session.sid, q.session.expires_at)
        BY <1>0, <4>1 DEF Kept, Known
      <4>4. n.phase = "admitted" => vouched[q.session.sid] = Never \/ now < vouched[q.session.sid]
        BY <1>0, <4>1, <4>2, <4>3, AuthAssumption DEF Lasts, IsSessionExpired
      <4>5. QED
        BY <1>0, <2>1, <4>1, <4>4 DEF Kept, Known, Lasts, InTime
    <3>6. CASE Resumes(r)
      BY <1>0, <2>1, <2>3, <3>6 DEF Resumes, Kept, Known, Lasts, InTime
    <3>7. CASE Validates(r) \/ Profiles(r)
      <4>1. n.session = q.session /\ n.session.sid = 0 /\ n.phase # "resume" /\ n.credential # "session"
        BY <1>0, <3>7 DEF Validates, Profiles, Same, Shape
      <4>2. QED
        BY <4>1 DEF Kept, Known
    <3>8. QED
      BY <1>3, <3>1, <3>2, <3>3, <3>4, <3>5, <3>6, <3>7 DEF Kinds
  <2>5. QED
    BY <1>1, <2>2, <2>4
<1>4. QED
  BY <1>2, <1>3

LEMMA VouchedLogin ==
  ASSUME Typed, VouchedInv, Login
  PROVE  Later /\ Vouches' /\ Known(cookie)'
<1>1. PICK s \in Sid : /\ sessions[s] = "unused" /\ sessions' = [sessions EXCEPT ![s] = "live"]
                       /\ cookie'.sid = s /\ cookie'.expires_at = now + Lifetime
                       /\ vouched' = [vouched EXCEPT ![s] = now + Lifetime]
  BY LoginWorld DEF Typed
<1>2. now' = now /\ now \in Nat /\ Lifetime \in Nat /\ Never \notin Nat
  BY AuthAssumption, LoginWorld DEF Typed, World
<1>3. /\ sessions \in [Sid -> {"unused", "live", "ended"}] /\ vouched \in [Sid -> Nat \cup {Never}]
      /\ \A x \in Sid : vouched[x] = Never \/ vouched[x] <= now + Lifetime
  BY DEF Typed, World, VouchedInv, Vouches
<1>4. Later
  BY <1>1, <1>2, <1>3 DEF Later
<1>5. Vouches'
  BY <1>1, <1>2, <1>3 DEF Vouches
<1>6. Known(cookie)'
  BY <1>1, <1>2, <1>3 DEF Known, Lasts
<1>7. QED
  BY <1>4, <1>5, <1>6

LEMMA VouchedNext == Typed /\ VouchedInv /\ [Next]_vars => VouchedInv'
<1> SUFFICES ASSUME Typed, VouchedInv, [Next]_vars PROVE VouchedInv'
  OBVIOUS
<1>1. CASE Worldly
  <2>1. Later /\ Vouches' /\ Known(cookie)'
    <3>1. CASE ~Login
      <4>1. Drifts
        BY <1>1, <3>1, DriftWorld DEF Worldly, Typed
      <4>2. \A s \in Sid : sessions[s] # "unused" => sessions'[s] # "unused"
        BY <4>1 DEF Drifts
      <4>3. Later /\ Vouches' /\ cookie' = cookie
        BY <4>1, <4>2, SteadyLater DEF Drifts, VouchedInv
      <4>4. QED
        BY <4>3, CookieLater
    <3>2. QED
      BY <3>1, VouchedLogin
  <2>2. QED
    BY <1>1, <2>1, KeptLater DEF Worldly, VouchedInv
<1>2. ASSUME NEW r \in Request, Kinds(r)
      PROVE  VouchedInv'
  <2>1. \A g \in Request \ {r} : req'[g] = req[g]
    BY <1>2, KindsActs, ActsOthers
  <2>2. Later /\ Vouches' /\ Known(cookie)' /\ Kept(r)'
    <3>1. CASE Answers(r)
      <4>1. Later /\ Vouches' /\ Kept(r)'
        BY <3>1, AnswersLater
      <4>2. QED
        BY <3>1, <4>1, CookieLater DEF Answers
    <3>2. QED
      BY <1>2, <3>1, VouchedKinds
  <2>3. ASSUME NEW g \in Request PROVE Kept(g)'
    BY <2>1, <2>2, KeptLater
  <2>4. QED
    BY <2>2, <2>3 DEF VouchedInv
<1>3. QED
  BY <1>1, <1>2, StepKinds

(* auth_middleware.py, _authenticate_session: whoever is admitted by a     *)
(* cookie is within an expiry that the provider gave for that session,     *)
(* however responses of overlapping requests overwrite the cookie.         *)
THEOREM SessionsEndWithTheirToken == Spec => []NoSessionOutlivesItsToken
<1>1. Init => VouchedInv
  <2> SUFFICES ASSUME Init PROVE VouchedInv
    OBVIOUS
  <2>1. Vouches
    BY AuthAssumption DEF Init, Vouches
  <2>2. Known(cookie)
    BY EmptyJar DEF Init, Known
  <2>3. ASSUME NEW r \in Request PROVE Kept(r)
    <3>1. req[r] = Fresh
      BY DEF Init
    <3>2. QED
      BY <3>1, FreshState, EmptyJar DEF Kept, Known
  <2>4. QED
    BY <2>1, <2>2, <2>3 DEF VouchedInv
<1>2. VouchedInv => NoSessionOutlivesItsToken
  BY DEF VouchedInv, Kept, InTime, NoSessionOutlivesItsToken
<1>3. QED
  BY <1>1, <1>2, TypedInit, TypedNext, VouchedNext, PTL DEF Spec

-----------------------------------------------------------------------------
(* Keys.  A cached entry is the provider's present key, or was fetched     *)
(* before the provider last rotated: an entry that is used after a         *)
(* rotation is within its lifetime counted from that rotation.             *)
KeyEntry == [signer : Provider, generation : 0 .. MaxGeneration, fetched : Nat]
Fits(p) ==
  /\ rotated[p] <= now
  /\ jwks[p] # NoKeys =>
       /\ jwks[p].signer = p /\ jwks[p].fetched <= now
       /\ jwks[p].generation <= published[p]
       /\ jwks[p].generation = published[p] \/ jwks[p].fetched <= rotated[p]
KeysOK ==
  /\ published \in [Provider -> 0 .. MaxGeneration] /\ rotated \in [Provider -> Nat]
  /\ jwks \in [Provider -> KeyEntry \cup {NoKeys}]
  /\ \A p \in Provider : Fits(p)

Claims(r) ==
  /\ req[r].decided <= now
  /\ req[r].credential = "bearer" /\ req[r].phase \in {"verified", "profile", "admitted"} =>
       /\ req[r].token \in Token
       /\ \E p \in resolve_provider(req[r].token) : SignedLately(p, req[r].token, req[r].decided)
  /\ req[r].why = "token" =>
       /\ req[r].phase = "denied" /\ req[r].token \in Token
       /\ req[r].token.signer \in Provider => req[r].token.generation <= published[req[r].token.signer]
       /\ req[r].served => \A p \in resolve_provider(req[r].token) :
            Genuine(req[r].token, p) => NewToTheCache(req[r].token, p, req[r].decided)
KeysInv == KeysOK /\ \A r \in Request : Claims(r)

LEMMA FetchedFits ==
  ASSUME KeysOK, now \in Nat, NEW p \in Provider
  PROVE  LET e == Fetched(p) IN
         e \in KeyEntry /\ e # NoKeys /\ e.signer = p /\ e.generation = published[p] /\ e.fetched = now
<1>1. Fetched(p) \in KeyEntry
  BY DEF Fetched, KeyEntry, KeysOK
<1>2. NoKeys \notin KeyEntry
  BY KeyCacheAssumption DEF KeyEntry
<1>3. QED
  BY <1>1, <1>2 DEF Fetched

(* A token is checked against one provider at most. *)
LEMMA ResolvedProvider ==
  ASSUME NEW token \in Token, resolve_provider(token) # {}
  PROVE  LET p == CHOOSE q \in resolve_provider(token) : TRUE IN
         p \in Provider /\ resolve_provider(token) = {p}
<1> DEFINE p == CHOOSE q \in resolve_provider(token) : TRUE
<1>1. p \in resolve_provider(token)
  OBVIOUS
<1> HIDE DEF p
<1>2. p \in Provider
  BY <1>1, KeyCacheAssumption DEF resolve_provider
<1>3. ASSUME NEW q \in resolve_provider(token) PROVE q = p
  <2>1. CASE \A x, y \in Provider : x = y
    BY <1>2, <2>1, KeyCacheAssumption DEF resolve_provider
  <2>2. CASE ~ \A x, y \in Provider : x = y
    BY <1>1, <2>2 DEF resolve_provider
  <2>3. QED
    BY <2>1, <2>2
<1>4. QED
  BY <1>1, <1>2, <1>3 DEF p

(* auth.validate_token: what an answer says of the token, and what a       *)
(* validation may leave in the cache.                                      *)
Sound(token, served, result) ==
  /\ result.valid => \E p \in resolve_provider(token) : SignedLately(p, token, now)
  /\ ~result.valid /\ served = {1, 2} => \A p \in resolve_provider(token) :
       Genuine(token, p) => NewToTheCache(token, p, now)
  /\ \/ result.cache = jwks
     \/ \E q \in Provider : \E e \in {Fetched(q), NoKeys} : result.cache = [jwks EXCEPT ![q] = e]

LEMMA Validation ==
  ASSUME KeysOK, now \in Nat, NEW token \in Token, NEW served \in SUBSET {1, 2}
  PROVE  Sound(token, served, validate_token(token, served))
<1> DEFINE result == validate_token(token, served)
           p == CHOOSE q \in resolve_provider(token) : TRUE
           first == FirstTry(p, served)
           again == Retry(p, served)
           found == KeyFound(token, first.entry)
           fits == Verifies(token, first.entry)
<1>1. CASE resolve_provider(token) = {}
  <2>1. result = [valid |-> FALSE, cache |-> jwks]
    BY <1>1 DEF validate_token
  <2>2. QED
    BY <1>1, <2>1 DEF Sound
<1>2. CASE resolve_provider(token) # {}
  <2>1. p \in Provider /\ resolve_provider(token) = {p}
    BY <1>2, ResolvedProvider
  <2>2. result = CASE ~first.ok -> [valid |-> FALSE, cache |-> jwks]
                   [] first.ok /\ ~found -> [valid |-> FALSE, cache |-> first.cache]
                   [] first.ok /\ found /\ fits -> [valid |-> ClaimsFit(token, p), cache |-> first.cache]
                   [] OTHER ->
                        [valid |-> again.ok /\ KeyFound(token, again.entry) /\ Verifies(token, again.entry) /\ ClaimsFit(token, p),
                         cache |-> again.cache]
    BY <1>2 DEF validate_token
  <2> HIDE DEF p, result
  <2>3. /\ Fetched(p) \in KeyEntry /\ Fetched(p).signer = p /\ Fetched(p).generation = published[p]
    BY <2>1, FetchedFits
  <2>4. /\ again.entry = Fetched(p) /\ again.ok = (2 \in served)
        /\ again.cache = [jwks EXCEPT ![p] = Fetched(p)] \/ again.cache = [jwks EXCEPT ![p] = NoKeys]
    BY DEF Retry, Stored
  <2>5. \/ /\ Cached(p) /\ first.entry = jwks[p] /\ first.cache = jwks /\ first.ok = TRUE
        \/ /\ first.entry = Fetched(p) /\ first.cache = [jwks EXCEPT ![p] = Fetched(p)] /\ first.ok = (1 \in served)
    BY DEF FirstTry, Stored
  <2>6. /\ first.entry.signer = p /\ first.entry.generation \in 0 .. MaxGeneration
        /\ \/ first.entry.generation = published[p]
           \/ first.entry.generation < published[p] /\ now < rotated[p] + JwksTTL
    <3>1. CASE Cached(p) /\ first.entry = jwks[p]
      <4>1. /\ jwks[p] \in KeyEntry /\ jwks[p].signer = p /\ now < jwks[p].fetched + JwksTTL
            /\ jwks[p].generation <= published[p]
            /\ jwks[p].generation = published[p] \/ jwks[p].fetched <= rotated[p]
        BY <2>1, <3>1 DEF KeysOK, Fits, Cached
      <4>2. /\ jwks[p].fetched \in Nat /\ rotated[p] \in Nat /\ JwksTTL \in Nat
            /\ jwks[p].generation \in 0 .. MaxGeneration /\ published[p] \in 0 .. MaxGeneration /\ MaxGeneration \in Nat
        BY <2>1, <4>1, KeyCacheAssumption DEF KeyEntry, KeysOK
      <4>3. QED
        BY <3>1, <4>1, <4>2
    <3>2. CASE first.entry = Fetched(p)
      BY <2>3, <3>2 DEF KeyEntry
    <3>3. QED
      BY <2>5, <3>1, <3>2
  <2>7. first.cache = jwks \/ first.cache = [jwks EXCEPT ![p] = Fetched(p)]
    BY <2>5
  <2>8. first.ok \/ 1 \notin served
    BY <2>5
  <2> HIDE DEF first, again
  <2>9. CASE ~first.ok
    <3>1. result.valid = FALSE /\ result.cache = jwks /\ served # {1, 2}
      BY <2>2, <2>8, <2>9
    <3>2. QED
      BY <3>1 DEF Sound, result
  <2>10. CASE first.ok /\ ~found
    <3>1. result.valid = FALSE /\ result.cache = first.cache
      BY <2>2, <2>10
    <3>2. ASSUME Genuine(token, p) PROVE NewToTheCache(token, p, now)
      <4>1. token.kid # NoKid /\ KeyId[p][first.entry.generation] # token.kid
        BY <2>6, <2>10 DEF KeyFound
      <4>2. first.entry.generation # published[p]
        BY <3>2, <4>1 DEF Genuine
      <4>3. QED
        BY <2>6, <4>1, <4>2 DEF NewToTheCache
    <3>3. QED
      BY <2>1, <2>7, <3>1, <3>2 DEF Sound, result
  <2>11. CASE first.ok /\ found /\ fits
    <3>1. result.valid = ClaimsFit(token, p) /\ result.cache = first.cache
      BY <2>2, <2>11
    <3>2. token.signer = p /\ (token.generation = published[p] \/ now < rotated[p] + JwksTTL)
      BY <2>6, <2>11 DEF Verifies
    <3>3. result.valid => SignedLately(p, token, now)
      BY <3>1, <3>2 DEF SignedLately
    <3>4. ~result.valid => ~Genuine(token, p)
      BY <3>1 DEF Genuine
    <3>5. QED
      BY <2>1, <2>7, <3>1, <3>3, <3>4 DEF Sound, result
  <2>12. CASE first.ok /\ found /\ ~fits
    <3>1. /\ result.valid = (again.ok /\ KeyFound(token, again.entry) /\ Verifies(token, again.entry) /\ ClaimsFit(token, p))
          /\ result.cache = again.cache
      BY <2>2, <2>12
    <3>2. result.valid => SignedLately(p, token, now)
      BY <2>3, <2>4, <3>1 DEF SignedLately, Verifies
    <3>3. served = {1, 2} /\ Genuine(token, p) => result.valid
      <4> HAVE served = {1, 2} /\ Genuine(token, p)
      <4>1. again.ok /\ again.entry = Fetched(p)
        BY <2>4
      <4>2. KeyFound(token, again.entry) /\ Verifies(token, again.entry) /\ ClaimsFit(token, p)
        BY <2>3, <4>1 DEF Genuine, KeyFound, Verifies
      <4>3. QED
        BY <3>1, <4>1, <4>2
    <3>4. QED
      BY <2>1, <2>4, <3>1, <3>2, <3>3 DEF Sound, result
  <2>13. QED
    BY <2>9, <2>10, <2>11, <2>12
<1>3. QED
  BY <1>1, <1>2

(* A provider keeps its key, or takes a new one now. *)
Ages ==
  /\ now' \in Nat /\ now <= now'
  /\ \A p \in Provider : \/ published'[p] = published[p] /\ rotated'[p] = rotated[p]
                         \/ published[p] < published'[p] /\ rotated'[p] = now

LEMMA Resolvable ==
  ASSUME NEW t \in Token, NEW p \in resolve_provider(t)
  PROVE  p \in Provider
BY KeyCacheAssumption DEF resolve_provider

LEMMA ClaimsAge ==
  ASSUME Typed, KeysInv, KeysOK', Ages, NEW g \in Request, req'[g] = req[g]
  PROVE  Claims(g)'
<1> DEFINE q == req[g]
           t == q.token
<1>0. q \in ReqState /\ Claims(g) /\ now \in Nat /\ JwksTTL \in Nat \ {0}
  BY ReqTypes, KeyCacheAssumption DEF KeysInv, Typed, World
<1>1. q.decided \in Nat /\ q.decided <= now /\ now' \in Nat /\ now <= now'
  BY <1>0 DEF ReqState, Claims, Ages
<1>2. ASSUME NEW p \in Provider
      PROVE  /\ published[p] \in Nat /\ published'[p] \in Nat /\ rotated[p] \in Nat /\ rotated'[p] \in Nat
             /\ \/ published'[p] = published[p] /\ rotated'[p] = rotated[p]
                \/ published[p] < published'[p] /\ rotated'[p] = now
  <2>1. /\ published[p] \in 0 .. MaxGeneration /\ published'[p] \in 0 .. MaxGeneration
        /\ rotated[p] \in Nat /\ rotated'[p] \in Nat
    BY DEF KeysInv, KeysOK
  <2>2. QED
    BY <2>1, KeyCacheAssumption DEF Ages
<1>3. ASSUME t \in Token, NEW p \in resolve_provider(t), SignedLately(p, t, q.decided)
      PROVE  SignedLately(p, t, q.decided)'
  <2>1. p \in Provider
    BY <1>3, Resolvable
  <2>2. t.generation = published'[p] \/ q.decided < rotated'[p] + JwksTTL
    BY <1>0, <1>1, <1>2, <1>3, <2>1 DEF SignedLately
  <2>3. QED
    BY <1>3, <2>2 DEF SignedLately, ClaimsFit
<1>4. ASSUME t \in Token, t.signer \in Provider, t.generation <= published[t.signer]
      PROVE  t.generation <= published'[t.signer]
  BY <1>2, <1>4, KeyCacheAssumption DEF Token
<1>5. ASSUME t \in Token, t.signer \in Provider => t.generation <= published[t.signer], NEW p \in resolve_provider(t),
             Genuine(t, p) => NewToTheCache(t, p, q.decided), Genuine(t, p)'
      PROVE  NewToTheCache(t, p, q.decided)'
  <2>1. p \in Provider /\ t.signer = p /\ t.generation = published'[p] /\ t.generation <= published[p] /\ t.generation \in Nat
    BY <1>5, Resolvable, KeyCacheAssumption DEF Genuine, Token
  <2>2. published'[p] = published[p] /\ rotated'[p] = rotated[p]
    BY <1>2, <2>1
  <2>3. Genuine(t, p)
    BY <1>5, <2>2 DEF Genuine, ClaimsFit
  <2>4. NewToTheCache(t, p, q.decided)
    BY <1>5, <2>3
  <2>5. QED
    BY <2>2, <2>4 DEF NewToTheCache
<1>6. q.decided <= now'
  BY <1>0, <1>1
<1>7. req'[g] = q
  OBVIOUS
<1>8. t \in Token /\ (\E p \in resolve_provider(t) : SignedLately(p, t, q.decided)) =>
        \E p \in resolve_provider(t) : SignedLately(p, t, q.decided)'
  BY <1>3
<1>9. t \in Token /\ (t.signer \in Provider => t.generation <= published[t.signer]) =>
        (t.signer \in Provider => t.generation <= published'[t.signer])
  BY <1>4
<1>10. /\ t \in Token /\ (t.signer \in Provider => t.generation <= published[t.signer])
       /\ \A p \in resolve_provider(t) : Genuine(t, p) => NewToTheCache(t, p, q.decided)
       => \A p \in resolve_provider(t) : Genuine(t, p)' => NewToTheCache(t, p, q.decided)'
  BY <1>5
<1>11. QED
  BY <1>0, <1>6, <1>7, <1>8, <1>9, <1>10 DEF Claims

LEMMA KeysOutside ==
  ASSUME KeysOK, now \in Nat, UNCHANGED keys, now' \in Nat, now <= now'
  PROVE  KeysOK' /\ Ages
<1>1. published' = published /\ rotated' = rotated /\ jwks' = jwks
  BY DEF keys
<1>2. ASSUME NEW p \in Provider PROVE Fits(p)'
  <2>1. Fits(p) /\ rotated[p] \in Nat /\ (jwks[p] # NoKeys => jwks[p].fetched \in Nat)
    BY DEF KeysOK, KeyEntry
  <2>2. QED
    BY <1>1, <2>1 DEF Fits
<1>3. QED
  BY <1>1, <1>2 DEF KeysOK, Ages

LEMMA KeysRotate ==
  ASSUME KeysOK, now \in Nat, NEW p \in Provider, Rotate(p), now' = now
  PROVE  KeysOK' /\ Ages
<1>1. /\ published \in [Provider -> 0 .. MaxGeneration] /\ rotated \in [Provider -> Nat]
      /\ jwks \in [Provider -> KeyEntry \cup {NoKeys}]
  BY DEF KeysOK
<1>2. /\ published[p] < MaxGeneration /\ published' = [published EXCEPT ![p] = published[p] + 1]
      /\ rotated' = [rotated EXCEPT ![p] = now] /\ jwks' = jwks
  BY DEF Rotate
<1>3. published[p] \in Nat /\ published[p] + 1 \in 0 .. MaxGeneration
  BY <1>1, <1>2, KeyCacheAssumption
<1>4. published' \in [Provider -> 0 .. MaxGeneration] /\ rotated' \in [Provider -> Nat]
  BY <1>1, <1>2, <1>3
<1>5. /\ published'[p] = published[p] + 1 /\ rotated'[p] = now
      /\ \A q \in Provider \ {p} : published'[q] = published[q] /\ rotated'[q] = rotated[q]
  BY <1>1, <1>2
<1>6. ASSUME NEW q \in Provider PROVE Fits(q)'
  <2>1. Fits(q) /\ (jwks[q] # NoKeys => jwks[q].fetched \in Nat /\ jwks[q].generation \in Nat)
    BY <1>1, KeyCacheAssumption DEF KeysOK, KeyEntry
  <2>2. CASE q = p
    BY <1>2, <1>3, <1>5, <2>1, <2>2 DEF Fits
  <2>3. CASE q # p
    BY <1>2, <1>5, <2>1, <2>3 DEF Fits
  <2>4. QED
    BY <2>2, <2>3
<1>7. Ages
  BY <1>3, <1>5 DEF Ages
<1>8. QED
  BY <1>1, <1>2, <1>4, <1>6, <1>7 DEF KeysOK

LEMMA KeysValidate ==
  ASSUME Typed, KeysInv, NEW r \in Request, Validates(r)
  PROVE  KeysOK' /\ Ages /\ Claims(r)'
<1> DEFINE n == req'[r]
<1>0. now \in Nat /\ KeysOK /\ now' = now /\ published' = published /\ rotated' = rotated
  BY DEF Typed, World, KeysInv, Validates
<1>1. PICK token \in Token, served \in SUBSET {1, 2} :
        LET result == validate_token(token, served) IN
        /\ n.token = token /\ (token.signer \in Provider => token.generation <= published[token.signer])
        /\ n.served = (served = {1, 2}) /\ jwks' = result.cache
        /\ \/ n.phase = "verified" /\ n.why = "" /\ result.valid
           \/ n.phase = "denied" /\ n.why = "token" /\ ~result.valid
  BY DEF Validates
<1> DEFINE result == validate_token(token, served)
<1>2. Sound(token, served, result)
  BY <1>0, Validation
<1>3. KeysOK'
  <2>1. CASE result.cache = jwks
    <3>1. UNCHANGED keys
      BY <1>0, <1>1, <2>1 DEF keys
    <3>2. QED
      BY <1>0, <3>1, KeysOutside
  <2>2. ASSUME NEW p \in Provider, NEW e \in {Fetched(p), NoKeys}, result.cache = [jwks EXCEPT ![p] = e]
        PROVE  KeysOK'
    <3>1. jwks' = [jwks EXCEPT ![p] = e]
      BY <1>1, <2>2
    <3>2. /\ e # NoKeys => e \in KeyEntry /\ e.signer = p /\ e.generation = published[p] /\ e.fetched = now
          /\ e \in KeyEntry \cup {NoKeys}
      BY <1>0, <2>2, FetchedFits
    <3>3. jwks \in [Provider -> KeyEntry \cup {NoKeys}]
      BY <1>0 DEF KeysOK
    <3>4. jwks' \in [Provider -> KeyEntry \cup {NoKeys}] /\ jwks'[p] = e /\ \A q \in Provider \ {p} : jwks'[q] = jwks[q]
      BY <3>1, <3>2, <3>3
    <3>5. ASSUME NEW q \in Provider PROVE Fits(q)'
      <4>1. Fits(q) /\ published[q] <= published[q]
        BY <1>0, KeyCacheAssumption DEF KeysOK
      <4>2. CASE q = p
        BY <1>0, <3>2, <3>4, <4>1, <4>2 DEF Fits
      <4>3. CASE q # p
        BY <1>0, <3>4, <4>1, <4>3 DEF Fits
      <4>4. QED
        BY <4>2, <4>3
    <3>6. QED
      BY <1>0, <3>4, <3>5 DEF KeysOK
  <2>3. QED
    BY <1>2, <2>1, <2>2 DEF Sound
<1>4. Ages
  BY <1>0 DEF Ages
<1>5. Claims(r)'
  <2>1. n.decided = now /\ n.phase \in {"verified", "denied"}
    BY DEF Validates
  <2>2. n.phase = "verified" => result.valid /\ n.why = ""
    BY <1>1
  <2>3. n.why = "token" => ~result.valid /\ n.phase = "denied"
    BY <1>1
  <2>4. n.token = token /\ token \in Token /\ n.served = (served = {1, 2})
    BY <1>1
  <2>5. n.decided <= now
    BY <1>0, <2>1
  <2> HIDE DEF result
  <2>6. n.phase \in {"verified", "profile", "admitted"} =>
          \E p \in resolve_provider(token) : SignedLately(p, token, now)'
    BY <1>0, <1>2, <2>1, <2>2 DEF Sound, SignedLately
  <2>7. n.why = "token" /\ n.served => \A p \in resolve_provider(token) :
          Genuine(token, p)' => NewToTheCache(token, p, now)'
    BY <1>0, <1>2, <2>1, <2>3, <2>4 DEF Sound, Genuine, NewToTheCache
  <2>8. token.signer \in Provider => token.generation <= published'[token.signer]
    BY <1>0, <1>1
  <2>9. QED
    BY <1>0, <2>1, <2>3, <2>4, <2>5, <2>6, <2>7, <2>8 DEF Claims, SignedLately, Genuine, NewToTheCache
<1>6. QED
  BY <1>3, <1>4, <1>5

LEMMA KeysKinds ==
  ASSUME Typed, KeysInv, NEW r \in Request, Kinds(r), ~Validates(r)
  PROVE  KeysOK' /\ Ages /\ Claims(r)'
<1> DEFINE q == req[r]
           n == req'[r]
<1>0. q \in ReqState /\ Shape(q) /\ Claims(r) /\ now \in Nat /\ KeysOK
  BY ReqTypes DEF KeysInv, Typed, World
<1>1. UNCHANGED <<now, keys>>
  BY DEF Kinds, Arrives, Responds, Ends, LogsOut, Passes, Decides, Answers, Loses, Resumes, Profiles, Outside
<1>2. KeysOK' /\ Ages
  BY <1>0, <1>1, KeysOutside
<1>3. Claims(r)'
  <2>1. published' = published /\ rotated' = rotated /\ now' = now
    BY <1>1 DEF keys
  <2>2. CASE Arrives(r) \/ Responds(r) \/ Ends(r) \/ LogsOut(r)
    <3>1. n.decided = 0 /\ n.why # "token" /\ n.phase \notin {"verified", "profile", "admitted"}
      BY <2>2, FreshState DEF Arrives, Responds, Ends, LogsOut, Reset
    <3>2. QED
      BY <1>0, <2>1, <3>1 DEF Claims
  <2>3. CASE Decides(r) \/ Answers(r)
    <3>1. n.decided = now /\ Same(n, q) /\ q.credential = "session" /\ q.phase # "denied"
      BY <1>0, <2>3 DEF Decides, Answers, Shape
    <3>2. QED
      BY <1>0, <2>1, <3>1 DEF Claims, Same, SignedLately
  <2>4. CASE Loses(r) \/ Resumes(r)
    <3>1. n.decided = q.decided /\ Same(n, q) /\ q.credential = "session" /\ q.phase # "denied"
      BY <1>0, <2>4 DEF Loses, Resumes, Shape
    <3>2. QED
      BY <1>0, <2>1, <3>1 DEF Claims, Same, SignedLately
  <2>5. CASE Passes(r) \/ Profiles(r)
    <3>1. /\ n.decided = q.decided /\ Same(n, q) /\ q.phase # "denied"
          /\ q.credential = "bearer" /\ n.phase \in {"verified", "profile", "admitted"} => q.phase \in {"verified", "profile", "admitted"}
      BY <1>0, <2>5 DEF Passes, Profiles, Route, Shape
    <3>2. QED
      BY <1>0, <2>1, <3>1 DEF Claims, Same, SignedLately
  <2>6. QED
    BY <2>2, <2>3, <2>4, <2>5 DEF Kinds
<1>4. QED
  BY <1>2, <1>3

LEMMA KeysNext == Typed /\ KeysInv /\ [Next]_vars => KeysInv'
<1> SUFFICES ASSUME Typed, KeysInv, [Next]_vars PROVE KeysInv'
  OBVIOUS
<1>0. KeysOK /\ World /\ now \in Nat
  BY DEF KeysInv, Typed, World
<1>1. CASE Worldly
  <2>1. KeysOK' /\ Ages
    <3>1. CASE RotateKeys
      <4>1. PICK p \in Provider : Rotate(p) /\ now' = now
        BY <3>1 DEF RotateKeys
      <4>2. QED
        BY <1>0, <4>1, KeysRotate
    <3>2. CASE ~RotateKeys
      <4>1. UNCHANGED keys
        BY <1>1, <3>2 DEF Worldly, Login, SetAdmin, SetActive, Change, Tick, Outside
      <4>2. now' \in Nat /\ now <= now'
        BY <1>0, <1>1, LoginWorld, DriftWorld DEF Worldly, Drifts
      <4>3. QED
        BY <1>0, <4>1, <4>2, KeysOutside
    <3>3. QED
      BY <3>1, <3>2
  <2>2. QED
    BY <1>1, <2>1, ClaimsAge DEF Worldly, KeysInv
<1>2. ASSUME NEW r \in Request, Kinds(r)
      PROVE  KeysInv'
  <2>1. \A g \in Request \ {r} : req'[g] = req[g]
    BY <1>2, KindsActs, ActsOthers
  <2>2. KeysOK' /\ Ages /\ Claims(r)'
    BY <1>2, KeysValidate, KeysKinds
  <2>3. ASSUME NEW g \in Request PROVE Claims(g)'
    BY <2>1, <2>2, ClaimsAge
  <2>4. QED
    BY <2>2, <2>3 DEF KeysInv
<1>3. QED
  BY <1>1, <1>2, StepKinds

LEMMA KeysInitially == Init => KeysInv
<1> SUFFICES ASSUME Init PROVE KeysInv
  OBVIOUS
<1>1. KeysOK
  BY KeyCacheAssumption DEF Init, KeysInit, KeysOK, Fits
<1>2. ASSUME NEW r \in Request PROVE Claims(r)
  <2>1. req[r] = Fresh /\ now = 0
    BY DEF Init
  <2>2. req[r].phase = "idle" /\ req[r].why = ""
    BY <2>1, FreshState
  <2>3. req[r].decided <= now
    <3>1. req[r].decided = 0
      BY <2>1, FreshState
    <3>2. now = 0
      BY <2>1
    <3>3. QED
      BY <3>1, <3>2
  <2>4. QED
    BY <2>2, <2>3 DEF Claims
<1>3. QED
  BY <1>1, <1>2 DEF KeysInv

(* auth.validate_token: a bearer token is accepted only if the provider    *)
(* that validates it signed it, with its present key or one withdrawn less *)
(* than the cache's lifetime ago, and names that provider if the provider  *)
(* has an issuer configured; for any number of providers, with issuers or  *)
(* without, and any rotations and key ids.                                 *)
THEOREM AcceptedTokensAreTheIssuers == Spec => []AcceptedKeyIsTheIssuers
<1>1. KeysInv => AcceptedKeyIsTheIssuers
  BY DEF KeysInv, Claims, AcceptedKeyIsTheIssuers
<1>2. QED
  BY <1>1, TypedInit, TypedNext, KeysInitially, KeysNext, PTL DEF Spec

(* auth.validate_token, the forced refresh: a provider that serves its     *)
(* keys has a genuine token refused only if the token names a key id that  *)
(* an earlier key did not have (authlib raises a ValueError, which is not  *)
(* retried), and only until the cache's lifetime after the rotation.       *)
THEOREM PresentTokensAreAccepted == Spec => []PresentKeyIsAccepted
<1>1. KeysInv => PresentKeyIsAccepted
  BY DEF KeysInv, Claims, PresentKeyIsAccepted
<1>2. QED
  BY <1>1, TypedInit, TypedNext, KeysInitially, KeysNext, PTL DEF Spec

-----------------------------------------------------------------------------
(* Refreshes without a race.  As long as the provider answers and, if it   *)
(* rotates tokens, requests come one at a time, the copy of the refresh    *)
(* token that counts is one the provider accepts: the cookie's, or, while  *)
(* the only request is under way, the one that its response will write.    *)
NoRace ==
  /\ scenario.refresh /\ scenario.provider = DefaultProvider /\ ~failed
  /\ ~(scenario.rotating /\ overlapped)
Good(j) == j.sid # 0 => j.refresh_token \in accepts
Calm(r) ==
  /\ req[r].why # "expired"
  /\ req[r].phase # "resume" => Good(req[r].session)
  /\ req[r].phase = "resume" => req[r].answer # Nil /\ Good(persist_session_auth(req[r].session, req[r].answer))
Alone == scenario.rotating => \A r, g \in Request : Busy(r) /\ Busy(g) => r = g
CookieCounts == Good(cookie) \/ (scenario.rotating /\ \E r \in Request : Busy(r) /\ req[r].had)
Peace == Alone /\ CookieCounts /\ \A r \in Request : Calm(r)
PeaceInv == NoRace => Peace

LEMMA CalmKept ==
  ASSUME NEW g \in Request, Calm(g), req'[g] = req[g], accepts \subseteq accepts'
  PROVE  Calm(g)'
BY DEF Calm, Good

LEMMA CalmIdle ==
  ASSUME Typed, NEW g \in Request, Calm(g), req'[g] = req[g], ~Busy(g)
  PROVE  Calm(g)'
<1>1. req[g].phase = "idle" /\ req[g].session.sid = 0
  BY ReqTypes DEF Busy, Shape
<1>2. QED
  BY <1>1 DEF Calm, Good

(* The acting request, when the set of accepted tokens stands still. *)
LEMMA CalmKinds ==
  ASSUME Typed, NoRace, Peace, NEW r \in Request, Kinds(r), ~Arrives(r), ~Responds(r), ~Answers(r), ~failed'
  PROVE  /\ Calm(r)' /\ Busy(r) /\ Busy(r)' /\ req'[r].had = req[r].had
         /\ UNCHANGED <<scenario, cookie, accepts, overlapped>>
<1> DEFINE q == req[r]
           n == req'[r]
<1>0. q \in ReqState /\ Shape(q) /\ q.session \in Jar /\ Calm(r) /\ accepts \subseteq RefreshToken
  BY ReqTypes DEF Peace, Typed, World
<1>1. UNCHANGED <<scenario, cookie, accepts, overlapped>>
  BY DEF Kinds, Ends, LogsOut, Passes, Decides, Loses, Resumes, Validates, Profiles, Outside, idp
<1>2. Busy(r) /\ Busy(r)' /\ n.had = q.had
  BY DEF Kinds, Ends, LogsOut, Passes, Route, Decides, Loses, Resumes, Validates, Profiles, Reset, Same, Busy
<1>3. CASE Ends(r)
  <2>1. n.why # "expired"
    BY <1>0, <1>3, NilFacts DEF Ends, Calm, Good, NoRace, Shape
  <2>2. Good(n.session)
    BY <1>0, <1>3, EmptyJar DEF Ends, Calm, Good
  <2>3. n.phase # "resume"
    BY <1>3 DEF Ends
  <2>4. QED
    BY <1>1, <1>2, <2>1, <2>2, <2>3 DEF Calm, Good
<1>4. CASE LogsOut(r)
  BY <1>1, <1>2, <1>4, EmptyJar DEF LogsOut, Calm, Good
<1>5. CASE Passes(r)
  <2>1. n.phase # "resume"
    BY <1>0, <1>5 DEF Passes, Route, Calm, Good, Shape
  <2>2. n.session = q.session /\ n.why = q.why /\ q.phase # "resume"
    BY <1>5 DEF Passes, Same, Route
  <2>3. QED
    BY <1>0, <1>1, <1>2, <2>1, <2>2 DEF Calm, Good
<1>6. CASE Decides(r) \/ Profiles(r)
  BY <1>0, <1>1, <1>2, <1>6 DEF Decides, Profiles, Same, Calm, Good
<1>7. CASE Loses(r)
  BY <1>7 DEF Loses
<1>8. CASE Resumes(r)
  BY <1>0, <1>1, <1>2, <1>8 DEF Resumes, Same, Calm, Good
<1>9. CASE Validates(r)
  BY <1>0, <1>1, <1>2, <1>9 DEF Validates, Shape, Calm, Good
<1>10. QED
  BY <1>3, <1>4, <1>5, <1>6, <1>7, <1>8, <1>9 DEF Kinds

LEMMA PeaceArrives ==
  ASSUME Typed, NoRace, NoRace', Peace, NEW r \in Request, Arrives(r)
  PROVE  Peace'
<1> DEFINE n == req'[r]
<1>1. UNCHANGED <<scenario, cookie, accepts>> /\ overlapped' = (overlapped \/ \E q \in Request : Busy(q))
  BY DEF Arrives, idp
<1>2. \A g \in Request \ {r} : req'[g] = req[g]
  BY ActsOthers DEF Arrives
<1>3. scenario.rotating => \A g \in Request : ~Busy(g)
  BY <1>1 DEF NoRace
<1>4. Good(cookie)
  BY <1>3 DEF Peace, CookieCounts
<1>5. Calm(r)'
  <2>1. n.why = "" /\ n.phase = "arrived" /\ (n.session = cookie \/ n.session = Empty)
    BY DEF Arrives
  <2>2. QED
    BY <1>1, <1>4, <2>1, EmptyJar DEF Calm, Good
<1>6. ASSUME NEW g \in Request PROVE Calm(g)'
  BY <1>1, <1>2, <1>5, CalmKept DEF Peace
<1>7. Alone'
  BY <1>1, <1>2, <1>3 DEF Alone, Busy
<1>8. CookieCounts'
  BY <1>1, <1>4 DEF CookieCounts, Good
<1>9. QED
  BY <1>6, <1>7, <1>8 DEF Peace

LEMMA PeaceResponds ==
  ASSUME Typed, NoRace, Peace, NEW r \in Request, Responds(r)
  PROVE  Peace'
<1> DEFINE q == req[r]
<1>1. UNCHANGED <<scenario, accepts>> /\ req'[r] = Fresh /\ q.phase \in {"denied", "handled"}
  BY DEF Responds, idp
<1>2. \A g \in Request \ {r} : req'[g] = req[g]
  BY ActsOthers DEF Responds
<1>3. Calm(r)'
  <2>1. req'[r].why = "" /\ req'[r].phase = "idle" /\ req'[r].session.sid = 0
    BY <1>1, FreshState, EmptyJar
  <2>2. QED
    BY <2>1 DEF Calm, Good
<1>4. ASSUME NEW g \in Request PROVE Calm(g)'
  BY <1>1, <1>2, <1>3, CalmKept DEF Peace
<1>5. \A g \in Request : Busy(g)' => Busy(g)
  <2>1. req'[r].phase = "idle"
    BY <1>1, FreshState
  <2>2. QED
    BY <1>2, <2>1 DEF Busy
<1>6. Alone'
  BY <1>1, <1>5 DEF Peace, Alone
<1>7. Good(cookie')
  <2>1. Good(q.session)
    BY <1>1 DEF Peace, Calm
  <2>2. CASE q.session = Empty /\ ~q.had
    <3>1. \A g \in Request : Busy(g) /\ req[g].had => ~scenario.rotating
      BY <1>1, <2>2 DEF Peace, Alone, Busy
    <3>2. Good(cookie) /\ cookie' = cookie
      BY <2>2, <3>1 DEF Peace, CookieCounts, Responds
    <3>3. QED
      BY <3>2 DEF Good
  <2>3. CASE q.session # Empty
    BY <2>1, <2>3 DEF Responds, Good
  <2>4. CASE q.session = Empty /\ q.had
    BY <2>4, EmptyJar DEF Responds, Good
  <2>5. QED
    BY <2>2, <2>3, <2>4
<1>8. QED
  BY <1>1, <1>4, <1>6, <1>7 DEF Peace, CookieCounts, Good

LEMMA PeaceAnswers ==
  ASSUME Typed, NoRace, Peace, NEW r \in Request, Answers(r)
  PROVE  Peace'
<1> DEFINE q == req[r]
           n == req'[r]
           a == n.answer
           new == [provider |-> DefaultProvider, n |-> issued + 1]
           p == persist_session_auth(n.session, a)
<1>0. q \in ReqState /\ Shape(q) /\ q.session \in Jar /\ Calm(r)
  BY ReqTypes DEF Peace
<1>1. /\ UNCHANGED <<scenario, cookie>> /\ q.phase = "refresh" /\ n.phase = "resume" /\ n.session = q.session
      /\ n.had = q.had /\ n.why = q.why /\ a \in Answer
  BY DEF Answers, Same
<1>2. \A g \in Request \ {r} : req'[g] = req[g]
  BY ActsOthers DEF Answers
<1>3. Busy(r) /\ Busy(r)' /\ q.had /\ q.session.sid # 0
  BY <1>0, <1>1 DEF Busy, Shape
<1>4. a # Nil /\ p.refresh_token = IF a.refresh_token # Nil THEN a.refresh_token ELSE q.session.refresh_token
  BY <1>0, <1>1, PersistJar, NilFacts
<1>5. Alone'
  BY <1>1, <1>2, <1>3 DEF Peace, Alone, Busy
<1>6. CASE scenario.rotating
  <2>1. a.refresh_token = new /\ accepts' = (accepts \ {q.session.refresh_token}) \cup {new}
    BY <1>6 DEF Answers
  <2>2. new \in RefreshToken
    BY AuthAssumption DEF RefreshToken, Typed, World
  <2> HIDE DEF new
  <2>3. p.refresh_token \in accepts'
    BY <1>4, <2>1, <2>2, NilFacts
  <2> HIDE DEF p
  <2>4. Calm(r)'
    BY <1>0, <1>1, <1>4, <2>3 DEF Calm, Good, p
  <2>5. ASSUME NEW g \in Request PROVE Calm(g)'
    <3>1. CASE g = r
      BY <2>4, <3>1
    <3>2. CASE g # r
      <4>1. ~Busy(g)
        BY <1>3, <1>6, <3>2 DEF Peace, Alone
      <4>2. QED
        BY <1>2, <3>2, <4>1, CalmIdle DEF Peace
    <3>3. QED
      BY <3>1, <3>2
  <2>6. CookieCounts'
    BY <1>1, <1>3, <1>6 DEF CookieCounts
  <2>7. QED
    BY <1>5, <2>5, <2>6 DEF Peace
<1>7. CASE ~scenario.rotating
  <2>1. a.refresh_token = Nil /\ accepts' = accepts /\ q.session.refresh_token \in accepts
    BY <1>7 DEF Answers
  <2>2. p.refresh_token \in accepts'
    BY <1>4, <2>1
  <2> HIDE DEF p
  <2>3. Calm(r)'
    BY <1>0, <1>1, <1>4, <2>2 DEF Calm, Good, p
  <2>4. ASSUME NEW g \in Request PROVE Calm(g)'
    BY <1>2, <2>1, <2>3, CalmKept DEF Peace
  <2>5. CookieCounts'
    BY <1>1, <1>7, <2>1 DEF Peace, CookieCounts, Good
  <2>6. QED
    BY <1>5, <2>4, <2>5 DEF Peace
<1>8. QED
  BY <1>6, <1>7

LEMMA PeaceKinds ==
  ASSUME Typed, NoRace, NoRace', Peace, NEW r \in Request, Kinds(r)
  PROVE  Peace'
<1>1. CASE ~Arrives(r) /\ ~Responds(r) /\ ~Answers(r)
  <2>1. /\ Calm(r)' /\ Busy(r) /\ Busy(r)' /\ req'[r].had = req[r].had
        /\ UNCHANGED <<scenario, cookie, accepts, overlapped>>
    BY <1>1, CalmKinds DEF NoRace
  <2>2. \A g \in Request \ {r} : req'[g] = req[g]
    BY KindsActs, ActsOthers
  <2>3. ASSUME NEW g \in Request PROVE Calm(g)' /\ (Busy(g)' <=> Busy(g)) /\ req'[g].had = req[g].had
    <3>1. CASE g = r
      BY <2>1, <3>1
    <3>2. CASE g # r
      BY <2>1, <2>2, <3>2, CalmKept DEF Peace, Busy
    <3>3. QED
      BY <3>1, <3>2
  <2>4. Alone'
    BY <2>1, <2>3 DEF Peace, Alone
  <2>5. CookieCounts'
    BY <2>1, <2>3 DEF Peace, CookieCounts, Good
  <2>6. QED
    BY <2>3, <2>4, <2>5 DEF Peace
<1>2. QED
  BY <1>1, PeaceArrives, PeaceResponds, PeaceAnswers

LEMMA PeaceLogin ==
  ASSUME Typed, NoRace, NoRace', Peace, Login
  PROVE  Peace'
<1>1. /\ accepts \subseteq accepts' /\ UNCHANGED <<scenario, req>>
      /\ scenario.refresh /\ scenario.provider = DefaultProvider => cookie'.refresh_token \in accepts'
  BY LoginWorld DEF Typed
<1>2. ASSUME NEW g \in Request PROVE Calm(g)'
  BY <1>1, CalmKept DEF Peace
<1>3. Alone'
  BY <1>1 DEF Peace, Alone, Busy
<1>4. CookieCounts'
  BY <1>1 DEF NoRace, CookieCounts, Good
<1>5. QED
  BY <1>2, <1>3, <1>4 DEF Peace

LEMMA PeaceNext == Typed /\ PeaceInv /\ [Next]_vars => PeaceInv'
<1> SUFFICES ASSUME Typed, PeaceInv, [Next]_vars, NoRace' PROVE Peace'
  BY DEF PeaceInv
<1>1. CASE Worldly
  <2>1. CASE Login
    <3>1. NoRace
      BY <2>1, LoginWorld DEF NoRace, Typed, World
    <3>2. QED
      BY <2>1, <3>1, PeaceLogin DEF PeaceInv
  <2>2. CASE ~Login
    <3>1. UNCHANGED <<scenario, cookie, accepts, overlapped, failed, req>>
      BY <1>1, <2>2, DriftWorld DEF Worldly, Typed, Drifts, idp
    <3>2. QED
      BY <3>1 DEF NoRace, PeaceInv, Peace, Alone, Busy, CookieCounts, Good, Calm
  <2>3. QED
    BY <2>1, <2>2
<1>2. ASSUME NEW r \in Request, Kinds(r)
      PROVE  Peace'
  <2>1. scenario' = scenario
    BY <1>2 DEF Kinds, Arrives, Responds, Ends, LogsOut, Passes, Decides, Answers, Loses, Resumes, Validates, Profiles, Outside
  <2>2. failed => failed'
    BY <1>2 DEF Kinds, Arrives, Responds, Ends, LogsOut, Passes, Decides, Answers, Loses, Resumes, Validates, Profiles, Outside
  <2>3. overlapped => overlapped'
    BY <1>2 DEF Kinds, Arrives, Responds, Ends, LogsOut, Passes, Decides, Answers, Loses, Resumes, Validates, Profiles, Outside
  <2>4. NoRace
    BY <2>1, <2>2, <2>3 DEF NoRace
  <2>5. QED
    BY <1>2, <2>4, PeaceKinds DEF PeaceInv
<1>3. QED
  BY <1>1, <1>2, StepKinds

(* routers/auth.py, refresh_session_with_idp: with a provider that answers *)
(* and a refresh token of the default provider, a browser is made to log   *)
(* in again for an expired session only if the provider rotates tokens and *)
(* two requests, or a request and a login, overlapped.                     *)
THEOREM OnlyRacesLogOut == Spec => []OnlyARaceLogsOut
<1>1. Init => PeaceInv
  <2> SUFFICES ASSUME Init PROVE Peace
    BY DEF PeaceInv
  <2>1. ASSUME NEW r \in Request PROVE Calm(r) /\ ~Busy(r)
    <3>1. req[r] = Fresh
      BY DEF Init
    <3>2. req[r].why = "" /\ req[r].phase = "idle" /\ req[r].session.sid = 0
      BY <3>1, FreshState, EmptyJar
    <3>3. QED
      BY <3>2 DEF Calm, Good, Busy
  <2>2. Good(cookie)
    BY EmptyJar DEF Init, Good
  <2>3. QED
    BY <2>1, <2>2 DEF Peace, Alone, CookieCounts
<1>2. Typed /\ PeaceInv => OnlyARaceLogsOut
  BY DEF PeaceInv, NoRace, Peace, Calm, OnlyARaceLogsOut
<1>3. QED
  BY <1>1, <1>2, TypedInit, TypedNext, PeaceNext, PTL DEF Spec

-----------------------------------------------------------------------------
(***************************************************************************)
(* The store's proxy implements InitOnce, for any number of threads and of *)
(* retries.  The argument: a thread between the second look and the second *)
(* read holds the lock, so at most one is there; while it initialises      *)
(* there is no store, and what it publishes is whole.                      *)
(***************************************************************************)
Inside == {"check", "connect", "migrate", "publish", "reread"}
Initialising == {"connect", "migrate", "publish"}

LazyInv ==
  /\ LazyTypeOK
  /\ \A t \in Thread : at[t] \in Inside => lock = t
  /\ \A t \in Thread : at[t] \in Initialising => instance = Nil
  /\ \A t \in Thread : at[t] \in {"got", "reread"} => instance # Nil
  /\ \A t \in Thread : at[t] = "got" => got[t] = instance

LEMMA InitInv == LazyInit => LazyInv
BY LazyStoreAssumption DEF LazyInit, LazyInv, LazyTypeOK, Inside, Initialising

LEMMA WholeStore ==
  ASSUME NEW t \in Thread PROVE Store(t, TRUE) \in Stores /\ Store(t, TRUE) # Nil
<1>1. Store(t, TRUE) \in Stores
  BY DEF Store, Stores
<1>2. Nil \notin Stores
  BY LazyStoreAssumption, Zenon DEF Stores
<1> QED BY <1>1, <1>2

LEMMA StepInv == LazyInv /\ [LazyNext]_lazy => LazyInv'
<1> SUFFICES ASSUME LazyInv, [LazyNext]_lazy PROVE LazyInv'
  OBVIOUS
<1> USE LazyStoreAssumption DEF LazyInv, LazyTypeOK, Inside, Initialising, To
<1>1. ASSUME NEW t \in Thread, Access(t) PROVE LazyInv'
  BY <1>1 DEF Access
<1>2. ASSUME NEW t \in Thread, Look(t) PROVE LazyInv'
  BY <1>2 DEF Look, Returns
<1>3. ASSUME NEW t \in Thread, Acquire(t) PROVE LazyInv'
  BY <1>3 DEF Acquire
<1>4. ASSUME NEW t \in Thread, Check(t) PROVE LazyInv'
  BY <1>4 DEF Check, Returns, Construct
<1>5. ASSUME NEW t \in Thread, Connect(t) PROVE LazyInv'
  BY <1>5 DEF Connect
<1>6. ASSUME NEW t \in Thread, ConnectFails(t) PROVE LazyInv'
  BY <1>6 DEF ConnectFails, Raise
<1>7. ASSUME NEW t \in Thread, Migrate(t) PROVE LazyInv'
  BY <1>7 DEF Migrate
<1>8. ASSUME NEW t \in Thread, MigrateFails(t) PROVE LazyInv'
  BY <1>8 DEF MigrateFails, Raise
<1>9. ASSUME NEW t \in Thread, Publish(t) PROVE LazyInv'
  <2>1. Store(t, TRUE) \in Stores /\ Store(t, TRUE) # Nil
    BY WholeStore
  <2>2. instance' = Store(t, TRUE)
    BY <1>9 DEF Publish
  <2>3. \A u \in Thread : at[u] \in Inside => u = t
    BY <1>9 DEF Publish
  <2>4. \A u \in Thread : at[u] \notin {"got", "reread"}
    BY <1>9 DEF Publish
  <2>5. at' = [at EXCEPT ![t] = "reread"] /\ attempt' = [attempt EXCEPT ![t] = 0] /\ lock' = lock /\ got' = got
    BY <1>9 DEF Publish
  <2>6. LazyTypeOK'
    <3>1. instance' \in Stores \cup {Nil}
      BY <2>1, <2>2
    <3>2. attempt' \in [Thread -> 0 .. MaxRetries]
      BY <2>5
    <3> HIDE DEF LazyInv
    <3> QED BY <2>5, <3>1, <3>2 DEF LazyInv, Stores
  <2>7. \A u \in Thread : at'[u] \in Inside => u = t
    BY <2>3, <2>5
  <2> QED BY <1>9, <2>1, <2>2, <2>4, <2>5, <2>6, <2>7 DEF Publish
<1>10. ASSUME NEW t \in Thread, Reread(t) PROVE LazyInv'
  BY <1>10 DEF Reread, Returns
<1>11. ASSUME NEW t \in Thread, Leave(t) PROVE LazyInv'
  BY <1>11 DEF Leave
<1>12. CASE UNCHANGED lazy
  BY <1>12 DEF lazy
<1> QED
  BY <1>1, <1>2, <1>3, <1>4, <1>5, <1>6, <1>7, <1>8, <1>9, <1>10, <1>11, <1>12
  DEF LazyNext, get_instance, InitFails

(* The lock discipline and the order inside init_db hold for any threads   *)
(* and retries; every state is well formed.                                *)
THEOREM LazyInvariance == LazySpec => []LazyInv
<1>1. LazyInit => LazyInv
  BY InitInv
<1>2. LazyInv /\ [LazyNext]_lazy => LazyInv'
  BY StepInv
<1> QED BY <1>1, <1>2, PTL DEF LazySpec

-----------------------------------------------------------------------------
(* What a caller sees of the other threads does not change in a step of t. *)
LEMMA OthersSeeNothing ==
  ASSUME LazyTypeOK, NEW t \in Thread, NEW u \in Thread, u # t,
         at' = [at EXCEPT ![t] = at'[t]], got' = [got EXCEPT ![t] = got'[t]]
  PROVE  Held(u)' = Held(u)
<1>1. at'[u] = at[u] /\ got'[u] = got[u]
  BY DEF LazyTypeOK
<1> QED BY <1>1 DEF Held

LEMMA HeldStep ==
  ASSUME LazyTypeOK, NEW t \in Thread,
         at' = [at EXCEPT ![t] = at'[t]], got' = [got EXCEPT ![t] = got'[t]]
  PROVE  [u \in Thread |-> Held(u)]' = [[u \in Thread |-> Held(u)] EXCEPT ![t] = Held(t)']
BY OthersSeeNothing

LEMMA InitRefines == LazyInit => Abstract!Init
BY DEF LazyInit, Abstract!Init, Abstract!Idle, Held

(* Each step of the proxy is one of InitOnce, or nothing a caller sees.    *)
LEMMA StepRefines == LazyInv /\ [LazyNext]_lazy => [Abstract!Next]_Abstract!vars
<1> SUFFICES ASSUME LazyInv, [LazyNext]_lazy PROVE [Abstract!Next]_Abstract!vars
  OBVIOUS
<1> DEFINE held == [u \in Thread |-> Held(u)]
<1> USE DEF LazyInv, LazyTypeOK, To
<1>a. ASSUME NEW t \in Thread, Access(t) PROVE Abstract!Ask(t)
  BY <1>a, HeldStep DEF Access, Abstract!Ask, Abstract!Idle, Abstract!Asking, Held
<1>b. ASSUME NEW t \in Thread, Leave(t) PROVE Abstract!Leave(t)
  BY <1>b, HeldStep DEF Leave, Abstract!Leave, Abstract!Idle, Abstract!Asking, Held
<1>c. ASSUME NEW t \in Thread, Returns(t), at[t] \in {"look", "check", "reread"}, instance # Nil
      PROVE  Abstract!Answer(t)
  BY <1>c, HeldStep DEF Returns, Abstract!Answer, Abstract!Asking, Held
<1>d. ASSUME NEW t \in Thread, Raise(t), at[t] \in Initialising PROVE Abstract!Refuse(t)
  BY <1>d, HeldStep DEF Raise, Initialising, Abstract!Refuse, Abstract!Asking, Held
<1>e. ASSUME NEW t \in Thread, Publish(t) PROVE Abstract!Create
  BY <1>e, HeldStep DEF Publish, Initialising, Abstract!Create, Abstract!Asking, Held
<1>f. ASSUME NEW t \in Thread, at[t] \in {"look", "wait", "check", "connect", "migrate"},
             at'[t] \in {"wait", "check", "connect", "migrate", "publish"},
             at' = [at EXCEPT ![t] = at'[t]], UNCHANGED <<instance, got>>
      PROVE  UNCHANGED Abstract!vars
  BY <1>f, HeldStep DEF Abstract!vars, Held
<1>1. ASSUME NEW t \in Thread, Look(t) PROVE Abstract!Answer(t) \/ UNCHANGED Abstract!vars
  BY <1>1, <1>c, <1>f DEF Look
<1>2. ASSUME NEW t \in Thread, Acquire(t) PROVE UNCHANGED Abstract!vars
  BY <1>2, <1>f DEF Acquire
<1>3. ASSUME NEW t \in Thread, Check(t) PROVE Abstract!Answer(t) \/ UNCHANGED Abstract!vars
  BY <1>3, <1>c, <1>f DEF Check, Construct
<1>4. ASSUME NEW t \in Thread, Connect(t) \/ Migrate(t) PROVE UNCHANGED Abstract!vars
  BY <1>4, <1>f DEF Connect, Migrate
<1>5. ASSUME NEW t \in Thread, ConnectFails(t) PROVE Abstract!Refuse(t) \/ UNCHANGED Abstract!vars
  BY <1>5, <1>d DEF ConnectFails, Initialising, Abstract!vars, Held
<1>6. ASSUME NEW t \in Thread, MigrateFails(t) PROVE Abstract!Refuse(t)
  BY <1>6, <1>d DEF MigrateFails, Initialising
<1>7. ASSUME NEW t \in Thread, Reread(t) PROVE Abstract!Answer(t)
  BY <1>7, <1>c DEF Reread
<1>8. CASE UNCHANGED lazy
  BY <1>8 DEF lazy, Abstract!vars, Held
<1> QED
  <2>1. ASSUME NEW t \in Thread, Access(t) \/ get_instance(t) \/ InitFails(t) \/ Leave(t)
        PROVE  [Abstract!Next]_Abstract!vars
    BY <2>1, <1>a, <1>b, <1>e, <1>1, <1>2, <1>3, <1>4, <1>5, <1>6, <1>7
    DEF get_instance, InitFails, Abstract!Next
  <2> QED BY <1>8, <2>1 DEF LazyNext

(* store.py:16-48: for any number of threads that race on the first access *)
(* and any failures of init_db, the proxy behaves as InitOnce: one store,  *)
(* never replaced, never handed out before init_db has finished, and no    *)
(* error once it exists.                                                   *)
THEOREM ProxyImplementsInitOnce == LazySpec => StoreIsInitOnce
<1>1. LazyInit => Abstract!Init
  BY InitRefines
<1>2. LazyInv /\ [LazyNext]_lazy => [Abstract!Next]_Abstract!vars
  BY StepRefines
<1>3. LazySpec => []LazyInv
  BY LazyInvariance
<1> QED BY <1>1, <1>2, <1>3, PTL DEF LazySpec, StoreIsInitOnce, Abstract!Spec

-----------------------------------------------------------------------------
(* The same of the threads of the whole middleware: every step of the      *)
(* requests is, for the proxy, an access, a step of _get_instance, a       *)
(* departure or nothing at all.                                            *)
LEMMA StoreSteps == [Next]_vars => [LazyNext]_lazy
<1> SUFFICES ASSUME [Next]_vars PROVE [LazyNext]_lazy
  OBVIOUS
<1> DEFINE Touch == UNCHANGED lazy \/ \E t \in Thread : Access(t) \/ Leave(t)
<1>0. loop \in Thread /\ worker \in Thread
  BY AuthAssumption
<1>1. ASSUME NEW r \in Request, Authenticate(r) \/ ReadProfile(r) \/ AwaitWorker(r) PROVE Touch
  BY <1>0, <1>1 DEF Authenticate, ReadProfile, AwaitWorker, EnterStore
<1>2. ASSUME NEW r \in Request, authenticate_session(r) \/ StoreUnavailable(r) \/ authenticate_basic_auth(r) \/ get_user_auth_state(r)
      PROVE  Touch
  BY <1>0, <1>2 DEF authenticate_session, StoreUnavailable, authenticate_basic_auth, get_user_auth_state
<1>3. ASSUME NEW r \in Request,
             \/ Arrive(r) \/ Respond(r) \/ TokenEndpoint(r) \/ TokenEndpointFails(r) \/ refresh_session_with_idp(r)
             \/ authenticate_bearer_token(r) \/ Handle(r) \/ logout(r) \/ LogoutFails(r)
      PROVE  UNCHANGED lazy
  <2>1. ASSUME Arrive(r) \/ Respond(r) \/ Handle(r) \/ LogoutFails(r) \/ refresh_session_with_idp(r) PROVE UNCHANGED lazy
    BY <2>1, Zenon DEF Arrive, Respond, Handle, LogoutFails, refresh_session_with_idp
  <2>2. ASSUME TokenEndpoint(r) \/ TokenEndpointFails(r) PROVE UNCHANGED lazy
    BY <2>2, Zenon DEF TokenEndpoint, TokenEndpointFails
  <2>3. ASSUME authenticate_bearer_token(r) \/ logout(r) PROVE UNCHANGED lazy
    BY <2>3, Zenon DEF authenticate_bearer_token, logout
  <2> QED BY <1>3, <2>1, <2>2, <2>3
<1>4. ASSUME Login \/ SetAdmin \/ SetActive \/ RotateKeys \/ Tick PROVE UNCHANGED lazy
  <2>1. ASSUME Login PROVE UNCHANGED lazy
    BY <2>1 DEF Login
  <2>2. ASSUME RotateKeys \/ Tick PROVE UNCHANGED lazy
    BY <2>2 DEF RotateKeys, Tick
  <2>3. ASSUME SetAdmin \/ SetActive PROVE UNCHANGED lazy
    BY <2>3, Zenon DEF SetAdmin, SetActive, Change
  <2> QED BY <1>4, <2>1, <2>2, <2>3
<1>5. ASSUME NEW t \in Thread, StoreStep(t) PROVE LazyNext
  BY <1>5 DEF StoreStep, LazyNext
<1>6. Touch => [LazyNext]_lazy
  BY DEF LazyNext
<1>7. CASE UNCHANGED vars
  BY <1>7 DEF vars
<1>8. CASE Next
  <2>1. ASSUME NEW r \in Request, Arrive(r) \/ Middleware(r) \/ TokenEndpointFails(r) \/ LogoutFails(r) PROVE Touch
    BY <2>1, <1>1, <1>2, <1>3 DEF Middleware
  <2> HIDE DEF Touch
  <2> QED BY <1>8, <1>4, <1>5, <1>6, <2>1 DEF Next
<1> QED BY <1>7, <1>8

(* auth_middleware.py and store.py together: whichever requests the event  *)
(* loop and the basic-auth worker are serving when they first meet the     *)
(* proxy, and whatever fails, the store they share is an InitOnce.         *)
THEOREM StoreStaysInitOnce == Spec => StoreIsInitOnce
<1>1. Init => LazyInit
  BY DEF Init
<1>2. Spec => LazySpec
  BY <1>1, StoreSteps, PTL DEF Spec, LazySpec
<1> QED BY <1>2, ProxyImplementsInitOnce
=============================================================================
