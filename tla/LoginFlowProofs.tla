-------------------------- MODULE LoginFlowProofs --------------------------
(***************************************************************************)
(* Theorems about LoginFlow, for any providers and policies, attempts,     *)
(* handlers, browsers, users and claims.  A handler carries what it has    *)
(* read across several transactions; the invariant says, for each place a  *)
(* handler may be at, which of it is still true of the tables.             *)
(***************************************************************************)
EXTENDS LoginFlow, FiniteSetTheorems, TLAPS

Cookie == [session : (State \X Claims) \cup {Nil}, refresh : Claims \cup {Nil}]
Binding == [provider : Provider, subject : Subject \cup {Nil}, uid : Nat]
Attempt == [provider : Provider, status : {"open", "expired", "gone"}]
Work ==
  [pc : {"idle", "seen", "claimed", "exchanged", "resolved", "allowed", "provisioned", "linking", "linked"},
   state : State \cup {Nil}, path : Provider \cup {Nil}, browser : Browser \cup {Nil}, carried : Cookie,
   claim : Claims \cup {Nil}, decision : {"MATCHED", "LINK", "CREATE", Nil}, user : User \cup {Nil},
   create : BOOLEAN, uid : Nat]

(* What a handler holds by where it is: past the claim the browser's old   *)
(* login is retired, past the exchange the identity has a subject or comes *)
(* from the default provider, past the resolution it has a user.           *)
Shape(w) ==
  /\ w \in Work
  /\ w.pc # "idle" => w.state \in State /\ w.browser \in Browser
  /\ w.pc \notin {"idle", "seen"} => w.carried = NoCookie
  /\ w.pc \notin {"idle", "seen", "claimed"} =>
       w.claim \in Claims /\ (w.claim.subject # Nil \/ w.claim.provider = DEFAULT_PROVIDER_ID)
  /\ w.pc \notin {"idle", "seen", "claimed", "exchanged"} => w.user \in User
  /\ w.pc = "linking" => w.uid # 0 /\ w.claim.subject # Nil

Tables ==
  /\ attempts \in [State -> Attempt \cup {Nil}]
  /\ users \in [User -> Nat] /\ nextUid \in Nat
  /\ bindings \subseteq Binding /\ cookie \in [Browser -> Cookie]
  /\ claimedBy \in [State -> SUBSET Flow] /\ overlapped \in BOOLEAN

Handlers ==
  /\ flow \in [Flow -> Work]
  /\ \A f \in Flow : Shape(flow[f]) /\ (flow[f].pc # "idle" => attempts[flow[f].state] # Nil)

Typed == Tables /\ Handlers

-----------------------------------------------------------------------------
LEMMA NilIsNoAttempt == Nil \notin Attempt
BY LoginAssumption DEF Attempt

LEMMA RestingShape == Shape(Resting) /\ Resting.pc = "idle" /\ NoCookie \in Cookie
<1>1. NoCookie \in Cookie
  BY DEF NoCookie, Cookie
<1>2. Resting \in Work /\ Resting.pc = "idle"
  BY <1>1 DEF Resting, Work
<1>3. QED
  BY <1>1, <1>2 DEF Shape

LEMMA ClaimTypes ==
  ASSUME NEW c \in Claims
  PROVE  c.provider \in Provider /\ c.username \in User /\ c.subject \in Subject \cup {Nil}
BY LoginAssumption

LEMMA TypedInit == Init => Typed
<1> SUFFICES ASSUME Init PROVE Typed
  OBVIOUS
<1>1. Handlers
  BY RestingShape DEF Init, Handlers, Shape
<1>2. users \in [User -> Nat] /\ nextUid \in Nat
  BY DEF Init
<1>3. cookie \in [Browser -> Cookie] /\ claimedBy \in [State -> SUBSET Flow] /\ overlapped \in BOOLEAN
  BY RestingShape DEF Init
<1>4. attempts \in [State -> Attempt \cup {Nil}] /\ bindings \subseteq Binding
  BY DEF Init
<1>5. QED
  BY <1>1, <1>2, <1>3, <1>4 DEF Typed, Tables

(* A handler moves on: what the steps between claim and session share.     *)
Moves(f) ==
  /\ flow' = [flow EXCEPT ![f] = flow'[f]] /\ Shape(flow'[f])
  /\ flow[f].pc \notin {"idle", "seen"} /\ flow'[f].pc \notin {"idle", "seen"}
  /\ flow'[f].state = flow[f].state
  /\ overlapped' = (overlapped \/ (flow'[f].pc = "linking" /\ \E g \in Flow : flow[g].pc = "linking"))
  /\ UNCHANGED <<attempts, sessions, cookie, claimedBy, disturbed>>

(* Rows are only added, for names that have none. *)
Adds ==
  /\ users' \in [User -> Nat] /\ nextUid' \in Nat
  /\ \A u \in User : users[u] # 0 => users'[u] = users[u]

Advances(f) == flow'[f].pc \notin {"linking", "linked"} /\ Moves(f) /\ Adds /\ UNCHANGED bindings

Begins(f) ==
  LET w == flow'[f] IN
  /\ w.pc = "linking" /\ w.uid = users[w.user] /\ MayBind(w.claim, w.user)
  /\ Moves(f) /\ UNCHANGED <<users, bindings, nextUid>>

(* The pair is bound to the user already, or there is no subject to bind. *)
IsBound(f) ==
  LET w == flow'[f] IN
  /\ w.pc = "linked"
  /\ w.claim.subject # Nil =>
       /\ users[w.user] # 0
       /\ [provider |-> w.claim.provider, subject |-> w.claim.subject, uid |-> users[w.user]] \in bindings
  /\ Moves(f) /\ UNCHANGED <<users, bindings, nextUid>>

Binds(f) ==
  LET w == flow'[f] IN
  /\ flow[f].pc = "linking" /\ w.pc = "linked" /\ w.claim = flow[f].claim /\ w.user = flow[f].user
  /\ users[w.user] = flow[f].uid
  /\ bindings' = bindings \cup {[provider |-> w.claim.provider, subject |-> w.claim.subject, uid |-> flow[f].uid]}
  /\ Moves(f) /\ UNCHANGED <<users, nextUid>>

Refuses(f) ==
  /\ flow[f].pc \notin {"idle", "seen"} /\ Refuse(f)

(* GoOn with a record that is the handler's own, a few fields later. *)
LEMMA GoOnMoves ==
  ASSUME Typed, NEW f \in Flow, flow[f].pc \notin {"idle", "seen"},
         NEW w, Shape(w), w.pc \notin {"idle", "seen"}, w.state = flow[f].state, GoOn(f, w)
  PROVE  Moves(f) /\ flow'[f] = w
<1>1. flow' = [flow EXCEPT ![f] = w] /\ flow'[f] = w
  BY DEF GoOn, Typed, Handlers
<1>2. QED
  BY <1>1 DEF GoOn, Moves

LEMMA SomeoneBound ==
  ASSUME Typed, NEW p, NEW s, NEW u, u \in BoundTo(p, s)
  PROVE  u \in User /\ users[u] # 0 /\ [provider |-> p, subject |-> s, uid |-> users[u]] \in bindings
BY DEF BoundTo, Typed, Tables, Binding

LEMMA ExchangeSteps ==
  ASSUME Typed, NEW f \in Flow, NEW c \in Claims, Exchange(f, c)
  PROVE  Advances(f) \/ Refuses(f)
<1> DEFINE w == flow[f]
           n == [w EXCEPT !.pc = "exchanged", !.claim = c]
<1>1. Shape(w) /\ w.pc = "claimed" /\ w \in Work
  BY DEF Exchange, Typed, Handlers, Shape
<1>2. CASE c.subject # Nil \/ c.provider = DEFAULT_PROVIDER_ID
  <2>1. /\ n \in Work /\ n.pc = "exchanged" /\ n.state = w.state /\ n.browser = w.browser
        /\ n.carried = w.carried /\ n.claim = c
    BY <1>1 DEF Work
  <2> HIDE DEF n
  <2>2. Shape(n)
    BY <1>1, <1>2, <2>1 DEF Shape
  <2>3. GoOn(f, n) /\ UNCHANGED <<users, bindings, nextUid>>
    BY <1>2 DEF Exchange, n
  <2>4. Moves(f) /\ flow'[f] = n
    BY <1>1, <2>1, <2>2, <2>3, GoOnMoves
  <2>5. QED
    BY <2>1, <2>3, <2>4 DEF Advances, Adds, Typed, Tables
<1>3. CASE ~(c.subject # Nil \/ c.provider = DEFAULT_PROVIDER_ID)
  BY <1>1, <1>3 DEF Exchange, Refuses
<1>4. QED
  BY <1>2, <1>3

LEMMA ResolveSteps ==
  ASSUME Typed, NEW f \in Flow, ResolveIdentity(f)
  PROVE  Advances(f) \/ Refuses(f)
<1> DEFINE w == flow[f]
           d == resolve_identity(w.claim)
<1>1. Shape(w) /\ w.pc = "exchanged" /\ w \in Work /\ w.claim \in Claims
  BY DEF ResolveIdentity, Typed, Handlers, Shape
<1>2. CASE d = "REFUSED"
  BY <1>1, <1>2 DEF ResolveIdentity, Refuses
<1>3. CASE d # "REFUSED"
  <2>1. d \in {"MATCHED", "LINK", "CREATE"}
    BY <1>3 DEF resolve_identity
  <2>2. PICK u \in (IF d = "MATCHED" THEN BoundTo(w.claim.provider, w.claim.subject) ELSE {w.claim.username}) :
          GoOn(f, [w EXCEPT !.pc = "resolved", !.decision = d, !.user = u])
    BY <1>3 DEF ResolveIdentity
  <2>3. u \in User
    BY <1>1, <2>2, ClaimTypes DEF BoundTo
  <2> DEFINE n == [w EXCEPT !.pc = "resolved", !.decision = d, !.user = u]
  <2> HIDE DEF d
  <2>4. /\ n \in Work /\ n.pc = "resolved" /\ n.state = w.state /\ n.browser = w.browser
        /\ n.carried = w.carried /\ n.claim = w.claim /\ n.user = u
    BY <1>1, <2>1, <2>3 DEF Work
  <2>5. GoOn(f, n) /\ UNCHANGED <<users, bindings, nextUid>>
    BY <1>3, <2>2 DEF ResolveIdentity, d
  <2> HIDE DEF n
  <2>6. Shape(n)
    BY <1>1, <2>3, <2>4 DEF Shape
  <2>7. Moves(f) /\ flow'[f] = n
    BY <1>1, <2>4, <2>5, <2>6, GoOnMoves
  <2>8. QED
    BY <2>4, <2>5, <2>7 DEF Advances, Adds, Typed, Tables
<1>4. QED
  BY <1>2, <1>3

LEMMA PolicySteps ==
  ASSUME Typed, NEW f \in Flow, ApplyPolicy(f)
  PROVE  Advances(f) \/ Refuses(f)
<1> DEFINE w == flow[f]
           create == w.decision = "CREATE" /\ users[w.user] = 0
           n == [w EXCEPT !.pc = "allowed", !.create = create]
<1>1. Shape(w) /\ w.pc = "resolved" /\ w \in Work /\ w.user \in User
  BY DEF ApplyPolicy, Typed, Handlers, Shape
<1>2. \/ Refuse(f)
      \/ GoOn(f, [w EXCEPT !.pc = "allowed", !.create = w.decision = "CREATE" /\ ~(users[w.user] # 0)])
         /\ UNCHANGED <<users, bindings, nextUid>>
  BY DEF ApplyPolicy
<1>3. create = (w.decision = "CREATE" /\ ~(users[w.user] # 0)) /\ create \in BOOLEAN
  OBVIOUS
<1> HIDE DEF create
<1>4. /\ n \in Work /\ n.pc = "allowed" /\ n.state = w.state /\ n.browser = w.browser
      /\ n.carried = w.carried /\ n.claim = w.claim /\ n.user = w.user
  BY <1>1, <1>3 DEF Work
<1>5. Refuse(f) \/ (GoOn(f, n) /\ UNCHANGED <<users, bindings, nextUid>>)
  BY <1>2, <1>3
<1> HIDE DEF n
<1>6. CASE Refuse(f)
  BY <1>1, <1>6 DEF Refuses
<1>7. CASE GoOn(f, n) /\ UNCHANGED <<users, bindings, nextUid>>
  <2>1. Shape(n)
    BY <1>1, <1>4 DEF Shape
  <2>2. Moves(f) /\ flow'[f] = n
    BY <1>1, <1>4, <1>7, <2>1, GoOnMoves
  <2>3. QED
    BY <1>4, <1>7, <2>2 DEF Advances, Adds, Typed, Tables
<1>8. QED
  BY <1>5, <1>6, <1>7

LEMMA ProvisionSteps ==
  ASSUME Typed, NEW f \in Flow, Provision(f)
  PROVE  Advances(f)
<1> DEFINE w == flow[f]
           n == [w EXCEPT !.pc = "provisioned"]
<1>1. Shape(w) /\ w.pc = "allowed" /\ w \in Work /\ w.user \in User
  BY DEF Provision, Typed, Handlers, Shape
<1>2. /\ n \in Work /\ n.pc = "provisioned" /\ n.state = w.state /\ n.browser = w.browser
      /\ n.carried = w.carried /\ n.claim = w.claim /\ n.user = w.user
  BY <1>1 DEF Work
<1>3. GoOn(f, n) /\ UNCHANGED bindings
  BY DEF Provision
<1> HIDE DEF n
<1>4. Shape(n)
  BY <1>1, <1>2 DEF Shape
<1>5. Moves(f) /\ flow'[f] = n
  BY <1>1, <1>2, <1>3, <1>4, GoOnMoves
<1>6. Adds
  BY <1>1 DEF Provision, Adds, Typed, Tables
<1>7. QED
  BY <1>2, <1>3, <1>5, <1>6 DEF Advances

LEMMA CheckLinkSteps ==
  ASSUME Typed, NEW f \in Flow, CheckLink(f)
  PROVE  IsBound(f) \/ Begins(f) \/ Refuses(f)
<1> DEFINE w == flow[f]
           c == w.claim
           n == [w EXCEPT !.pc = "linked"]
           m == [w EXCEPT !.pc = "linking", !.uid = users[w.user]]
           bound == BoundTo(c.provider, c.subject)
<1>1. Shape(w) /\ w.pc = "provisioned" /\ w \in Work /\ w.user \in User /\ users[w.user] \in Nat
  BY DEF CheckLink, Typed, Tables, Handlers, Shape
<1>2. CASE c.subject = Nil \/ bound = {w.user}
  <2>1. /\ n \in Work /\ n.pc = "linked" /\ n.state = w.state /\ n.browser = w.browser
        /\ n.carried = w.carried /\ n.claim = c /\ n.user = w.user
    BY <1>1 DEF Work
  <2>2. GoOn(f, n) /\ UNCHANGED <<users, bindings, nextUid>>
    BY <1>2 DEF CheckLink
  <2> HIDE DEF n
  <2>3. Shape(n)
    BY <1>1, <2>1 DEF Shape
  <2>4. Moves(f) /\ flow'[f] = n
    BY <1>1, <2>1, <2>2, <2>3, GoOnMoves
  <2>5. c.subject # Nil => /\ users[w.user] # 0
                           /\ [provider |-> c.provider, subject |-> c.subject, uid |-> users[w.user]] \in bindings
    BY <1>2, SomeoneBound
  <2>6. QED
    BY <2>1, <2>2, <2>4, <2>5 DEF IsBound
<1>3. CASE ~(c.subject = Nil \/ bound = {w.user}) /\ users[w.user] # 0 /\ bound = {} /\ MayBind(c, w.user)
  <2>1. /\ m \in Work /\ m.pc = "linking" /\ m.state = w.state /\ m.browser = w.browser
        /\ m.carried = w.carried /\ m.claim = c /\ m.user = w.user /\ m.uid = users[w.user]
    BY <1>1 DEF Work
  <2>2. GoOn(f, m) /\ UNCHANGED <<users, bindings, nextUid>>
    BY <1>3 DEF CheckLink
  <2> HIDE DEF m
  <2>3. Shape(m)
    BY <1>1, <1>3, <2>1 DEF Shape
  <2>4. Moves(f) /\ flow'[f] = m
    BY <1>1, <2>1, <2>2, <2>3, GoOnMoves
  <2>5. QED
    BY <1>3, <2>1, <2>2, <2>4 DEF Begins
<1>4. CASE ~(c.subject = Nil \/ bound = {w.user}) /\ ~(users[w.user] # 0 /\ bound = {} /\ MayBind(c, w.user))
  BY <1>1, <1>4 DEF CheckLink, Refuses
<1>5. QED
  BY <1>2, <1>3, <1>4

LEMMA WriteLinkSteps ==
  ASSUME Typed, NEW f \in Flow, WriteLink(f)
  PROVE  Binds(f) \/ Refuses(f)
<1> DEFINE w == flow[f]
           n == [w EXCEPT !.pc = "linked"]
<1>1. Shape(w) /\ w.pc = "linking" /\ w \in Work
  BY DEF WriteLink, Typed, Handlers, Shape
<1>2. CASE users[w.user] # w.uid \/ BoundTo(w.claim.provider, w.claim.subject) # {}
  BY <1>1, <1>2 DEF WriteLink, Refuses
<1>3. CASE ~(users[w.user] # w.uid \/ BoundTo(w.claim.provider, w.claim.subject) # {})
  <2>1. /\ n \in Work /\ n.pc = "linked" /\ n.state = w.state /\ n.browser = w.browser
        /\ n.carried = w.carried /\ n.claim = w.claim /\ n.user = w.user
    BY <1>1 DEF Work
  <2>2. /\ GoOn(f, n) /\ UNCHANGED <<users, nextUid>>
        /\ bindings' = bindings \cup {[provider |-> w.claim.provider, subject |-> w.claim.subject, uid |-> w.uid]}
    BY <1>3 DEF WriteLink
  <2> HIDE DEF n
  <2>3. Shape(n)
    BY <1>1, <2>1 DEF Shape
  <2>4. Moves(f) /\ flow'[f] = n
    BY <1>1, <2>1, <2>2, <2>3, GoOnMoves
  <2>5. QED
    BY <1>1, <1>3, <2>1, <2>2, <2>4 DEF Binds
<1>4. QED
  BY <1>2, <1>3

-----------------------------------------------------------------------------
(* The invariant. *)

(* An attempt that was taken is gone, and one handler took it. *)
Once ==
  \A st \in State :
    \/ claimedBy[st] = {}
    \/ /\ attempts[st] # Nil /\ attempts[st].status = "gone"
       /\ \E f \in Flow : claimedBy[st] = {f}

(* A handler past link stands for an identity that is bound to its user,   *)
(* unless an account was deleted during its callback.                      *)
LinkedBound ==
  \A f \in Flow :
    LET w == flow[f] IN
    w.pc = "linked" /\ w.claim.subject # Nil /\ w.state \notin disturbed =>
      /\ users[w.user] # 0
      /\ [provider |-> w.claim.provider, subject |-> w.claim.subject, uid |-> users[w.user]] \in bindings

(* Between the checks and the insert of link, what the checks found still  *)
(* holds while no other handler is there.                                  *)
LinkAlone ==
  ~overlapped => \A f \in Flow : flow[f].pc = "linking" =>
    /\ \A b \in bindings : b.uid = flow[f].uid => b.provider = flow[f].claim.provider
    /\ \A g \in Flow : flow[g].pc = "linking" => g = f

Safe == Once /\ LinkedBound /\ LinkAlone /\ SessionsAreBound /\ OneProviderPerUser /\ CookieOwnsItsTokens

Inv == Typed /\ Safe

(* What every step between claim and session keeps. *)
LEMMA MovesKeep ==
  ASSUME Inv, NEW f \in Flow, Moves(f), Adds, bindings \subseteq bindings', bindings' \subseteq Binding
  PROVE  /\ Typed' /\ Once' /\ SessionsAreBound' /\ CookieOwnsItsTokens'
         /\ flow'[f] \in Work /\ \A g \in Flow \ {f} : flow'[g] = flow[g]
<1>1. flow'[f] \in Work /\ \A g \in Flow \ {f} : flow'[g] = flow[g]
  BY DEF Moves, Shape, Inv, Typed, Handlers
<1>2. Tables'
  BY DEF Moves, Adds, Inv, Typed, Tables
<1>3. Handlers'
  <2>1. flow' \in [Flow -> Work]
    BY <1>1 DEF Moves, Inv, Typed, Handlers
  <2>2. ASSUME NEW g \in Flow
        PROVE  Shape(flow'[g]) /\ (flow'[g].pc # "idle" => attempts'[flow'[g].state] # Nil)
    BY <1>1 DEF Moves, Inv, Typed, Handlers
  <2>3. QED
    BY <2>1, <2>2 DEF Handlers, Shape
<1>4. Once'
  BY DEF Moves, Inv, Safe, Once
<1>5. SessionsAreBound'
  BY DEF Moves, Inv, Safe, SessionsAreBound
<1>6. CookieOwnsItsTokens'
  BY DEF Moves, Inv, Safe, CookieOwnsItsTokens
<1>7. QED
  BY <1>1, <1>2, <1>3, <1>4, <1>5, <1>6 DEF Typed

LEMMA OthersLinked ==
  ASSUME Inv, NEW f \in Flow, Moves(f), Adds, bindings \subseteq bindings', bindings' \subseteq Binding,
         LET w == flow'[f] IN
         w.pc = "linked" /\ w.claim.subject # Nil /\ w.state \notin disturbed =>
           /\ users'[w.user] # 0
           /\ [provider |-> w.claim.provider, subject |-> w.claim.subject, uid |-> users'[w.user]] \in bindings'
  PROVE  LinkedBound'
<1> SUFFICES ASSUME NEW g \in Flow, flow'[g].pc = "linked", flow'[g].claim.subject # Nil, flow'[g].state \notin disturbed'
             PROVE  /\ users'[flow'[g].user] # 0
                    /\ [provider |-> flow'[g].claim.provider, subject |-> flow'[g].claim.subject,
                        uid |-> users'[flow'[g].user]] \in bindings'
  BY DEF LinkedBound
<1>1. disturbed' = disturbed
  BY DEF Moves
<1>2. CASE g = f
  BY <1>1, <1>2
<1>3. CASE g # f
  <2>1. flow'[g] = flow[g] /\ flow[g].user \in User
    BY <1>3, MovesKeep DEF Inv, Typed, Handlers, Shape
  <2>2. /\ users[flow[g].user] # 0
        /\ [provider |-> flow[g].claim.provider, subject |-> flow[g].claim.subject, uid |-> users[flow[g].user]] \in bindings
    BY <1>1, <2>1 DEF Inv, Safe, LinkedBound
  <2>3. users'[flow[g].user] = users[flow[g].user]
    BY <2>1, <2>2 DEF Adds
  <2>4. QED
    BY <2>1, <2>2, <2>3
<1>4. QED
  BY <1>2, <1>3

LEMMA OthersLinking ==
  ASSUME Inv, NEW f \in Flow, Moves(f), Adds, bindings' = bindings, flow'[f].pc # "linking"
  PROVE  LinkAlone'
<1>1. bindings \subseteq bindings' /\ bindings' \subseteq Binding
  BY DEF Inv, Typed, Tables
<1>2. \A g \in Flow : flow'[g].pc = "linking" => flow'[g] = flow[g]
  BY <1>1, MovesKeep
<1>3. overlapped' = overlapped
  BY DEF Moves, Inv, Typed, Tables
<1>4. QED
  BY <1>2, <1>3 DEF LinkAlone, Inv, Safe

LEMMA AdvancesKeeps ==
  ASSUME Inv, NEW f \in Flow, Advances(f)
  PROVE  Inv'
<1>1. Moves(f) /\ Adds /\ bindings' = bindings /\ bindings' \subseteq Binding /\ flow'[f].pc \notin {"linking", "linked"}
  BY DEF Advances, Inv, Typed, Tables
<1>2. LinkedBound'
  BY <1>1, OthersLinked
<1>3. overlapped' = overlapped
  BY <1>1 DEF Moves, Inv, Typed, Tables
<1>4. LinkAlone'
  BY <1>1, OthersLinking
<1>5. OneProviderPerUser'
  BY <1>1, <1>3 DEF Inv, Safe, OneProviderPerUser
<1>6. QED
  BY <1>1, <1>2, <1>4, <1>5, MovesKeep DEF Inv, Safe

LEMMA BeginsKeeps ==
  ASSUME Inv, NEW f \in Flow, Begins(f)
  PROVE  Inv'
<1>1. /\ Moves(f) /\ UNCHANGED <<users, bindings, nextUid>> /\ flow'[f].pc = "linking"
      /\ flow'[f].uid = users[flow'[f].user] /\ MayBind(flow'[f].claim, flow'[f].user)
  BY DEF Begins
<1>2. Adds /\ bindings \subseteq bindings' /\ bindings' \subseteq Binding
  BY <1>1 DEF Adds, Inv, Typed, Tables
<1>3. LinkedBound'
  BY <1>1, <1>2, OthersLinked
<1>4. LinkAlone'
  <2> SUFFICES ASSUME ~overlapped', NEW g \in Flow, flow'[g].pc = "linking"
               PROVE  /\ \A b \in bindings' : b.uid = flow'[g].uid => b.provider = flow'[g].claim.provider
                      /\ \A h \in Flow : flow'[h].pc = "linking" => h = g
    BY DEF LinkAlone
  <2>1. \A h \in Flow : flow[h].pc # "linking"
    BY <1>1 DEF Moves
  <2>2. \A h \in Flow : flow'[h].pc = "linking" => h = f
    BY <1>1, <1>2, <2>1, MovesKeep
  <2>3. \A b \in bindings : b.uid = users[flow'[f].user] => b.provider = flow'[f].claim.provider
    BY <1>1 DEF MayBind, list_providers_for_username
  <2>4. QED
    BY <1>1, <2>2, <2>3
<1>5. OneProviderPerUser'
  BY <1>1 DEF Moves, Inv, Safe, OneProviderPerUser
<1>6. QED
  BY <1>1, <1>2, <1>3, <1>4, <1>5, MovesKeep DEF Inv, Safe

LEMMA IsBoundKeeps ==
  ASSUME Inv, NEW f \in Flow, IsBound(f)
  PROVE  Inv'
<1>1. /\ Moves(f) /\ UNCHANGED <<users, bindings, nextUid>> /\ flow'[f].pc = "linked"
  BY DEF IsBound
<1>2. Adds /\ bindings \subseteq bindings' /\ bindings' \subseteq Binding
  BY <1>1 DEF Adds, Inv, Typed, Tables
<1>3. LinkedBound'
  BY <1>1, <1>2, OthersLinked DEF IsBound
<1>4. overlapped' = overlapped
  BY <1>1 DEF Moves, Inv, Typed, Tables
<1>5. LinkAlone'
  BY <1>1, <1>2, OthersLinking
<1>6. OneProviderPerUser'
  BY <1>1, <1>4 DEF Inv, Safe, OneProviderPerUser
<1>7. QED
  BY <1>1, <1>2, <1>3, <1>5, <1>6, MovesKeep DEF Inv, Safe

LEMMA BindsKeeps ==
  ASSUME Inv, NEW f \in Flow, Binds(f)
  PROVE  Inv'
<1> DEFINE w == flow[f]
           new == [provider |-> w.claim.provider, subject |-> w.claim.subject, uid |-> w.uid]
<1>1. /\ Moves(f) /\ UNCHANGED <<users, nextUid>> /\ flow'[f].pc = "linked" /\ w.pc = "linking"
      /\ flow'[f].claim = w.claim /\ flow'[f].user = w.user /\ users[w.user] = w.uid
      /\ bindings' = bindings \cup {new}
  BY DEF Binds
<1>2. w \in Work /\ w.claim \in Claims /\ w.uid # 0 /\ w.uid \in Nat
  BY <1>1 DEF Inv, Typed, Handlers, Shape, Work
<1>3. new \in Binding /\ new.uid = w.uid /\ new.provider = w.claim.provider
  BY <1>2, ClaimTypes DEF Binding
<1>4. Adds /\ bindings \subseteq bindings' /\ bindings' \subseteq Binding
  BY <1>1, <1>3 DEF Adds, Inv, Typed, Tables
<1>5. LinkedBound'
  BY <1>1, <1>2, <1>4, OthersLinked
<1>6. overlapped' = overlapped
  BY <1>1 DEF Moves, Inv, Typed, Tables
<1>7. ~overlapped => /\ \A b \in bindings : b.uid = w.uid => b.provider = w.claim.provider
                     /\ \A g \in Flow : flow[g].pc = "linking" => g = f
  BY <1>1 DEF Inv, Safe, LinkAlone
<1>8. LinkAlone'
  <2>1. \A g \in Flow \ {f} : flow'[g] = flow[g]
    BY <1>1, <1>4, MovesKeep
  <2>2. ~overlapped => \A g \in Flow : flow'[g].pc # "linking"
    BY <1>1, <1>7, <2>1
  <2>3. QED
    BY <1>6, <2>2 DEF LinkAlone
<1>9. OneProviderPerUser'
  <2> HIDE DEF new
  <2> SUFFICES ASSUME ~overlapped, NEW b \in bindings', NEW c \in bindings', b.uid = c.uid PROVE b.provider = c.provider
    BY <1>6 DEF OneProviderPerUser
  <2>1. (b \in bindings \/ b = new) /\ (c \in bindings \/ c = new)
    BY <1>1
  <2>2. QED
    BY <1>3, <1>7, <2>1 DEF Inv, Safe, OneProviderPerUser
<1>10. QED
  BY <1>1, <1>4, <1>5, <1>8, <1>9, MovesKeep DEF Inv, Safe

(* The handlers other than f, and what they know, are as they were. *)
LEMMA RestKeeps ==
  ASSUME Inv, NEW f \in Flow, flow' = [flow EXCEPT ![f] = Resting], UNCHANGED <<users, bindings, overlapped, disturbed>>,
         \A st \in State : attempts[st] # Nil => attempts'[st] # Nil
  PROVE  Handlers' /\ LinkedBound' /\ LinkAlone' /\ OneProviderPerUser'
<1>1. \A g \in Flow : flow'[g] = IF g = f THEN Resting ELSE flow[g]
  BY DEF Inv, Typed, Handlers
<1>2. Resting \in Work /\ Resting.pc = "idle" /\ Shape(Resting)
  BY RestingShape DEF Shape
<1>3. Handlers'
  <2>1. flow' \in [Flow -> Work]
    BY <1>2 DEF Inv, Typed, Handlers
  <2>2. \A g \in Flow : Shape(flow'[g]) /\ (flow'[g].pc # "idle" => attempts'[flow'[g].state] # Nil)
    BY <1>1, <1>2 DEF Inv, Typed, Handlers, Shape
  <2>3. QED
    BY <2>1, <2>2 DEF Handlers, Shape
<1>4. LinkedBound' /\ LinkAlone' /\ OneProviderPerUser'
  BY <1>1, <1>2 DEF Inv, Safe, LinkedBound, LinkAlone, OneProviderPerUser
<1>5. QED
  BY <1>3, <1>4

LEMMA RefusesKeeps ==
  ASSUME Inv, NEW f \in Flow, Refuses(f)
  PROVE  Inv'
<1> DEFINE w == flow[f]
<1>1. w.carried = NoCookie /\ w.browser \in Browser
  BY DEF Refuses, Inv, Typed, Handlers, Shape
<1>2. /\ flow' = [flow EXCEPT ![f] = Resting] /\ cookie' = [cookie EXCEPT ![w.browser] = NoCookie]
      /\ UNCHANGED <<attempts, users, bindings, sessions, nextUid, claimedBy, overlapped, disturbed>>
  BY <1>1 DEF Refuses, Refuse, history
<1>3. Handlers' /\ LinkedBound' /\ LinkAlone' /\ OneProviderPerUser'
  BY <1>2, RestKeeps
<1>4. Tables'
  BY <1>2, RestingShape DEF Inv, Typed, Tables
<1>5. CookieOwnsItsTokens'
  BY <1>2 DEF Inv, Typed, Tables, Safe, CookieOwnsItsTokens, NoCookie
<1>6. Once' /\ SessionsAreBound'
  BY <1>2 DEF Inv, Safe, Once, SessionsAreBound
<1>7. QED
  BY <1>3, <1>4, <1>5, <1>6 DEF Inv, Typed, Safe

LEMMA ReadKeeps ==
  ASSUME Inv, NEW f \in Flow, NEW st \in State, NEW p \in Provider, NEW b \in Browser, ReadAttempt(f, st, p, b)
  PROVE  Inv'
<1> DEFINE n == [Resting EXCEPT !.pc = "seen", !.state = st, !.path = p, !.browser = b, !.carried = cookie[b]]
<1>1. cookie[b] \in Cookie /\ attempts[st] # Nil
  BY DEF ReadAttempt, Row, Inv, Typed, Tables
<1>2. n \in Work /\ n.pc = "seen" /\ n.state = st /\ n.browser = b
  BY <1>1, RestingShape DEF Shape, Work
<1>3. /\ flow' = [flow EXCEPT ![f] = n]
      /\ UNCHANGED <<attempts, users, bindings, sessions, cookie, nextUid, claimedBy, overlapped, disturbed>>
  BY DEF ReadAttempt, history
<1> HIDE DEF n
<1>4. \A g \in Flow : flow'[g] = IF g = f THEN n ELSE flow[g]
  BY <1>3 DEF Inv, Typed, Handlers
<1>5. Handlers'
  <2>1. Shape(n)
    BY <1>2 DEF Shape
  <2>2. flow' \in [Flow -> Work]
    BY <1>2, <1>3 DEF Inv, Typed, Handlers
  <2>3. \A g \in Flow : Shape(flow'[g]) /\ (flow'[g].pc # "idle" => attempts'[flow'[g].state] # Nil)
    BY <1>1, <1>2, <1>3, <1>4, <2>1 DEF Inv, Typed, Handlers
  <2>4. QED
    BY <2>2, <2>3 DEF Handlers, Shape
<1>6. Tables'
  BY <1>3 DEF Inv, Typed, Tables
<1>7. LinkedBound' /\ LinkAlone'
  BY <1>2, <1>3, <1>4 DEF Inv, Safe, LinkedBound, LinkAlone
<1>8. Once' /\ SessionsAreBound' /\ OneProviderPerUser' /\ CookieOwnsItsTokens'
  BY <1>3 DEF Inv, Safe, Once, SessionsAreBound, OneProviderPerUser, CookieOwnsItsTokens
<1>9. QED
  BY <1>5, <1>6, <1>7, <1>8 DEF Inv, Typed, Safe

(* The delete of consume: the attempt is gone, and whoever finds it gone   *)
(* does not have it.                                                       *)
LEMMA ClaimKeeps ==
  ASSUME Inv, NEW f \in Flow, ClaimAttempt(f)
  PROVE  Inv'
<1> DEFINE w == flow[f]
           st == w.state
           n == retire_previous_login(w)
           accepted == /\ TakesAttempt(f) /\ attempts[st].status # "expired"
                       /\ attempts[st].provider = w.path
<1>1. Shape(w) /\ w \in Work /\ w.pc = "seen" /\ st \in State /\ attempts[st] # Nil /\ attempts[st] \in Attempt
  BY DEF ClaimAttempt, Inv, Typed, Tables, Handlers, Shape
<1>2. /\ attempts' = [attempts EXCEPT ![st].status = "gone"]
      /\ flow' = [flow EXCEPT ![f] = IF accepted THEN n ELSE Resting]
      /\ sessions' \subseteq sessions
      /\ claimedBy' = [claimedBy EXCEPT ![st] = IF accepted THEN @ \cup {f} ELSE @]
      /\ UNCHANGED <<users, bindings, cookie, nextUid, overlapped, disturbed>>
  BY DEF ClaimAttempt
<1>3. accepted => attempts[st].status # "gone"
  BY DEF TakesAttempt, Row
<1> HIDE DEF accepted
<1>4. n \in Work /\ n.pc = "claimed" /\ n.state = st /\ n.browser = w.browser /\ n.carried = NoCookie
  BY <1>1, RestingShape DEF retire_previous_login, Work
<1> HIDE DEF n
<1>5. Shape(n)
  BY <1>1, <1>4 DEF Shape
<1>6. attempts'[st] \in Attempt /\ attempts'[st].status = "gone"
  BY <1>1, <1>2 DEF Attempt, Inv, Typed, Tables
<1>7. \A x \in State \ {st} : attempts'[x] = attempts[x] /\ claimedBy'[x] = claimedBy[x]
  BY <1>2 DEF Inv, Typed, Tables
<1>8. attempts' = [x \in State |-> attempts'[x]]
  BY <1>2 DEF Inv, Typed, Tables
<1>9. Tables'
  <2>1. attempts' \in [State -> Attempt \cup {Nil}]
    BY <1>6, <1>7, <1>8 DEF Inv, Typed, Tables
  <2>2. claimedBy' \in [State -> SUBSET Flow]
    BY <1>1, <1>2 DEF Inv, Typed, Tables
  <2>3. QED
    BY <1>2, <2>1, <2>2 DEF Inv, Typed, Tables
<1>10. Once'
  <2> SUFFICES ASSUME NEW x \in State
               PROVE  \/ claimedBy'[x] = {}
                      \/ /\ attempts'[x] # Nil /\ attempts'[x].status = "gone"
                         /\ \E g \in Flow : claimedBy'[x] = {g}
    BY DEF Once
  <2>1. CASE x # st
    BY <1>7, <2>1 DEF Inv, Safe, Once
  <2>2. CASE x = st /\ accepted
    <3>1. claimedBy[st] = {}
      BY <1>1, <1>3, <2>2 DEF Inv, Safe, Once
    <3>2. claimedBy'[st] = {f}
      BY <1>1, <1>2, <2>2, <3>1 DEF Inv, Typed, Tables
    <3>3. QED
      BY <1>6, <2>2, <3>2, NilIsNoAttempt
  <2>3. CASE x = st /\ ~accepted
    <3>1. claimedBy'[st] = claimedBy[st]
      BY <1>1, <1>2, <2>3 DEF Inv, Typed, Tables
    <3>2. QED
      BY <1>6, <2>3, <3>1, NilIsNoAttempt DEF Inv, Safe, Once
  <2>4. QED
    BY <2>1, <2>2, <2>3
<1>11. \A g \in Flow : flow'[g] = IF g = f THEN (IF accepted THEN n ELSE Resting) ELSE flow[g]
  BY <1>2 DEF Inv, Typed, Handlers
<1>12. \A x \in State : attempts[x] # Nil => attempts'[x] # Nil
  BY <1>6, <1>7, NilIsNoAttempt
<1>13. Handlers'
  <2>1. flow' \in [Flow -> Work]
    BY <1>2, <1>4, RestingShape DEF Inv, Typed, Handlers, Shape
  <2>2. ASSUME NEW g \in Flow
        PROVE  Shape(flow'[g]) /\ (flow'[g].pc # "idle" => attempts'[flow'[g].state] # Nil)
    <3>1. CASE g # f
      BY <1>11, <1>12, <3>1 DEF Inv, Typed, Handlers, Shape
    <3>2. CASE g = f
      BY <1>4, <1>5, <1>6, <1>11, <3>2, NilIsNoAttempt, RestingShape
    <3>3. QED
      BY <3>1, <3>2
  <2>3. QED
    BY <2>1, <2>2 DEF Handlers, Shape
<1>14. flow'[f].pc \in {"claimed", "idle"} /\ \A g \in Flow \ {f} : flow'[g] = flow[g]
  BY <1>4, <1>11, RestingShape
<1>15. LinkedBound' /\ LinkAlone'
  BY <1>2, <1>14 DEF Inv, Safe, LinkedBound, LinkAlone
<1>16. SessionsAreBound' /\ OneProviderPerUser' /\ CookieOwnsItsTokens'
  BY <1>2 DEF Inv, Safe, SessionsAreBound, OneProviderPerUser, CookieOwnsItsTokens
<1>17. QED
  BY <1>9, <1>10, <1>13, <1>15, <1>16 DEF Inv, Typed, Safe

LEMMA OpenKeeps ==
  ASSUME Inv, NEW f \in Flow, NEW refreshed \in BOOLEAN, OpenSession(f, refreshed)
  PROVE  Inv'
<1> DEFINE w == flow[f]
           c == w.claim
           sid == <<w.state, c>>
           jar == [session |-> sid, refresh |-> IF refreshed THEN c ELSE w.carried.refresh]
<1>1. /\ w.pc = "linked" /\ w.state \in State /\ w.browser \in Browser /\ w.carried = NoCookie
      /\ c \in Claims /\ (c.subject # Nil \/ c.provider = DEFAULT_PROVIDER_ID) /\ w.user \in User
  BY DEF OpenSession, Inv, Typed, Handlers, Shape
<1>2. /\ flow' = [flow EXCEPT ![f] = Resting]
      /\ UNCHANGED <<attempts, users, bindings, nextUid, claimedBy, overlapped, disturbed>>
  BY DEF OpenSession, history
<1>3. Handlers' /\ LinkedBound' /\ LinkAlone' /\ OneProviderPerUser'
  BY <1>2, RestKeeps
<1>4. Once'
  BY <1>2 DEF Inv, Safe, Once
<1>5. /\ \/ cookie' = [cookie EXCEPT ![w.browser] = NoCookie]
         \/ cookie' = [cookie EXCEPT ![w.browser] = jar]
      /\ \/ UNCHANGED sessions
         \/ users[w.user] # 0 /\ sessions' = sessions \cup {[id |-> sid, uid |-> users[w.user]]}
  BY DEF OpenSession
<1>6. jar \in Cookie /\ jar.session = sid /\ jar.refresh \in {Nil, c}
  BY <1>1 DEF Cookie, NoCookie
<1>7. sid[1] = w.state /\ sid[2] = c
  OBVIOUS
<1>8. Tables'
  <2>1. cookie' \in [Browser -> Cookie]
    BY <1>5, <1>6, RestingShape DEF Inv, Typed, Tables
  <2>2. QED
    BY <1>2, <2>1 DEF Inv, Typed, Tables
<1>9. CookieOwnsItsTokens'
  <2> HIDE DEF jar, sid
  <2>1. \A b \in Browser : cookie'[b] \in {cookie[b], NoCookie, jar}
    BY <1>1, <1>5 DEF Inv, Typed, Tables
  <2>2. NoCookie.session = Nil
    BY DEF NoCookie
  <2>3. QED
    BY <1>6, <1>7, <2>1, <2>2 DEF Inv, Safe, CookieOwnsItsTokens
<1>10. SessionsAreBound'
  <2> DEFINE new == [id |-> sid, uid |-> users[w.user]]
  <2>1. new.id = sid /\ new.uid = users[w.user]
    OBVIOUS
  <2> HIDE DEF new, sid
  <2>2. CASE UNCHANGED sessions
    BY <1>2, <2>2 DEF Inv, Safe, SessionsAreBound
  <2>3. CASE sessions' = sessions \cup {new}
    <3>1. c.subject # Nil /\ w.state \notin disturbed =>
            [provider |-> c.provider, subject |-> c.subject, uid |-> new.uid] \in bindings
      BY <1>1, <2>1 DEF Inv, Safe, LinkedBound
    <3>2. QED
      BY <1>1, <1>2, <1>7, <2>1, <2>3, <3>1 DEF Inv, Safe, SessionsAreBound
  <2>4. QED
    BY <1>5, <2>2, <2>3 DEF new, sid
<1>11. QED
  BY <1>3, <1>4, <1>8, <1>9, <1>10 DEF Inv, Typed, Safe

LEMMA DeleteKeeps ==
  ASSUME Inv, NEW u \in User, DeleteUser(u)
  PROVE  Inv'
<1>1. /\ users[u] # 0 /\ users' = [users EXCEPT ![u] = 0]
      /\ bindings' = {b \in bindings : b.uid # users[u]} /\ sessions' = {s \in sessions : s.uid # users[u]}
      /\ disturbed' = disturbed \cup {flow[f].state : f \in {g \in Flow : flow[g].pc # "idle"}}
      /\ UNCHANGED <<attempts, flow, cookie, nextUid, claimedBy, overlapped>>
  BY DEF DeleteUser
<1>2. Tables'
  BY <1>1 DEF Inv, Typed, Tables
<1>3. Handlers' /\ Once' /\ CookieOwnsItsTokens'
  BY <1>1 DEF Inv, Typed, Handlers, Shape, Safe, Once, CookieOwnsItsTokens
<1>4. LinkedBound'
  BY <1>1 DEF LinkedBound
<1>5. LinkAlone' /\ OneProviderPerUser'
  BY <1>1 DEF Inv, Safe, LinkAlone, OneProviderPerUser
<1>6. SessionsAreBound'
  <2> SUFFICES ASSUME NEW s \in sessions', s.id[2].subject # Nil, s.id[1] \notin disturbed'
               PROVE  [provider |-> s.id[2].provider, subject |-> s.id[2].subject, uid |-> s.uid] \in bindings'
    BY <1>1 DEF SessionsAreBound, Inv, Safe
  <2> DEFINE b == [provider |-> s.id[2].provider, subject |-> s.id[2].subject, uid |-> s.uid]
  <2>1. s \in sessions /\ s.uid # users[u] /\ s.id[1] \notin disturbed
    BY <1>1
  <2>2. b \in bindings /\ b.uid = s.uid
    BY <2>1 DEF Inv, Safe, SessionsAreBound
  <2>3. QED
    BY <1>1, <2>1, <2>2
<1>7. QED
  BY <1>2, <1>3, <1>4, <1>5, <1>6 DEF Inv, Typed, Safe

(* A new attempt, or one that runs out: the handlers and the tables they   *)
(* work on stay as they are.                                               *)
LEMMA AttemptKeeps ==
  ASSUME Inv, NEW st \in State, NEW row \in Attempt, attempts' = [attempts EXCEPT ![st] = row],
         attempts[st] = Nil \/ (Row(st) /\ attempts[st].status = "open"),
         UNCHANGED <<users, bindings, sessions, flow, cookie, nextUid, history>>
  PROVE  Inv'
<1>1. Tables'
  BY DEF Inv, Typed, Tables, history
<1>2. \A x \in State : attempts[x] # Nil => attempts'[x] # Nil
  BY NilIsNoAttempt DEF Inv, Typed, Tables
<1>3. Handlers'
  BY <1>2 DEF Inv, Typed, Handlers, Shape
<1>4. Once'
  <2>1. claimedBy[st] = {}
    BY DEF Inv, Safe, Once
  <2>2. \A x \in State \ {st} : attempts'[x] = attempts[x]
    BY DEF Inv, Typed, Tables
  <2>3. QED
    BY <2>1, <2>2 DEF Inv, Safe, Once, history
<1>5. LinkedBound' /\ LinkAlone' /\ SessionsAreBound' /\ OneProviderPerUser' /\ CookieOwnsItsTokens'
  BY DEF Inv, Safe, LinkedBound, LinkAlone, SessionsAreBound, OneProviderPerUser, CookieOwnsItsTokens, history
<1>6. QED
  BY <1>1, <1>3, <1>4, <1>5 DEF Inv, Typed, Safe

LEMMA InvInit == Init => Inv
<1> SUFFICES ASSUME Init PROVE Inv
  OBVIOUS
<1>1. \A f \in Flow : flow[f].pc = "idle"
  BY RestingShape DEF Init
<1>2. NoCookie.session = Nil
  BY DEF NoCookie
<1>3. LinkedBound /\ LinkAlone
  BY <1>1 DEF LinkedBound, LinkAlone
<1>4. Once /\ SessionsAreBound /\ OneProviderPerUser /\ CookieOwnsItsTokens
  BY <1>2 DEF Init, Once, SessionsAreBound, OneProviderPerUser, CookieOwnsItsTokens
<1>5. QED
  BY <1>3, <1>4, TypedInit DEF Inv, Safe

LEMMA InvNext == Inv /\ [Next]_vars => Inv'
<1> SUFFICES ASSUME Inv, [Next]_vars PROVE Inv'
  OBVIOUS
<1>0. Typed
  BY DEF Inv
<1>1. ASSUME NEW f \in Flow, Callback(f)
      PROVE  Inv'
  <2>1. CASE \E st \in State, p \in Provider, b \in Browser : ReadAttempt(f, st, p, b)
    BY <2>1, ReadKeeps
  <2>2. CASE ClaimAttempt(f)
    BY <2>2, ClaimKeeps
  <2>3. CASE \E refreshed \in BOOLEAN : OpenSession(f, refreshed)
    BY <2>3, OpenKeeps
  <2>4. CASE Fail(f)
    BY <2>4, RefusesKeeps DEF Fail, Refuses
  <2>5. CASE \E c \in Claims : Exchange(f, c)
    BY <1>0, <2>5, ExchangeSteps, AdvancesKeeps, RefusesKeeps
  <2>6. CASE ResolveIdentity(f) \/ ApplyPolicy(f) \/ Provision(f)
    BY <1>0, <2>6, ResolveSteps, PolicySteps, ProvisionSteps, AdvancesKeeps, RefusesKeeps
  <2>7. CASE CheckLink(f)
    BY <1>0, <2>7, CheckLinkSteps, IsBoundKeeps, BeginsKeeps, RefusesKeeps
  <2>8. CASE WriteLink(f)
    BY <1>0, <2>8, WriteLinkSteps, BindsKeeps, RefusesKeeps
  <2>9. QED
    BY <1>1, <2>1, <2>2, <2>3, <2>4, <2>5, <2>6, <2>7, <2>8 DEF Callback
<1>2. ASSUME NEW st \in State, NEW p \in Provider, BeginLogin(st, p)
      PROVE  Inv'
  <2>1. [provider |-> p, status |-> "open"] \in Attempt
    BY DEF Attempt
  <2>2. QED
    BY <1>2, <2>1, AttemptKeeps DEF BeginLogin
<1>3. ASSUME NEW st \in State, ExpireAttempt(st)
      PROVE  Inv'
  <2>1. attempts[st] \in Attempt
    BY <1>3 DEF ExpireAttempt, Row, Inv, Typed, Tables
  <2> DEFINE row == [attempts[st] EXCEPT !.status = "expired"]
  <2>2. row \in Attempt
    BY <2>1 DEF Attempt
  <2>3. attempts' = [attempts EXCEPT ![st] = row]
    BY <1>3 DEF ExpireAttempt, Inv, Typed, Tables
  <2> HIDE DEF row
  <2>4. QED
    BY <1>3, <2>2, <2>3, AttemptKeeps DEF ExpireAttempt
<1>4. CASE UNCHANGED vars
  BY <1>4 DEF vars, history, Inv, Typed, Tables, Handlers, Shape, Safe, Once, LinkedBound, LinkAlone,
              SessionsAreBound, OneProviderPerUser, CookieOwnsItsTokens
<1>5. QED
  BY <1>1, <1>2, <1>3, <1>4, DeleteKeeps DEF Next

LEMMA InvHolds == Spec => []Inv
BY InvInit, InvNext, PTL DEF Spec

(* A login attempt is used by one callback at most, however many arrive    *)
(* with its state at once: consume's delete decides.                       *)
THEOREM AttemptsAreUsedOnce == Spec => []AttemptUsedOnce
<1>1. Inv => AttemptUsedOnce
  <2> SUFFICES ASSUME Inv, NEW st \in State PROVE Cardinality(claimedBy[st]) <= 1
    BY DEF AttemptUsedOnce
  <2>1. claimedBy[st] = {} \/ \E f \in Flow : claimedBy[st] = {f}
    BY DEF Inv, Safe, Once
  <2>2. Cardinality(claimedBy[st]) \in {0, 1}
    <3>1. Cardinality({}) = 0 /\ \A f : Cardinality({f}) = 1
      BY FS_EmptySet, FS_Singleton, Zenon
    <3>2. QED
      BY <2>1, <3>1, Zenon
  <2>3. QED
    BY <2>2
<1>2. QED
  BY <1>1, InvHolds, PTL

(* Every live session belongs to an account its identity is bound to,      *)
(* whichever of the callback's checks other logins and failures interleave.*)
THEOREM LiveSessionsAreBound == Spec => []SessionsAreBound
<1>1. Inv => SessionsAreBound
  BY DEF Inv, Safe
<1>2. QED
  BY <1>1, InvHolds, PTL

(* The check in link keeps an account to one provider, unless two          *)
(* callbacks are between the check and the insert at once.                 *)
THEOREM AccountsKeepOneProvider == Spec => []OneProviderPerUser
<1>1. Inv => OneProviderPerUser
  BY DEF Inv, Safe
<1>2. QED
  BY <1>1, InvHolds, PTL

(* A cookie never pairs one login's session with another's refresh token:  *)
(* retire_previous_login drops both before the new login writes either.    *)
THEOREM TokensFollowTheSession == Spec => []CookieOwnsItsTokens
<1>1. Inv => CookieOwnsItsTokens
  BY DEF Inv, Safe
<1>2. QED
  BY <1>1, InvHolds, PTL
=============================================================================
