-------------------------- MODULE GroupSyncProofs --------------------------
(***************************************************************************)
(* Theorems about GroupSync, for any users, requests, providers, claims    *)
(* and numbers of operations and failures.  Every action starts a request, *)
(* moves it on, ends it without a write, or writes the membership; the     *)
(* invariants are shown to survive these four kinds of step.               *)
(***************************************************************************)
EXTENDS GroupSync, FiniteSetTheorems, TLAPS

GroupName == ({Nil, "k8s"} \cup Provider) \X (Claimable \cup {namespace[u] : u \in User})
Row == [group : GroupName, id : Request \X Nat]
Writing == {"populate", "creating", "set", "setting"}
Pc == {"idle", "current", "lookup", "insert"} \cup Writing
Work == [pc : Pc, user : User \cup {Nil}, claims : SUBSET Claimable, new : BOOLEAN,
         names : SUBSET GroupName, read : SUBSET (GroupName \cup Row)]

Home(u) == <<"k8s", namespace[u]>>

(* What is known of a request by where it is. *)
Shape(q) ==
  LET w == request[q] IN
  /\ IsFiniteSet(w.names)
  /\ w.pc # "idle" => w.user \in User
  /\ w.pc \in Writing \cup {"current"} => w.user \in users
  /\ w.pc = "current" => path[w.user] = "login"
  /\ w.pc \in {"lookup", "insert"} => path[w.user] # "login"
  /\ w.pc # "idle" /\ path[w.user] = "k8s" => w.names = {Home(w.user)}
  /\ w.pc = "creating" => w.names \subseteq groups \cup w.read /\ w.read \subseteq GroupName
  /\ w.pc \in {"set", "setting"} => w.names \subseteq groups

Tables ==
  /\ users \subseteq User /\ {u \in User : path[u] = "login"} \subseteq users
  /\ groups \subseteq GroupName /\ member \in [User -> SUBSET Row]
  /\ written \in [User -> SUBSET SUBSET GroupName]
  /\ ops \in Nat /\ failures \in Nat /\ overlapped \subseteq User /\ contended \in BOOLEAN

Typed == Tables /\ request \in [Request -> Work] /\ \A q \in Request : Shape(q)

-----------------------------------------------------------------------------
(* The kinds of step. *)
Acts(q) == request' = [request EXCEPT ![q] = request'[q]] /\ request'[q] \in Work

Starts(q) ==
  LET n == request'[q] IN
  /\ Acts(q) /\ request[q].pc = "idle" /\ n.pc \in {"current", "lookup"} /\ n.user \in User
  /\ IsFiniteSet(n.names)
  /\ n.pc = "current" => path[n.user] = "login"
  /\ n.pc = "lookup" => path[n.user] # "login" /\ n.user \notin users
  /\ path[n.user] = "k8s" => n.names = {Home(n.user)}
  /\ overlapped' = IF InFlight(n.user) # {} THEN overlapped \cup {n.user} ELSE overlapped
  /\ ops' = ops + 1
  /\ UNCHANGED <<users, groups, member, failures, written, contended>>

Route == {<<"current", "populate">>, <<"lookup", "populate">>, <<"lookup", "insert">>, <<"insert", "populate">>,
          <<"populate", "creating">>, <<"creating", "set">>, <<"set", "setting">>}

Moves(q) ==
  LET w == request[q]
      n == request'[q] IN
  /\ Acts(q) /\ <<w.pc, n.pc>> \in Route /\ n.user = w.user /\ IsFiniteSet(n.names)
  /\ IF w.pc = "current"
     THEN group_sync_mode[idp[w.user]] = "additive" => Membership(w.user) \subseteq n.names
     ELSE n.names = w.names
  /\ <<w.pc, n.pc>> = <<"lookup", "populate">> => w.user \in users
  /\ IF w.pc = "insert" THEN users' = users \cup {w.user} ELSE users' = users
  /\ IF w.pc = "creating" THEN groups' = groups \cup w.read ELSE groups' = groups
  /\ n.pc = "creating" => n.read = w.names \ groups
  /\ n.pc = "setting" => n.read = member[w.user]
  /\ contended' = (contended \/ Contended(w.pc))
  /\ UNCHANGED <<member, written, ops, failures, overlapped>>

Refused(w) == w.names \cap {row.group : row \in member[w.user] \ w.read} # {}

Rests(q) ==
  LET w == request[q] IN
  /\ Acts(q) /\ w.pc # "idle" /\ request'[q] = Resting
  /\ \/ failures' = failures + 1
     \/ /\ failures' = failures
        /\ \/ w.pc = "current" \/ w.pc = "insert"
           \/ w.pc = "creating" /\ w.read \cap groups # {}
           \/ w.pc = "setting" /\ Refused(w)
  /\ contended' \in BOOLEAN /\ (contended => contended')
  /\ UNCHANGED <<users, groups, member, written, ops, overlapped>>

Writes(q) ==
  LET w == request[q] IN
  /\ Acts(q) /\ w.pc = "setting" /\ request'[q] = Resting /\ ~Refused(w)
  /\ member' = [member EXCEPT ![w.user] = (member[w.user] \ w.read) \cup [group : w.names, id : {<<q, ops>>}]]
  /\ written' = [written EXCEPT ![w.user] = written[w.user] \cup {w.names}]
  /\ UNCHANGED <<users, groups, ops, failures, overlapped, contended>>

Kinds(q) == Starts(q) \/ Moves(q) \/ Rests(q) \/ Writes(q)

-----------------------------------------------------------------------------
LEMMA RestingWork ==
  /\ Resting \in Work /\ Resting.pc = "idle" /\ Resting.names = {} /\ Resting.read = {}
  /\ Resting.user = Nil /\ IsFiniteSet(Resting.names)
BY FS_EmptySet DEF Resting, Work, Pc

LEMMA WorkTypes ==
  ASSUME Typed, NEW q \in Request
  PROVE  request[q] \in Work /\ Shape(q)
BY DEF Typed

LEMMA SetActs ==
  ASSUME Typed, NEW q \in Request, NEW n, n \in Work, request' = [request EXCEPT ![q] = n]
  PROVE  Acts(q) /\ request'[q] = n
BY DEF Acts, Typed

LEMMA OthersKept ==
  ASSUME Typed, NEW q \in Request, Acts(q)
  PROVE  request' \in [Request -> Work] /\ \A g \in Request \ {q} : request'[g] = request[g]
BY DEF Typed, Acts

(* The image of a finite set under a function is finite. *)
LEMMA FiniteImage ==
  ASSUME NEW S, IsFiniteSet(S), NEW f, DOMAIN f = S
  PROVE  IsFiniteSet({f[x] : x \in S})
<1> DEFINE T == {f[x] : x \in S}
           h == [x \in S |-> f[x]]
<1>1. h \in Surjection(S, T)
  BY DEF Surjection
<1>2. QED
  BY <1>1, FS_Surjection

LEMMA ClaimedNames ==
  ASSUME NEW p \in Provider, NEW claims \in SUBSET Claimable
  PROVE  LET claimed == {local_group_name(p, g) : g \in claims} IN
         claimed \subseteq GroupName /\ IsFiniteSet(claimed)
<1> DEFINE claimed == {local_group_name(p, g) : g \in claims}
           f == [g \in claims |-> local_group_name(p, g)]
<1>1. claimed \subseteq GroupName
  BY DEF local_group_name, GroupName
<1>2. IsFiniteSet(claims)
  BY SyncAssumption, FS_Subset
<1>3. IsFiniteSet({f[g] : g \in claims}) /\ {f[g] : g \in claims} = claimed
  BY <1>2, FiniteImage
<1>4. QED
  BY <1>1, <1>3

LEMMA PlainNames ==
  ASSUME NEW claims \in SUBSET Claimable
  PROVE  LET plain == {<<Nil, g>> : g \in claims} IN plain \subseteq GroupName /\ IsFiniteSet(plain)
<1> DEFINE plain == {<<Nil, g>> : g \in claims}
           f == [g \in claims |-> <<Nil, g>>]
<1>1. plain \subseteq GroupName
  BY DEF GroupName
<1>2. IsFiniteSet(claims)
  BY SyncAssumption, FS_Subset
<1>3. IsFiniteSet({f[g] : g \in claims}) /\ {f[g] : g \in claims} = plain
  BY <1>2, FiniteImage
<1>4. QED
  BY <1>1, <1>3

LEMMA MembershipNames ==
  ASSUME Tables, NEW u \in User, IsFiniteSet(member[u])
  PROVE  Membership(u) \subseteq GroupName /\ IsFiniteSet(Membership(u))
<1> DEFINE f == [row \in member[u] |-> row.group]
<1>1. Membership(u) \subseteq GroupName
  BY DEF Membership, Tables, Row
<1>2. IsFiniteSet({f[row] : row \in member[u]}) /\ {f[row] : row \in member[u]} = Membership(u)
  BY FiniteImage DEF Membership
<1>3. QED
  BY <1>1, <1>2

-----------------------------------------------------------------------------
(* Every action is one of the kinds. *)
Finite == \A u \in User : IsFiniteSet(member[u])

LEMMA StartSteps ==
  ASSUME Typed, NEW q \in Request, NEW u \in User, NEW w \in Work, Start(q, u, w),
         w.pc \in {"current", "lookup"}, w.user = u, IsFiniteSet(w.names),
         w.pc = "current" => path[u] = "login",
         w.pc = "lookup" => path[u] # "login" /\ u \notin users,
         path[u] = "k8s" => w.names = {Home(u)}
  PROVE  Starts(q)
<1>1. Acts(q) /\ request'[q] = w
  BY SetActs DEF Start
<1>2. QED
  BY <1>1 DEF Start, Starts

LEMMA LoginSteps ==
  ASSUME Typed, NEW q \in Request, NEW u \in User, NEW claims \in SUBSET Claimable, NEW new \in BOOLEAN,
         Login(q, u, claims, new)
  PROVE  Starts(q)
<1> DEFINE w == [Resting EXCEPT !.pc = "current", !.user = u, !.claims = claims, !.new = new]
<1>1. w \in Work /\ w.pc = "current" /\ w.user = u /\ w.names = {}
  BY RestingWork DEF Work, Pc
<1>2. Start(q, u, w) /\ path[u] = "login"
  BY DEF Login
<1> HIDE DEF w
<1>3. QED
  BY <1>1, <1>2, FS_EmptySet, StartSteps

LEMMA BearerSteps ==
  ASSUME Typed, NEW q \in Request, NEW u \in User, NEW claims \in SUBSET Claimable, Bearer(q, u, claims)
  PROVE  Starts(q)
<1> DEFINE plain == {<<Nil, g>> : g \in claims}
           w == [Resting EXCEPT !.pc = "lookup", !.user = u, !.names = plain]
<1>1. plain \subseteq GroupName /\ IsFiniteSet(plain)
  BY PlainNames
<1>2. Start(q, u, w) /\ path[u] = "bearer" /\ u \notin users
  BY DEF Bearer
<1> HIDE DEF plain
<1>3. w \in Work /\ w.pc = "lookup" /\ w.user = u /\ w.names = plain
  BY <1>1, RestingWork DEF Work, Pc
<1> HIDE DEF w
<1>4. QED
  BY <1>1, <1>2, <1>3, StartSteps

LEMMA ServiceAccountSteps ==
  ASSUME Typed, NEW q \in Request, NEW u \in User, ServiceAccount(q, u)
  PROVE  Starts(q)
<1> DEFINE w == [Resting EXCEPT !.pc = "lookup", !.user = u, !.names = {Home(u)}]
<1>1. {Home(u)} \subseteq GroupName /\ IsFiniteSet({Home(u)})
  <2>1. Home(u) \in GroupName
    BY DEF Home, GroupName
  <2>2. QED
    BY <2>1, FS_Singleton
<1>2. Start(q, u, w) /\ path[u] = "k8s" /\ u \notin users
  BY DEF ServiceAccount, Home
<1>3. w \in Work /\ w.pc = "lookup" /\ w.user = u /\ w.names = {Home(u)}
  BY <1>1, RestingWork DEF Work, Pc
<1> HIDE DEF w
<1>4. QED
  BY <1>1, <1>2, <1>3, StartSteps

LEMMA RestSteps ==
  ASSUME Typed, NEW q \in Request, request[q].pc # "idle", Proceed(q, Resting),
         \/ request[q].pc = "current" \/ request[q].pc = "insert"
         \/ request[q].pc = "creating" /\ request[q].read \cap groups # {}
         \/ request[q].pc = "setting" /\ Refused(request[q]),
         UNCHANGED <<users, groups, member, written>>
  PROVE  Rests(q)
<1>1. Acts(q) /\ request'[q] = Resting
  BY RestingWork, SetActs DEF Proceed
<1>2. contended' \in BOOLEAN /\ (contended => contended') /\ failures' = failures /\ UNCHANGED <<ops, overlapped>>
  BY DEF Proceed
<1>3. QED
  BY <1>1, <1>2 DEF Rests

LEMMA CurrentSteps ==
  ASSUME Typed, Finite, NEW q \in Request, ReadCurrent(q)
  PROVE  Moves(q) \/ Rests(q)
<1> DEFINE w == request[q]
           u == w.user
           p == idp[u]
           claimed == {local_group_name(p, g) : g \in w.claims}
<1>0. w \in Work /\ Shape(q) /\ w.pc = "current" /\ u \in User /\ Tables /\ UNCHANGED <<users, groups, member, written>>
  BY WorkTypes DEF ReadCurrent, Shape, Typed
<1>1. p \in Provider /\ w.claims \in SUBSET Claimable
  BY <1>0, SyncAssumption DEF Work
<1>2. PICK current \in {Membership(u)} \cup (IF MaxFailures > 0 THEN {Nil} ELSE {}) :
        LET names == groups_to_apply(p, w.claims, current, w.new) IN
        Proceed(q, IF names = Nil THEN Resting ELSE [w EXCEPT !.pc = "populate", !.names = names])
  BY DEF ReadCurrent
<1> DEFINE names == groups_to_apply(p, w.claims, current, w.new)
<1>3. CASE names = Nil
  BY <1>0, <1>2, <1>3, RestSteps
<1>4. CASE names # Nil
  <2> DEFINE n == [w EXCEPT !.pc = "populate", !.names = names]
  <2>1. claimed \subseteq GroupName /\ IsFiniteSet(claimed)
    BY <1>1, ClaimedNames
  <2>2. Membership(u) \subseteq GroupName /\ IsFiniteSet(Membership(u))
    BY <1>0, MembershipNames DEF Finite
  <2>3. \/ group_sync_mode[p] = "authoritative" /\ names = claimed
        \/ names = Membership(u) \cup claimed
    BY <1>2, <1>4 DEF groups_to_apply
  <2>4. names \subseteq GroupName /\ IsFiniteSet(names)
    BY <2>1, <2>2, <2>3, FS_Union
  <2>5. group_sync_mode[p] = "additive" => Membership(u) \subseteq names
    BY <2>3
  <2>6. Proceed(q, n)
    BY <1>2, <1>4
  <2> HIDE DEF names
  <2>7. n \in Work /\ n.pc = "populate" /\ n.user = u /\ n.names = names
    BY <1>0, <2>4 DEF Work, Pc, Writing
  <2> HIDE DEF n
  <2>8. Acts(q) /\ request'[q] = n
    BY <2>6, <2>7, SetActs DEF Proceed
  <2>9. contended' = (contended \/ Contended(w.pc)) /\ UNCHANGED <<ops, failures, overlapped>>
    BY <2>6 DEF Proceed
  <2>10. QED
    BY <1>0, <2>4, <2>5, <2>7, <2>8, <2>9 DEF Moves, Route
<1>5. QED
  BY <1>3, <1>4

(* A step that moves the pc, and perhaps takes note of what was read. *)
LEMMA MoveSteps ==
  ASSUME Typed, NEW q \in Request, NEW n \in Work, Proceed(q, n),
         request[q].pc # "current", <<request[q].pc, n.pc>> \in Route,
         n.user = request[q].user, n.names = request[q].names,
         <<request[q].pc, n.pc>> = <<"lookup", "populate">> => request[q].user \in users,
         IF request[q].pc = "insert" THEN users' = users \cup {request[q].user} ELSE users' = users,
         IF request[q].pc = "creating" THEN groups' = groups \cup request[q].read ELSE groups' = groups,
         n.pc = "creating" => n.read = request[q].names \ groups,
         n.pc = "setting" => n.read = member[request[q].user],
         UNCHANGED <<member, written>>
  PROVE  Moves(q)
<1>1. Acts(q) /\ request'[q] = n
  BY SetActs DEF Proceed
<1>2. contended' = (contended \/ Contended(request[q].pc)) /\ UNCHANGED <<ops, failures, overlapped>>
  BY DEF Proceed
<1>3. IsFiniteSet(n.names)
  BY WorkTypes DEF Shape
<1>4. QED
  BY <1>1, <1>2, <1>3 DEF Moves

LEMMA LookUpSteps ==
  ASSUME Typed, NEW q \in Request, LookUpUser(q) \/ InsertUser(q)
  PROVE  Moves(q) \/ Rests(q)
<1> DEFINE w == request[q]
<1>0. w \in Work /\ Shape(q) /\ UNCHANGED <<groups, member, written>>
  BY WorkTypes DEF LookUpUser, InsertUser
<1>1. CASE LookUpUser(q)
  <2> DEFINE pc == IF w.user \in users THEN "populate" ELSE "insert"
             n == [w EXCEPT !.pc = pc]
  <2>1. w.pc = "lookup" /\ Proceed(q, n) /\ users' = users
    BY <1>1 DEF LookUpUser
  <2>2. pc \in Pc /\ <<"lookup", pc>> \in Route /\ (pc = "populate" => w.user \in users) /\ pc \notin {"creating", "setting"}
    BY DEF Pc, Writing, Route
  <2> HIDE DEF pc
  <2>3. n \in Work /\ n.pc = pc /\ n.user = w.user /\ n.names = w.names
    BY <1>0, <2>2 DEF Work
  <2> HIDE DEF n
  <2>4. QED
    BY <1>0, <2>1, <2>2, <2>3, MoveSteps
<1>2. CASE InsertUser(q)
  <2>1. w.pc = "insert" /\ users' = users \cup {w.user}
    BY <1>2 DEF InsertUser
  <2>2. CASE w.user \in users
    <3>1. Proceed(q, Resting) /\ users' = users
      BY <1>2, <2>1, <2>2 DEF InsertUser
    <3>2. QED
      BY <1>0, <2>1, <3>1, RestSteps
  <2>3. CASE w.user \notin users
    <3> DEFINE n == [w EXCEPT !.pc = "populate"]
    <3>1. Proceed(q, n)
      BY <1>2, <2>3 DEF InsertUser
    <3>2. n \in Work /\ n.pc = "populate" /\ n.user = w.user /\ n.names = w.names
      BY <1>0 DEF Work, Pc, Writing
    <3>3. <<"insert", "populate">> \in Route
      BY DEF Route
    <3> HIDE DEF n
    <3>4. QED
      BY <1>0, <2>1, <3>1, <3>2, <3>3, MoveSteps
  <2>4. QED
    BY <2>2, <2>3
<1>3. QED
  BY <1>1, <1>2

LEMMA GroupSteps ==
  ASSUME Typed, NEW q \in Request, ReadGroups(q) \/ CreateGroups(q)
  PROVE  Moves(q) \/ Rests(q)
<1> DEFINE w == request[q]
<1>0. w \in Work /\ Shape(q) /\ UNCHANGED <<users, member, written>>
  BY WorkTypes DEF ReadGroups, CreateGroups
<1>1. CASE ReadGroups(q)
  <2> DEFINE n == [w EXCEPT !.pc = "creating", !.read = w.names \ groups]
  <2>1. w.pc = "populate" /\ Proceed(q, n) /\ groups' = groups
    BY <1>1 DEF ReadGroups
  <2>2. /\ n \in Work /\ n.pc = "creating" /\ n.user = w.user /\ n.names = w.names
        /\ n.read = w.names \ groups
    BY <1>0 DEF Work, Pc, Writing
  <2>3. <<"populate", "creating">> \in Route
    BY DEF Route
  <2> HIDE DEF n
  <2>4. QED
    BY <1>0, <2>1, <2>2, <2>3, MoveSteps
<1>2. CASE CreateGroups(q)
  <2>1. w.pc = "creating"
    BY <1>2 DEF CreateGroups
  <2>2. CASE w.read \cap groups # {}
    <3>1. Proceed(q, Resting) /\ groups' = groups
      BY <1>2, <2>2 DEF CreateGroups
    <3>2. QED
      BY <1>0, <2>1, <2>2, <3>1, RestSteps
  <2>3. CASE w.read \cap groups = {}
    <3> DEFINE n == [w EXCEPT !.pc = "set", !.read = {}]
    <3>1. Proceed(q, n) /\ groups' = groups \cup w.read
      BY <1>2, <2>3 DEF CreateGroups
    <3>2. n \in Work /\ n.pc = "set" /\ n.user = w.user /\ n.names = w.names
      BY <1>0 DEF Work, Pc, Writing
    <3>3. <<"creating", "set">> \in Route
      BY DEF Route
    <3> HIDE DEF n
    <3>4. QED
      BY <1>0, <2>1, <3>1, <3>2, <3>3, MoveSteps
  <2>4. QED
    BY <2>2, <2>3
<1>3. QED
  BY <1>1, <1>2

LEMMA MembershipSteps ==
  ASSUME Typed, NEW q \in Request, ReadMembership(q) \/ WriteMembership(q)
  PROVE  Moves(q) \/ Rests(q) \/ Writes(q)
<1> DEFINE w == request[q]
<1>0. w \in Work /\ Shape(q) /\ UNCHANGED <<users, groups>> /\ Tables
  BY WorkTypes DEF ReadMembership, WriteMembership, Typed
<1>1. CASE ReadMembership(q)
  <2> DEFINE n == [w EXCEPT !.pc = "setting", !.read = member[w.user]]
  <2>1. w.pc = "set" /\ Proceed(q, n) /\ UNCHANGED <<member, written>>
    BY <1>1 DEF ReadMembership
  <2>2. member[w.user] \subseteq Row
    BY <1>0, <2>1 DEF Shape, Tables
  <2>3. /\ n \in Work /\ n.pc = "setting" /\ n.user = w.user /\ n.names = w.names
        /\ n.read = member[w.user]
    BY <1>0, <2>2 DEF Work, Pc, Writing
  <2>4. <<"set", "setting">> \in Route
    BY DEF Route
  <2> HIDE DEF n
  <2>5. QED
    BY <1>0, <2>1, <2>3, <2>4, MoveSteps
<1>2. CASE WriteMembership(q)
  <2>1. w.pc = "setting" /\ Proceed(q, Resting)
    BY <1>2 DEF WriteMembership
  <2>2. CASE Refused(w)
    <3>1. UNCHANGED <<member, written>>
      BY <1>2, <2>2 DEF WriteMembership, Refused, Deleted
    <3>2. QED
      BY <1>0, <2>1, <2>2, <3>1, RestSteps
  <2>3. CASE ~Refused(w)
    <3>1. /\ member' = [member EXCEPT ![w.user] = (member[w.user] \ w.read) \cup [group : w.names, id : {<<q, ops>>}]]
          /\ written' = [written EXCEPT ![w.user] = written[w.user] \cup {w.names}]
      BY <1>2, <2>3 DEF WriteMembership, Refused, Deleted
    <3>2. Acts(q) /\ request'[q] = Resting
      BY <2>1, RestingWork, SetActs DEF Proceed
    <3>3. contended' = contended /\ UNCHANGED <<ops, failures, overlapped>>
      BY <1>0, <2>1 DEF Proceed, Contended, Tables
    <3>4. QED
      BY <1>0, <2>1, <2>3, <3>1, <3>2, <3>3 DEF Writes
  <2>4. QED
    BY <2>2, <2>3
<1>3. QED
  BY <1>1, <1>2

LEMMA FailSteps ==
  ASSUME Typed, NEW q \in Request, Fail(q)
  PROVE  Rests(q)
<1>1. Acts(q) /\ request'[q] = Resting
  BY RestingWork, SetActs DEF Fail
<1>2. contended' \in BOOLEAN
  BY DEF Fail, Typed, Tables
<1>3. QED
  BY <1>1, <1>2 DEF Fail, Rests

LEMMA StepKinds ==
  ASSUME Typed, Finite, Next
  PROVE  \E q \in Request : Kinds(q)
<1>1. PICK q \in Request : Handles(q)
  BY DEF Next
<1>2. QED
  BY <1>1, LoginSteps, BearerSteps, ServiceAccountSteps, CurrentSteps, LookUpSteps, GroupSteps,
     MembershipSteps, FailSteps DEF Handles, Kinds

-----------------------------------------------------------------------------
(* The tables.  A membership row is written for a user that has a row, in  *)
(* groups that have one: users and groups only grow, and a request that is *)
(* about to write has seen to both.  Of one user, no two rows name one     *)
(* group.                                                                  *)
Distinct(u) == \A a, b \in member[u] : a.group = b.group => a = b
RowsOK ==
  \A u \in User : /\ member[u] # {} => u \in users
                  /\ Membership(u) \subseteq groups
                  /\ IsFiniteSet(member[u]) /\ Distinct(u)

LEMMA NewRows ==
  ASSUME NEW names, NEW id, IsFiniteSet(names)
  PROVE  LET new == [group : names, id : {id}] IN
         /\ IsFiniteSet(new)
         /\ {row.group : row \in new} = names
         /\ \A a, b \in new : a.group = b.group => a = b
<1> DEFINE new == [group : names, id : {id}]
           f == [g \in names |-> [group |-> g, id |-> id]]
<1>1. DOMAIN f = names /\ \A g \in names : f[g] \in new /\ f[g].group = g
  OBVIOUS
<1>2. \A x \in new : x.group \in names /\ x = f[x.group]
  OBVIOUS
<1> HIDE DEF new, f
<1>3. {f[g] : g \in names} = new
  BY <1>1, <1>2
<1>4. IsFiniteSet({f[g] : g \in names})
  BY <1>1, FiniteImage
<1>5. {row.group : row \in new} = names
  BY <1>1, <1>2
<1>6. \A a, b \in new : a.group = b.group => a = b
  BY <1>2
<1>7. IsFiniteSet(new) /\ {row.group : row \in new} = names /\ \A a, b \in new : a.group = b.group => a = b
  BY <1>3, <1>4, <1>5, <1>6
<1>8. QED
  BY <1>7 DEF new

(* What a write leaves behind. *)
LEMMA WrittenRows ==
  ASSUME Typed, RowsOK, NEW q \in Request, NEW u \in User, request[q].user = u, Writes(q)
  PROVE  /\ \A x \in User \ {u} : member'[x] = member[x]
         /\ member'[u] = (member[u] \ request[q].read) \cup [group : request[q].names, id : {<<q, ops>>}]
         /\ IsFiniteSet(member'[u]) /\ Distinct(u)' /\ member' \in [User -> SUBSET Row]
         /\ Membership(u)' = {row.group : row \in member[u] \ request[q].read} \cup request[q].names
<1> DEFINE w == request[q]
           kept == member[u] \ w.read
           new == [group : w.names, id : {<<q, ops>>}]
<1>0. w \in Work /\ Shape(q) /\ Tables /\ w.user = u /\ w.pc = "setting"
  BY WorkTypes DEF Writes, Shape, Typed
<1>1. member' = [member EXCEPT ![u] = kept \cup new]
  BY DEF Writes
<1>2. member'[u] = kept \cup new /\ \A x \in User \ {u} : member'[x] = member[x]
  BY <1>0, <1>1 DEF Tables
<1>3. IsFiniteSet(new) /\ {row.group : row \in new} = w.names /\ \A a, b \in new : a.group = b.group => a = b
  BY <1>0, NewRows DEF Shape
<1>4. new \subseteq Row
  <2>1. w.names \subseteq GroupName /\ <<q, ops>> \in Request \X Nat
    BY <1>0 DEF Work, Tables
  <2>2. QED
    BY <2>1 DEF Row
<1>5. w.names \cap {row.group : row \in kept} = {}
  BY DEF Writes, Refused
<1> HIDE DEF new
<1>6. IsFiniteSet(kept)
  <2>1. IsFiniteSet(member[u])
    BY <1>0 DEF RowsOK
  <2>2. QED
    BY <2>1, FS_Difference
<1>7. IsFiniteSet(kept \cup new)
  BY <1>3, <1>6, FS_Union
<1>8. \A a, b \in kept \cup new : a.group = b.group => a = b
  <2>1. \A a, b \in kept : a.group = b.group => a = b
    BY <1>0 DEF RowsOK, Distinct
  <2>2. \A a \in kept, b \in new : a.group # b.group
    BY <1>3, <1>5
  <2>3. QED
    BY <1>3, <2>1, <2>2
<1>9. {row.group : row \in kept \cup new} = {row.group : row \in kept} \cup w.names
  BY <1>3
<1>10. member' \in [User -> SUBSET Row]
  BY <1>0, <1>1, <1>4 DEF Tables
<1>11. IsFiniteSet(member'[u]) /\ Distinct(u)'
  BY <1>2, <1>7, <1>8 DEF Distinct
<1>12. Membership(u)' = {row.group : row \in kept} \cup w.names
  BY <1>2, <1>9 DEF Membership
<1>13. member'[u] = kept \cup [group : w.names, id : {<<q, ops>>}]
  BY <1>2 DEF new
<1>14. QED
  BY <1>2, <1>10, <1>11, <1>12, <1>13

LEMMA TypedKinds ==
  ASSUME Typed, RowsOK, NEW q \in Request, Kinds(q)
  PROVE  Typed' /\ users \subseteq users' /\ groups \subseteq groups'
<1> DEFINE w == request[q]
           n == request'[q]
<1>0. w \in Work /\ Shape(q) /\ Tables
  BY WorkTypes DEF Typed
<1>1. Acts(q)
  BY DEF Kinds, Starts, Moves, Rests, Writes
<1>2. request' \in [Request -> Work] /\ \A g \in Request \ {q} : request'[g] = request[g]
  BY <1>1, OthersKept
<1>3. users \subseteq users' /\ groups \subseteq groups'
  BY DEF Kinds, Starts, Moves, Rests, Writes
<1>4. Tables' /\ Shape(q)'
  <2>1. CASE Starts(q)
    <3>1. overlapped' \subseteq User /\ ops' \in Nat
      BY <1>0, <2>1 DEF Starts, Tables
    <3>2. Tables'
      BY <1>0, <2>1, <3>1 DEF Starts, Tables
    <3>3. n.pc = "current" => n.user \in users'
      BY <2>1, <3>2 DEF Starts, Tables
    <3>4. QED
      BY <2>1, <3>2, <3>3 DEF Starts, Shape, Writing
  <2>2. CASE Moves(q)
    <3>0. w.user \in User /\ n.user = w.user
      BY <1>0, <2>2 DEF Moves, Route, Shape
    <3>1. w.pc = "creating" => w.read \subseteq GroupName
      BY <1>0 DEF Shape
    <3>2. contended' \in BOOLEAN
      BY <2>2 DEF Moves
    <3>3. users' \subseteq User /\ groups' \subseteq GroupName
      BY <1>0, <2>2, <3>0, <3>1 DEF Moves, Tables
    <3>4. Tables'
      BY <1>0, <1>3, <2>2, <3>2, <3>3 DEF Moves, Tables
    <3>5. n.pc \in Writing => n.user \in users'
      BY <1>0, <2>2 DEF Moves, Route, Shape, Writing
    <3>6. path[n.user] = "k8s" => n.names = {Home(n.user)}
      BY <1>0, <2>2, <3>0 DEF Moves, Route, Shape
    <3>7. n.pc \in {"lookup", "insert"} => path[n.user] # "login"
      BY <1>0, <2>2 DEF Moves, Route, Shape
    <3>8. n.pc # "current"
      BY <2>2 DEF Moves, Route
    <3>9. n.pc = "creating" => n.names \subseteq groups' \cup n.read /\ n.read \subseteq GroupName
      BY <1>0, <2>2 DEF Moves, Route, Work
    <3>10. n.pc \in {"set", "setting"} => n.names \subseteq groups'
      BY <1>0, <2>2 DEF Moves, Route, Shape
    <3>11. IsFiniteSet(n.names)
      BY <2>2 DEF Moves
    <3>12. QED
      BY <3>0, <3>4, <3>5, <3>6, <3>7, <3>8, <3>9, <3>10, <3>11 DEF Shape
  <2>3. CASE Rests(q)
    <3>1. failures' \in Nat
      BY <1>0, <2>3 DEF Rests, Tables
    <3>2. Tables'
      BY <1>0, <2>3, <3>1 DEF Rests, Tables
    <3>3. n.pc = "idle" /\ IsFiniteSet(n.names)
      BY <2>3, RestingWork DEF Rests
    <3>4. QED
      BY <3>2, <3>3 DEF Shape, Writing
  <2>4. CASE Writes(q)
    <3>1. w.user \in User /\ w.names \subseteq GroupName
      BY <1>0, <2>4 DEF Writes, Shape, Work
    <3>2. written' \in [User -> SUBSET SUBSET GroupName]
      BY <1>0, <2>4, <3>1 DEF Writes, Tables
    <3>3. member' \in [User -> SUBSET Row]
      BY <2>4, <3>1, WrittenRows
    <3>4. Tables'
      BY <1>0, <2>4, <3>2, <3>3 DEF Writes, Tables
    <3>5. n.pc = "idle" /\ IsFiniteSet(n.names)
      BY <2>4, RestingWork DEF Writes
    <3>6. QED
      BY <3>4, <3>5 DEF Shape, Writing
  <2>5. QED
    BY <2>1, <2>2, <2>3, <2>4 DEF Kinds
<1>5. ASSUME NEW g \in Request PROVE Shape(g)'
  <2>1. CASE g = q
    BY <1>4, <2>1
  <2>2. CASE g # q
    <3>1. Shape(g) /\ request'[g] = request[g]
      BY <1>2, <2>2, WorkTypes
    <3>2. QED
      BY <1>3, <3>1 DEF Shape
  <2>3. QED
    BY <2>1, <2>2
<1>6. QED
  BY <1>2, <1>3, <1>4, <1>5 DEF Typed

LEMMA RowsKinds ==
  ASSUME Typed, RowsOK, NEW q \in Request, Kinds(q)
  PROVE  RowsOK'
<1>1. users \subseteq users' /\ groups \subseteq groups'
  BY TypedKinds
<1>2. CASE ~Writes(q)
  <2>1. member' = member
    BY <1>2 DEF Kinds, Starts, Moves, Rests
  <2>2. QED
    BY <1>1, <2>1 DEF RowsOK, Distinct, Membership
<1>3. CASE Writes(q)
  <2> DEFINE w == request[q]
  <2>0. PICK u \in User : w.user = u
    BY <1>3, WorkTypes DEF Writes, Shape
  <2>1. /\ \A x \in User \ {u} : member'[x] = member[x]
        /\ IsFiniteSet(member'[u]) /\ Distinct(u)'
        /\ Membership(u)' = {row.group : row \in member[u] \ w.read} \cup w.names
    BY <1>3, <2>0, WrittenRows
  <2>2. u \in users /\ w.names \subseteq groups
    BY <1>3, <2>0, WorkTypes DEF Writes, Shape, Writing
  <2>3. {row.group : row \in member[u] \ w.read} \subseteq groups
    BY <2>1 DEF RowsOK, Membership
  <2>4. ASSUME NEW x \in User
        PROVE  (member'[x] # {} => x \in users') /\ Membership(x)' \subseteq groups' /\ IsFiniteSet(member'[x]) /\ Distinct(x)'
    <3>1. CASE x = u
      <4>1. Membership(x)' \subseteq groups /\ x \in users
        BY <2>1, <2>2, <2>3, <3>1
      <4>2. QED
        BY <1>1, <2>1, <3>1, <4>1
    <3>2. CASE x # u
      BY <1>1, <2>1, <3>2 DEF RowsOK, Distinct, Membership
    <3>3. QED
      BY <3>1, <3>2
  <2>5. QED
    BY <2>4 DEF RowsOK
<1>4. QED
  BY <1>2, <1>3

Sound == Typed /\ RowsOK

LEMMA SoundInit == Init => Sound
<1> SUFFICES ASSUME Init PROVE Sound
  OBVIOUS
<1>1. Tables
  BY DEF Init, Tables
<1>2. request \in [Request -> Work] /\ \A q \in Request : request[q] = Resting
  BY RestingWork DEF Init
<1>3. ASSUME NEW q \in Request PROVE Shape(q)
  <2>1. request[q].pc = "idle" /\ IsFiniteSet(request[q].names)
    BY <1>2, RestingWork
  <2>2. QED
    BY <2>1 DEF Shape, Writing
<1>4. \A u \in User : member[u] = {}
  BY DEF Init
<1>5. RowsOK
  BY <1>4, FS_EmptySet DEF RowsOK, Membership, Distinct
<1>6. QED
  BY <1>1, <1>2, <1>3, <1>5 DEF Sound, Typed

LEMMA SoundSteps ==
  ASSUME Sound, Next
  PROVE  Sound' /\ \E q \in Request : Kinds(q)
<1>1. PICK q \in Request : Kinds(q)
  BY StepKinds DEF Sound, RowsOK, Finite
<1>2. QED
  BY <1>1, TypedKinds, RowsKinds DEF Sound

LEMMA SoundNext == Sound /\ [Next]_vars => Sound'
<1> SUFFICES ASSUME Sound, [Next]_vars PROVE Sound'
  OBVIOUS
<1>1. CASE UNCHANGED vars
  BY <1>1 DEF vars, Sound, Typed, Tables, Shape, RowsOK, Distinct, Membership
<1>2. QED
  BY <1>1, SoundSteps

(* repository/group.py: every membership row names a user row and a group  *)
(* row, and no user is twice in a group, for any interleaving of the three *)
(* paths that write memberships.                                           *)
THEOREM MembershipsWellFormed == Spec => []TypeOK
<1>1. Sound => TypeOK
  <2> SUFFICES ASSUME Sound, NEW u \in User
               PROVE  Cardinality(Membership(u)) = Cardinality(member[u])
    BY DEF TypeOK, Sound, RowsOK
  <2> DEFINE f == [row \in member[u] |-> row.group]
  <2>1. f \in Injection(member[u], Membership(u))
    <3>1. f \in [member[u] -> Membership(u)]
      BY DEF Membership
    <3>2. \A a, b \in member[u] : f[a] = f[b] => a = b
      BY DEF Sound, RowsOK, Distinct
    <3> HIDE DEF f
    <3>3. QED
      BY <3>1, <3>2 DEF Injection, IsInjective
  <2>. f \in Surjection(member[u], Membership(u))
    BY DEF Membership, Surjection
  <2>. f \in Bijection(member[u], Membership(u))
    BY <2>1 DEF Bijection
  <2>2. ExistsBijection(member[u], Membership(u)) /\ IsFiniteSet(member[u])
    BY DEF ExistsBijection, Sound, RowsOK
  <2>3. QED
    BY <2>2, FS_Bijection
<1>2. QED
  BY <1>1, SoundInit, SoundNext, PTL DEF Spec

-----------------------------------------------------------------------------
(* A step of one request leaves the others where they are. *)
LEMMA StillInFlight ==
  ASSUME Typed, NEW q \in Request, Acts(q), NEW u \in User, NEW g \in InFlight(u)', g # q
  PROVE  g \in InFlight(u) /\ request'[g] = request[g]
<1>1. g \in Request /\ request'[g].pc # "idle" /\ request'[g].user = u
  BY DEF InFlight
<1>2. request'[g] = request[g]
  BY <1>1, OthersKept
<1>3. QED
  BY <1>1, <1>2 DEF InFlight

LEMMA RestedIsOut ==
  ASSUME NEW q \in Request, request'[q] = Resting, NEW u
  PROVE  q \notin InFlight(u)'
<1>1. request'[q].pc = "idle"
  BY RestingWork
<1>2. QED
  BY <1>1 DEF InFlight

(* A user whose requests never overlapped has one of them at most.  When   *)
(* its provider is additive, the names that one is about to write hold the *)
(* membership there is, and the rows it is about to delete are the rows    *)
(* there are.                                                              *)
Grows(u) ==
  /\ UNION written[u] \subseteq Membership(u)
  /\ \A q \in InFlight(u) : /\ request[q].pc \in Writing => Membership(u) \subseteq request[q].names
                            /\ request[q].pc = "setting" => request[q].read = member[u]
Additive(u) ==
  u \notin overlapped => /\ \A a, b \in InFlight(u) : a = b
                         /\ Synced(u, "additive") => Grows(u)

LEMMA AdditiveStarts ==
  ASSUME Sound, NEW u \in User, Additive(u), NEW q \in Request, Starts(q)
  PROVE  Additive(u)'
<1> SUFFICES ASSUME u \notin overlapped'
             PROVE  /\ \A a, b \in InFlight(u)' : a = b
                    /\ Synced(u, "additive") => Grows(u)'
  BY DEF Additive, Synced
<1>0. Typed /\ Acts(q) /\ request[q].pc = "idle" /\ UNCHANGED <<member, written>>
  BY DEF Starts, Sound
<1>1. u \notin overlapped /\ (request'[q].user = u => InFlight(u) = {})
  BY DEF Starts
<1>2. /\ \A a, b \in InFlight(u) : a = b
      /\ Synced(u, "additive") => Grows(u)
  BY <1>1 DEF Additive
<1>3. \A g \in InFlight(u)' : g # q => g \in InFlight(u) /\ request'[g] = request[g]
  BY <1>0, StillInFlight
<1>4. q \in InFlight(u)' => InFlight(u) = {}
  BY <1>1 DEF InFlight
<1>5. \A a, b \in InFlight(u)' : a = b
  BY <1>2, <1>3, <1>4
<1>6. ASSUME Synced(u, "additive") PROVE Grows(u)'
  <2>1. Grows(u)
    BY <1>2, <1>6
  <2>2. request'[q].pc \notin Writing /\ request'[q].pc # "setting"
    BY DEF Starts, Writing
  <2>3. UNION written'[u] \subseteq Membership(u)' /\ Membership(u)' = Membership(u)
    BY <1>0, <2>1 DEF Grows, Membership
  <2>4. ASSUME NEW g \in InFlight(u)'
        PROVE  /\ request'[g].pc \in Writing => Membership(u)' \subseteq request'[g].names
               /\ request'[g].pc = "setting" => request'[g].read = member'[u]
    BY <1>0, <1>3, <2>1, <2>2, <2>3 DEF Grows
  <2>5. QED
    BY <2>3, <2>4 DEF Grows
<1>7. QED
  BY <1>5, <1>6

LEMMA AdditiveMoves ==
  ASSUME Sound, NEW u \in User, Additive(u), NEW q \in Request, Moves(q) \/ Rests(q)
  PROVE  Additive(u)'
<1> SUFFICES ASSUME u \notin overlapped'
             PROVE  /\ \A a, b \in InFlight(u)' : a = b
                    /\ Synced(u, "additive") => Grows(u)'
  BY DEF Additive, Synced
<1>0. Typed /\ Acts(q) /\ UNCHANGED <<member, written, overlapped>> /\ request[q] \in Work /\ Shape(q)
  BY WorkTypes DEF Moves, Rests, Sound
<1>2. /\ \A a, b \in InFlight(u) : a = b
      /\ Synced(u, "additive") => Grows(u)
  BY <1>0 DEF Additive
<1>3. \A g \in InFlight(u)' : g # q => g \in InFlight(u) /\ request'[g] = request[g]
  BY <1>0, StillInFlight
<1>4. q \in InFlight(u)' => q \in InFlight(u) /\ Moves(q) /\ request[q].user = u
  <2>1. CASE Rests(q)
    BY <2>1, RestedIsOut DEF Rests
  <2>2. CASE Moves(q)
    BY <2>2 DEF Moves, Route, InFlight
  <2>3. QED
    BY <2>1, <2>2
<1>5. \A a, b \in InFlight(u)' : a = b
  BY <1>2, <1>3, <1>4
<1>6. ASSUME Synced(u, "additive") PROVE Grows(u)'
  <2>1. Grows(u)
    BY <1>2, <1>6
  <2>2. UNION written'[u] \subseteq Membership(u)' /\ Membership(u)' = Membership(u)
    BY <1>0, <2>1 DEF Grows, Membership
  <2>3. ASSUME NEW g \in InFlight(u)', g # q
        PROVE  /\ request'[g].pc \in Writing => Membership(u)' \subseteq request'[g].names
               /\ request'[g].pc = "setting" => request'[g].read = member'[u]
    BY <1>0, <1>3, <2>1, <2>2, <2>3 DEF Grows
  <2>4. ASSUME q \in InFlight(u)'
        PROVE  /\ request'[q].pc \in Writing => Membership(u) \subseteq request'[q].names
               /\ request'[q].pc = "setting" => request'[q].read = member[u]
    <3>1. Moves(q) /\ request[q].user = u /\ q \in InFlight(u)
      BY <1>4, <2>4
    <3>2. path[u] = "login" /\ group_sync_mode[idp[u]] = "additive"
      BY <1>6 DEF Synced
    <3>3. request[q].pc = "current" => Membership(u) \subseteq request'[q].names
      BY <3>1, <3>2 DEF Moves
    <3>4. request[q].pc \in Writing => Membership(u) \subseteq request'[q].names
      BY <2>1, <3>1 DEF Moves, Grows, Writing
    <3>5. request[q].pc \in Writing \cup {"current"}
      BY <1>0, <3>1, <3>2 DEF Shape, Moves, Route, Writing
    <3>6. QED
      BY <3>1, <3>3, <3>4, <3>5 DEF Moves
  <2>5. QED
    BY <1>0, <2>2, <2>3, <2>4 DEF Grows
<1>7. QED
  BY <1>5, <1>6

LEMMA AdditiveWrites ==
  ASSUME Sound, NEW u \in User, Additive(u), NEW q \in Request, Writes(q)
  PROVE  Additive(u)'
<1> SUFFICES ASSUME u \notin overlapped'
             PROVE  /\ \A a, b \in InFlight(u)' : a = b
                    /\ Synced(u, "additive") => Grows(u)'
  BY DEF Additive, Synced
<1> DEFINE w == request[q]
<1>0. /\ Typed /\ RowsOK /\ Tables /\ Acts(q) /\ overlapped' = overlapped /\ w.pc = "setting"
      /\ written' = [written EXCEPT ![w.user] = written[w.user] \cup {w.names}]
  BY DEF Writes, Sound, Typed
<1>1. /\ \A a, b \in InFlight(u) : a = b
      /\ Synced(u, "additive") => Grows(u)
  BY <1>0 DEF Additive
<1>2. \A g \in InFlight(u)' : g \in InFlight(u) /\ request'[g] = request[g] /\ g # q
  BY <1>0, StillInFlight, RestedIsOut DEF Writes
<1>3. \A a, b \in InFlight(u)' : a = b
  BY <1>1, <1>2
<1>4. PICK x \in User : w.user = x
  BY <1>0, WorkTypes DEF Shape
<1>5. /\ \A y \in User \ {x} : member'[y] = member[y]
      /\ Membership(x)' = {row.group : row \in member[x] \ w.read} \cup w.names
  BY <1>0, <1>4, WrittenRows
<1>6. ASSUME Synced(u, "additive") PROVE Grows(u)'
  <2>1. Grows(u)
    BY <1>1, <1>6
  <2>2. CASE x = u
    <3>1. q \in InFlight(u)
      BY <1>0, <1>4, <2>2 DEF InFlight
    <3>2. Membership(u) \subseteq w.names /\ w.read = member[u]
      BY <1>0, <2>1, <3>1 DEF Grows, Writing
    <3>3. Membership(u)' = w.names
      BY <1>5, <2>2, <3>2
    <3>4. written'[u] = written[u] \cup {w.names}
      BY <1>0, <1>4, <2>2 DEF Tables
    <3>5. UNION written'[u] \subseteq Membership(u)'
      BY <2>1, <3>2, <3>3, <3>4 DEF Grows
    <3>6. InFlight(u)' = {}
      BY <1>1, <1>2, <3>1
    <3>7. QED
      BY <3>5, <3>6 DEF Grows
  <2>3. CASE x # u
    <3>1. member'[u] = member[u] /\ written'[u] = written[u]
      BY <1>0, <1>4, <1>5, <2>3 DEF Tables
    <3>2. Membership(u)' = Membership(u)
      BY <3>1 DEF Membership
    <3>3. QED
      BY <1>2, <2>1, <3>1, <3>2 DEF Grows
  <2>4. QED
    BY <2>2, <2>3
<1>7. QED
  BY <1>3, <1>6

AdditiveInv == Sound /\ \A u \in User : Additive(u)

LEMMA AdditiveInit == Init => AdditiveInv
<1> SUFFICES ASSUME Init PROVE AdditiveInv
  OBVIOUS
<1>1. \A u \in User : InFlight(u) = {} /\ written[u] = {}
  BY RestingWork DEF Init, InFlight
<1>2. QED
  BY <1>1, SoundInit DEF AdditiveInv, Additive, Grows

LEMMA AdditiveNext == AdditiveInv /\ [Next]_vars => AdditiveInv'
<1> SUFFICES ASSUME AdditiveInv, [Next]_vars PROVE AdditiveInv'
  OBVIOUS
<1>1. Sound' /\ Sound
  BY SoundNext DEF AdditiveInv
<1>2. ASSUME NEW u \in User PROVE Additive(u)'
  <2>0. Additive(u)
    BY DEF AdditiveInv
  <2>1. CASE UNCHANGED vars
    BY <2>0, <2>1 DEF vars, Additive, Grows, InFlight, Membership, Synced
  <2>2. CASE Next
    <3>1. PICK q \in Request : Kinds(q)
      BY <1>1, <2>2, SoundSteps
    <3>2. QED
      BY <1>1, <2>0, <3>1, AdditiveStarts, AdditiveMoves, AdditiveWrites DEF Kinds
  <2>3. QED
    BY <2>1, <2>2
<1>3. QED
  BY <1>1, <1>2 DEF AdditiveInv

(* groups_to_apply and set_user_groups: an additive provider never takes a *)
(* group away from a user whose logins do not overlap.                     *)
THEOREM AdditiveSyncKeeps == Spec => []AdditiveKeeps
<1>1. AdditiveInv => AdditiveKeeps
  BY DEF AdditiveInv, Additive, Grows, AdditiveKeeps
<1>2. QED
  BY <1>1, AdditiveInit, AdditiveNext, PTL DEF Spec

-----------------------------------------------------------------------------
(* As long as no write began between another transaction's reads and its   *)
(* writes, one request at most is between the two, and what it read still  *)
(* stands: an insert is not refused, and a write deletes all the rows      *)
(* there are.  So a membership is what one write left, and a service       *)
(* account whose row exists is in its group or has a request on the way    *)
(* there.                                                                  *)
Between == {"creating", "setting"}
Stands(q) == /\ request[q].pc = "creating" => request[q].read \cap groups = {}
             /\ request[q].pc = "setting" => request[q].read = member[request[q].user]
Exclusive == /\ \A a, b \in Request : request[a].pc \in Between /\ request[b].pc \in Between => a = b
             /\ \A q \in Request : Stands(q)
Replaced(u) == Membership(u) \in written[u] \cup {{}}
Cared(u) == u \in users /\ path[u] = "k8s" =>
              Membership(u) = {Home(u)} \/ \E q \in InFlight(u) : request[q].pc \in Writing
ApartInv ==
  /\ Sound
  /\ ~contended => Exclusive /\ \A u \in User : Replaced(u)
  /\ ~contended /\ failures = 0 => \A u \in User : Cared(u)

(* What a step that leaves the memberships alone does to the two. *)
LEMMA ReplacedKept ==
  ASSUME UNCHANGED <<member, written>>, NEW u \in User, Replaced(u)
  PROVE  Replaced(u)'
BY DEF Replaced, Membership

LEMMA CaredKept ==
  ASSUME Typed, NEW u \in User, Cared(u), NEW q \in Request, Acts(q), member'[u] = member[u],
         u \in users' => u \in users,
         q \in InFlight(u) /\ request[q].pc \in Writing => q \in InFlight(u)' /\ request'[q].pc \in Writing
  PROVE  Cared(u)'
<1> SUFFICES ASSUME u \in users', path[u] = "k8s"
             PROVE  Membership(u)' = {Home(u)} \/ \E g \in InFlight(u)' : request'[g].pc \in Writing
  BY DEF Cared, Home
<1>1. CASE Membership(u) = {Home(u)}
  BY <1>1 DEF Membership
<1>2. CASE \E g \in InFlight(u) : request[g].pc \in Writing
  <2>1. PICK g \in InFlight(u) : request[g].pc \in Writing
    BY <1>2
  <2>2. CASE g = q
    BY <2>1, <2>2
  <2>3. CASE g # q
    <3>1. g \in Request /\ request'[g] = request[g]
      BY <2>1, <2>3, OthersKept DEF InFlight
    <3>2. g \in InFlight(u)'
      BY <2>1, <3>1 DEF InFlight
    <3>3. QED
      BY <2>1, <3>1, <3>2
  <2>4. QED
    BY <2>2, <2>3
<1>3. QED
  BY <1>1, <1>2 DEF Cared

LEMMA ApartStarts ==
  ASSUME ApartInv, NEW q \in Request, Starts(q)
  PROVE  /\ ~contended' => Exclusive' /\ \A u \in User : Replaced(u)'
         /\ ~contended' /\ failures' = 0 => \A u \in User : Cared(u)'
<1>0. Typed /\ Acts(q) /\ request[q].pc = "idle" /\ UNCHANGED <<users, groups, member, written, contended, failures>>
  BY DEF Starts, ApartInv, Sound
<1>1. \A g \in Request \ {q} : request'[g] = request[g]
  BY <1>0, OthersKept
<1>2. request'[q].pc \notin Between
  BY DEF Starts, Between
<1>3. ASSUME ~contended PROVE Exclusive'
  <2>1. Exclusive
    BY <1>3 DEF ApartInv
  <2>2. \A a, b \in Request : request'[a].pc \in Between /\ request'[b].pc \in Between => a = b
    BY <1>1, <1>2, <2>1 DEF Exclusive
  <2>3. ASSUME NEW g \in Request PROVE Stands(g)'
    BY <1>0, <1>1, <1>2, <2>1 DEF Exclusive, Stands, Between
  <2>4. QED
    BY <2>2, <2>3 DEF Exclusive
<1>4. ASSUME NEW u \in User, Cared(u) PROVE Cared(u)'
  <2>1. q \notin InFlight(u)
    BY <1>0 DEF InFlight
  <2>2. QED
    BY <1>0, <1>4, <2>1, CaredKept
<1>5. QED
  BY <1>0, <1>3, <1>4, ReplacedKept DEF ApartInv

LEMMA ApartMoves ==
  ASSUME ApartInv, NEW q \in Request, Moves(q)
  PROVE  /\ ~contended' => Exclusive' /\ \A u \in User : Replaced(u)'
         /\ ~contended' /\ failures' = 0 => \A u \in User : Cared(u)'
<1> DEFINE w == request[q]
           n == request'[q]
<1>0. /\ Typed /\ Acts(q) /\ w.pc # "idle" /\ n.user = w.user /\ n.pc # "idle" /\ UNCHANGED <<member, written, failures>>
      /\ contended' = (contended \/ Contended(w.pc)) /\ w \in Work /\ Shape(q)
  BY WorkTypes DEF Moves, Route, ApartInv, Sound
<1>1. \A g \in Request \ {q} : request'[g] = request[g]
  BY <1>0, OthersKept
<1> SUFFICES ASSUME ~contended'
             PROVE  /\ Exclusive' /\ \A u \in User : Replaced(u)'
                    /\ failures' = 0 => \A u \in User : Cared(u)'
  OBVIOUS
<1>2. ~contended /\ ~Contended(w.pc) /\ Exclusive /\ \A u \in User : Replaced(u)
  BY <1>0 DEF ApartInv
<1>3. n.pc \in Between => \A g \in Request : request[g].pc \notin Between
  BY <1>2 DEF Moves, Route, Between, Contended
<1>4. w.pc = "creating" => \A g \in Request \ {q} : request[g].pc \notin Between
  BY <1>2 DEF Exclusive, Between
<1>5. Exclusive'
  <2>1. \A a, b \in Request : request'[a].pc \in Between /\ request'[b].pc \in Between => a = b
    BY <1>1, <1>2, <1>3 DEF Exclusive
  <2>2. Stands(q)'
    BY <1>0 DEF Stands, Moves, Route
  <2>3. ASSUME NEW g \in Request \ {q} PROVE Stands(g)'
    <3>1. request'[g] = request[g] /\ Stands(g)
      BY <1>1, <1>2 DEF Exclusive
    <3>2. CASE w.pc = "creating"
      BY <1>0, <1>4, <3>1, <3>2 DEF Stands, Between
    <3>3. CASE w.pc # "creating"
      <4>1. groups' = groups
        BY <3>3 DEF Moves
      <4>2. QED
        BY <1>0, <3>1, <4>1 DEF Stands
    <3>4. QED
      BY <3>2, <3>3
  <2>4. QED
    BY <2>1, <2>2, <2>3 DEF Exclusive
<1>6. ASSUME failures' = 0, NEW u \in User PROVE Cared(u)'
  <2>1. Cared(u)
    BY <1>0, <1>2, <1>6 DEF ApartInv
  <2>2. CASE w.pc = "insert" /\ w.user = u
    <3>1. n.pc \in Writing /\ q \in InFlight(u)'
      BY <1>0, <2>2 DEF Moves, Route, InFlight, Writing
    <3>2. QED
      BY <3>1 DEF Cared
  <2>3. CASE ~(w.pc = "insert" /\ w.user = u)
    <3>1. u \in users' => u \in users
      BY <2>3 DEF Moves
    <3>2. q \in InFlight(u) /\ w.pc \in Writing => q \in InFlight(u)' /\ n.pc \in Writing
      BY <1>0 DEF Moves, Route, InFlight, Writing
    <3>3. QED
      BY <1>0, <2>1, <3>1, <3>2, CaredKept
  <2>4. QED
    BY <2>2, <2>3
<1>7. QED
  BY <1>0, <1>2, <1>5, <1>6, ReplacedKept

LEMMA ApartRests ==
  ASSUME ApartInv, NEW q \in Request, Rests(q)
  PROVE  /\ ~contended' => Exclusive' /\ \A u \in User : Replaced(u)'
         /\ ~contended' /\ failures' = 0 => \A u \in User : Cared(u)'
<1> DEFINE w == request[q]
<1>0. /\ Typed /\ Acts(q) /\ request'[q].pc = "idle" /\ UNCHANGED <<users, groups, member, written>>
      /\ failures \in Nat /\ (contended => contended')
  BY RestingWork DEF Rests, ApartInv, Sound, Typed, Tables
<1>1. \A g \in Request \ {q} : request'[g] = request[g]
  BY <1>0, OthersKept
<1> SUFFICES ASSUME ~contended'
             PROVE  /\ Exclusive' /\ \A u \in User : Replaced(u)'
                    /\ failures' = 0 => \A u \in User : Cared(u)'
  OBVIOUS
<1>2. ~contended /\ Exclusive /\ \A u \in User : Replaced(u)
  BY <1>0 DEF ApartInv
<1>3. Exclusive'
  <2>1. \A a, b \in Request : request'[a].pc \in Between /\ request'[b].pc \in Between => a = b
    BY <1>0, <1>1, <1>2 DEF Exclusive, Between
  <2>2. ASSUME NEW g \in Request PROVE Stands(g)'
    BY <1>0, <1>1, <1>2 DEF Exclusive, Stands
  <2>3. QED
    BY <2>1, <2>2 DEF Exclusive
<1>4. ASSUME failures' = 0, NEW u \in User PROVE Cared(u)'
  <2>1. failures = 0 /\ failures' # failures + 1
    BY <1>0, <1>4 DEF Rests
  <2>2. \/ w.pc = "current" \/ w.pc = "insert"
        \/ w.pc = "creating" /\ w.read \cap groups # {}
        \/ w.pc = "setting" /\ Refused(w)
    BY <2>1 DEF Rests
  <2>3. Stands(q)
    BY <1>2 DEF Exclusive
  <2>4. w.pc \notin Writing
    BY <2>2, <2>3 DEF Stands, Refused, Writing
  <2>5. Cared(u)
    BY <1>2, <2>1 DEF ApartInv
  <2>6. QED
    BY <1>0, <2>4, <2>5, CaredKept
<1>5. QED
  BY <1>0, <1>2, <1>3, <1>4, ReplacedKept

LEMMA ApartWrites ==
  ASSUME ApartInv, NEW q \in Request, Writes(q)
  PROVE  /\ ~contended' => Exclusive' /\ \A u \in User : Replaced(u)'
         /\ ~contended' /\ failures' = 0 => \A u \in User : Cared(u)'
<1> DEFINE w == request[q]
<1>0. /\ Typed /\ Tables /\ RowsOK /\ Acts(q) /\ request'[q].pc = "idle" /\ w.pc = "setting"
      /\ UNCHANGED <<users, groups, failures, contended>> /\ Shape(q) /\ Sound
      /\ written' = [written EXCEPT ![w.user] = written[w.user] \cup {w.names}]
  BY RestingWork, WorkTypes DEF Writes, ApartInv, Sound, Typed
<1>1. \A g \in Request \ {q} : request'[g] = request[g]
  BY <1>0, OthersKept
<1> SUFFICES ASSUME ~contended
             PROVE  /\ Exclusive' /\ \A u \in User : Replaced(u)'
                    /\ failures = 0 => \A u \in User : Cared(u)'
  BY <1>0
<1>2. Exclusive /\ \A u \in User : Replaced(u)
  BY DEF ApartInv
<1>3. PICK x \in User : w.user = x
  BY <1>0 DEF Shape
<1>4. /\ \A y \in User \ {x} : member'[y] = member[y]
      /\ Membership(x)' = {row.group : row \in member[x] \ w.read} \cup w.names
  BY <1>0, <1>3, WrittenRows
<1>5. w.read = member[x]
  BY <1>0, <1>2, <1>3 DEF Exclusive, Stands
<1>6. Membership(x)' = w.names
  BY <1>4, <1>5
<1>7. Exclusive'
  <2>1. \A g \in Request \ {q} : request[g].pc \notin Between
    BY <1>0, <1>2 DEF Exclusive, Between
  <2>2. \A g \in Request : request'[g].pc \notin Between
    BY <1>0, <1>1, <2>1 DEF Between
  <2>3. QED
    BY <2>2 DEF Exclusive, Stands, Between
<1>8. ASSUME NEW u \in User PROVE Replaced(u)'
  <2>1. CASE u = x
    <3>1. w.names \in written'[x]
      BY <1>0, <1>3 DEF Tables
    <3>2. QED
      BY <1>6, <2>1, <3>1 DEF Replaced
  <2>2. CASE u # x
    <3>1. written'[u] = written[u] /\ member'[u] = member[u]
      BY <1>0, <1>3, <1>4, <2>2 DEF Tables
    <3>2. QED
      BY <1>2, <3>1 DEF Replaced, Membership
  <2>3. QED
    BY <2>1, <2>2
<1>9. ASSUME failures = 0, NEW u \in User PROVE Cared(u)'
  <2>1. Cared(u)
    BY <1>9 DEF ApartInv
  <2>2. CASE u = x
    <3>1. path[u] = "k8s" => w.names = {Home(u)}
      BY <1>0, <1>3, <2>2 DEF Shape
    <3>2. QED
      BY <1>6, <2>2, <3>1 DEF Cared, Home
  <2>3. CASE u # x
    <3>1. q \notin InFlight(u)
      BY <1>3, <2>3 DEF InFlight
    <3>2. member'[u] = member[u]
      BY <1>4, <2>3
    <3>3. QED
      BY <1>0, <2>1, <3>1, <3>2, CaredKept
  <2>4. QED
    BY <2>2, <2>3
<1>10. QED
  BY <1>7, <1>8, <1>9

LEMMA ApartInit == Init => ApartInv
<1> SUFFICES ASSUME Init PROVE ApartInv
  OBVIOUS
<1>1. \A q \in Request : request[q].pc = "idle"
  BY RestingWork DEF Init
<1>2. Exclusive
  BY <1>1 DEF Exclusive, Stands, Between
<1>3. ASSUME NEW u \in User PROVE Replaced(u) /\ Cared(u)
  BY <1>3 DEF Init, Replaced, Membership, Cared
<1>4. QED
  BY <1>2, <1>3, SoundInit DEF ApartInv

LEMMA ApartNext == ApartInv /\ [Next]_vars => ApartInv'
<1> SUFFICES ASSUME ApartInv, [Next]_vars PROVE ApartInv'
  OBVIOUS
<1>1. Sound /\ Sound'
  BY SoundNext DEF ApartInv
<1>2. CASE UNCHANGED vars
  BY <1>1, <1>2 DEF vars, ApartInv, Exclusive, Stands, Replaced, Cared, Membership, InFlight, Home
<1>3. CASE Next
  <2>1. PICK q \in Request : Kinds(q)
    BY <1>1, <1>3, SoundSteps
  <2>2. QED
    BY <1>1, <2>1, ApartStarts, ApartMoves, ApartRests, ApartWrites DEF Kinds, ApartInv
<1>4. QED
  BY <1>2, <1>3

(* set_groups_for_user: what an authoritative provider's user is in is     *)
(* what one of the logins claimed, as long as no two writing transactions  *)
(* overlap.                                                                *)
THEOREM AuthoritativeSyncReplaces == Spec => []AuthoritativeReplaces
<1>1. ApartInv => AuthoritativeReplaces
  BY DEF ApartInv, Replaced, AuthoritativeReplaces
<1>2. QED
  BY <1>1, ApartInit, ApartNext, PTL DEF Spec

(* _provision_service_account: however the first requests of a namespace   *)
(* interleave, every provisioned service account ends up in its group when *)
(* no store call fails and no two writing transactions overlap.            *)
THEOREM ServiceAccountsJoinTheirGroup == Spec => []GroupedWithoutContention
<1>1. ApartInv => GroupedWithoutContention
  BY DEF ApartInv, Sound, Typed, Tables, Cared, GroupedWithoutContention, ServiceAccountsGrouped, Home
<1>2. QED
  BY <1>1, ApartInit, ApartNext, PTL DEF Spec
=============================================================================
