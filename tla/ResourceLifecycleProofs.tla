---------------------- MODULE ResourceLifecycleProofs ----------------------
(***************************************************************************)
(* Theorems about ResourceLifecycle, for any users, groups, names,         *)
(* requests at once and numbers of failures; and, at the end, about        *)
(* SearchRefill, for any list, page size and number of changes.            *)
(***************************************************************************)
EXTENDS ResourceLifecycle, SearchRefill, FiniteSetTheorems, SequenceTheorems, WellFoundedInduction, TLAPS

Row == [level : ALL_PERMISSIONS, of : Nat]
Calls(op) == CASE op = "create" -> {"grant"}
               [] op = "delete" -> {"wipe_users", "wipe_groups", "wipe_all"}
               [] op = "rename" -> {"rename_users", "rename_groups"}
               [] OTHER -> {}

(* What a request's record holds by its operation and where it is. *)
Shape(q) ==
  /\ q.op = "create" => q.refs = {} /\ q.stash = {} /\ q.caller \notin Strangers
  /\ type = "experiment" \/ q.op \in {"create", "search"} => q.ids = {}
  /\ type = "experiment" /\ q.op \in {"delete", "update"} => \A m, n \in q.refs : m = n
  /\ type = "experiment" => q.op \in {"create", "delete", "update", "search"}
  /\ q.new = Nil <=> q.op \notin {"create", "rename"}
  /\ q.at # "after" => q.todo = <<>>
  /\ \A i \in DOMAIN q.todo : q.todo[i] \in Calls(q.op)

Injective == \A i, j \in DOMAIN objects : objects[i] = objects[j] /\ objects[i] # Nil => i = j

RowsOK ==
  /\ rows \in [Holder \X Name -> Row \cup {Nil}]
  /\ \A h \in Holder, n \in Name : rows[<<h, n>>] # Nil => rows[<<h, n>>].of \in DOMAIN objects /\ h \in users \cup Group
ReqsOK ==
  /\ req \in [Slot -> ReqState \cup {Nil}]
  /\ \A s \in Slot : req[s] # Nil => Shape(req[s]) /\ (req[s].at = "after" => req[s].hit \in DOMAIN objects)
Typed ==
  /\ type \in Types /\ users \subseteq User \ Strangers
  /\ objects \in Seq(Name \cup {Nil}) /\ Injective
  /\ RowsOK /\ ReqsOK

-----------------------------------------------------------------------------
(* The kinds of step of one request: it is checked, ...                    *)
Acts(q) == q.op # "create" /\ q.caller \notin Admins
Keeps == UNCHANGED <<type, objects, rows, users, spoiled, abandoned>>
Plain(s) ==
  /\ req' = [req EXCEPT ![s] = req'[s]] /\ req'[s] \in ReqState \cup {Nil}
  /\ req'[s] # Nil => Shape(req'[s]) /\ req'[s].at # "after"
  /\ req'[s] # Nil /\ req'[s].at = "mlflow" /\ Acts(req'[s]) => Targets(req'[s]) \subseteq req'[s].could
  /\ req[s] # Nil => req[s].todo = <<>>
  /\ Keeps

(* ... MLflow commits it, ...                                              *)
Hears(t, hit) == IF req[t] = Nil \/ objects' = objects THEN req[t] ELSE [req[t] EXCEPT !.fresh = @ \cup {hit}]
Commits(s, q, n) ==
  /\ q = req[s] /\ n = req'[s]
  /\ q # Nil /\ q.at = "mlflow" /\ q.todo = <<>>
  /\ n \in ReqState /\ n.at = "after" /\ n.todo = AFTER_REQUEST_PATH_HANDLERS(q.op)
  /\ n.caller = q.caller /\ n.op = q.op /\ n.refs = q.refs /\ n.ids = q.ids /\ n.new = q.new
  /\ n.stash = q.stash /\ n.could = q.could /\ n.fresh = q.fresh
  /\ n.hit \in Nat /\ n.hit \in DOMAIN objects'
  /\ \/ /\ q.op = "create" /\ Named(q.new) = {} /\ n.hit = Len(objects) + 1
        /\ objects' = Append(objects, q.new)
     \/ /\ q.op = "create" /\ n.hit \in Named(q.new) /\ objects' = objects
     \/ /\ q.op = "delete" /\ type # "experiment" /\ n.hit \in Targets(q)
        /\ objects' = [objects EXCEPT ![n.hit] = Nil]
     \/ /\ q.op = "rename" /\ Named(q.new) = {} /\ n.hit \in Targets(q)
        /\ objects' = [objects EXCEPT ![n.hit] = q.new]
     \/ /\ q.op \in {"delete", "update", "read", "search"} /\ n.hit \in Targets(q) /\ objects' = objects
        /\ q.op = "delete" => type = "experiment"
  /\ req' = [t \in Slot |-> IF t = s THEN n ELSE Hears(t, n.hit)]
  /\ spoiled' = spoiled \cup Spoils(q, n.hit)
  /\ UNCHANGED <<type, rows, users, abandoned>>

(* ... or a call of its handler is made, which leaves `left` to be done.   *)
Handles(s, left) ==
  /\ req[s] # Nil /\ req[s].at = "after" /\ req[s].todo # <<>>
  /\ left \in {Tail(req[s].todo), <<>>}
  /\ req' = [req EXCEPT ![s].todo = left]
  /\ UNCHANGED <<type, objects, users>>

(* The calls: the creator is granted its row, or has one, or is gone; rows *)
(* are wiped; rows are moved; or the handler is given up.                  *)
Entry == [Holder \X Name -> Row \cup {Nil}]
Granted(s, q) ==
  /\ q = req[s] /\ q.op = "create" /\ \E left : Handles(s, left)
  /\ \/ /\ q.caller \in users /\ rows[<<q.caller, q.new>>] = Nil /\ abandoned' = abandoned
        /\ rows' = [rows EXCEPT ![<<q.caller, q.new>>] = [level |-> "MANAGE", of |-> q.hit]]
     \/ rows' = rows /\ rows[<<q.caller, q.new>>] # Nil /\ abandoned' = abandoned
     \/ rows' = rows /\ abandoned' = abandoned \cup {q.hit}
  /\ spoiled' = spoiled
Wiped(s, q, step) ==
  /\ q = req[s] /\ q.op = "delete" /\ step = Head(q.todo) /\ Handles(s, Tail(q.todo))
  /\ rows' \in Entry
  /\ \A h \in Holder, n \in Name :
       rows'[<<h, n>>] = IF h \in Members(step) /\ n \in q.stash THEN Nil ELSE rows[<<h, n>>]
  /\ UNCHANGED <<spoiled, abandoned>>
Moved(s, q, step, held) ==
  /\ q = req[s] /\ q.op = "rename" /\ step = Head(q.todo) /\ Handles(s, Tail(q.todo))
  /\ rows' \in Entry
  /\ held = {h \in Members(step) : \E old \in q.stash : rows[<<h, old>>] # Nil}
  /\ q.new \in q.stash \/ \A h \in held : rows[<<h, q.new>>] = Nil
  /\ \A h \in Holder, n \in Name :
       \/ h \in held /\ n = q.new /\ \E old \in q.stash : rows[<<h, old>>] # Nil /\ rows'[<<h, n>>] = rows[<<h, old>>]
       \/ h \in held /\ n # q.new /\ n \in q.stash /\ rows'[<<h, n>>] = Nil
       \/ (h \notin held \/ n \notin q.stash \cup {q.new}) /\ rows'[<<h, n>>] = rows[<<h, n>>]
  /\ UNCHANGED <<spoiled, abandoned>>
GaveUp(s, q) ==
  /\ q = req[s] /\ Handles(s, <<>>)
  /\ UNCHANGED <<rows, abandoned>>
  /\ \/ spoiled' = spoiled \cup Touched(q)
     \/ spoiled' = spoiled /\ q.op = "rename" /\ ~Stray(q, rows)

(* And what happens besides: a user is deleted, a row is granted.          *)
Erased(u) ==
  /\ rows' \in Entry /\ \A h \in Holder, n \in Name : rows'[<<h, n>>] = IF h = u THEN Nil ELSE rows[<<h, n>>]
  /\ users' = users \ {u}
  /\ abandoned \subseteq abandoned' /\ \A n \in Name : rows[<<u, n>>] # Nil => rows[<<u, n>>].of \in abandoned'
  /\ UNCHANGED <<type, objects, req, spoiled>>
Shared(h, n, i) ==
  /\ h \in users \cup Group /\ rows[<<h, n>>] = Nil /\ i \in Named(n)
  /\ rows' = [rows EXCEPT ![<<h, n>>] = [level |-> "EDIT", of |-> i]]
  /\ spoiled' = spoiled \cup UNION {Touched(req[s]) : s \in AtWork({n})}
  /\ UNCHANGED <<type, objects, users, req, abandoned>>

LEMMA AtMostOne ==
  ASSUME NEW S, IsFiniteSet(S), ~(Cardinality(S) > 1), NEW x \in S, NEW y \in S PROVE x = y
<1> SUFFICES ASSUME x # y PROVE FALSE
  OBVIOUS
<1>1. IsFiniteSet({x}) /\ Cardinality({x}) = 1
  BY FS_Singleton
<1>2. Cardinality({x} \cup {y}) = 2
  BY <1>1, FS_AddElement
<1>3. Cardinality({x} \cup {y}) <= Cardinality(S)
  BY FS_Subset
<1>4. Cardinality(S) \in Nat
  BY FS_CardinalityType
<1> QED BY <1>2, <1>3, <1>4

LEMMA ReferringFacts ==
  ASSUME Typed, NEW op \in Operations, NEW ref \in Referring(op)
  PROVE  /\ op \in {"create", "delete", "rename", "update", "read", "search"}
         /\ ref.refs \in SUBSET Name /\ ref.ids \in SUBSET Nat
         /\ op = "create" => ref.refs = {}
         /\ type = "experiment" \/ op \in {"create", "search"} => ref.ids = {}
         /\ type = "experiment" => op \in {"create", "delete", "update", "search"}
<1>1. op \in {"create", "delete", "rename", "update", "read", "search"}
  BY DEF Operations
<1>2. type = "experiment" => op \in {"create", "delete", "update", "search"}
  BY DEF Operations
<1>3. DOMAIN objects \subseteq Nat
  BY DEF Typed, RowsOK, ReqsOK
<1>4. type # "experiment" => op # "search"
  BY DEF Operations
<1>5. CASE op = "create"
  BY <1>1, <1>2, <1>5 DEF Referring
<1>6. CASE op = "search"
  BY <1>1, <1>2, <1>6 DEF Referring
<1>7. CASE op \notin {"create", "search"} /\ type = "experiment"
  BY <1>1, <1>2, <1>7 DEF Referring, gateway
<1>8. CASE op \notin {"create", "search"} /\ type \notin gateway \cup {"experiment"}
  BY <1>1, <1>8 DEF Referring, Singletons
<1>9. CASE op \notin {"create", "search"} /\ type \in gateway
  <2>1. type # "experiment"
    BY <1>9 DEF gateway
  <2>2. CASE op \in {"rename", "update"} \/ (type = "gateway_endpoint" /\ op = "delete")
    BY <1>1, <1>3, <1>9, <2>1, <2>2 DEF Referring, Singletons
  <2>3. CASE ~(op \in {"rename", "update"} \/ (type = "gateway_endpoint" /\ op = "delete"))
    BY <1>1, <1>3, <1>9, <2>1, <2>3 DEF Referring, Singletons
  <2> QED BY <2>2, <2>3
<1> QED BY <1>5, <1>6, <1>7, <1>8, <1>9

LEMMA NamesAreNames ==
  ASSUME Typed, NEW ids PROVE NamesOf(ids) \in SUBSET Name
BY DEF Typed, RowsOK, ReqsOK, NamesOf

LEMMA StashIsNames ==
  ASSUME Typed, NEW q, q.refs \in SUBSET Name PROVE stash_gateway_context(q) \in SUBSET Name
BY NamesAreNames DEF stash_gateway_context

LEMMA CouldIsIds ==
  ASSUME Typed, NEW q PROVE Could(q) \in SUBSET Nat
BY DEF Typed, RowsOK, ReqsOK, Could

LEMMA RequestPlain ==
  ASSUME Typed, NEW s \in Slot, Request(s) PROVE Plain(s)
<1>1. PICK caller \in User, op \in Operations : \E ref \in Referring(op) :
        \E new \in IF op \in {"create", "rename"} THEN Name ELSE {Nil} : before_request_hook(s, caller, op, ref, new)
  BY DEF Request
<1>2. PICK ref \in Referring(op) :
        \E new \in IF op \in {"create", "rename"} THEN Name ELSE {Nil} : before_request_hook(s, caller, op, ref, new)
  BY <1>1
<1>3. PICK new \in IF op \in {"create", "rename"} THEN Name ELSE {Nil} : before_request_hook(s, caller, op, ref, new)
  BY <1>2
<1> DEFINE q0 == [caller |-> caller, op |-> op, refs |-> ref.refs, ids |-> ref.ids, new |-> new,
             at |-> "validate", stash |-> {}, hit |-> Nil, todo |-> <<>>, could |-> {}, fresh |-> {}]
           q == [q0 EXCEPT !.stash = stash_gateway_context(q0), !.could = Could(q0)]
           n == IF caller \in Admins THEN [q EXCEPT !.at = "mlflow"] ELSE q
<1>4. ~find_dual_spelling_collision(q) /\ (op = "create" => caller \in users) /\ Only(s, n)
  BY <1>3 DEF before_request_hook, requires_existing_user
<1>5. /\ op \in {"create", "delete", "rename", "update", "read", "search"}
      /\ ref.refs \in SUBSET Name /\ ref.ids \in SUBSET Nat
      /\ op = "create" => ref.refs = {}
      /\ type = "experiment" \/ op \in {"create", "search"} => ref.ids = {}
      /\ type = "experiment" => op \in {"create", "delete", "update", "search"}
  BY ReferringFacts
<1>6. q0.refs = ref.refs /\ q0.ids = ref.ids /\ q0.op = op /\ q0.caller = caller
  OBVIOUS
<1>7. stash_gateway_context(q0) \in SUBSET Name /\ (op = "create" => stash_gateway_context(q0) = {})
  <2>1. stash_gateway_context(q0) \in SUBSET Name
    BY <1>5, <1>6, StashIsNames
  <2>2. op = "create" => NamesOf(q0.ids) = {} /\ q0.refs = {}
    BY <1>5, <1>6 DEF NamesOf
  <2> QED BY <2>1, <2>2 DEF stash_gateway_context
<1>8. Could(q0) \in SUBSET Nat
  BY CouldIsIds
<1> DEFINE stash == stash_gateway_context(q0) reach == Could(q0)
<1> HIDE DEF stash, reach
<1>9. new \in Name \cup {Nil} /\ (new = Nil <=> op \notin {"create", "rename"})
  BY LifecycleAssumption
<1>10. /\ n = [caller |-> caller, op |-> op, refs |-> ref.refs, ids |-> ref.ids, new |-> new,
               at |-> IF caller \in Admins THEN "mlflow" ELSE "validate", stash |-> stash,
               hit |-> Nil, todo |-> <<>>, could |-> reach, fresh |-> {}]
       /\ q.op = op /\ q.refs = ref.refs
  BY DEF stash, reach
<1> HIDE DEF q0, q, n
<1>11. /\ n.caller = caller /\ n.op = op /\ n.refs = ref.refs /\ n.ids = ref.ids /\ n.new = new /\ n.todo = <<>>
       /\ n.at = (IF caller \in Admins THEN "mlflow" ELSE "validate") /\ n.stash = stash
  BY <1>10
<1>12. n \in ReqState
  BY <1>5, <1>7, <1>8, <1>9, <1>10 DEF ReqState, stash, reach
<1>13. type = "experiment" /\ op \in {"delete", "update"} => \A a, b \in ref.refs : a = b
  <2>1. op \in {"delete", "update"} => ~(Cardinality(ref.refs) > 1)
    BY <1>4, <1>10 DEF find_dual_spelling_collision
  <2>2. IsFiniteSet(ref.refs)
    BY <1>5, LifecycleAssumption, FS_Subset
  <2> QED BY <2>1, <2>2, AtMostOne
<1>14. Shape(n)
  <2>1. op = "create" => caller \notin Strangers
    BY <1>4 DEF Typed, RowsOK, ReqsOK
  <2> QED BY <1>5, <1>7, <1>9, <1>11, <1>13, <2>1 DEF Shape, stash
<1>15. req'[s] = n /\ req' = [req EXCEPT ![s] = n] /\ Keeps /\ req[s] = Nil
  BY <1>4 DEF Only, Typed, RowsOK, ReqsOK, Keeps, Request
<1> QED BY <1>11, <1>12, <1>14, <1>15 DEF Plain, Acts

LEMMA CheckedTargets ==
  ASSUME Typed, NEW q \in ReqState, Shape(q), Acts(q), NEW ref \in IF q.refs = {} THEN {Nil} ELSE q.refs,
         validator(q, ref)
  PROVE  Targets(q) \subseteq Could(q)
<1> SUFFICES ASSUME NEW i \in Targets(q) PROVE can(q.caller, Capability(q.op), objects[i])
  BY DEF Targets, Could, Acts
<1>1. i \in DOMAIN objects /\ objects[i] # Nil /\ (i \in q.ids \/ objects[i] \in q.refs)
  BY DEF Targets
<1>2. objects[i] \in all_names(q)
  BY <1>1 DEF all_names, NamesOf
<1>3. CASE q.op = "search"
  <2>1. q.ids = {}
    BY <1>3 DEF Shape
  <2>2. \A n \in q.refs : can(q.caller, "read", n)
    BY <1>3 DEF validator
  <2>3. Capability(q.op) = "read"
    BY <1>3 DEF Capability
  <2> QED BY <1>1, <2>1, <2>2, <2>3
<1>4. CASE q.op # "search" /\ type = "experiment"
  <2>1. can(q.caller, Capability(q.op), ref)
    BY <1>4 DEF validator, Acts
  <2>2. q.ids = {} /\ \A m, n \in q.refs : m = n
    BY <1>4 DEF Shape, Acts
  <2> QED BY <1>1, <2>1, <2>2
<1>5. CASE q.op # "search" /\ type # "experiment"
  <2>1. \A n \in all_names(q) : can(q.caller, Capability(q.op), n)
    BY <1>5 DEF validator, Acts
  <2> QED BY <1>2, <2>1
<1> QED BY <1>3, <1>4, <1>5

LEMMA ValidatePlain ==
  ASSUME Typed, NEW s \in Slot, validate(s) PROVE Plain(s)
<1>1. PICK q : q = req[s]
  OBVIOUS
<1>2. q # Nil /\ q \in ReqState /\ Shape(q) /\ q.at = "validate" /\ q.todo = <<>>
  BY <1>1 DEF Typed, RowsOK, ReqsOK, validate, Shape
<1>3. PICK ref \in IF q.refs = {} THEN {Nil} ELSE q.refs :
        Only(s, IF WorkspaceGate(q.caller, q.op) /\ validator(q, ref)
                THEN [q EXCEPT !.at = "mlflow", !.could = @ \cup Could(q)] ELSE Nil)
  BY <1>1 DEF validate
<1>4. CASE WorkspaceGate(q.caller, q.op) /\ validator(q, ref)
  <2>1. PICK n : n = [q EXCEPT !.at = "mlflow", !.could = @ \cup Could(q)]
    OBVIOUS
  <2>2. Could(q) \in SUBSET Nat
    BY CouldIsIds
  <2>3. n \in ReqState /\ n.at = "mlflow" /\ n.could = q.could \cup Could(q)
    BY <1>2, <2>1, <2>2 DEF ReqState
  <2>4. /\ n.caller = q.caller /\ n.op = q.op /\ n.refs = q.refs /\ n.ids = q.ids /\ n.new = q.new
        /\ n.todo = q.todo /\ n.stash = q.stash
    BY <1>2, <2>1 DEF ReqState
  <2>5. Shape(n)
    BY <1>2, <2>3, <2>4 DEF Shape
  <2>6. Acts(n) => Targets(n) \subseteq n.could
    <3>1. Acts(n) => Targets(q) \subseteq Could(q)
      BY <1>2, <1>4, <2>4, CheckedTargets DEF Acts
    <3> QED BY <2>3, <2>4, <3>1 DEF Targets
  <2>7. req' = [req EXCEPT ![s] = n] /\ req'[s] = n /\ Keeps
    BY <1>3, <1>4, <2>1 DEF Only, Typed, RowsOK, ReqsOK, Keeps
  <2> QED BY <1>1, <1>2, <2>3, <2>5, <2>6, <2>7 DEF Plain
<1>5. CASE ~(WorkspaceGate(q.caller, q.op) /\ validator(q, ref))
  BY <1>1, <1>2, <1>3, <1>5 DEF Only, Typed, RowsOK, ReqsOK, Keeps, Plain
<1> QED BY <1>4, <1>5

LEMMA DropPlain ==
  ASSUME Typed, NEW s \in Slot, req[s] # Nil => req[s].todo = <<>>, Only(s, Nil) PROVE Plain(s)
BY DEF Only, Typed, RowsOK, ReqsOK, Keeps, Plain

LEMMA NoCall == ASSUME NEW S, NEW t, t = <<>> PROVE t \in Seq(S) /\ DOMAIN t = {}
<1>1. t \in Seq(S)
  OBVIOUS
<1>2. DOMAIN t = {}
  OBVIOUS
<1> QED BY <1>1, <1>2

LEMMA OneCall == ASSUME NEW S, NEW a \in S, NEW t, t = <<a>> PROVE t \in Seq(S) /\ DOMAIN t = {1} /\ t[1] = a
<1>1. t \in Seq(S)
  OBVIOUS
<1>2. DOMAIN t = {1}
  OBVIOUS
<1>3. t[1] = a
  OBVIOUS
<1> QED BY <1>1, <1>2, <1>3

LEMMA WipeGroupsFirst ==
  ASSUME NEW t, t = <<"wipe_groups", "wipe_users">>
  PROVE  t \in Seq(Call) /\ DOMAIN t = 1 .. 2 /\ t[1] = "wipe_groups" /\ t[2] = "wipe_users"
<1>1. t \in Seq(Call)
  BY DEF Call
<1>2. DOMAIN t = 1 .. 2
  OBVIOUS
<1>3. t[1] = "wipe_groups" /\ t[2] = "wipe_users"
  OBVIOUS
<1> QED BY <1>1, <1>2, <1>3

LEMMA WipeUsersFirst ==
  ASSUME NEW t, t = <<"wipe_users", "wipe_groups">>
  PROVE  t \in Seq(Call) /\ DOMAIN t = 1 .. 2 /\ t[1] = "wipe_users" /\ t[2] = "wipe_groups"
<1>1. t \in Seq(Call)
  BY DEF Call
<1>2. DOMAIN t = 1 .. 2
  OBVIOUS
<1>3. t[1] = "wipe_users" /\ t[2] = "wipe_groups"
  OBVIOUS
<1> QED BY <1>1, <1>2, <1>3

LEMMA RenameBoth ==
  ASSUME NEW t, t = <<"rename_users", "rename_groups">>
  PROVE  t \in Seq(Call) /\ DOMAIN t = 1 .. 2 /\ t[1] = "rename_users" /\ t[2] = "rename_groups"
<1>1. t \in Seq(Call)
  BY DEF Call
<1>2. DOMAIN t = 1 .. 2
  OBVIOUS
<1>3. t[1] = "rename_users" /\ t[2] = "rename_groups"
  OBVIOUS
<1> QED BY <1>1, <1>2, <1>3

LEMMA HandlerCalls ==
  ASSUME Typed, NEW op \in {"create", "delete", "rename", "update", "read", "search"},
         NEW todo, todo = AFTER_REQUEST_PATH_HANDLERS(op)
  PROVE  /\ todo \in Seq(Call) /\ \A i \in DOMAIN todo : todo[i] \in Calls(op)
         /\ op = "create" => todo # <<>>
         /\ todo # <<>> /\ op # "create" =>
              \A h \in Holder : \E i \in DOMAIN todo : h \in Members(todo[i])
         /\ todo = <<>> => op # "create" /\ (Uncascaded(op) \/ type = "experiment" \/ op \notin {"delete", "rename"})
<1>1. CASE op = "create"
  <2>1. todo = <<"grant">>
    BY <1>1 DEF AFTER_REQUEST_PATH_HANDLERS
  <2>9. todo \in Seq(Call) /\ DOMAIN todo = {1} /\ todo[1] = "grant"
    BY <2>1, OneCall DEF Call
  <2> QED BY <1>1, <2>9, NoCall DEF Calls
<1>2. CASE op = "delete" /\ type = "registered_model"
  <2>1. todo = <<"wipe_groups", "wipe_users">>
    BY <1>2 DEF AFTER_REQUEST_PATH_HANDLERS, gateway
  <2>2. todo \in Seq(Call) /\ DOMAIN todo = 1 .. 2 /\ todo[1] = "wipe_groups" /\ todo[2] = "wipe_users"
    BY <2>1, WipeGroupsFirst, Zenon
  <2> QED BY <1>2, <2>2, NoCall DEF Calls, Members, Holder
<1>3. CASE op = "delete" /\ type = "scorer"
  <2>1. todo = <<"wipe_all">>
    BY <1>3 DEF AFTER_REQUEST_PATH_HANDLERS, gateway
  <2>9. todo \in Seq(Call) /\ DOMAIN todo = {1} /\ todo[1] = "wipe_all"
    BY <2>1, OneCall DEF Call
  <2> QED BY <1>3, <2>9, NoCall DEF Calls, Members
<1>4. CASE op = "delete" /\ type \in gateway
  <2>1. todo = <<"wipe_users", "wipe_groups">>
    BY <1>4 DEF AFTER_REQUEST_PATH_HANDLERS, gateway
  <2>2. todo \in Seq(Call) /\ DOMAIN todo = 1 .. 2 /\ todo[1] = "wipe_users" /\ todo[2] = "wipe_groups"
    BY <2>1, WipeUsersFirst, Zenon
  <2> QED BY <1>4, <2>2, NoCall DEF Calls, Members, Holder
<1>5. CASE op = "delete" /\ type \notin gateway \cup {"registered_model", "scorer"}
  <2>1. todo = <<>>
    BY <1>5 DEF AFTER_REQUEST_PATH_HANDLERS
  <2>2. type \in {"experiment", "workspace"}
    BY <1>5, LifecycleAssumption DEF Typed, RowsOK, ReqsOK
  <2>9. todo \in Seq(Call) /\ DOMAIN todo = {}
    BY <2>1, NoCall
  <2> QED BY <1>5, <2>2, <2>9, <2>1 DEF Uncascaded
<1>6. CASE op = "rename" /\ type # "gateway_model_definition"
  <2>1. todo = <<"rename_users", "rename_groups">>
    BY <1>6 DEF AFTER_REQUEST_PATH_HANDLERS
  <2>2. todo \in Seq(Call) /\ DOMAIN todo = 1 .. 2 /\ todo[1] = "rename_users" /\ todo[2] = "rename_groups"
    BY <2>1, RenameBoth, Zenon
  <2> QED BY <1>6, <2>2, NoCall DEF Calls, Members, Holder
<1>7. CASE op = "rename" /\ type = "gateway_model_definition"
  <2>1. todo = <<>>
    BY <1>7 DEF AFTER_REQUEST_PATH_HANDLERS
  <2>9. todo \in Seq(Call) /\ DOMAIN todo = {}
    BY <2>1, NoCall
  <2> QED BY <1>7, <2>9, <2>1 DEF Uncascaded
<1>8. CASE op \notin {"create", "delete", "rename"}
  <2>1. todo = <<>>
    BY <1>8 DEF AFTER_REQUEST_PATH_HANDLERS
  <2>9. todo \in Seq(Call) /\ DOMAIN todo = {}
    BY <2>1, NoCall
  <2> QED BY <1>8, <2>9, <2>1
<1> QED BY <1>1, <1>2, <1>3, <1>4, <1>5, <1>6, <1>7, <1>8

LEMMA CommitRecord ==
  ASSUME Typed, NEW s \in Slot, NEW q, q = req[s], q # Nil, q.at = "mlflow", NEW hit \in Nat, NEW after,
         Commit(s, hit, after), NEW n, n = req'[s]
  PROVE  /\ q.todo = <<>> /\ q \in ReqState
         /\ n \in ReqState /\ n.at = "after" /\ n.todo = AFTER_REQUEST_PATH_HANDLERS(q.op)
         /\ n.caller = q.caller /\ n.op = q.op /\ n.refs = q.refs /\ n.ids = q.ids /\ n.new = q.new
         /\ n.stash = q.stash /\ n.could = q.could /\ n.fresh = q.fresh /\ n.hit = hit
         /\ req' = [t \in Slot |-> IF t = s THEN n ELSE Hears(t, hit)]
         /\ spoiled' = spoiled \cup Spoils(q, hit) /\ objects' = after
         /\ UNCHANGED <<type, rows, users, abandoned>>
<1> DEFINE todo == AFTER_REQUEST_PATH_HANDLERS(q.op)
<1>1. q \in ReqState /\ q.todo = <<>>
  BY DEF Typed, RowsOK, ReqsOK, Shape
<1>2. todo \in Seq(Call)
  BY <1>1, HandlerCalls DEF ReqState
<1> HIDE DEF todo
<1>3. n = [q EXCEPT !.at = "after", !.hit = hit, !.todo = todo]
  BY DEF Commit, todo
<1>4. n \in ReqState /\ n.at = "after" /\ n.todo = todo /\ n.hit = hit
  BY <1>1, <1>2, <1>3 DEF ReqState
<1>5. /\ n.caller = q.caller /\ n.op = q.op /\ n.refs = q.refs /\ n.ids = q.ids /\ n.new = q.new
      /\ n.stash = q.stash /\ n.could = q.could /\ n.fresh = q.fresh
  BY <1>1, <1>3 DEF ReqState
<1>6. req' = [t \in Slot |-> IF t = s THEN n ELSE Hears(t, hit)]
  BY <1>3 DEF Commit, todo, Hears
<1>7. spoiled' = spoiled \cup Spoils(q, hit) /\ objects' = after /\ UNCHANGED <<type, rows, users, abandoned>>
  BY DEF Commit
<1> QED BY <1>1, <1>4, <1>5, <1>6, <1>7 DEF todo

LEMMA MlflowSteps ==
  ASSUME Typed, NEW s \in Slot, mlflow(s) PROVE Plain(s) \/ \E q, n : Commits(s, q, n)
<1>1. PICK q, n : q = req[s] /\ n = req'[s]
  OBVIOUS
<1>2. q # Nil /\ q \in ReqState /\ q.at = "mlflow" /\ q.todo = <<>> /\ Shape(q)
  BY <1>1 DEF Typed, RowsOK, ReqsOK, mlflow, Shape
<1>3. DOMAIN objects \subseteq Nat /\ Len(objects) \in Nat /\ objects \in Seq(Name \cup {Nil})
  BY DEF Typed, RowsOK, ReqsOK
<1>4. Targets(q) \subseteq DOMAIN objects /\ Named(q.new) \subseteq DOMAIN objects
  BY DEF Targets, Named
<1> DEFINE taken == q.op \in {"create", "rename"} /\ Named(q.new) # {}
<1>5. CASE Only(s, Nil)
  BY <1>1, <1>2, <1>5, DropPlain
<1>6. CASE q.op = "create" /\ ~taken /\ Commit(s, Len(objects) + 1, Append(objects, q.new))
  <2>1. Len(objects) + 1 \in Nat
    BY <1>3
  <2>2. Len(objects) + 1 \in DOMAIN Append(objects, q.new)
    BY <1>3
  <2>3. PICK after, i : after = Append(objects, q.new) /\ i = Len(objects) + 1
    OBVIOUS
  <2>4. i \in Nat /\ Commit(s, i, after) /\ i \in DOMAIN after
    BY <1>6, <2>1, <2>2, <2>3
  <2>6. n.hit = i /\ objects' = after
    BY <1>1, <1>2, <2>4, CommitRecord
  <2> QED BY <1>1, <1>2, <1>6, <2>3, <2>4, <2>6, CommitRecord DEF Commits
<1>7. ASSUME q.op = "create", NEW i \in Named(q.new), Commit(s, i, objects) PROVE Commits(s, q, n)
  <2>1. i \in Nat /\ i \in DOMAIN objects
    BY <1>3, <1>4
  <2> QED BY <1>1, <1>2, <1>7, <2>1, CommitRecord DEF Commits
<1>8. ASSUME q.op # "create", ~taken, NEW i \in Targets(q), NEW after,
             after = CASE q.op = "delete" /\ type # "experiment" -> [objects EXCEPT ![i] = Nil]
                       [] q.op = "rename" -> [objects EXCEPT ![i] = q.new]
                       [] OTHER -> objects,
             Commit(s, i, after)
      PROVE  Commits(s, q, n)
  <2>1. i \in Nat /\ i \in DOMAIN objects
    BY <1>3, <1>4
  <2>2. i \in DOMAIN after
    BY <1>3, <1>8, <2>1
  <2>3. q.op \in {"delete", "rename", "update", "read", "search"}
    BY <1>2, <1>8 DEF ReqState
  <2>7. Commit(s, i, after)
    BY <1>8
  <2>4. CASE q.op = "delete" /\ type # "experiment"
    <3>1. after = [objects EXCEPT ![i] = Nil]
      BY <1>8, <2>4
    <3>3. n.hit = i /\ objects' = after
      BY <1>1, <1>2, <2>1, <2>7, CommitRecord
    <3>4. objects' = [objects EXCEPT ![n.hit] = Nil]
      BY <3>1, <3>3
    <3> QED BY <1>1, <1>2, <1>8, <2>1, <2>2, <2>4, <3>3, <3>4, CommitRecord DEF Commits
  <2>5. CASE q.op = "rename"
    <3>1. after = [objects EXCEPT ![i] = q.new]
      BY <1>8, <2>5
    <3>3. n.hit = i /\ objects' = after
      BY <1>1, <1>2, <2>1, <2>7, CommitRecord
    <3>4. objects' = [objects EXCEPT ![n.hit] = q.new]
      BY <3>1, <3>3
    <3> QED BY <1>1, <1>2, <1>8, <2>1, <2>2, <2>5, <3>3, <3>4, CommitRecord DEF Commits
  <2>6. CASE q.op \in {"delete", "update", "read", "search"} /\ (q.op = "delete" => type = "experiment")
    <3>1. after = objects
      BY <1>8, <2>6
    <3> QED BY <1>1, <1>2, <1>8, <2>1, <2>2, <2>6, <3>1, CommitRecord DEF Commits
  <2> QED BY <2>3, <2>4, <2>5, <2>6
<1> QED BY <1>1, <1>5, <1>6, <1>7, <1>8 DEF mlflow

LEMMA TailFacts ==
  ASSUME NEW S, NEW t \in Seq(S), t # <<>>
  PROVE  /\ Tail(t) \in Seq(S) /\ DOMAIN Tail(t) \subseteq DOMAIN t
         /\ \A i \in DOMAIN Tail(t) : i + 1 \in DOMAIN t /\ Tail(t)[i] = t[i + 1]
         /\ \A i \in DOMAIN t : i = 1 \/ (i - 1 \in DOMAIN Tail(t) /\ Tail(t)[i - 1] = t[i])
         /\ Head(t) = t[1]
<1>1. Tail(t) \in Seq(S) /\ Len(t) \in Nat /\ Len(t) > 0 /\ Len(Tail(t)) = Len(t) - 1
  OBVIOUS
<1>2. DOMAIN Tail(t) = 1 .. Len(t) - 1 /\ DOMAIN t = 1 .. Len(t)
  BY <1>1
<1>3. \A i \in DOMAIN Tail(t) : Tail(t)[i] = t[i + 1]
  BY <1>1, <1>2
<1>4. Head(t) = t[1]
  OBVIOUS
<1> QED BY <1>1, <1>2, <1>3, <1>4

LEMMA HandlesRecord ==
  ASSUME Typed, NEW s \in Slot, NEW left, Handles(s, left), NEW q, q = req[s], NEW n, n = req'[s]
  PROVE  /\ q \in ReqState /\ q # Nil /\ q.todo # <<>> /\ Shape(q) /\ q.hit \in DOMAIN objects
         /\ n \in ReqState /\ n.todo = left /\ n.at = "after" /\ q.at = "after" /\ Shape(n)
         /\ n.caller = q.caller /\ n.op = q.op /\ n.refs = q.refs /\ n.ids = q.ids /\ n.new = q.new
         /\ n.stash = q.stash /\ n.could = q.could /\ n.fresh = q.fresh /\ n.hit = q.hit
         /\ \A t \in Slot \ {s} : req'[t] = req[t]
         /\ DOMAIN left \subseteq DOMAIN q.todo
<1>1. q \in ReqState /\ q # Nil /\ q.todo # <<>> /\ q.at = "after" /\ Shape(q) /\ q.hit \in DOMAIN objects
  BY DEF Typed, ReqsOK, Handles
<1>2. q.todo \in Seq(Call) /\ q.todo # <<>>
  BY <1>1 DEF ReqState
<1>3. left \in Seq(Call) /\ (left = <<>> \/ \A i \in DOMAIN left : i + 1 \in DOMAIN q.todo /\ left[i] = q.todo[i + 1])
  <2>1. CASE left = <<>>
    BY <2>1, NoCall
  <2>2. CASE left = Tail(q.todo)
    BY <1>2, <2>2, TailFacts
  <2> QED BY <2>1, <2>2 DEF Handles
<1>4. DOMAIN left \subseteq DOMAIN q.todo
  <2>1. CASE left = <<>>
    BY <2>1, NoCall
  <2>2. CASE left = Tail(q.todo)
    BY <1>2, <2>2, TailFacts
  <2> QED BY <2>1, <2>2 DEF Handles
<1>5. n = [q EXCEPT !.todo = left] /\ \A t \in Slot \ {s} : req'[t] = req[t]
  BY DEF Handles, Typed, ReqsOK
<1>6. n \in ReqState /\ n.todo = left /\ n.at = "after"
  BY <1>1, <1>3, <1>5 DEF ReqState
<1>7. /\ n.caller = q.caller /\ n.op = q.op /\ n.refs = q.refs /\ n.ids = q.ids /\ n.new = q.new
      /\ n.stash = q.stash /\ n.could = q.could /\ n.fresh = q.fresh /\ n.hit = q.hit
  BY <1>1, <1>5 DEF ReqState
<1>8. \A i \in DOMAIN left : left[i] \in Calls(q.op)
  BY <1>1, <1>3 DEF Shape
<1>9. Shape(n)
  BY <1>1, <1>6, <1>7, <1>8 DEF Shape
<1> QED BY <1>1, <1>4, <1>5, <1>6, <1>7, <1>9

LEMMA ActingOp ==
  ASSUME Typed, NEW s \in Slot, NEW step, Acting(s, step), NEW q, q = req[s]
  PROVE  /\ q # Nil /\ q \in ReqState /\ Shape(q) /\ q.at = "after" /\ q.todo # <<>> /\ Head(q.todo) = step
         /\ q.hit \in DOMAIN objects /\ step \in Calls(q.op)
<1>1. q # Nil /\ q \in ReqState /\ Shape(q) /\ q.at = "after" /\ q.todo # <<>> /\ Head(q.todo) = step /\ q.hit \in DOMAIN objects
  BY DEF Acting, Typed, ReqsOK
<1>2. q.todo \in Seq(Call)
  BY <1>1 DEF ReqState
<1>3. 1 \in DOMAIN q.todo /\ q.todo[1] = step
  BY <1>1, <1>2, TailFacts
<1> QED BY <1>1, <1>3 DEF Shape

LEMMA GrantSteps ==
  ASSUME Typed, NEW s \in Slot, grant_permission(s) PROVE \E q : Granted(s, q)
<1>1. PICK q : q = req[s]
  OBVIOUS
<1>2. /\ q # Nil /\ q \in ReqState /\ Shape(q) /\ q.at = "after" /\ q.todo # <<>>
      /\ q.hit \in DOMAIN objects /\ "grant" \in Calls(q.op)
  BY <1>1, ActingOp DEF grant_permission
<1>3. q.op = "create" /\ q.caller \notin Strangers
  <2>1. q.op = "create"
    BY <1>2 DEF Calls, ReqState
  <2> QED BY <1>2, <2>1 DEF Shape
<1>4. UNCHANGED <<type, objects, users, spoiled>>
  BY DEF grant_permission
<1>5. CASE /\ q.caller \in users /\ rows[<<q.caller, q.new>>] = Nil /\ abandoned' = abandoned
           /\ rows' = [rows EXCEPT ![<<q.caller, q.new>>] = [level |-> "MANAGE", of |-> q.hit]]
           /\ Advance(s)
  <2>1. Handles(s, Tail(q.todo))
    BY <1>1, <1>2, <1>4, <1>5 DEF Advance, Handles
  <2> QED BY <1>1, <1>3, <1>4, <1>5, <2>1 DEF Granted
<1>6. CASE /\ ~(q.caller \in users /\ rows[<<q.caller, q.new>>] = Nil) /\ Give_up(s) /\ UNCHANGED rows
           /\ abandoned' = IF q.caller \in users \cup Strangers THEN abandoned ELSE abandoned \cup {q.hit}
  <2>1. Handles(s, <<>>)
    BY <1>1, <1>2, <1>4, <1>6 DEF Give_up, Handles
  <2> QED BY <1>1, <1>3, <1>4, <1>6, <2>1 DEF Granted
<1> QED BY <1>1, <1>5, <1>6 DEF grant_permission

LEMMA WipeSteps ==
  ASSUME Typed, NEW s \in Slot, wipe(s) PROVE \E q, step : Wiped(s, q, step)
<1>1. PICK step \in {"wipe_users", "wipe_groups", "wipe_all"} :
       /\ Acting(s, step)
       /\ rows' = [k \in Holder \X Name |-> IF k[1] \in Members(step) /\ k[2] \in req[s].stash THEN Nil ELSE rows[k]]
  BY DEF wipe
<1>2. PICK q : q = req[s]
  OBVIOUS
<1>3. q # Nil /\ q \in ReqState /\ q.at = "after" /\ q.todo # <<>> /\ Head(q.todo) = step /\ step \in Calls(q.op)
  BY <1>1, <1>2, ActingOp
<1>4. q.op = "delete"
  BY <1>1, <1>3 DEF Calls, ReqState
<1>5. Handles(s, Tail(q.todo)) /\ UNCHANGED <<spoiled, abandoned>>
  BY <1>2, <1>3 DEF wipe, Advance, Handles
<1>6. rows' \in Entry
  BY <1>1 DEF Entry, Typed, RowsOK
<1>7. \A h \in Holder, n \in Name :
        rows'[<<h, n>>] = IF h \in Members(step) /\ n \in q.stash THEN Nil ELSE rows[<<h, n>>]
  BY <1>1, <1>2
<1> QED BY <1>2, <1>3, <1>4, <1>5, <1>6, <1>7 DEF Wiped

LEMMA RenameSteps ==
  ASSUME Typed, NEW s \in Slot, rename(s) PROVE (\E q, step, held : Moved(s, q, step, held)) \/ (\E q : GaveUp(s, q))
<1>1. PICK q : q = req[s]
  OBVIOUS
<1>a. PICK step \in {"rename_users", "rename_groups"} :
       /\ Acting(s, step)
       /\ LET held == {h \in Members(step) : \E old \in q.stash : rows[<<h, old>>] # Nil}
          IN  IF \/ type = "registered_model" /\ held = {}
                 \/ q.new \notin q.stash /\ \E h \in held : rows[<<h, q.new>>] # Nil
              THEN /\ Give_up(s) /\ UNCHANGED rows
                   /\ spoiled' = IF Stray(q, rows) THEN spoiled \cup Touched(q) ELSE spoiled
              ELSE Advance(s) /\ rows' = Renamed(q, held) /\ UNCHANGED spoiled
  BY <1>1 DEF rename
<1>b. PICK held : held = {h \in Members(step) : \E old \in q.stash : rows[<<h, old>>] # Nil}
  OBVIOUS
<1>2. /\ Acting(s, step)
      /\ IF \/ type = "registered_model" /\ held = {}
            \/ q.new \notin q.stash /\ \E h \in held : rows[<<h, q.new>>] # Nil
         THEN /\ Give_up(s) /\ UNCHANGED rows
              /\ spoiled' = IF Stray(q, rows) THEN spoiled \cup Touched(q) ELSE spoiled
         ELSE Advance(s) /\ rows' = Renamed(q, held) /\ UNCHANGED spoiled
  BY <1>a, <1>b
<1>3. q # Nil /\ q \in ReqState /\ q.at = "after" /\ q.todo # <<>> /\ Head(q.todo) = step /\ step \in Calls(q.op)
  BY <1>1, <1>2, ActingOp
<1>4. q.op = "rename"
  BY <1>a, <1>3 DEF Calls, ReqState
<1>5. UNCHANGED <<type, objects, users, abandoned>>
  BY DEF rename
<1>6. CASE /\ Give_up(s) /\ UNCHANGED rows
           /\ spoiled' = IF Stray(q, rows) THEN spoiled \cup Touched(q) ELSE spoiled
  <2>1. Handles(s, <<>>)
    BY <1>1, <1>3, <1>5, <1>6 DEF Give_up, Handles
  <2> QED BY <1>1, <1>4, <1>5, <1>6, <2>1 DEF GaveUp
<1>7. CASE /\ Advance(s) /\ UNCHANGED spoiled /\ rows' = Renamed(q, held)
           /\ q.new \in q.stash \/ \A h \in held : rows[<<h, q.new>>] = Nil
  <2>1. Handles(s, Tail(q.todo))
    BY <1>1, <1>3, <1>5, <1>7 DEF Advance, Handles
  <2>2. held \subseteq Holder /\ q.stash \subseteq Name
    BY <1>a, <1>b, <1>3 DEF ReqState, Members, Holder
  <2>3. \A h \in held : Held(q, h) \in q.stash /\ rows[<<h, Held(q, h)>>] # Nil
    BY <1>b DEF Held
  <2>4. \A h \in Holder, n \in Name :
          rows'[<<h, n>>] = IF h \in held /\ n = q.new THEN rows[<<h, Held(q, h)>>]
                            ELSE IF h \in held /\ n \in q.stash THEN Nil ELSE rows[<<h, n>>]
    BY <1>7 DEF Renamed
  <2>5. rows' \in Entry
    <3>1. \A h \in held : rows[<<h, Held(q, h)>>] \in Row \cup {Nil}
      BY <2>2, <2>3 DEF Typed, RowsOK
    <3> QED BY <1>7, <3>1 DEF Renamed, Entry, Typed, RowsOK
  <2>6. \A h \in Holder, n \in Name :
       \/ h \in held /\ n = q.new /\ \E old \in q.stash : rows[<<h, old>>] # Nil /\ rows'[<<h, n>>] = rows[<<h, old>>]
       \/ h \in held /\ n # q.new /\ n \in q.stash /\ rows'[<<h, n>>] = Nil
       \/ (h \notin held \/ n \notin q.stash \cup {q.new}) /\ rows'[<<h, n>>] = rows[<<h, n>>]
    BY <2>3, <2>4
  <2>7. Moved(s, q, step, held)
    BY <1>1, <1>b, <1>3, <1>4, <1>5, <1>7, <2>1, <2>5, <2>6 DEF Moved
  <2> QED BY <2>7
<1> QED BY <1>2, <1>6, <1>7

LEMMA FaultSteps ==
  ASSUME Typed, NEW s \in Slot, Fault(s) PROVE \E q : GaveUp(s, q)
BY DEF Fault, Give_up, Handles, GaveUp

-----------------------------------------------------------------------------
LEMMA TypedInit == Init => Typed
<1> SUFFICES ASSUME Init PROVE Typed
  OBVIOUS
<1>1. PICK n \in Name, owner \in users, g \in Group \cup {Nil} :
       /\ objects = <<n>>
       /\ rows = [k \in Holder \X Name |->
                    IF k = <<owner, n>> THEN [level |-> "MANAGE", of |-> 1]
                    ELSE IF k = <<g, n>> THEN [level |-> "EDIT", of |-> 1] ELSE Nil]
  BY DEF Init
<1>2. objects \in Seq(Name \cup {Nil}) /\ DOMAIN objects = {1}
  BY <1>1, OneCall
<1>3. [level |-> "MANAGE", of |-> 1] \in Row /\ [level |-> "EDIT", of |-> 1] \in Row
  BY DEF Row, ALL_PERMISSIONS
<1>4. users \subseteq User \ Strangers /\ type \in Types
  BY DEF Init
<1>5. rows \in [Holder \X Name -> Row \cup {Nil}]
  BY <1>1, <1>3
<1>6. ASSUME NEW h \in Holder, NEW m \in Name, rows[<<h, m>>] # Nil
      PROVE  rows[<<h, m>>].of \in DOMAIN objects /\ h \in users \cup Group
  <2>1. <<h, m>> = <<owner, n>> \/ <<h, m>> = <<g, n>>
    BY <1>1, <1>6
  <2>2. h = owner \/ h = g
    BY <2>1
  <2>3. g # Nil => g \in Group
    BY <1>1
  <2>4. h # Nil
    BY LifecycleAssumption DEF Holder
  <2>5. rows[<<h, m>>] \in {[level |-> "MANAGE", of |-> 1], [level |-> "EDIT", of |-> 1]}
    BY <1>1, <1>6
  <2>6. rows[<<h, m>>].of = 1
    BY <2>5
  <2> QED BY <1>1, <1>2, <2>2, <2>3, <2>4, <2>6
<1>7. RowsOK
  BY <1>5, <1>6 DEF RowsOK
<1>8. ReqsOK
  BY DEF Init, ReqsOK
<1> QED BY <1>2, <1>4, <1>7, <1>8 DEF Typed, Injective

LEMMA TypedPlain == ASSUME Typed, NEW s \in Slot, Plain(s) PROVE Typed'
<1>1. UNCHANGED <<type, objects, rows, users>>
  BY DEF Plain, Keeps
<1>2. ASSUME NEW t \in Slot, req'[t] # Nil
      PROVE  Shape(req'[t]) /\ (req'[t].at = "after" => req'[t].hit \in DOMAIN objects)
  BY <1>2 DEF Plain, Typed, ReqsOK
<1>3. req' \in [Slot -> ReqState \cup {Nil}]
  BY DEF Plain, Typed, ReqsOK
<1>4. ReqsOK'
  BY <1>1, <1>2, <1>3 DEF ReqsOK, Shape
<1>5. RowsOK' /\ Injective'
  BY <1>1 DEF Typed, RowsOK, Injective
<1> QED BY <1>1, <1>4, <1>5 DEF Typed

LEMMA TypedHandles ==
  ASSUME Typed, NEW s \in Slot, NEW left, Handles(s, left), RowsOK' PROVE Typed'
<1>1. UNCHANGED <<type, objects, users>>
  BY DEF Handles
<1>2. PICK q, n : q = req[s] /\ n = req'[s]
  OBVIOUS
<1>3. n \in ReqState /\ Shape(n) /\ n.hit \in DOMAIN objects /\ \A t \in Slot \ {s} : req'[t] = req[t]
  BY <1>2, HandlesRecord
<1>4. ASSUME NEW t \in Slot, req'[t] # Nil
      PROVE  Shape(req'[t]) /\ (req'[t].at = "after" => req'[t].hit \in DOMAIN objects)
  BY <1>2, <1>3, <1>4 DEF Typed, ReqsOK
<1>5. req' \in [Slot -> ReqState \cup {Nil}]
  BY <1>2, <1>3 DEF Handles, Typed, ReqsOK
<1>6. ReqsOK'
  BY <1>1, <1>4, <1>5 DEF ReqsOK, Shape
<1> QED BY <1>1, <1>6 DEF Typed, Injective

LEMMA ExceptEntry ==
  ASSUME NEW S, NEW f \in Seq(S), NEW i \in DOMAIN f, NEW v \in S, NEW g, g = [f EXCEPT ![i] = v]
  PROVE  /\ g \in Seq(S) /\ DOMAIN g = DOMAIN f /\ g[i] = v
         /\ \A j \in DOMAIN f \ {i} : g[j] = f[j]
<1>1. Len(f) \in Nat /\ f \in [1 .. Len(f) -> S] /\ DOMAIN f = 1 .. Len(f)
  OBVIOUS
<1>2. g \in [1 .. Len(f) -> S]
  BY <1>1
<1>3. g \in Seq(S)
  BY <1>1, <1>2
<1> QED BY <1>1, <1>2, <1>3

(* A commit, seen from the requests: one goes on, the others hear of it.   *)
LEMMA CommitsOthers ==
  ASSUME Typed, NEW s \in Slot, NEW p, NEW c, Commits(s, p, c), NEW t \in Slot \ {s}, NEW q, q = req[t],
         NEW n, n = req'[t], n # Nil
  PROVE  /\ q # Nil /\ q \in ReqState /\ Shape(q) /\ n \in ReqState /\ Shape(n)
         /\ n.caller = q.caller /\ n.op = q.op /\ n.refs = q.refs /\ n.ids = q.ids /\ n.new = q.new
         /\ n.stash = q.stash /\ n.could = q.could /\ n.at = q.at /\ n.todo = q.todo /\ n.hit = q.hit
         /\ q.fresh \subseteq n.fresh /\ (objects' # objects => c.hit \in n.fresh)
<1>1. PICK hit : hit = c.hit
  OBVIOUS
<1>2. n = (IF q = Nil \/ objects' = objects THEN q ELSE [q EXCEPT !.fresh = @ \cup {hit}]) /\ hit \in Nat
  <2>1. n = Hears(t, hit) /\ hit \in Nat
    BY <1>1 DEF Commits
  <2> QED BY <2>1 DEF Hears
<1>3. q # Nil /\ q \in ReqState /\ Shape(q)
  BY <1>2 DEF Typed, ReqsOK
<1>4. /\ n.caller = q.caller /\ n.op = q.op /\ n.refs = q.refs /\ n.ids = q.ids /\ n.new = q.new
      /\ n.stash = q.stash /\ n.could = q.could /\ n.at = q.at /\ n.todo = q.todo /\ n.hit = q.hit
  BY <1>2, <1>3 DEF ReqState
<1>5. n \in ReqState /\ q.fresh \subseteq n.fresh /\ (objects' # objects => hit \in n.fresh)
  <2>1. CASE objects' = objects
    BY <1>2, <1>3, <2>1
  <2>2. CASE objects' # objects
    <3>1. n = [q EXCEPT !.fresh = q.fresh \cup {hit}] /\ q.fresh \cup {hit} \in SUBSET Nat
      BY <1>2, <1>3, <2>2 DEF ReqState
    <3> QED BY <1>3, <2>2, <3>1 DEF ReqState
  <2> QED BY <2>1, <2>2
<1>6. Shape(n)
  BY <1>3, <1>4 DEF Shape
<1> QED BY <1>1, <1>3, <1>4, <1>5, <1>6

LEMMA CommitsOwn ==
  ASSUME Typed, NEW s \in Slot, NEW q, NEW n, Commits(s, q, n)
  PROVE  q \in ReqState /\ Shape(q) /\ n \in ReqState /\ Shape(n)
<1>1. /\ q \in ReqState /\ Shape(q) /\ n \in ReqState /\ n.at = "after" /\ n.todo = AFTER_REQUEST_PATH_HANDLERS(q.op)
      /\ n.caller = q.caller /\ n.op = q.op /\ n.refs = q.refs /\ n.ids = q.ids /\ n.new = q.new
      /\ n.stash = q.stash
  BY DEF Commits, Typed, ReqsOK
<1>2. \A i \in DOMAIN n.todo : n.todo[i] \in Calls(q.op)
  BY <1>1, HandlerCalls DEF ReqState
<1>3. Shape(n)
  BY <1>1, <1>2 DEF Shape
<1> QED BY <1>1, <1>3

(* The resources grow in number, and only the one acted on has its name    *)
(* changed.                                                                *)
LEMMA CommitsObjects ==
  ASSUME Typed, NEW s \in Slot, NEW q, NEW c, Commits(s, q, c), NEW hit, hit = c.hit
  PROVE  /\ objects' \in Seq(Name \cup {Nil}) /\ Injective'
         /\ DOMAIN objects \subseteq DOMAIN objects' /\ DOMAIN objects' \subseteq DOMAIN objects \cup {hit}
         /\ \A i \in DOMAIN objects \ {hit} : objects'[i] = objects[i]
         /\ objects' # objects => objects'[hit] \in {q.new, Nil} /\ (objects'[hit] = q.new \/ q.op = "delete")
         /\ hit \in DOMAIN objects'
         /\ q.op # "create" => hit \in Targets(q)
         /\ q.op = "create" => hit \notin DOMAIN objects \/ objects[hit] = q.new
<1>1. q \in ReqState /\ Shape(q) /\ objects \in Seq(Name \cup {Nil}) /\ Injective /\ q.new \in Name \cup {Nil}
  BY DEF Typed, ReqsOK, Commits, ReqState
<1>2. Len(objects) \in Nat /\ DOMAIN objects = 1 .. Len(objects)
  BY <1>1
<1>3. CASE q.op = "create" /\ Named(q.new) = {} /\ hit = Len(objects) + 1 /\ objects' = Append(objects, q.new)
  <2>1. objects' \in Seq(Name \cup {Nil}) /\ DOMAIN objects' = 1 .. Len(objects) + 1
    BY <1>1, <1>2, <1>3
  <2>2. \A i \in DOMAIN objects : objects'[i] = objects[i]
    BY <1>1, <1>2, <1>3
  <2>3. objects'[hit] = q.new
    BY <1>1, <1>2, <1>3
  <2>4. \A i \in DOMAIN objects : objects[i] # q.new
    BY <1>3 DEF Named
  <2>5. Injective'
    BY <1>1, <1>2, <1>3, <2>1, <2>2, <2>3, <2>4 DEF Injective
  <2> QED BY <1>2, <1>3, <2>1, <2>2, <2>3, <2>5
<1>4. CASE q.op = "create" /\ hit \in Named(q.new) /\ objects' = objects
  BY <1>1, <1>4 DEF Named, Injective
<1>5. CASE q.op = "delete" /\ hit \in Targets(q) /\ objects' = [objects EXCEPT ![hit] = Nil]
  <2>1. hit \in DOMAIN objects
    BY <1>5 DEF Targets
  <2>a. PICK S, f, g : S = Name \cup {Nil} /\ f = objects /\ g = objects'
    OBVIOUS
  <2>b. f \in Seq(S) /\ hit \in DOMAIN f /\ Nil \in S /\ g = [f EXCEPT ![hit] = Nil]
    BY <1>1, <1>5, <2>1, <2>a
  <2>c. g \in Seq(S) /\ DOMAIN g = DOMAIN f /\ g[hit] = Nil /\ \A j \in DOMAIN f \ {hit} : g[j] = f[j]
    BY <2>b, ExceptEntry
  <2>2. objects' \in Seq(Name \cup {Nil}) /\ DOMAIN objects' = DOMAIN objects
    BY <2>a, <2>c
  <2>3. objects'[hit] = Nil /\ \A i \in DOMAIN objects \ {hit} : objects'[i] = objects[i]
    BY <2>a, <2>c
  <2>4. Injective'
    BY <1>1, <2>2, <2>3 DEF Injective
  <2> QED BY <1>5, <2>1, <2>2, <2>3, <2>4
<1>6. CASE q.op = "rename" /\ Named(q.new) = {} /\ hit \in Targets(q) /\ objects' = [objects EXCEPT ![hit] = q.new]
  <2>1. hit \in DOMAIN objects
    BY <1>6 DEF Targets
  <2>a. PICK S, f, g : S = Name \cup {Nil} /\ f = objects /\ g = objects'
    OBVIOUS
  <2>b. f \in Seq(S) /\ hit \in DOMAIN f /\ q.new \in S /\ g = [f EXCEPT ![hit] = q.new]
    BY <1>1, <1>6, <2>1, <2>a
  <2>c. g \in Seq(S) /\ DOMAIN g = DOMAIN f /\ g[hit] = q.new /\ \A j \in DOMAIN f \ {hit} : g[j] = f[j]
    BY <2>b, ExceptEntry
  <2>2. objects' \in Seq(Name \cup {Nil}) /\ DOMAIN objects' = DOMAIN objects
    BY <2>a, <2>c
  <2>3. objects'[hit] = q.new /\ \A i \in DOMAIN objects \ {hit} : objects'[i] = objects[i]
    BY <2>a, <2>c
  <2>4. \A i \in DOMAIN objects : objects[i] # q.new
    BY <1>6 DEF Named
  <2>5. Injective'
    BY <1>1, <2>2, <2>3, <2>4 DEF Injective
  <2> QED BY <1>6, <2>1, <2>2, <2>3, <2>5
<1>7. CASE q.op \in {"delete", "update", "read", "search"} /\ hit \in Targets(q) /\ objects' = objects
  BY <1>1, <1>7 DEF Targets, Injective
<1> QED BY <1>3, <1>4, <1>5, <1>6, <1>7 DEF Commits

LEMMA TypedCommits == ASSUME Typed, NEW s \in Slot, NEW q, NEW c, Commits(s, q, c) PROVE Typed'
<1>1. PICK hit : hit = c.hit
  OBVIOUS
<1>2. UNCHANGED <<type, rows, users>>
  BY DEF Commits
<1>3. /\ objects' \in Seq(Name \cup {Nil}) /\ Injective' /\ DOMAIN objects \subseteq DOMAIN objects'
      /\ hit \in DOMAIN objects'
  BY <1>1, CommitsObjects
<1>4. RowsOK'
  BY <1>2, <1>3 DEF Typed, RowsOK
<1>5. ASSUME NEW t \in Slot, req'[t] # Nil
      PROVE  req'[t] \in ReqState /\ Shape(req'[t]) /\ (req'[t].at = "after" => req'[t].hit \in DOMAIN objects')
  <2>1. PICK p, n : p = req[t] /\ n = req'[t] /\ n # Nil
    BY <1>5
  <2>2. CASE t # s
    <3>1. p # Nil /\ n \in ReqState /\ Shape(n) /\ n.at = p.at /\ n.hit = p.hit
      BY <2>1, <2>2, CommitsOthers
    <3> QED BY <1>3, <2>1, <3>1 DEF Typed, ReqsOK
  <2>3. CASE t = s
    <3>1. n = c
      BY <2>1, <2>3 DEF Commits
    <3> QED BY <1>1, <1>3, <2>1, <3>1, CommitsOwn
  <2> QED BY <2>2, <2>3
<1>6. req' \in [Slot -> ReqState \cup {Nil}]
  <2>1. req' = [t \in Slot |-> IF t = s THEN c ELSE Hears(t, hit)]
    BY <1>1 DEF Commits
  <2> QED BY <1>5, <2>1
<1>7. ReqsOK'
  BY <1>2, <1>5, <1>6 DEF ReqsOK, Shape
<1> QED BY <1>2, <1>3, <1>4, <1>7 DEF Typed

LEMMA EraseSteps == ASSUME Typed, NEW u \in User, DeleteUser(u) PROVE Erased(u)
<1>1. rows' = [k \in Holder \X Name |-> IF k[1] = u THEN Nil ELSE rows[k]]
  BY DEF DeleteUser
<1>2. rows' \in Entry
  BY <1>1 DEF Entry, Typed, RowsOK
<1>3. \A h \in Holder, n \in Name : rows'[<<h, n>>] = IF h = u THEN Nil ELSE rows[<<h, n>>]
  BY <1>1
<1> QED BY <1>2, <1>3 DEF DeleteUser, Erased

LEMMA ShareSteps == ASSUME Typed, NEW h \in Holder, NEW n \in Name, Share(h, n) PROVE \E i : Shared(h, n, i)
BY DEF Share, Shared

(* Every step is of one of these kinds. *)
LEMMA StepKinds ==
  ASSUME Typed, Next
  PROVE  \/ \E s \in Slot : \/ Plain(s) \/ (\E q, n : Commits(s, q, n)) \/ (\E q : Granted(s, q))
                            \/ (\E q, step : Wiped(s, q, step)) \/ (\E q, step, held : Moved(s, q, step, held))
                            \/ \E q : GaveUp(s, q)
         \/ \E u \in User : Erased(u)
         \/ \E h \in Holder, n \in Name, i \in Nat : Shared(h, n, i)
<1>1. ASSUME NEW s \in Slot, Answer(s) PROVE Plain(s)
  BY <1>1, DropPlain DEF Answer
<1>2. ASSUME NEW h \in Holder, NEW n \in Name, Share(h, n) PROVE \E i \in Nat : Shared(h, n, i)
  <2>1. PICK i : Shared(h, n, i)
    BY <1>2, ShareSteps
  <2>2. i \in Nat
    BY <2>1 DEF Shared, Named, Typed
  <2> QED BY <2>1, <2>2
<1> QED BY <1>1, <1>2, RequestPlain, ValidatePlain, MlflowSteps, GrantSteps, WipeSteps, RenameSteps, FaultSteps, EraseSteps
        DEF Next

LEMMA ManageRow == ASSUME NEW i \in Nat PROVE [level |-> "MANAGE", of |-> i] \in Row /\ [level |-> "EDIT", of |-> i] \in Row
BY DEF Row, ALL_PERMISSIONS

LEMMA RowIsThere == ASSUME NEW r \in Row PROVE r # Nil
BY LifecycleAssumption DEF Row

LEMMA OneRow ==
  ASSUME Typed, NEW h \in Holder, NEW n \in Name, NEW r \in Row, rows' = [rows EXCEPT ![<<h, n>>] = r]
  PROVE  /\ rows' \in Entry /\ rows'[<<h, n>>] = r
         /\ \A g \in Holder, m \in Name : g # h \/ m # n => rows'[<<g, m>>] = rows[<<g, m>>]
<1>1. rows \in [Holder \X Name -> Row \cup {Nil}] /\ <<h, n>> \in Holder \X Name
  BY DEF Typed, RowsOK
<1>2. rows' \in [Holder \X Name -> Row \cup {Nil}] /\ rows'[<<h, n>>] = r
  BY <1>1
<1>3. ASSUME NEW g \in Holder, NEW m \in Name, g # h \/ m # n PROVE rows'[<<g, m>>] = rows[<<g, m>>]
  <2>1. <<g, m>> # <<h, n>> /\ <<g, m>> \in Holder \X Name
    BY <1>3
  <2> QED BY <1>1, <2>1
<1> QED BY <1>2, <1>3 DEF Entry

LEMMA TypedNext == Typed /\ [Next]_vars => Typed'
<1> SUFFICES ASSUME Typed, [Next]_vars PROVE Typed'
  OBVIOUS
<1>1. ASSUME NEW s \in Slot, NEW q, Granted(s, q) PROVE Typed'
  <2>1. PICK left : Handles(s, left)
    BY <1>1 DEF Granted
  <2>2. UNCHANGED <<objects, users>>
    BY <2>1 DEF Handles
  <2>3. CASE rows' = rows
    <3>1. RowsOK'
      BY <2>2, <2>3 DEF Typed, RowsOK
    <3> QED BY <2>1, <3>1, TypedHandles
  <2>4. CASE /\ q.caller \in users
             /\ rows' = [rows EXCEPT ![<<q.caller, q.new>>] = [level |-> "MANAGE", of |-> q.hit]]
    <3>1. PICK n : n = req'[s]
      OBVIOUS
    <3>2. q \in ReqState /\ q # Nil /\ Shape(q) /\ q.hit \in DOMAIN objects /\ q.op = "create"
      BY <1>1, <2>1, <3>1, HandlesRecord DEF Granted
    <3>3. PICK u, m, r : u = q.caller /\ m = q.new /\ r = [level |-> "MANAGE", of |-> q.hit]
      OBVIOUS
    <3>4. u \in Holder /\ m \in Name /\ u \in users /\ q.hit \in Nat
      BY <2>4, <3>2, <3>3 DEF Typed, ReqState, Shape, Holder
    <3>5. r \in Row /\ r.of = q.hit
      BY <3>3, <3>4, ManageRow
    <3>6. rows' \in Entry /\ rows'[<<u, m>>] = r /\ \A g \in Holder, k \in Name : g # u \/ k # m => rows'[<<g, k>>] = rows[<<g, k>>]
      BY <2>4, <3>3, <3>4, <3>5, OneRow
    <3>7. RowsOK'
      BY <2>2, <3>2, <3>4, <3>5, <3>6 DEF Typed, RowsOK, Entry
    <3> QED BY <2>1, <3>7, TypedHandles
  <2> QED BY <1>1, <2>3, <2>4 DEF Granted
<1>2. ASSUME NEW s \in Slot, NEW q, NEW step, Wiped(s, q, step) PROVE Typed'
  <2>0. UNCHANGED <<objects, users>> /\ rows' \in Entry
    BY <1>2 DEF Wiped, Handles
  <2>1. RowsOK'
    BY <1>2, <2>0 DEF Wiped, Typed, RowsOK, Entry
  <2> QED BY <1>2, <2>1, TypedHandles DEF Wiped
<1>3. ASSUME NEW s \in Slot, NEW q, NEW step, NEW held, Moved(s, q, step, held) PROVE Typed'
  <2>1. PICK n : n = req'[s]
    OBVIOUS
  <2>2. q.stash \subseteq Name /\ UNCHANGED <<objects, users>>
    <3>1. q \in ReqState
      BY <1>3, <2>1, HandlesRecord DEF Moved
    <3> QED BY <1>3, <3>1 DEF Moved, Handles, ReqState
  <2>3. ASSUME NEW h \in Holder, NEW m \in Name, rows'[<<h, m>>] # Nil
        PROVE  \E k \in Name : rows[<<h, k>>] # Nil /\ rows'[<<h, m>>] = rows[<<h, k>>]
    BY <1>3, <2>2, <2>3 DEF Moved
  <2>4. RowsOK'
    <3>1. rows' \in Entry
      BY <1>3 DEF Moved
    <3> QED BY <2>2, <2>3, <3>1 DEF Typed, RowsOK, Entry
  <2> QED BY <1>3, <2>4, TypedHandles DEF Moved
<1>4. ASSUME NEW s \in Slot, NEW q, GaveUp(s, q) PROVE Typed'
  <2>1. RowsOK'
    BY <1>4 DEF GaveUp, Typed, RowsOK, Handles
  <2> QED BY <1>4, <2>1, TypedHandles DEF GaveUp
<1>5. ASSUME NEW u \in User, Erased(u) PROVE Typed'
  <2>0. objects' = objects /\ users' = users \ {u} /\ rows' \in Entry
    BY <1>5 DEF Erased
  <2>3. ASSUME NEW h \in Holder, NEW n \in Name, rows'[<<h, n>>] # Nil PROVE h # u /\ rows'[<<h, n>>] = rows[<<h, n>>]
    BY <1>5, <2>3 DEF Erased
  <2>1. RowsOK'
    BY <2>0, <2>3 DEF Typed, RowsOK, Entry
  <2>2. ReqsOK'
    BY <1>5 DEF Erased, Typed, ReqsOK, Shape
  <2> QED BY <1>5, <2>1, <2>2 DEF Erased, Typed, Injective
<1>6. ASSUME NEW h \in Holder, NEW n \in Name, NEW i \in Nat, Shared(h, n, i) PROVE Typed'
  <2>1. PICK r : r = [level |-> "EDIT", of |-> i]
    OBVIOUS
  <2>2. r \in Row /\ r.of = i /\ i \in DOMAIN objects
    BY <1>6, <2>1, ManageRow DEF Shared, Named
  <2>3. rows' \in Entry /\ rows'[<<h, n>>] = r /\ \A g \in Holder, k \in Name : g # h \/ k # n => rows'[<<g, k>>] = rows[<<g, k>>]
    <3>1. rows' = [rows EXCEPT ![<<h, n>>] = r]
      BY <1>6, <2>1 DEF Shared
    <3> QED BY <2>2, <3>1, OneRow
  <2>4. RowsOK'
    BY <1>6, <2>2, <2>3 DEF Shared, Typed, RowsOK, Entry
  <2>5. ReqsOK'
    BY <1>6 DEF Shared, Typed, ReqsOK, Shape
  <2> QED BY <1>6, <2>4, <2>5 DEF Shared, Typed, Injective
<1>7. CASE UNCHANGED vars
  BY <1>7 DEF vars, Typed, RowsOK, ReqsOK, Injective, Shape
<1> QED BY <1>1, <1>2, <1>3, <1>4, <1>5, <1>6, <1>7, StepKinds, TypedPlain, TypedCommits

(* hooks/after_request.py, sqlalchemy_store.py: for any users, names and   *)
(* requests at once, no row is left of a user the users table does not     *)
(* know, every row was granted for a resource that was made, and no two    *)
(* resources bear one name.                                                *)
THEOREM RowsAreOfKnownUsers == Spec => []TypeOK
<1>1. Typed => TypeOK
  <2> SUFFICES ASSUME Typed PROVE TypeOK
    OBVIOUS
  <2>1. ASSUME NEW k \in Holder \X Name, rows[k] # Nil PROVE rows[k].of \in DOMAIN objects /\ k[1] \in users \cup Group
    <3>1. k = <<k[1], k[2]>> /\ k[1] \in Holder /\ k[2] \in Name
      OBVIOUS
    <3> QED BY <2>1, <3>1 DEF Typed, RowsOK
  <2>2. ASSUME NEW n \in Name PROVE Cardinality(Named(n)) <= 1
    <3>1. n # Nil
      BY LifecycleAssumption
    <3>2. \A i, j \in Named(n) : i = j
      BY <3>1 DEF Named, Typed, Injective
    <3>3. CASE Named(n) = {}
      BY <3>3, FS_EmptySet
    <3>4. ASSUME NEW i \in Named(n) PROVE Cardinality(Named(n)) <= 1
      <4>1. Named(n) = {i}
        BY <3>2, <3>4
      <4> QED BY <4>1, FS_Singleton
    <3> QED BY <3>3, <3>4
  <2> QED BY <2>1, <2>2 DEF TypeOK
<1> QED BY <1>1, TypedInit, TypedNext, PTL DEF Spec

-----------------------------------------------------------------------------
ActsInv ==
  \A s \in Slot : req[s] # Nil /\ Acts(req[s]) =>
    /\ req[s].at = "mlflow" => Targets(req[s]) \subseteq req[s].could \cup req[s].fresh
    /\ req[s].at = "after" => req[s].hit \in req[s].could \cup req[s].fresh

LEMMA ActsHandles == ASSUME Typed, ActsInv, NEW s \in Slot, NEW left, Handles(s, left) PROVE ActsInv'
<1>1. PICK q, n : q = req[s] /\ n = req'[s]
  OBVIOUS
<1>2. /\ q # Nil /\ n.at = "after" /\ q.at = "after" /\ n.op = q.op /\ n.caller = q.caller
      /\ n.could = q.could /\ n.fresh = q.fresh /\ n.hit = q.hit
      /\ \A t \in Slot \ {s} : req'[t] = req[t]
  BY <1>1, HandlesRecord
<1>3. objects' = objects
  BY DEF Handles
<1>4. ASSUME NEW t \in Slot, t # s PROVE req'[t] = req[t]
  BY <1>2, <1>4
<1> QED BY <1>1, <1>2, <1>3, <1>4 DEF ActsInv, Acts, Targets

LEMMA ActsPlain == ASSUME Typed, ActsInv, NEW s \in Slot, Plain(s) PROVE ActsInv'
<1>1. objects' = objects /\ \A t \in Slot : t # s => req'[t] = req[t]
  BY DEF Plain, Keeps, Typed, ReqsOK
<1>2. req'[s] # Nil => req'[s].at # "after" /\ (req'[s].at = "mlflow" /\ Acts(req'[s]) => Targets(req'[s]) \subseteq req'[s].could)
  BY DEF Plain
<1> QED BY <1>1, <1>2 DEF ActsInv, Acts, Targets

LEMMA ActsCommits == ASSUME Typed, ActsInv, NEW s \in Slot, NEW q, NEW c, Commits(s, q, c) PROVE ActsInv'
<1>1. PICK hit : hit = c.hit
  OBVIOUS
<1>2. /\ DOMAIN objects' \subseteq DOMAIN objects \cup {hit}
      /\ \A i \in DOMAIN objects \ {hit} : objects'[i] = objects[i]
      /\ q.op # "create" => hit \in Targets(q)
  BY <1>1, CommitsObjects
<1>3. ASSUME NEW t \in Slot \ {s}, NEW n, n = req'[t], n # Nil, Acts(n)
      PROVE  /\ n.at = "mlflow" => \A i \in DOMAIN objects' :
                  objects'[i] # Nil /\ (i \in n.ids \/ objects'[i] \in n.refs) => i \in n.could \cup n.fresh
             /\ n.at = "after" => n.hit \in n.could \cup n.fresh
  <2>1. PICK p : p = req[t]
    OBVIOUS
  <2>2. /\ p # Nil /\ n.caller = p.caller /\ n.op = p.op /\ n.refs = p.refs /\ n.ids = p.ids
        /\ n.could = p.could /\ n.at = p.at /\ n.hit = p.hit
        /\ p.fresh \subseteq n.fresh /\ (objects' # objects => hit \in n.fresh)
    BY <1>1, <1>3, <2>1, CommitsOthers
  <2>3. /\ p.at = "mlflow" => Targets(p) \subseteq p.could \cup p.fresh
        /\ p.at = "after" => p.hit \in p.could \cup p.fresh
    BY <1>3, <2>1, <2>2 DEF ActsInv, Acts
  <2>4. ASSUME p.at = "mlflow", NEW i \in DOMAIN objects', objects'[i] # Nil, i \in p.ids \/ objects'[i] \in p.refs
        PROVE  i \in n.could \cup n.fresh
    <3>1. CASE objects' = objects
      BY <2>2, <2>3, <2>4, <3>1 DEF Targets
    <3>2. CASE objects' # objects /\ i # hit
      BY <1>2, <2>2, <2>3, <2>4, <3>2 DEF Targets
    <3> QED BY <2>2, <3>1, <3>2
  <2> QED BY <2>2, <2>3, <2>4
<1>4. c # Nil /\ Acts(c) => c.at = "after" /\ c.hit \in c.could \cup c.fresh
  BY <1>1, <1>2 DEF ActsInv, Acts, Commits
<1>5. c = req'[s]
  BY DEF Commits
<1>6. ASSUME NEW t \in Slot, req'[t] # Nil, Acts(req'[t])
      PROVE  /\ req'[t].at = "mlflow" => Targets(req[t])' \subseteq req'[t].could \cup req'[t].fresh
             /\ req'[t].at = "after" => req'[t].hit \in req'[t].could \cup req'[t].fresh
  <2>1. CASE t = s
    BY <1>4, <1>5, <1>6, <2>1
  <2>2. CASE t # s
    <3>1. PICK n : n = req'[t]
      OBVIOUS
    <3> QED BY <1>3, <1>6, <2>2, <3>1 DEF Targets
  <2> QED BY <2>1, <2>2
<1> QED BY <1>6 DEF ActsInv, Acts

LEMMA ActsNext == Typed /\ ActsInv /\ [Next]_vars => ActsInv'
<1> SUFFICES ASSUME Typed, ActsInv, [Next]_vars PROVE ActsInv'
  OBVIOUS
<1>1. CASE UNCHANGED <<req, objects>>
  BY <1>1 DEF ActsInv, Acts, Targets
<1>2. ASSUME NEW s \in Slot, NEW left, Handles(s, left) PROVE ActsInv'
  BY <1>2, ActsHandles
<1>3. ASSUME NEW s \in Slot,
             \/ (\E q : Granted(s, q)) \/ (\E q, step : Wiped(s, q, step))
             \/ (\E q, step, held : Moved(s, q, step, held)) \/ \E q : GaveUp(s, q)
      PROVE  ActsInv'
  <2>1. \E left : Handles(s, left)
    BY <1>3 DEF Granted, Wiped, Moved, GaveUp
  <2> QED BY <1>2, <2>1
<1>4. ASSUME NEW s \in Slot, Plain(s) \/ \E q, n : Commits(s, q, n) PROVE ActsInv'
  BY <1>4, ActsPlain, ActsCommits
<1>5. (\E u \in User : Erased(u)) \/ (\E h \in Holder, n \in Name, i \in Nat : Shared(h, n, i)) => UNCHANGED <<req, objects>>
  BY DEF Erased, Shared
<1>6. CASE Next
  BY <1>1, <1>3, <1>4, <1>5, <1>6, StepKinds
<1>7. CASE UNCHANGED vars
  BY <1>1, <1>7 DEF vars
<1> QED BY <1>6, <1>7

(* hooks/before_request.py: however a request refers to resources, MLflow  *)
(* acts for a caller who is no administrator only on a resource for which  *)
(* the caller had the capability when the request was checked, or on one   *)
(* that came or took the name while the request was under way.             *)
THEOREM ChecksCoverTheTarget == Spec => []ActsWherePermitted
<1>1. Init => ActsInv
  BY DEF Init, ActsInv
<1>2. ActsInv => ActsWherePermitted
  BY DEF ActsInv, ActsWherePermitted, Acts
<1> QED BY <1>1, <1>2, TypedInit, TypedNext, ActsNext, PTL DEF Spec

-----------------------------------------------------------------------------
(***************************************************************************)
(* The rows follow the resources.  A name is at rest or one request's      *)
(* handler is at work on it; at rest, its rows are of the resource that    *)
(* bears it, and someone manages that.  Handling says what holds while a   *)
(* handler is under way.                                                   *)
(***************************************************************************)
Works(s, q, n) == q = req[s] /\ q # Nil /\ q.todo # <<>> /\ n \in Touched(q)
Own(n) == \A h \in Holder : rows[<<h, n>>] # Nil => rows[<<h, n>>].of \in Named(n)
Manages(u, n) == rows[<<u, n>>] # Nil /\ rows[<<u, n>>].level = "MANAGE"
Managed(n) == \A i \in Named(n) \ abandoned : \E u \in User : Manages(u, n)

(* The holders whose rows a handler has still to see to. *)
Left(todo) == {h \in Holder : \E i \in DOMAIN todo : h \in Members(todo[i])}

Creating(q) ==
  /\ q.hit \in Named(q.new) /\ Own(q.new)
  /\ Managed(q.new) \/ \A h \in Holder : rows[<<h, q.new>>] = Nil
Deleting(q) ==
  \A n \in q.stash : Named(n) = {} /\ \A h \in Holder : rows[<<h, n>>] # Nil => h \in Left(q.todo)
Leaving(q, o) ==
  /\ q.stash = {o} /\ Named(o) = {}
  /\ \A h \in Holder : rows[<<h, o>>] # Nil => h \in Left(q.todo) /\ rows[<<h, o>>].of = q.hit
  /\ q.hit \in abandoned \/ \E u \in User : Manages(u, o) \/ Manages(u, q.new)
Renaming(q) ==
  /\ q.hit \in Named(q.new) /\ Own(q.new)
  /\ \E o \in Name : Leaving(q, o)
Handling(q) ==
  /\ q.op \in {"create", "delete", "rename"}
  /\ q.op = "create" => Creating(q)
  /\ q.op = "delete" => Deleting(q)
  /\ q.op = "rename" => Renaming(q)

Lone(n) == \A s, t \in Slot, p, q \in ReqState : Works(s, p, n) /\ Works(t, q, n) => s = t
Idle(n) == \A s \in Slot, q \in ReqState : ~Works(s, q, n)
AtRest(n) == Idle(n) => Own(n) /\ Managed(n)
Sided(s) == \A n \in spoiled, q \in ReqState : Works(s, q, n) => Touched(q) \subseteq spoiled
Handled(s) == \A n \in Name \ spoiled, q \in ReqState : Works(s, q, n) => Handling(q)
Follows ==
  /\ \A n \in Name \ spoiled : Lone(n) /\ AtRest(n)
  /\ \A s \in Slot : Sided(s) /\ Handled(s)

LEMMA TouchedNames == ASSUME NEW q \in ReqState PROVE Touched(q) \subseteq Name
BY DEF ReqState, Touched

(* What concerns a name is as it was.                                      *)
SameAt(n) == Named(n)' = Named(n) /\ \A h \in Holder : rows'[<<h, n>>] = rows[<<h, n>>]

LEMMA SameKeeps ==
  ASSUME NEW n \in Name, SameAt(n), abandoned \subseteq abandoned'
  PROVE  (Own(n) => Own(n)') /\ (Managed(n) => Managed(n)')
<1>1. User \subseteq Holder
  BY DEF Holder
<1> QED BY <1>1 DEF SameAt, Own, Managed, Manages

(* Two requests that differ only in what their handlers do not read.       *)
SameJob(p, q) == q.op = p.op /\ q.new = p.new /\ q.hit = p.hit /\ q.stash = p.stash /\ q.todo = p.todo

LEMMA SameHandling ==
  ASSUME NEW p, NEW q, SameJob(p, q), Handling(p) PROVE Handling(q)
BY DEF SameJob, Handling, Creating, Deleting, Renaming, Leaving

LEMMA HandlingKept ==
  ASSUME NEW q \in ReqState, Handling(q), q.op \in {"create", "rename"} => q.new \in Name,
         \A n \in Touched(q) : SameAt(n), abandoned \subseteq abandoned'
  PROVE  Handling(q)'
<1>1. q.new \in Name => q.new \in Touched(q)
  BY LifecycleAssumption DEF Touched
<1>2. q.stash \subseteq Touched(q) /\ Touched(q) \subseteq Name /\ User \subseteq Holder
  BY TouchedNames DEF Touched, Holder
<1>3. CASE q.op = "create"
  <2>1. PICK m \in Name : m = q.new
    BY <1>3
  <2>2. m \in Name /\ SameAt(m) /\ q.hit \in Named(m) /\ Own(m) /\ (Managed(m) \/ \A h \in Holder : rows[<<h, m>>] = Nil)
    BY <1>1, <1>3, <2>1 DEF Handling, Creating
  <2>3. q.hit \in Named(m)' /\ Own(m)' /\ (Managed(m)' \/ \A h \in Holder : rows'[<<h, m>>] = Nil)
    BY <2>2, SameKeeps DEF SameAt
  <2> QED BY <1>3, <2>1, <2>3 DEF Handling, Creating
<1>4. CASE q.op = "delete"
  BY <1>2, <1>4 DEF Handling, Deleting, SameAt
<1>5. CASE q.op = "rename"
  <2>1. PICK m \in Name : m = q.new
    BY <1>5
  <2>2. PICK o \in Name : Leaving(q, o)
    BY <1>5 DEF Handling, Renaming
  <2>3. SameAt(m) /\ SameAt(o) /\ q.hit \in Named(m) /\ Own(m)
    BY <1>1, <1>2, <1>5, <2>1, <2>2 DEF Handling, Renaming, Leaving
  <2>4. Own(m)' /\ q.hit \in Named(m)'
    BY <2>3, SameKeeps DEF SameAt
  <2>5. Leaving(q, o)'
    BY <1>2, <2>1, <2>2, <2>3 DEF Leaving, SameAt, Manages
  <2> QED BY <1>5, <2>1, <2>4, <2>5 DEF Handling, Renaming
<1> QED BY <1>3, <1>4, <1>5 DEF Handling

(* A step of at most one request (in A) that disturbs the names in X.      *)
Unmoved(t) ==
  /\ \A q \in ReqState : q = req[t] => \E p \in ReqState : p = req'[t] /\ SameJob(q, p)
  /\ \A q \in ReqState : q = req'[t] => \E p \in ReqState : p = req[t] /\ SameJob(p, q)

LEMMA UnmovedWorks ==
  ASSUME NEW t \in Slot, Unmoved(t), NEW n
  PROVE  /\ \A q \in ReqState : Works(t, q, n)' => \E p \in ReqState : Works(t, p, n) /\ SameJob(p, q)
         /\ \A q \in ReqState : Works(t, q, n) => \E p \in ReqState : Works(t, p, n)'
<1>1. Nil \notin ReqState
  BY LifecycleAssumption
<1> QED BY <1>1 DEF Unmoved, Works, SameJob, Touched

LEMMA FollowsStep ==
  ASSUME Typed, Follows, NEW A \in SUBSET Slot, \A a, b \in A : a = b, NEW X,
         spoiled \subseteq spoiled' /\ abandoned \subseteq abandoned',
         \A n \in Name \ X : n \notin spoiled' => SameAt(n),
         \A t \in Slot \ A : Unmoved(t),
         \A t \in Slot \ A, p \in ReqState, n \in X \cup spoiled' : Works(t, p, n) => Touched(p) \subseteq spoiled',
         \A a \in A, q \in ReqState, n \in Name : Works(a, q, n) \/ Works(a, q, n)' => n \in X,
         \A n \in X \ spoiled' : n \in Name /\ Idle(n)' => Own(n)' /\ Managed(n)',
         \A a \in A : Sided(a)' /\ Handled(a)'
  PROVE  Follows'
<1>1. ASSUME NEW n \in Name \ spoiled' PROVE Lone(n)'
  <2>1. SUFFICES ASSUME NEW s \in Slot, NEW t \in Slot, NEW p \in ReqState, NEW q \in ReqState,
                        Works(s, p, n)', Works(t, q, n)', s # t
                 PROVE  FALSE
    BY DEF Lone
  <2>2. ASSUME NEW r \in Slot \ A, NEW o \in ReqState, Works(r, o, n)' PROVE n \notin X /\ \E k \in ReqState : Works(r, k, n)
    <3>1. PICK k \in ReqState : Works(r, k, n)
      BY <2>2, UnmovedWorks
    <3>2. n \in Touched(k)
      BY <3>1 DEF Works
    <3> QED BY <3>1, <3>2
  <2>3. CASE s \in A \/ t \in A
    BY <2>1, <2>2, <2>3
  <2>4. CASE s \notin A /\ t \notin A
    <3>1. PICK j \in ReqState, k \in ReqState : Works(s, j, n) /\ Works(t, k, n)
      BY <2>1, <2>2, <2>4
    <3> QED BY <1>1, <2>1, <3>1 DEF Follows, Lone
  <2> QED BY <2>3, <2>4
<1>2. ASSUME NEW n \in Name \ spoiled', Idle(n)' PROVE Own(n)' /\ Managed(n)'
  <2>1. CASE n \in X
    BY <1>2, <2>1
  <2>2. CASE n \notin X
    <3>1. ASSUME NEW t \in Slot, NEW p \in ReqState, Works(t, p, n) PROVE FALSE
      <4>1. t \notin A
        BY <2>2, <3>1
      <4>2. PICK q \in ReqState : Works(t, q, n)'
        BY <3>1, <4>1, UnmovedWorks
      <4> QED BY <1>2, <4>2 DEF Idle
    <3>2. Own(n) /\ Managed(n)
      BY <3>1 DEF Follows, AtRest, Idle
    <3> QED BY <2>2, <3>2, SameKeeps
  <2> QED BY <2>1, <2>2
<1>3. ASSUME NEW t \in Slot \ A PROVE Sided(t)'
  <2>1. SUFFICES ASSUME NEW n \in spoiled', NEW q \in ReqState, Works(t, q, n)' PROVE Touched(q) \subseteq spoiled'
    BY DEF Sided
  <2>2. PICK p \in ReqState : Works(t, p, n) /\ SameJob(p, q)
    BY <2>1, UnmovedWorks
  <2>3. Touched(p) = Touched(q)
    BY <2>2 DEF SameJob, Touched
  <2> QED BY <2>2, <2>3
<1>4. ASSUME NEW t \in Slot \ A PROVE Handled(t)'
  <2>1. SUFFICES ASSUME NEW n \in Name \ spoiled', NEW q \in ReqState, Works(t, q, n)' PROVE Handling(q)'
    BY DEF Handled
  <2>2. PICK p \in ReqState : Works(t, p, n) /\ SameJob(p, q)
    BY <2>1, UnmovedWorks
  <2>3. Touched(p) = Touched(q) /\ n \in Touched(p)
    BY <2>2 DEF SameJob, Touched, Works
  <2>4. Handling(p)
    BY <2>2 DEF Follows, Handled
  <2>5. Handling(q)
    BY <2>2, <2>4, SameHandling
  <2>6. ASSUME NEW m \in Touched(p) PROVE SameAt(m)
    <3>1. Works(t, p, m) /\ m \in Name
      BY <2>2, <2>6, TouchedNames DEF Works
    <3>2. m \notin X \cup spoiled'
      BY <2>3, <3>1
    <3> QED BY <3>1, <3>2
  <2>7. q.op \in {"create", "rename"} => q.new \in Name
    <3>1. Shape(p) /\ p.new \in Name \cup {Nil}
      BY <2>2 DEF Typed, ReqsOK, Works, ReqState
    <3> QED BY <2>2, <3>1 DEF Shape, SameJob
  <2> QED BY <2>3, <2>5, <2>6, <2>7, HandlingKept
<1>5. ASSUME NEW n \in Name \ spoiled' PROVE AtRest(n)'
  BY <1>2 DEF AtRest
<1> QED BY <1>1, <1>3, <1>4, <1>5 DEF Follows

LEMMA StaysUnmoved ==
  ASSUME Typed, NEW t \in Slot, req'[t] = req[t] PROVE Unmoved(t)
BY DEF Unmoved, SameJob

LEMMA WorksFacts ==
  ASSUME Typed, NEW s \in Slot, NEW q \in ReqState, NEW n, Works(s, q, n)
  PROVE  q = req[s] /\ q # Nil /\ q.todo # <<>> /\ n \in Touched(q) /\ n \in Name /\ Shape(q) /\ q.at = "after"
         /\ q.hit \in DOMAIN objects
<1>1. q = req[s] /\ q # Nil /\ q.todo # <<>> /\ n \in Touched(q) /\ Shape(q)
  BY DEF Works, Typed, ReqsOK
<1>2. q.at = "after"
  BY <1>1 DEF Shape
<1> QED BY <1>1, <1>2, TouchedNames DEF Typed, ReqsOK

LEMMA FollowsPlain == ASSUME Typed, Follows, NEW s \in Slot, Plain(s) PROVE Follows'
<1>1. objects' = objects /\ rows' = rows /\ spoiled' = spoiled /\ abandoned' = abandoned
      /\ \A t \in Slot : t # s => req'[t] = req[t]
  BY DEF Plain, Keeps, Typed, ReqsOK
<1>2. ASSUME NEW q \in ReqState, NEW n PROVE ~Works(s, q, n) /\ ~Works(s, q, n)'
  <2>1. ~Works(s, q, n)
    BY DEF Plain, Works
  <2>2. req'[s] # Nil => req'[s].todo = <<>>
    BY DEF Plain, Shape
  <2> QED BY <2>1, <2>2 DEF Works
<1>3. \A n \in Name : SameAt(n)
  BY <1>1 DEF SameAt, Named
<1>4. \A t \in Slot \ {s} : Unmoved(t)
  BY <1>1, StaysUnmoved
<1>5. \A t \in Slot \ {s}, p \in ReqState, n \in {} \cup spoiled' : Works(t, p, n) => Touched(p) \subseteq spoiled'
  BY <1>1 DEF Follows, Sided
<1>6. Sided(s)' /\ Handled(s)'
  BY <1>2 DEF Sided, Handled
<1>7. PICK A, X : A = {s} /\ X = {}
  OBVIOUS
<1> QED BY <1>1, <1>2, <1>3, <1>4, <1>5, <1>6, <1>7, FollowsStep

(* A call of a handler disturbs only the names its request touches; it is  *)
(* enough to say what the call leaves there.                               *)
LEMMA HandlesFollow ==
  ASSUME Typed, Follows, NEW s \in Slot, NEW left, Handles(s, left), NEW q, q = req[s], NEW c, c = req'[s],
         spoiled' = spoiled \/ spoiled' = spoiled \cup Touched(q), abandoned \subseteq abandoned',
         \A h \in Holder, n \in Name \ Touched(q) : rows'[<<h, n>>] = rows[<<h, n>>],
         Handling(q) /\ ~(Touched(q) \subseteq spoiled') =>
           IF left = <<>> THEN \A n \in Touched(q) : Own(n)' /\ Managed(n)' ELSE Handling(c)'
  PROVE  Follows'
<1>1. /\ q \in ReqState /\ q # Nil /\ q.todo # <<>> /\ Shape(q) /\ c \in ReqState /\ c.todo = left
      /\ c.new = q.new /\ c.stash = q.stash /\ \A t \in Slot \ {s} : req'[t] = req[t]
  BY HandlesRecord
<1>2. Touched(c) = Touched(q) /\ c # Nil
  BY <1>1, LifecycleAssumption DEF Touched
<1>3. ASSUME NEW n \in Name \ Touched(q) PROVE SameAt(n)
  BY <1>3 DEF SameAt, Named, Handles
<1>4. \A t \in Slot \ {s} : Unmoved(t)
  BY <1>1, StaysUnmoved
<1>5. \A n \in Touched(q) : Works(s, q, n)
  BY <1>1 DEF Works
<1>6. ASSUME NEW t \in Slot \ {s}, NEW p \in ReqState, NEW n \in Touched(q) \cup spoiled', Works(t, p, n)
      PROVE  Touched(p) \subseteq spoiled'
  <2>1. n \in Name
    BY <1>6, WorksFacts
  <2>2. n \in spoiled
    BY <1>1, <1>5, <1>6, <2>1 DEF Follows, Lone
  <2> QED BY <1>6, <2>2 DEF Follows, Sided
<1>7. \A p \in ReqState, n \in Name : Works(s, p, n) \/ Works(s, p, n)' => n \in Touched(q)
  BY <1>2 DEF Works
<1>8. ASSUME NEW n \in Touched(q) \ spoiled' PROVE Handling(q)
  <2>1. n \in Name \ spoiled
    BY <1>1, <1>8, TouchedNames
  <2> QED BY <1>1, <1>5, <1>8, <2>1 DEF Follows, Handled
<1>9. ASSUME NEW n \in Touched(q) \ spoiled', Idle(n)' PROVE Own(n)' /\ Managed(n)'
  <2>1. left = <<>>
    <3>1. ~Works(s, c, n)'
      BY <1>1, <1>9 DEF Idle
    <3> QED BY <1>1, <1>2, <3>1 DEF Works
  <2> QED BY <1>8, <1>9, <2>1
<1>10. Sided(s)'
  <2>1. SUFFICES ASSUME NEW n \in spoiled', n \in Touched(q) PROVE Touched(q) \subseteq spoiled'
    BY <1>2 DEF Sided, Works
  <2>2. CASE n \in spoiled
    BY <1>1, <1>5, <2>1, <2>2 DEF Follows, Sided
  <2> QED BY <2>1, <2>2
<1>11. Handled(s)'
  <2>1. SUFFICES ASSUME NEW n \in Name \ spoiled', Works(s, c, n)' PROVE Handling(c)'
    BY DEF Handled, Works
  <2>2. left # <<>> /\ n \in Touched(q)
    BY <1>1, <1>2, <2>1 DEF Works
  <2> QED BY <1>8, <2>2
<1>12. PICK A, X : A = {s} /\ X = Touched(q)
  OBVIOUS
<1>13. A \in SUBSET Slot /\ (\A a, b \in A : a = b) /\ spoiled \subseteq spoiled'
  BY <1>12
<1>14. /\ \A n \in Name \ X : n \notin spoiled' => SameAt(n)
       /\ \A t \in Slot \ A : Unmoved(t)
       /\ \A t \in Slot \ A, p \in ReqState, n \in X \cup spoiled' : Works(t, p, n) => Touched(p) \subseteq spoiled'
  BY <1>3, <1>4, <1>6, <1>12
<1>15. /\ \A a \in A, p \in ReqState, n \in Name : Works(a, p, n) \/ Works(a, p, n)' => n \in X
       /\ \A n \in X \ spoiled' : n \in Name /\ Idle(n)' => Own(n)' /\ Managed(n)'
       /\ \A a \in A : Sided(a)' /\ Handled(a)'
  BY <1>7, <1>9, <1>10, <1>11, <1>12
<1> QED BY <1>13, <1>14, <1>15, FollowsStep

LEMMA OnlyOne ==
  ASSUME Typed, NEW n \in Name, NEW i \in Named(n) PROVE Named(n) = {i}
<1>1. n # Nil
  BY LifecycleAssumption
<1> QED BY <1>1 DEF Typed, Injective, Named

LEMMA FollowsGranted == ASSUME Typed, Follows, NEW s \in Slot, NEW q, Granted(s, q) PROVE Follows'
<1>1. PICK left, c : Handles(s, left) /\ c = req'[s]
  BY DEF Granted
<1>2. /\ q \in ReqState /\ q.op = "create" /\ Shape(q) /\ q = req[s] /\ q.hit \in DOMAIN objects
      /\ c.op = q.op /\ c.new = q.new /\ c.stash = q.stash /\ c.hit = q.hit
  BY <1>1, HandlesRecord DEF Granted
<1>3. PICK m : m = q.new
  OBVIOUS
<1>4. m \in Name /\ Touched(q) = {m} /\ q.caller \in User /\ User \subseteq Holder /\ q.hit \in Nat
  BY <1>2, <1>3 DEF Shape, ReqState, Touched, Typed, Holder
<1>5. objects' = objects /\ Named(m)' = Named(m)
  BY <1>1 DEF Handles, Named
<1>6. spoiled' = spoiled /\ abandoned \subseteq abandoned'
  BY DEF Granted
<1>7. ASSUME Handling(q) PROVE Own(m)' /\ Managed(m)'
  <2>1. q.hit \in Named(m) /\ Own(m) /\ (Managed(m) \/ \A h \in Holder : rows[<<h, m>>] = Nil)
    BY <1>2, <1>3, <1>7 DEF Handling, Creating
  <2>2. Named(m) = {q.hit}
    BY <1>4, <2>1, OnlyOne
  <2>3. CASE rows[<<q.caller, m>>] = Nil /\ rows' = [rows EXCEPT ![<<q.caller, m>>] = [level |-> "MANAGE", of |-> q.hit]]
    <3>1. PICK u \in User, r \in Row : u = q.caller /\ r = [level |-> "MANAGE", of |-> q.hit]
      BY <1>4, ManageRow
    <3>2. r \in Row /\ r # Nil /\ r.of = q.hit /\ r.level = "MANAGE"
      BY <1>4, <3>1, ManageRow, RowIsThere
    <3>3. rows'[<<u, m>>] = r /\ \A h \in Holder : h # u => rows'[<<h, m>>] = rows[<<h, m>>]
      <4>1. rows' = [rows EXCEPT ![<<u, m>>] = r] /\ u \in Holder
        BY <1>4, <2>3, <3>1
      <4>2. m \in Name
        BY <1>4
      <4>3. rows'[<<u, m>>] = r /\ \A g \in Holder, k \in Name : g # u \/ k # m => rows'[<<g, k>>] = rows[<<g, k>>]
        BY <3>2, <4>1, <4>2, OneRow
      <4> QED BY <4>2, <4>3
    <3>4. Own(m)'
      BY <1>5, <2>1, <3>2, <3>3 DEF Own
    <3>5. Managed(m)'
      BY <1>4, <3>2, <3>3 DEF Managed, Manages
    <3> QED BY <3>4, <3>5
  <2>4. CASE rows' = rows /\ rows[<<q.caller, m>>] # Nil
    <3>1. SameAt(m)
      BY <1>5, <2>4 DEF SameAt
    <3>2. Managed(m)
      BY <1>4, <2>1, <2>4
    <3> QED BY <1>4, <1>6, <2>1, <3>1, <3>2, SameKeeps
  <2>5. CASE rows' = rows /\ abandoned' = abandoned \cup {q.hit}
    BY <1>5, <2>1, <2>2, <2>5 DEF Own, Managed
  <2> QED BY <1>3, <2>3, <2>4, <2>5 DEF Granted
<1>8. ASSUME Handling(q) PROVE Handling(c)'
  <2>1. q.hit \in Named(m)'
    BY <1>2, <1>3, <1>5, <1>8 DEF Handling, Creating
  <2> QED BY <1>2, <1>3, <1>7, <1>8, <2>1 DEF Handling, Creating
<1>9. ASSUME NEW h \in Holder, NEW n \in Name \ Touched(q) PROVE rows'[<<h, n>>] = rows[<<h, n>>]
  <2>1. CASE rows' = [rows EXCEPT ![<<q.caller, m>>] = [level |-> "MANAGE", of |-> q.hit]]
    <3>1. PICK u \in Holder, r \in Row : u = q.caller /\ r = [level |-> "MANAGE", of |-> q.hit]
      BY <1>4, ManageRow
    <3> QED BY <1>4, <1>9, <2>1, <3>1, OneRow
  <2> QED BY <1>3, <2>1 DEF Granted
<1> QED BY <1>1, <1>2, <1>4, <1>6, <1>7, <1>8, <1>9, HandlesFollow

(* A call made is a call less: the holders it saw to are not left.         *)
LEMMA LeftTail ==
  ASSUME NEW todo \in Seq(Call), todo # <<>>, NEW h \in Left(todo), h \notin Members(Head(todo))
  PROVE  h \in Left(Tail(todo))
<1>1. h \in Holder
  BY DEF Left
<1>2. PICK i \in DOMAIN todo : h \in Members(todo[i])
  BY DEF Left
<1>3. Head(todo) = todo[1] /\ (i = 1 \/ (i - 1 \in DOMAIN Tail(todo) /\ Tail(todo)[i - 1] = todo[i]))
  BY TailFacts
<1>4. i # 1
  BY <1>2, <1>3
<1> QED BY <1>1, <1>2, <1>3, <1>4 DEF Left

LEMMA NoneLeft == ASSUME NEW h PROVE h \notin Left(<<>>)
<1>1. PICK t : t = <<>>
  OBVIOUS
<1>2. DOMAIN t = {}
  BY <1>1, NoCall
<1>3. h \notin Left(t)
  BY <1>2 DEF Left
<1> QED BY <1>1, <1>3

LEMMA FollowsWiped == ASSUME Typed, Follows, NEW s \in Slot, NEW q, NEW step, Wiped(s, q, step) PROVE Follows'
<1>1. PICK left, c : left = Tail(q.todo) /\ Handles(s, left) /\ c = req'[s]
  BY DEF Wiped
<1>2. /\ q \in ReqState /\ q.op = "delete" /\ Shape(q) /\ q = req[s] /\ q.todo # <<>> /\ step = Head(q.todo)
      /\ c.op = q.op /\ c.new = q.new /\ c.stash = q.stash /\ c.hit = q.hit /\ c.todo = left
  BY <1>1, HandlesRecord DEF Wiped
<1>3. Touched(q) = q.stash /\ q.stash \subseteq Name /\ q.todo \in Seq(Call)
  BY <1>2 DEF Shape, ReqState, Touched
<1>4. \A n : Named(n)' = Named(n)
  BY <1>1 DEF Handles, Named
<1>5. spoiled' = spoiled /\ abandoned \subseteq abandoned'
  BY DEF Wiped
<1>6. \A h \in Holder, n \in Name : rows'[<<h, n>>] = IF h \in Members(step) /\ n \in q.stash THEN Nil ELSE rows[<<h, n>>]
  BY DEF Wiped
<1>7. ASSUME Handling(q), NEW n \in q.stash PROVE Named(n)' = {} /\ \A h \in Holder : rows'[<<h, n>>] # Nil => h \in Left(left)
  <2>1. n \in Name /\ Named(n) = {} /\ \A h \in Holder : rows[<<h, n>>] # Nil => h \in Left(q.todo)
    BY <1>2, <1>3, <1>7 DEF Handling, Deleting
  <2>2. ASSUME NEW h \in Holder, rows'[<<h, n>>] # Nil PROVE h \in Left(left)
    <3>1. h \notin Members(step) /\ rows[<<h, n>>] # Nil
      BY <1>6, <1>7, <2>1, <2>2
    <3>2. h \in Left(q.todo)
      BY <2>1, <3>1
    <3> QED BY <1>1, <1>2, <1>3, <3>1, <3>2, LeftTail
  <2> QED BY <1>4, <2>1, <2>2
<1>8. ASSUME Handling(q), left = <<>>, NEW n \in Touched(q) PROVE Own(n)' /\ Managed(n)'
  <2>1. Named(n)' = {} /\ \A h \in Holder : rows'[<<h, n>>] = Nil
    BY <1>3, <1>7, <1>8, NoneLeft
  <2> QED BY <2>1 DEF Own, Managed
<1>9. ASSUME Handling(q) PROVE Handling(c)'
  BY <1>2, <1>7, <1>9 DEF Handling, Deleting
<1>10. \A h \in Holder, n \in Name \ Touched(q) : rows'[<<h, n>>] = rows[<<h, n>>]
  BY <1>3, <1>6
<1>12. Handling(q) => IF left = <<>> THEN \A n \in Touched(q) : Own(n)' /\ Managed(n)' ELSE Handling(c)'
  BY <1>8, <1>9
<1>13. spoiled' = spoiled /\ abandoned \subseteq abandoned' /\ q = req[s]
  BY <1>2, <1>5
<1> QED BY <1>1, <1>10, <1>12, <1>13, HandlesFollow

LEMMA FollowsMoved ==
  ASSUME Typed, Follows, NEW s \in Slot, NEW q, NEW step, NEW held, Moved(s, q, step, held) PROVE Follows'
<1>1. PICK left, c : left = Tail(q.todo) /\ Handles(s, left) /\ c = req'[s]
  BY DEF Moved
<1>2. /\ q \in ReqState /\ q.op = "rename" /\ Shape(q) /\ q = req[s] /\ q.todo # <<>> /\ step = Head(q.todo)
      /\ c.op = q.op /\ c.new = q.new /\ c.stash = q.stash /\ c.hit = q.hit /\ c.todo = left
  BY <1>1, HandlesRecord DEF Moved
<1>3. PICK m \in Name : m = q.new
  BY <1>2 DEF Shape, ReqState
<1>4. Touched(q) = q.stash \cup {m} /\ q.stash \subseteq Name /\ q.todo \in Seq(Call) /\ User \subseteq Holder
  BY <1>2, <1>3, LifecycleAssumption DEF ReqState, Touched, Holder
<1>5. (\A n : Named(n)' = Named(n)) /\ spoiled' = spoiled /\ abandoned' = abandoned
  BY <1>1 DEF Handles, Named, Moved
<1>6. \A h \in Holder, n \in Name :
       \/ h \in held /\ n = m /\ \E old \in q.stash : rows[<<h, old>>] # Nil /\ rows'[<<h, n>>] = rows[<<h, old>>]
       \/ h \in held /\ n # m /\ n \in q.stash /\ rows'[<<h, n>>] = Nil
       \/ (h \notin held \/ n \notin q.stash \cup {m}) /\ rows'[<<h, n>>] = rows[<<h, n>>]
  BY <1>3 DEF Moved
<1>7. ASSUME NEW o \in Name, Leaving(q, o), q.hit \in Named(m), Own(m)
      PROVE  Leaving(c, o)' /\ Own(m)' /\ q.hit \in Named(m)'
  <2>1. o # m /\ q.stash = {o}
    BY <1>7 DEF Leaving
  <2>2. \A h \in held : rows[<<h, m>>] = Nil
    BY <1>3, <2>1 DEF Moved
  <2>3. held = {h \in Members(step) : rows[<<h, o>>] # Nil}
    BY <2>1 DEF Moved
  <2>4. \A h \in Holder : h \in held => rows'[<<h, m>>] = rows[<<h, o>>] /\ rows'[<<h, o>>] = Nil
    BY <1>6, <2>1
  <2>5. \A h \in Holder : h \notin held => rows'[<<h, m>>] = rows[<<h, m>>] /\ rows'[<<h, o>>] = rows[<<h, o>>]
    BY <1>6, <2>1
  <2>6. Own(m)'
    BY <1>5, <1>7, <2>3, <2>4, <2>5 DEF Own, Leaving
  <2>7. ASSUME NEW h \in Holder, rows'[<<h, o>>] # Nil PROVE h \in Left(left) /\ rows'[<<h, o>>].of = q.hit
    <3>1. h \notin held /\ rows[<<h, o>>] # Nil /\ rows'[<<h, o>>] = rows[<<h, o>>]
      BY <2>4, <2>5, <2>7
    <3>2. h \notin Members(step) /\ h \in Left(q.todo) /\ rows[<<h, o>>].of = q.hit
      BY <1>7, <2>3, <3>1 DEF Leaving
    <3> QED BY <1>1, <1>2, <1>4, <3>1, <3>2, LeftTail
  <2>8. q.hit \in abandoned \/ \E u \in User : Manages(u, o)' \/ Manages(u, m)'
    <3>1. CASE q.hit \in abandoned
      BY <3>1
    <3>2. ASSUME NEW u \in User, Manages(u, o) \/ Manages(u, m) PROVE Manages(u, o)' \/ Manages(u, m)'
      BY <1>4, <2>2, <2>4, <2>5, <3>2 DEF Manages
    <3> QED BY <1>3, <1>7, <3>1, <3>2 DEF Leaving
  <2>9. Leaving(c, o)'
    BY <1>2, <1>3, <1>5, <1>7, <2>1, <2>7, <2>8 DEF Leaving
  <2> QED BY <1>5, <1>7, <2>6, <2>9
<1>8. ASSUME Handling(q) PROVE \E o \in Name : Leaving(q, o) /\ q.hit \in Named(m) /\ Own(m)
  BY <1>2, <1>3, <1>8 DEF Handling, Renaming
<1>9. ASSUME Handling(q), left = <<>>, NEW n \in Touched(q) PROVE Own(n)' /\ Managed(n)'
  <2>1. PICK o \in Name : Leaving(c, o)' /\ Own(m)' /\ q.hit \in Named(m) /\ Named(o) = {}
    BY <1>5, <1>7, <1>8, <1>9 DEF Leaving
  <2>2. \A h \in Holder : rows'[<<h, o>>] = Nil
    BY <1>2, <1>9, <2>1, NoneLeft DEF Leaving
  <2>3. Own(o)' /\ Managed(o)'
    BY <1>5, <2>1, <2>2 DEF Own, Managed
  <2>4. Named(m)' = {q.hit}
    BY <1>3, <1>5, <2>1, OnlyOne
  <2>5. q.hit \in abandoned' \/ \E u \in User : Manages(u, m)'
    BY <1>2, <1>3, <1>4, <2>1, <2>2 DEF Leaving, Manages
  <2>6. Managed(m)'
    BY <2>4, <2>5 DEF Managed
  <2>7. n = m \/ n = o
    BY <1>2, <1>4, <1>9, <2>1 DEF Leaving
  <2> QED BY <2>1, <2>3, <2>6, <2>7
<1>10. ASSUME Handling(q) PROVE Handling(c)'
  <2>1. PICK o \in Name : Leaving(c, o)' /\ Own(m)' /\ q.hit \in Named(m)'
    BY <1>7, <1>8, <1>10
  <2> QED BY <1>2, <1>3, <2>1 DEF Handling, Renaming
<1>11. \A h \in Holder, n \in Name \ Touched(q) : rows'[<<h, n>>] = rows[<<h, n>>]
  BY <1>4, <1>6
<1>12. Handling(q) => IF left = <<>> THEN \A n \in Touched(q) : Own(n)' /\ Managed(n)' ELSE Handling(c)'
  BY <1>9, <1>10
<1>13. spoiled' = spoiled /\ abandoned \subseteq abandoned' /\ q = req[s]
  BY <1>2, <1>5
<1> QED BY <1>1, <1>11, <1>12, <1>13, HandlesFollow

LEMMA FollowsGaveUp == ASSUME Typed, Follows, NEW s \in Slot, NEW q, GaveUp(s, q) PROVE Follows'
<1>1. PICK left, c : left = <<>> /\ Handles(s, left) /\ c = req'[s]
  BY DEF GaveUp
<1>2. q \in ReqState /\ Shape(q) /\ q = req[s]
  BY <1>1, HandlesRecord DEF GaveUp
<1>3. rows' = rows /\ abandoned' = abandoned /\ (\A n : Named(n)' = Named(n)) /\ User \subseteq Holder
  BY <1>1 DEF GaveUp, Handles, Named, Holder
<1>4. ASSUME Handling(q), q.op = "rename", ~Stray(q, rows), NEW n \in Touched(q) PROVE Own(n)' /\ Managed(n)'
  <2>1. PICK m \in Name : m = q.new
    BY <1>2, <1>4 DEF Shape, ReqState
  <2>2. PICK o \in Name : Leaving(q, o)
    BY <1>4 DEF Handling, Renaming
  <2>3. q.hit \in Named(m) /\ Own(m) /\ q.stash = {o} /\ Named(o) = {}
    BY <1>4, <2>1, <2>2 DEF Handling, Renaming, Leaving
  <2>4. \A h \in Holder : rows[<<h, o>>] = Nil
    BY <1>4, <2>3 DEF Stray
  <2>5. Own(o) /\ Managed(o)
    BY <2>3, <2>4 DEF Own, Managed
  <2>6. Managed(m)
    <3>1. Named(m) = {q.hit}
      BY <2>3, OnlyOne
    <3>2. q.hit \in abandoned \/ \E u \in User : Manages(u, m)
      BY <1>3, <2>1, <2>2, <2>4 DEF Leaving, Manages
    <3> QED BY <3>1, <3>2 DEF Managed
  <2>7. SameAt(o) /\ SameAt(m)
    BY <1>3 DEF SameAt
  <2>8. n = m \/ n = o
    BY <1>4, <2>1, <2>3 DEF Touched
  <2> QED BY <1>3, <2>3, <2>5, <2>6, <2>7, <2>8, SameKeeps
<1>5. CASE spoiled' = spoiled /\ q.op = "rename" /\ ~Stray(q, rows)
  BY <1>1, <1>2, <1>3, <1>4, <1>5, HandlesFollow
<1>6. CASE spoiled' = spoiled \cup Touched(q)
  BY <1>1, <1>2, <1>3, <1>6, HandlesFollow
<1> QED BY <1>5, <1>6 DEF GaveUp

LEMMA AtWorkWorks ==
  ASSUME Typed, NEW names, NEW t \in Slot, NEW p \in ReqState
  PROVE  p = req[t] => (t \in AtWork(names) <=> \E n \in names : Works(t, p, n))
BY DEF AtWork, Works

LEMMA AtWorkRequest ==
  ASSUME Typed, NEW names, NEW t \in AtWork(names)
  PROVE  t \in Slot /\ \E p \in ReqState : p = req[t]
BY DEF AtWork, Typed, ReqsOK

(* Whoever works on names that others work on is one of those others, once *)
(* the names that were spoiled before are set aside.                       *)
LEMMA OthersClosed ==
  ASSUME Typed, Follows, NEW names, NEW t \in Slot, NEW p \in ReqState, NEW n, Works(t, p, n),
         n \in UNION {Touched(req[r]) : r \in AtWork(names)}
  PROVE  Touched(p) \subseteq spoiled \/ Touched(p) \subseteq UNION {Touched(req[r]) : r \in AtWork(names)}
<1>1. PICK r \in AtWork(names) : n \in Touched(req[r])
  OBVIOUS
<1>2. PICK k \in ReqState : r \in Slot /\ k = req[r]
  BY AtWorkRequest
<1>3. Works(r, k, n)
  BY <1>1, <1>2 DEF AtWork, Works
<1>4. n \in Name /\ p = req[t]
  BY WorksFacts
<1>5. CASE n \in spoiled
  BY <1>5 DEF Follows, Sided
<1>6. CASE n \notin spoiled
  <2>1. t = r
    BY <1>2, <1>3, <1>4, <1>6 DEF Follows, Lone
  <2> QED BY <1>4, <2>1
<1> QED BY <1>5, <1>6

LEMMA FollowsShared ==
  ASSUME Typed, Follows, NEW h \in Holder, NEW n \in Name, NEW i \in Nat, Shared(h, n, i) PROVE Follows'
<1>1. PICK r \in Row : r = [level |-> "EDIT", of |-> i]
  BY ManageRow
<1>2. r # Nil /\ r.of = i /\ i \in Named(n) /\ rows[<<h, n>>] = Nil /\ User \subseteq Holder
  BY <1>1, RowIsThere DEF Shared, Holder
<1>3. rows' = [rows EXCEPT ![<<h, n>>] = r]
  BY <1>1 DEF Shared
<1>4. rows'[<<h, n>>] = r /\ \A g \in Holder, m \in Name : g # h \/ m # n => rows'[<<g, m>>] = rows[<<g, m>>]
  BY <1>3, OneRow
<1>5. req' = req /\ abandoned' = abandoned /\ \A m : Named(m)' = Named(m)
  BY DEF Shared, Named
<1>6. PICK names, A, X : names = {n} /\ A = {} /\ X = {n}
  OBVIOUS
<1>7. spoiled' = spoiled \cup UNION {Touched(req[s]) : s \in AtWork(names)}
  BY <1>6 DEF Shared
<1>8. \A m \in Name \ X : SameAt(m)
  BY <1>4, <1>5, <1>6 DEF SameAt
<1>9. \A t \in Slot \ A : Unmoved(t)
  BY <1>5, StaysUnmoved
<1>10. ASSUME NEW t \in Slot \ A, NEW p \in ReqState, NEW m \in X \cup spoiled', Works(t, p, m) PROVE Touched(p) \subseteq spoiled'
  <2>1. p = req[t] /\ t \in Slot
    BY <1>10, WorksFacts
  <2>2. CASE m \in X
    <3>1. t \in AtWork(names)
      BY <1>6, <1>10, <2>1, <2>2, AtWorkWorks
    <3> QED BY <1>7, <2>1, <3>1
  <2>3. CASE m \in spoiled
    BY <1>7, <1>10, <2>3 DEF Follows, Sided
  <2>4. CASE m \in UNION {Touched(req[s]) : s \in AtWork(names)}
    <3>1. Touched(p) \subseteq spoiled \/ Touched(p) \subseteq UNION {Touched(req[s]) : s \in AtWork(names)}
      BY <1>10, <2>1, <2>4, OthersClosed
    <3> QED BY <1>7, <3>1
  <2> QED BY <1>7, <1>10, <2>2, <2>3, <2>4
<1>11. ASSUME n \notin spoiled', Idle(n)' PROVE Own(n)' /\ Managed(n)'
  <2>1. Idle(n) /\ n \notin spoiled
    BY <1>5, <1>7, <1>11 DEF Idle, Works
  <2>2. Own(n) /\ Managed(n)
    BY <2>1 DEF Follows, AtRest
  <2>3. Own(n)'
    BY <1>2, <1>4, <1>5, <2>2 DEF Own
  <2>4. Managed(n)'
    <3>1. \A u \in User : Manages(u, n) => Manages(u, n)'
      BY <1>2, <1>4 DEF Manages
    <3> QED BY <1>5, <2>2, <3>1 DEF Managed
  <2> QED BY <2>3, <2>4
<1>12. /\ A \in SUBSET Slot /\ (\A a, b \in A : a = b) /\ spoiled \subseteq spoiled' /\ abandoned \subseteq abandoned'
       /\ \A a \in A, q \in ReqState, m \in Name : Works(a, q, m) \/ Works(a, q, m)' => m \in X
       /\ \A m \in X \ spoiled' : m \in Name /\ Idle(m)' => Own(m)' /\ Managed(m)'
       /\ \A a \in A : Sided(a)' /\ Handled(a)'
  BY <1>5, <1>6, <1>7, <1>11
<1> QED BY <1>8, <1>9, <1>10, <1>12, FollowsStep

LEMMA ErasedManaged ==
  ASSUME Typed, NEW u \in User, Erased(u), NEW n \in Name, Own(n)
  PROVE  Own(n)' /\ (Managed(n) => Managed(n)')
<1>1. /\ Named(n)' = Named(n) /\ abandoned \subseteq abandoned' /\ User \subseteq Holder
      /\ rows[<<u, n>>] # Nil => rows[<<u, n>>].of \in abandoned'
  BY DEF Erased, Named, Holder
<1>2. \A h \in Holder : rows'[<<h, n>>] = IF h = u THEN Nil ELSE rows[<<h, n>>]
  BY DEF Erased
<1>3. Own(n)'
  BY <1>1, <1>2 DEF Own
<1>4. ASSUME Managed(n), NEW i \in Named(n) \ abandoned' PROVE \E v \in User : Manages(v, n)'
  <2>1. PICK v \in User : Manages(v, n)
    BY <1>1, <1>4 DEF Managed
  <2>2. v # u
    <3>1. rows[<<u, n>>] # Nil => rows[<<u, n>>].of = i
      BY <1>1, <1>4, OnlyOne DEF Own
    <3> QED BY <1>1, <1>4, <2>1, <3>1 DEF Manages
  <2>3. rows'[<<v, n>>] = rows[<<v, n>>]
    BY <1>1, <1>2, <2>2
  <2> QED BY <2>1, <2>3 DEF Manages
<1>5. Managed(n) => Managed(n)'
  BY <1>1, <1>4 DEF Managed
<1> QED BY <1>3, <1>5

LEMMA FollowsErased == ASSUME Typed, Follows, NEW u \in User, Erased(u) PROVE Follows'
<1>1. req' = req /\ spoiled' = spoiled /\ abandoned \subseteq abandoned' /\ (\A n : Named(n)' = Named(n)) /\ User \subseteq Holder
  BY DEF Erased, Named, Holder
<1>2. \A h \in Holder, n \in Name : rows'[<<h, n>>] = IF h = u THEN Nil ELSE rows[<<h, n>>]
  BY DEF Erased
<1>3. \A n \in Name : rows[<<u, n>>] # Nil => rows[<<u, n>>].of \in abandoned'
  BY DEF Erased
<1>4. ASSUME NEW q \in ReqState, Shape(q), Handling(q) PROVE Handling(q)'
  <2>1. CASE q.op = "create"
    <3>1. PICK m \in Name : m = q.new
      BY <1>4, <2>1 DEF Shape, ReqState
    <3>2. q.hit \in Named(m) /\ Own(m) /\ (Managed(m) \/ \A h \in Holder : rows[<<h, m>>] = Nil)
      BY <1>4, <2>1, <3>1 DEF Handling, Creating
    <3>3. q.hit \in Named(m)' /\ Own(m)' /\ (Managed(m)' \/ \A h \in Holder : rows'[<<h, m>>] = Nil)
      BY <1>1, <1>2, <3>2, ErasedManaged
    <3> QED BY <2>1, <3>1, <3>3 DEF Handling, Creating
  <2>2. CASE q.op = "delete"
    <3>1. q.stash \subseteq Name
      BY DEF ReqState
    <3> QED BY <1>1, <1>2, <1>4, <2>2, <3>1 DEF Handling, Deleting
  <2>3. CASE q.op = "rename"
    <3>1. PICK m \in Name : m = q.new
      BY <1>4, <2>3 DEF Shape, ReqState
    <3>2. PICK o \in Name : Leaving(q, o)
      BY <1>4, <2>3 DEF Handling, Renaming
    <3>3. q.hit \in Named(m) /\ Own(m)
      BY <1>4, <2>3, <3>1 DEF Handling, Renaming
    <3>4. q.hit \in abandoned' \/ \E v \in User : Manages(v, o)' \/ Manages(v, m)'
      <4>1. CASE q.hit \in abandoned
        BY <1>1, <4>1
      <4>2. ASSUME NEW v \in User, v # u, Manages(v, o) \/ Manages(v, m) PROVE Manages(v, o)' \/ Manages(v, m)'
        <5>1. rows'[<<v, o>>] = rows[<<v, o>>] /\ rows'[<<v, m>>] = rows[<<v, m>>]
          BY <1>1, <1>2, <4>2
        <5> QED BY <4>2, <5>1 DEF Manages
      <4>3. CASE Manages(u, o)
        BY <1>1, <1>3, <3>2, <4>3 DEF Manages, Leaving
      <4>4. CASE Manages(u, m)
        BY <1>1, <1>3, <3>3, <4>4, OnlyOne DEF Manages, Own
      <4> QED BY <3>1, <3>2, <4>1, <4>2, <4>3, <4>4 DEF Leaving
    <3>5. Leaving(q, o)'
      BY <1>1, <1>2, <3>1, <3>2, <3>4 DEF Leaving
    <3>6. Own(m)' /\ q.hit \in Named(m)'
      BY <1>1, <3>3, ErasedManaged
    <3> QED BY <2>3, <3>1, <3>5, <3>6 DEF Handling, Renaming
  <2> QED BY <1>4, <2>1, <2>2, <2>3 DEF Handling
<1>5. \A t, q, n : Works(t, q, n)' <=> Works(t, q, n)
  BY <1>1 DEF Works
<1>6. ASSUME NEW n \in Name \ spoiled' PROVE Lone(n)' /\ AtRest(n)'
  <2>1. Lone(n) /\ AtRest(n)
    BY <1>1, <1>6 DEF Follows
  <2>2. Lone(n)'
    BY <1>5, <2>1 DEF Lone
  <2>3. Idle(n)' => Own(n) /\ Managed(n)
    BY <1>5, <2>1 DEF AtRest, Idle
  <2>4. Idle(n)' => Own(n)' /\ Managed(n)'
    BY <2>3, ErasedManaged
  <2> QED BY <2>2, <2>4 DEF AtRest
<1>7. ASSUME NEW s \in Slot PROVE Sided(s)' /\ Handled(s)'
  <2>1. Sided(s) /\ Handled(s)
    BY DEF Follows
  <2>2. Sided(s)'
    BY <1>1, <1>5, <2>1 DEF Sided
  <2>3. ASSUME NEW n \in Name \ spoiled', NEW q \in ReqState, Works(s, q, n)' PROVE Handling(q)'
    BY <1>1, <1>4, <1>5, <2>1, <2>3, WorksFacts DEF Handled
  <2> QED BY <2>2, <2>3 DEF Handled
<1> QED BY <1>6, <1>7 DEF Follows

(* A commit: the names it touches, the name its target had among them, and *)
(* what the requests at work on one of them touch.                         *)
Reached(q, hit, all) == all = Touched(q) \cup (IF hit \in DOMAIN objects THEN {objects[hit]} ELSE {})
Others(all) == UNION {Touched(req[r]) : r \in AtWork(all)}
Cascades(q) == q.op \in {"create", "delete", "rename"}

LEMMA SpoilsFacts ==
  ASSUME NEW q, NEW hit, NEW all, Reached(q, hit, all)
  PROVE  /\ Spoils(q, hit) = {} \/ Spoils(q, hit) = all \cup Others(all)
         /\ Cascades(q) /\ Others(all) # {} => Spoils(q, hit) = all \cup Others(all)
         /\ Cascades(q) /\ Uncascaded(q.op) => Spoils(q, hit) = all \cup Others(all)
         /\ q.op = "rename" /\ all \cap spoiled # {} => Spoils(q, hit) = all \cup Others(all)
         /\ q.op \in {"delete", "rename"} /\ hit \in DOMAIN objects /\ q.stash # {objects[hit]} =>
              Spoils(q, hit) = all \cup Others(all)
<1>1. CASE hit \in DOMAIN objects
  BY <1>1 DEF Reached, Others, Cascades, Spoils
<1>2. CASE hit \notin DOMAIN objects
  BY <1>2 DEF Reached, Others, Cascades, Spoils
<1> QED BY <1>1, <1>2

LEMMA CommitsSpoil ==
  ASSUME Typed, Follows, NEW s \in Slot, NEW q, NEW c, Commits(s, q, c), NEW all, Reached(q, c.hit, all),
         NEW t \in Slot, NEW p \in ReqState, NEW n, Works(t, p, n)
  PROVE  (n \in spoiled' \/ (Cascades(q) /\ n \in all)) => Touched(p) \subseteq spoiled'
<1>0. PICK hit : hit = c.hit
  OBVIOUS
<1>1. spoiled' = spoiled \cup Spoils(q, hit) /\ Reached(q, hit, all) /\ p = req[t]
  BY <1>0, WorksFacts DEF Commits
<1>2. Spoils(q, hit) = {} \/ Spoils(q, hit) = all \cup Others(all)
  BY <1>1, SpoilsFacts
<1>3. CASE n \in all
  <2>1. t \in AtWork(all)
    BY <1>1, <1>3, AtWorkWorks
  <2>2. Touched(p) \subseteq Others(all) /\ n \in Touched(p)
    BY <1>1, <2>1, WorksFacts DEF Others
  <2>3. Cascades(q) => Spoils(q, hit) = all \cup Others(all)
    BY <1>1, <2>2, SpoilsFacts
  <2>4. CASE n \in spoiled
    BY <1>1, <2>4 DEF Follows, Sided
  <2> QED BY <1>1, <1>2, <2>2, <2>3, <2>4
<1>4. CASE n \notin all /\ n \in spoiled
  BY <1>1, <1>4 DEF Follows, Sided
<1>5. CASE n \notin all /\ n \in Others(all) /\ n \in spoiled'
  <2>1. Touched(p) \subseteq spoiled \/ Touched(p) \subseteq Others(all)
    BY <1>5, OthersClosed DEF Others
  <2>2. n \in spoiled => Touched(p) \subseteq spoiled
    BY DEF Follows, Sided
  <2> QED BY <1>1, <1>2, <1>5, <2>1, <2>2
<1> QED BY <1>1, <1>2, <1>3, <1>4, <1>5

LEMMA CommitsUnmoved ==
  ASSUME Typed, NEW s \in Slot, NEW q, NEW c, Commits(s, q, c), NEW t \in Slot \ {s} PROVE Unmoved(t)
<1>1. PICK p, n, hit : p = req[t] /\ n = req'[t] /\ hit = c.hit
  OBVIOUS
<1>2. n = (IF p = Nil \/ objects' = objects THEN p ELSE [p EXCEPT !.fresh = @ \cup {hit}]) /\ hit \in Nat
  <2>1. n = Hears(t, hit) /\ hit \in Nat
    BY <1>1 DEF Commits
  <2> QED BY <1>1, <2>1 DEF Hears
<1>3. Nil \notin ReqState
  BY LifecycleAssumption
<1>4. CASE p = Nil
  BY <1>1, <1>2, <1>3, <1>4 DEF Unmoved
<1>5. CASE p # Nil
  <2>1. p \in ReqState
    BY <1>1, <1>5 DEF Typed, ReqsOK
  <2>2. n \in ReqState
    <3>1. p.fresh \cup {hit} \in SUBSET Nat
      BY <1>2, <2>1 DEF ReqState
    <3> QED BY <1>2, <1>5, <2>1, <3>1 DEF ReqState
  <2>3. n # Nil
    BY <1>3, <2>2
  <2>4. SameJob(p, n)
    BY <1>1, <2>3, CommitsOthers DEF SameJob
  <2> QED BY <1>1, <2>1, <2>2, <2>4 DEF Unmoved
<1> QED BY <1>4, <1>5

LEMMA CommitsElsewhere ==
  ASSUME Typed, NEW s \in Slot, NEW q, NEW c, Commits(s, q, c), NEW all, Reached(q, c.hit, all), NEW n \in Name,
         n \notin all \/ objects' = objects
  PROVE  SameAt(n)
<1>1. PICK hit : hit = c.hit
  OBVIOUS
<1>2. /\ DOMAIN objects \subseteq DOMAIN objects' /\ DOMAIN objects' \subseteq DOMAIN objects \cup {hit}
      /\ \A i \in DOMAIN objects \ {hit} : objects'[i] = objects[i]
      /\ objects' # objects => objects'[hit] \in {q.new, Nil}
  BY <1>1, CommitsObjects
<1>3. rows' = rows /\ n # Nil
  BY LifecycleAssumption DEF Commits
<1>4. CASE n \notin all
  <2>1. n # q.new /\ (hit \in DOMAIN objects => objects[hit] # n)
    BY <1>1, <1>3, <1>4 DEF Reached, Touched
  <2>2. objects' # objects => objects'[hit] # n
    BY <1>2, <1>3, <2>1
  <2>3. ASSUME NEW i PROVE i \in Named(n)' <=> i \in Named(n)
    BY <1>2, <2>1, <2>2 DEF Named
  <2> QED BY <1>3, <2>3 DEF SameAt
<1>5. CASE objects' = objects
  BY <1>3, <1>5 DEF SameAt, Named
<1> QED BY <1>4, <1>5

(* A commit that leaves the resources as they are, and has no handler.     *)
LEMMA FollowsQuietCommit ==
  ASSUME Typed, Follows, NEW s \in Slot, NEW q, NEW c, Commits(s, q, c),
         q.op \in {"delete", "update", "read", "search"}, q.op = "delete" => type = "experiment", objects' = objects
  PROVE  Follows'
<1>1. c.todo = <<>> /\ c = req'[s] /\ q.todo = <<>> /\ q = req[s]
  <2>1. AFTER_REQUEST_PATH_HANDLERS(q.op) = <<>>
    BY DEF AFTER_REQUEST_PATH_HANDLERS, gateway
  <2> QED BY <2>1 DEF Commits
<1>2. PICK all : Reached(q, c.hit, all)
  BY DEF Reached
<1>3. PICK A, X : A = {s} /\ X = {}
  OBVIOUS
<1>4. \A n \in Name \ X : SameAt(n)
  BY <1>2, CommitsElsewhere
<1>5. \A t \in Slot \ A : Unmoved(t)
  BY <1>3, CommitsUnmoved
<1>6. \A t \in Slot \ A, p \in ReqState, n \in X \cup spoiled' : Works(t, p, n) => Touched(p) \subseteq spoiled'
  BY <1>2, <1>3, CommitsSpoil
<1>7. \A p \in ReqState : \A n : ~Works(s, p, n) /\ ~Works(s, p, n)'
  BY <1>1 DEF Works
<1>8. Sided(s)' /\ Handled(s)'
  BY <1>7 DEF Sided, Handled
<1>9. /\ A \in SUBSET Slot /\ (\A a, b \in A : a = b) /\ spoiled \subseteq spoiled' /\ abandoned \subseteq abandoned'
      /\ \A a \in A, p \in ReqState, m \in Name : Works(a, p, m) \/ Works(a, p, m)' => m \in X
      /\ \A m \in X \ spoiled' : m \in Name /\ Idle(m)' => Own(m)' /\ Managed(m)'
      /\ \A a \in A : Sided(a)' /\ Handled(a)'
  BY <1>3, <1>7, <1>8 DEF Commits
<1> QED BY <1>4, <1>5, <1>6, <1>9, FollowsStep

(* The commits that change the resources: a name that the commit reaches   *)
(* is spoiled, or its request's handler is now at work on it; and what the *)
(* handler then finds there.                                               *)
LEMMA NobodyThere ==
  ASSUME Typed, Follows, NEW s \in Slot, NEW q, NEW c, Commits(s, q, c), Cascades(q), NEW all, Reached(q, c.hit, all),
         NEW n \in all, n \in Name, n \notin spoiled'
  PROVE  Own(n) /\ Managed(n) /\ Spoils(q, c.hit) = {}
<1>1. spoiled' = spoiled \cup Spoils(q, c.hit)
  BY DEF Commits
<1>2. Idle(n)
  <2>1. SUFFICES ASSUME NEW t \in Slot, NEW p \in ReqState, Works(t, p, n) PROVE FALSE
    BY DEF Idle
  <2>2. Touched(p) \subseteq spoiled' /\ n \in Touched(p)
    BY <2>1, CommitsSpoil, WorksFacts
  <2> QED BY <2>2
<1>3. Own(n) /\ Managed(n)
  BY <1>1, <1>2 DEF Follows, AtRest
<1>4. Spoils(q, c.hit) = {}
  <2>1. PICK hit : hit = c.hit
    OBVIOUS
  <2>2. Spoils(q, hit) = {} \/ Spoils(q, hit) = all \cup Others(all)
    BY <2>1, SpoilsFacts
  <2> QED BY <1>1, <2>1, <2>2
<1> QED BY <1>3, <1>4

LEMMA CommitCreates ==
  ASSUME Typed, Follows, NEW s \in Slot, NEW q, NEW c, Commits(s, q, c), q.op = "create", NEW all, Reached(q, c.hit, all)
  PROVE  /\ all = Touched(q) /\ all \subseteq Name /\ c.todo # <<>>
         /\ all \cap spoiled' # {} => all \subseteq spoiled'
         /\ \A n \in all \ spoiled' : Handling(c)'
<1>1. PICK m, hit : m = q.new /\ hit = c.hit
  OBVIOUS
<1>2. q \in ReqState /\ Shape(q) /\ c.op = "create" /\ c.new = m /\ c.todo = AFTER_REQUEST_PATH_HANDLERS(q.op) /\ rows' = rows
      /\ abandoned' = abandoned
  BY <1>1, CommitsOwn DEF Commits
<1>3. m \in Name /\ Touched(q) = {m} /\ hit \in DOMAIN objects'
  BY <1>1, <1>2, CommitsObjects DEF Shape, ReqState, Touched
<1>4. hit \notin DOMAIN objects \/ objects[hit] = m
  BY <1>1, CommitsObjects
<1>5. all = {m}
  BY <1>1, <1>3, <1>4 DEF Reached
<1>6. c.todo # <<>>
  BY <1>2, HandlerCalls DEF ReqState
<1>7. ASSUME m \notin spoiled' PROVE Handling(c)'
  <2>1. Own(m) /\ Managed(m)
    BY <1>3, <1>5, <1>7, NobodyThere DEF Cascades
  <2>2. CASE objects' = objects /\ hit \in Named(m)
    <3>1. SameAt(m)
      BY <1>2, <2>2 DEF SameAt, Named
    <3>2. Own(m)' /\ Managed(m)' /\ hit \in Named(m)'
      BY <1>2, <1>3, <2>1, <2>2, <3>1, SameKeeps DEF SameAt
    <3> QED BY <1>1, <1>2, <3>2 DEF Handling, Creating
  <2>3. CASE Named(m) = {} /\ hit = Len(objects) + 1 /\ objects' = Append(objects, m)
    <3>1. objects'[hit] = m
      BY <2>3 DEF Typed
    <3>2. hit \in Named(m)'
      BY <1>3, <3>1 DEF Named
    <3>3. \A h \in Holder : rows'[<<h, m>>] = Nil
      BY <1>2, <2>1, <2>3 DEF Own
    <3>4. Own(m)'
      BY <3>3 DEF Own
    <3> QED BY <1>1, <1>2, <3>2, <3>3, <3>4 DEF Handling, Creating
  <2> QED BY <1>1, <2>2, <2>3 DEF Commits
<1> QED BY <1>3, <1>5, <1>6, <1>7

LEMMA CommitTarget ==
  ASSUME Typed, NEW s \in Slot, NEW q, NEW c, Commits(s, q, c), q.op \in {"delete", "rename"}, NEW hit, hit = c.hit
  PROVE  hit \in DOMAIN objects /\ objects[hit] \in Name /\ Named(objects[hit]) = {hit}
<1>1. hit \in Targets(q)
  BY CommitsObjects
<1>2. hit \in DOMAIN objects /\ objects[hit] # Nil /\ objects[hit] \in Name \cup {Nil}
  BY <1>1 DEF Targets, Typed
<1>3. PICK o \in Name : o = objects[hit]
  BY <1>2
<1>4. hit \in Named(o)
  BY <1>2, <1>3 DEF Named
<1> QED BY <1>2, <1>3, <1>4, OnlyOne

LEMMA HandlerLeft ==
  ASSUME Typed, NEW q \in ReqState, NEW todo, todo = AFTER_REQUEST_PATH_HANDLERS(q.op), q.op \in {"delete", "rename"},
         ~Uncascaded(q.op), type # "experiment"
  PROVE  todo # <<>> /\ Left(todo) = Holder
<1>1. todo # <<>>
  BY HandlerCalls
<1>2. \A h \in Holder : \E i \in DOMAIN todo : h \in Members(todo[i])
  BY <1>1, HandlerCalls
<1> QED BY <1>1, <1>2 DEF Left

LEMMA CommitDeletes ==
  ASSUME Typed, Follows, NEW s \in Slot, NEW q, NEW c, Commits(s, q, c), q.op = "delete", type # "experiment",
         NEW all, Reached(q, c.hit, all), objects' = [objects EXCEPT ![c.hit] = Nil]
  PROVE  /\ all \subseteq Name /\ Touched(q) \subseteq all
         /\ Touched(q) \cap spoiled' # {} => Touched(q) \subseteq spoiled'
         /\ \A n \in all \ spoiled' : n \in Touched(q) /\ c.todo # <<>> /\ Handling(c)'
<1>1. PICK hit : hit = c.hit
  OBVIOUS
<1>2. PICK o : o = objects[hit]
  OBVIOUS
<1>3. hit \in DOMAIN objects /\ o \in Name /\ Named(o) = {hit}
  BY <1>1, <1>2, CommitTarget
<1>4. q \in ReqState /\ Shape(q) /\ c.op = "delete" /\ c.stash = q.stash /\ c.todo = AFTER_REQUEST_PATH_HANDLERS(q.op) /\ rows' = rows
  <2>1. q \in ReqState /\ Shape(q)
    BY CommitsOwn
  <2>2. c.op = "delete" /\ c.stash = q.stash /\ c.todo = AFTER_REQUEST_PATH_HANDLERS(q.op) /\ rows' = rows
    BY DEF Commits
  <2> QED BY <2>1, <2>2
<1>5. Touched(q) = q.stash /\ Touched(q) \subseteq Name
  BY <1>4, TouchedNames DEF Shape, Touched
<1>6. all = q.stash \cup {o} /\ Cascades(q)
  BY <1>1, <1>2, <1>3, <1>5 DEF Reached, Cascades
<1>7. q.stash # {o} \/ Uncascaded(q.op) => all \subseteq spoiled'
  <2>1. q.stash # {o} \/ Uncascaded(q.op) => Spoils(q, hit) = all \cup Others(all)
    BY <1>1, <1>2, <1>3, <1>6, SpoilsFacts
  <2> QED BY <1>1, <2>1 DEF Commits
<1>8. ASSUME q.stash = {o}, ~Uncascaded(q.op), o \notin spoiled' PROVE c.todo # <<>> /\ Handling(c)'
  <2>1. c.todo # <<>> /\ Left(c.todo) = Holder
    BY <1>4, <1>8, HandlerLeft
  <2>2. Named(o)' = {}
    <3>1. DOMAIN objects' = DOMAIN objects /\ objects'[hit] = Nil /\ \A i \in DOMAIN objects \ {hit} : objects'[i] = objects[i]
      BY <1>1, <1>3 DEF Typed
    <3>2. o # Nil
      BY <1>3, LifecycleAssumption
    <3>3. ASSUME NEW i \in Named(o)' PROVE FALSE
      BY <1>3, <3>1, <3>2, <3>3 DEF Named
    <3> QED BY <3>3
  <2> QED BY <1>4, <1>8, <2>1, <2>2 DEF Handling, Deleting
<1> QED BY <1>3, <1>5, <1>6, <1>7, <1>8

LEMMA CommitRenames ==
  ASSUME Typed, Follows, NEW s \in Slot, NEW q, NEW c, Commits(s, q, c), q.op = "rename",
         NEW all, Reached(q, c.hit, all), objects' = [objects EXCEPT ![c.hit] = q.new], Named(q.new) = {}
  PROVE  /\ all \subseteq Name /\ Touched(q) \subseteq all
         /\ Touched(q) \cap spoiled' # {} => Touched(q) \subseteq spoiled'
         /\ \A n \in all \ spoiled' : n \in Touched(q) /\ c.todo # <<>> /\ Handling(c)'
<1>1. PICK hit, m : hit = c.hit /\ m = q.new
  OBVIOUS
<1>2. PICK o : o = objects[hit]
  OBVIOUS
<1>3. hit \in DOMAIN objects /\ o \in Name /\ Named(o) = {hit}
  BY <1>1, <1>2, CommitTarget
<1>4. q \in ReqState /\ Shape(q) /\ c.op = "rename" /\ c.stash = q.stash /\ c.new = m
      /\ c.todo = AFTER_REQUEST_PATH_HANDLERS(q.op) /\ rows' = rows /\ abandoned' = abandoned
  <2>1. q \in ReqState /\ Shape(q)
    BY CommitsOwn
  <2>2. c.op = "rename" /\ c.stash = q.stash /\ c.new = m /\ c.todo = AFTER_REQUEST_PATH_HANDLERS(q.op)
    BY <1>1 DEF Commits
  <2>3. rows' = rows /\ abandoned' = abandoned
    BY DEF Commits
  <2> QED BY <2>1, <2>2, <2>3
<1>5. m \in Name /\ Touched(q) = q.stash \cup {m} /\ Touched(q) \subseteq Name /\ type # "experiment" /\ Named(m) = {}
  BY <1>1, <1>4, TouchedNames, LifecycleAssumption DEF Shape, Touched, ReqState
<1>6. all = q.stash \cup {m, o} /\ Cascades(q) /\ o # m
  BY <1>1, <1>2, <1>3, <1>5 DEF Reached, Cascades
<1>7. q.stash # {o} \/ Uncascaded(q.op) \/ all \cap spoiled # {} => all \subseteq spoiled'
  <2>1. q.stash # {o} \/ Uncascaded(q.op) \/ all \cap spoiled # {} => Spoils(q, hit) = all \cup Others(all)
    BY <1>1, <1>2, <1>3, <1>6, SpoilsFacts
  <2> QED BY <1>1, <2>1 DEF Commits
<1>8. spoiled' = spoiled \/ all \subseteq spoiled'
  <2>1. Spoils(q, hit) = {} \/ Spoils(q, hit) = all \cup Others(all)
    BY <1>1, SpoilsFacts
  <2> QED BY <1>1, <2>1 DEF Commits
<1>9. ASSUME q.stash = {o}, ~Uncascaded(q.op), all \cap spoiled' = {} PROVE c.todo # <<>> /\ Handling(c)'
  <2>1. c.todo # <<>> /\ Left(c.todo) = Holder
    BY <1>4, <1>5, <1>9, HandlerLeft
  <2>2. Own(o) /\ Managed(o) /\ Own(m)
    BY <1>3, <1>5, <1>6, <1>9, NobodyThere
  <2>3. DOMAIN objects' = DOMAIN objects /\ objects'[hit] = m /\ \A i \in DOMAIN objects \ {hit} : objects'[i] = objects[i]
    BY <1>1, <1>3 DEF Typed
  <2>4. Named(o)' = {}
    <3>1. ASSUME NEW i \in Named(o)' PROVE FALSE
      BY <1>3, <1>6, <2>3, <3>1 DEF Named
    <3> QED BY <3>1
  <2>5. hit \in Named(m)'
    BY <1>3, <2>3 DEF Named
  <2>6. \A h \in Holder : rows'[<<h, m>>] = Nil
    BY <1>4, <1>5, <2>2 DEF Own
  <2>7. Own(m)'
    BY <2>6 DEF Own
  <2>8. \A h \in Holder : rows'[<<h, o>>] # Nil => rows'[<<h, o>>].of = hit
    BY <1>3, <1>4, <2>2 DEF Own
  <2>9. hit \in abandoned' \/ \E u \in User : Manages(u, o)'
    BY <1>3, <1>4, <2>2 DEF Managed, Manages
  <2>10. Leaving(c, o)'
    BY <1>1, <1>4, <1>9, <2>1, <2>4, <2>8, <2>9 DEF Leaving
  <2> QED BY <1>1, <1>3, <1>4, <2>1, <2>5, <2>7, <2>10 DEF Handling, Renaming
<1> QED BY <1>3, <1>5, <1>6, <1>7, <1>8, <1>9

LEMMA FollowsLoudCommit ==
  ASSUME Typed, Follows, NEW s \in Slot, NEW q, NEW c, Commits(s, q, c), Cascades(q),
         NEW all, Reached(q, c.hit, all), all \subseteq Name, Touched(q) \subseteq all,
         Touched(q) \cap spoiled' # {} => Touched(q) \subseteq spoiled',
         \A n \in all \ spoiled' : n \in Touched(q) /\ c.todo # <<>> /\ Handling(c)'
  PROVE  Follows'
<1>1. c = req'[s] /\ q.todo = <<>> /\ q = req[s] /\ c.new = q.new /\ c.stash = q.stash /\ c \in ReqState
  BY DEF Commits
<1>2. Touched(c) = Touched(q) /\ c # Nil
  BY <1>1, LifecycleAssumption DEF Touched
<1>3. PICK A, X : A = {s} /\ X = all
  OBVIOUS
<1>4. \A n \in Name \ X : SameAt(n)
  BY <1>3, CommitsElsewhere
<1>5. \A t \in Slot \ A : Unmoved(t)
  BY <1>3, CommitsUnmoved
<1>6. \A t \in Slot \ A, p \in ReqState, n \in X \cup spoiled' : Works(t, p, n) => Touched(p) \subseteq spoiled'
  BY <1>3, CommitsSpoil
<1>7. \A p \in ReqState, n \in Name : Works(s, p, n) \/ Works(s, p, n)' => n \in all
  BY <1>1, <1>2 DEF Works
<1>8. \A n \in all \ spoiled' : ~Idle(n)'
  <2>1. ASSUME NEW n \in all \ spoiled' PROVE Works(s, c, n)'
    BY <1>1, <1>2, <2>1 DEF Works
  <2> QED BY <1>1, <2>1 DEF Idle
<1>9. Sided(s)'
  BY <1>1, <1>2 DEF Sided, Works
<1>10. Handled(s)'
  BY <1>1, <1>2 DEF Handled, Works
<1>11. /\ A \in SUBSET Slot /\ (\A a, b \in A : a = b) /\ spoiled \subseteq spoiled' /\ abandoned \subseteq abandoned'
       /\ \A a \in A, p \in ReqState, m \in Name : Works(a, p, m) \/ Works(a, p, m)' => m \in X
       /\ \A m \in X \ spoiled' : m \in Name /\ Idle(m)' => Own(m)' /\ Managed(m)'
       /\ \A a \in A : Sided(a)' /\ Handled(a)'
  BY <1>3, <1>7, <1>8, <1>9, <1>10 DEF Commits
<1> QED BY <1>4, <1>5, <1>6, <1>11, FollowsStep

LEMMA FollowsCommits == ASSUME Typed, Follows, NEW s \in Slot, NEW q, NEW c, Commits(s, q, c) PROVE Follows'
<1>1. PICK all : Reached(q, c.hit, all)
  BY DEF Reached
<1>2. CASE q.op = "create"
  <2>1. all = Touched(q) /\ all \subseteq Name /\ c.todo # <<>> /\ (all \cap spoiled' # {} => all \subseteq spoiled')
        /\ \A n \in all \ spoiled' : Handling(c)'
    BY <1>1, <1>2, CommitCreates
  <2>2. Cascades(q)
    BY <1>2 DEF Cascades
  <2> QED BY <1>1, <2>1, <2>2, FollowsLoudCommit
<1>3. CASE q.op = "delete" /\ type # "experiment" /\ objects' = [objects EXCEPT ![c.hit] = Nil]
  BY <1>1, <1>3, CommitDeletes, FollowsLoudCommit DEF Cascades
<1>4. CASE q.op = "rename" /\ Named(q.new) = {} /\ objects' = [objects EXCEPT ![c.hit] = q.new]
  <2>1. /\ all \subseteq Name /\ Touched(q) \subseteq all
        /\ Touched(q) \cap spoiled' # {} => Touched(q) \subseteq spoiled'
        /\ \A n \in all \ spoiled' : n \in Touched(q) /\ c.todo # <<>> /\ Handling(c)'
    BY <1>1, <1>4, CommitRenames
  <2>2. Cascades(q)
    BY <1>4 DEF Cascades
  <2> QED BY <1>1, <2>1, <2>2, FollowsLoudCommit
<1>5. CASE q.op \in {"delete", "update", "read", "search"} /\ objects' = objects /\ (q.op = "delete" => type = "experiment")
  BY <1>5, FollowsQuietCommit
<1> QED BY <1>2, <1>3, <1>4, <1>5 DEF Commits

LEMMA FollowsInit == Init => Follows
<1> SUFFICES ASSUME Init PROVE Follows
  OBVIOUS
<1>1. PICK n \in Name, owner \in users, g \in Group \cup {Nil} :
       /\ objects = <<n>>
       /\ rows = [k \in Holder \X Name |->
                    IF k = <<owner, n>> THEN [level |-> "MANAGE", of |-> 1]
                    ELSE IF k = <<g, n>> THEN [level |-> "EDIT", of |-> 1] ELSE Nil]
  BY DEF Init
<1>2. \A t, q, m : t \in Slot => ~Works(t, q, m)
  BY DEF Init, Works
<1>3. DOMAIN objects = {1} /\ objects[1] = n
  BY <1>1, OneCall
<1>4. ASSUME NEW m \in Name, NEW h \in Holder, rows[<<h, m>>] # Nil PROVE rows[<<h, m>>].of \in Named(m)
  <2>1. <<h, m>> = <<owner, n>> \/ <<h, m>> = <<g, n>>
    BY <1>1, <1>4
  <2>2. m = n
    BY <2>1
  <2>3. rows[<<h, m>>] \in {[level |-> "MANAGE", of |-> 1], [level |-> "EDIT", of |-> 1]}
    BY <1>1, <1>4
  <2>4. rows[<<h, m>>].of = 1
    BY <2>3
  <2> QED BY <1>3, <2>2, <2>4 DEF Named
<1>5. ASSUME NEW m \in Name PROVE Managed(m)
  <2>1. CASE m = n
    <3>1. owner \in User /\ <<owner, m>> \in Holder \X Name
      BY DEF Init, Holder
    <3>2. rows[<<owner, m>>] = [level |-> "MANAGE", of |-> 1]
      BY <1>1, <2>1, <3>1
    <3>3. [level |-> "MANAGE", of |-> 1] # Nil
      BY RowIsThere, ManageRow
    <3>4. Manages(owner, m)
      BY <3>2, <3>3 DEF Manages
    <3> QED BY <3>1, <3>4 DEF Managed
  <2>2. CASE m # n
    BY <1>3, <2>2 DEF Managed, Named
  <2> QED BY <2>1, <2>2
<1> QED BY <1>2, <1>4, <1>5 DEF Follows, Lone, AtRest, Own, Sided, Handled

LEMMA FollowsNext == Typed /\ Follows /\ [Next]_vars => Follows'
<1> SUFFICES ASSUME Typed, Follows, [Next]_vars PROVE Follows'
  OBVIOUS
<1>1. CASE Next
  BY <1>1, StepKinds, FollowsPlain, FollowsCommits, FollowsGranted, FollowsWiped, FollowsMoved, FollowsGaveUp,
     FollowsErased, FollowsShared
<1>2. CASE UNCHANGED vars
  <2>1. UNCHANGED <<objects, rows, req, spoiled, abandoned>>
    BY <1>2 DEF vars
  <2>2. PICK A, X : A = {} /\ X = {}
    OBVIOUS
  <2>3. /\ \A n \in Name \ X : SameAt(n)
        /\ \A t \in Slot \ A : Unmoved(t)
        /\ \A t \in Slot \ A, p \in ReqState, n \in X \cup spoiled' : Works(t, p, n) => Touched(p) \subseteq spoiled'
    BY <2>1, <2>2, StaysUnmoved DEF SameAt, Named, Follows, Sided
  <2> QED BY <2>1, <2>2, <2>3, FollowsStep
<1> QED BY <1>1, <1>2

LEMMA SettledIsIdle == ASSUME Typed, NEW n \in Name, Settled(n) PROVE n \notin spoiled /\ Idle(n)
<1>1. n \notin spoiled /\ AtWork({n}) = {}
  BY DEF Settled, Pending
<1>2. PICK names : names = {n}
  OBVIOUS
<1>3. ASSUME NEW t \in Slot, NEW q \in ReqState, Works(t, q, n) PROVE FALSE
  <2>1. q = req[t]
    BY <1>3, WorksFacts
  <2>2. t \in AtWork(names)
    BY <1>2, <1>3, <2>1, AtWorkWorks
  <2> QED BY <1>1, <1>2, <2>2
<1> QED BY <1>1, <1>3 DEF Idle

(* hooks/after_request.py: whatever was created, deleted and renamed, by   *)
(* any number of requests at once, a resource that takes a name starts     *)
(* without the rows of the resource that bore it before, but for the       *)
(* exceptions NoInheritedRows names.                                       *)
THEOREM NamesStartClean == Spec => []NoInheritedRows
<1>1. Typed /\ Follows => NoInheritedRows
  <2> SUFFICES ASSUME Typed, Follows, NEW n \in Name, Settled(n), NEW i \in Named(n), NEW h \in Holder, rows[<<h, n>>] # Nil
               PROVE  rows[<<h, n>>].of = i
    BY DEF NoInheritedRows
  <2>1. Own(n)
    BY SettledIsIdle DEF Follows, AtRest
  <2> QED BY <2>1, OnlyOne DEF Own
<1> QED BY <1>1, TypedInit, TypedNext, FollowsInit, FollowsNext, PTL DEF Spec

(* hooks/after_request.py, issue #262: a resource has someone who manages  *)
(* it once the request that made it, or renamed it, was handled, unless    *)
(* its manager's account was deleted; with the same exceptions.            *)
THEOREM EveryResourceIsManaged == Spec => []NoOwnerlessResource
<1>1. Typed /\ Follows => NoOwnerlessResource
  <2> SUFFICES ASSUME Typed, Follows, NEW n \in Name, Settled(n), NEW i \in Named(n) \ abandoned
               PROVE  \E u \in User : Manages(u, n)
    BY DEF NoOwnerlessResource, Manages
  <2>1. Managed(n)
    BY SettledIsIdle DEF Follows, AtRest
  <2> QED BY <2>1 DEF Managed
<1> QED BY <1>1, TypedInit, TypedNext, FollowsInit, FollowsNext, PTL DEF Spec

-----------------------------------------------------------------------------
(***************************************************************************)
(* Searches.  Kept is a recursive function; what is known of it is proved  *)
(* by induction over the prefixes of the sequence (EveryLength, from the   *)
(* least counterexample), and the invariant of the search says where the   *)
(* client's token and the handler's next token cut MLflow's list.          *)
(***************************************************************************)

(* A set of natural numbers has a least one. *)
LEMMA LeastOf ==
  ASSUME NEW A \in SUBSET Nat, A # {}
  PROVE  \E i \in A : \A j \in A : i <= j
<1> DEFINE R == {ss \in Nat \X Nat : ss[1] < ss[2]}
<1>1. IsWellFoundedOn(R, Nat)
  BY NatLessThanWellFounded DEF OpToRel
<1> HIDE DEF R
<1>2. PICK i \in A : \A j \in A : ~(<<j, i>> \in R)
  BY <1>1, WFMin
<1>3. \A j \in A : <<j, i>> \in Nat \X Nat /\ (j < i => <<j, i>> \in R)
  BY DEF R
<1>4. ASSUME NEW j \in A PROVE i <= j
  <2>1. i \in Nat /\ j \in Nat /\ ~(j < i)
    BY <1>2, <1>3
  <2>2. QED
    BY <2>1
<1>5. QED
  BY <1>4

(* Induction over the lengths of a sequence's prefixes: a set of numbers   *)
(* that holds zero and, up to m, the successor of each of its members,     *)
(* holds every number up to m.                                             *)
LEMMA EveryLength ==
  ASSUME NEW m \in Nat, NEW Good, 0 \in Good,
         \A n \in Nat : n < m /\ n \in Good => n + 1 \in Good
  PROVE  0 .. m \subseteq Good
<1> DEFINE Bad == {n \in Nat : n <= m /\ n \notin Good}
<1>1. SUFFICES ASSUME Bad # {} PROVE FALSE
  OBVIOUS
<1>2. PICK i \in Bad : \A j \in Bad : i <= j
  BY <1>1, LeastOf
<1>3. i \in Nat /\ i <= m /\ i # 0 /\ i - 1 \in Nat /\ i - 1 < m
  BY <1>2
<1>4. i - 1 \in Good
  BY <1>2, <1>3
<1>5. (i - 1) + 1 \in Good
  BY <1>3, <1>4
<1>6. QED
  BY <1>2, <1>3, <1>5

(* The function of Kept, up to the prefix of length m. *)
IsKeeping(f, s, K, m) ==
  f = [n \in 0 .. m |-> IF n = 0 THEN <<>> ELSE IF s[n] \in K THEN Append(f[n - 1], s[n]) ELSE f[n - 1]]
Keeping(s, K) == CHOOSE f : IsKeeping(f, s, K, Len(s))

(* Such a function exists, for every length. *)
LEMMA KeepingExists ==
  ASSUME NEW s, NEW K, NEW m \in Nat
  PROVE  \E f : IsKeeping(f, s, K, m)
<1> DEFINE Good == {n \in Nat : \E f : IsKeeping(f, s, K, n)}
<1>1. 0 \in Good
  <2>1. IsKeeping([n \in 0 .. 0 |-> <<>>], s, K, 0)
    BY DEF IsKeeping
  <2> QED BY <2>1
<1>2. ASSUME NEW n \in Nat, n \in Good PROVE n + 1 \in Good
  <2>1. PICK f : IsKeeping(f, s, K, n)
    BY <1>2
  <2> DEFINE g == [j \in 0 .. n + 1 |->
         IF j <= n THEN f[j] ELSE IF s[n + 1] \in K THEN Append(f[n], s[n + 1]) ELSE f[n]]
  <2>2. \A j \in 0 .. n : f[j] = IF j = 0 THEN <<>> ELSE IF s[j] \in K THEN Append(f[j - 1], s[j]) ELSE f[j - 1]
    BY <2>1 DEF IsKeeping
  <2>3. \A j \in 0 .. n + 1 :
          g[j] = IF j = 0 THEN <<>> ELSE IF s[j] \in K THEN Append(g[j - 1], s[j]) ELSE g[j - 1]
    <3> TAKE j \in 0 .. n + 1
    <3>1. CASE j = 0
      BY <2>2, <3>1
    <3>2. CASE j # 0 /\ j <= n
      <4>1. g[j] = f[j] /\ g[j - 1] = f[j - 1]
        BY <3>2
      <4> QED BY <2>2, <3>2, <4>1
    <3>3. CASE j = n + 1
      <4>1. g[j - 1] = f[n] /\ g[j] = IF s[n + 1] \in K THEN Append(f[n], s[n + 1]) ELSE f[n]
        BY <3>3
      <4> QED BY <3>3, <4>1
    <3> QED BY <3>1, <3>2, <3>3
  <2>4. g = [j \in 0 .. n + 1 |-> g[j]]
    OBVIOUS
  <2> HIDE DEF g
  <2>5. IsKeeping(g, s, K, n + 1)
    BY <2>3, <2>4 DEF IsKeeping
  <2> QED BY <2>5
<1> HIDE DEF Good
<1>3. 0 .. m \subseteq Good
  BY <1>1, <1>2, EveryLength
<1> QED BY <1>3 DEF Good

LEMMA KeptIsKeeping ==
  ASSUME NEW s, NEW K
  PROVE  Kept(s, K) = Keeping(s, K)[Len(s)]
BY DEF Kept, Keeping, IsKeeping

(* What it is at zero, and at the next prefix. *)
LEMMA KeepingSteps ==
  ASSUME NEW S, NEW s \in Seq(S), NEW K
  PROVE  /\ Keeping(s, K)[0] = <<>>
         /\ \A n \in Nat : n < Len(s) =>
              Keeping(s, K)[n + 1] = IF s[n + 1] \in K THEN Append(Keeping(s, K)[n], s[n + 1]) ELSE Keeping(s, K)[n]
<1> DEFINE f == Keeping(s, K)
<1>0. Len(s) \in Nat
  OBVIOUS
<1>1. IsKeeping(f, s, K, Len(s))
  BY <1>0, KeepingExists DEF Keeping
<1> HIDE DEF f
<1>2. \A j \in 0 .. Len(s) : f[j] = IF j = 0 THEN <<>> ELSE IF s[j] \in K THEN Append(f[j - 1], s[j]) ELSE f[j - 1]
  BY <1>1 DEF IsKeeping
<1>3. f[0] = <<>>
  BY <1>0, <1>2
<1>4. ASSUME NEW n \in Nat, n < Len(s)
      PROVE  f[n + 1] = IF s[n + 1] \in K THEN Append(f[n], s[n + 1]) ELSE f[n]
  <2>1. n + 1 \in 0 .. Len(s) /\ n + 1 # 0 /\ (n + 1) - 1 = n
    BY <1>0, <1>4
  <2> QED BY <1>2, <2>1
<1> QED BY <1>3, <1>4 DEF f

(* What is kept are entries of the sequence, in K. *)
LEMMA KeepingTyped ==
  ASSUME NEW S, NEW s \in Seq(S), NEW K, NEW n \in 0 .. Len(s)
  PROVE  Keeping(s, K)[n] \in Seq(Items(s) \cap K)
<1> DEFINE T == Items(s) \cap K
           Good == {j \in Nat : Keeping(s, K)[j] \in Seq(T)}
<1>0. Len(s) \in Nat /\ DOMAIN s = 1 .. Len(s)
  OBVIOUS
<1> HIDE DEF T
<1>1. 0 \in Good
  <2>1. Keeping(s, K)[0] = <<>>
    BY KeepingSteps
  <2> QED BY <2>1, EmptySeq
<1>2. ASSUME NEW j \in Nat, j < Len(s), j \in Good PROVE j + 1 \in Good
  <2>1. Keeping(s, K)[j] \in Seq(T)
    BY <1>2
  <2>2. CASE s[j + 1] \in K
    <3>1. s[j + 1] \in T
      BY <1>0, <1>2, <2>2 DEF T, Items
    <3>2. Keeping(s, K)[j + 1] = Append(Keeping(s, K)[j], s[j + 1])
      BY <1>2, <2>2, KeepingSteps
    <3>3. Keeping(s, K)[j + 1] \in Seq(T)
      BY <2>1, <3>1, <3>2, AppendProperties
    <3> QED BY <3>3
  <2>3. CASE s[j + 1] \notin K
    <3>2. Keeping(s, K)[j + 1] = Keeping(s, K)[j]
      BY <1>2, <2>3, KeepingSteps
    <3> QED BY <2>1, <3>2
  <2> QED BY <2>2, <2>3
<1> HIDE DEF Good
<1>3. 0 .. Len(s) \subseteq Good
  BY <1>0, <1>1, <1>2, EveryLength
<1>4. n \in Good
  BY <1>3
<1> QED BY <1>4 DEF Good, T

LEMMA KeptTyped ==
  ASSUME NEW S, NEW s \in Seq(S), NEW K
  PROVE  /\ Kept(s, K) \in Seq(Items(s) \cap K) /\ Kept(s, K) \in Seq(S)
         /\ Items(Kept(s, K)) \subseteq Items(s) \cap K
<1>1. Kept(s, K) \in Seq(Items(s) \cap K)
  BY KeptIsKeeping, KeepingTyped
<1>2. Items(s) \subseteq S
  BY DEF Items
<1>3. Kept(s, K) \in Seq(S)
  BY <1>1, <1>2, SeqMonotonic
<1>4. Items(Kept(s, K)) \subseteq Items(s) \cap K
  BY <1>1 DEF Items
<1> QED BY <1>1, <1>3, <1>4

(* Only the kept entries of the sequence itself count. *)
LEMMA KeepingSame ==
  ASSUME NEW S, NEW s \in Seq(S), NEW t \in Seq(S), NEW K, NEW L,
         NEW m \in Nat, m <= Len(s), m <= Len(t),
         \A j \in 1 .. m : s[j] = t[j] /\ (s[j] \in K <=> s[j] \in L)
  PROVE  Keeping(s, K)[m] = Keeping(t, L)[m]
<1> DEFINE Good == {j \in Nat : Keeping(s, K)[j] = Keeping(t, L)[j]}
<1>1. 0 \in Good
  BY KeepingSteps
<1>2. ASSUME NEW j \in Nat, j < m, j \in Good PROVE j + 1 \in Good
  <2>1. Keeping(s, K)[j] = Keeping(t, L)[j]
    BY <1>2
  <2>2. s[j + 1] = t[j + 1] /\ (s[j + 1] \in K <=> s[j + 1] \in L)
    BY <1>2
  <2>3. j < Len(s) /\ j < Len(t)
    BY <1>2
  <2>4. Keeping(s, K)[j + 1] = IF s[j + 1] \in K THEN Append(Keeping(s, K)[j], s[j + 1]) ELSE Keeping(s, K)[j]
    BY <2>3, KeepingSteps
  <2>5. Keeping(t, L)[j + 1] = IF t[j + 1] \in L THEN Append(Keeping(t, L)[j], t[j + 1]) ELSE Keeping(t, L)[j]
    BY <2>3, KeepingSteps
  <2> QED BY <2>1, <2>2, <2>4, <2>5
<1> HIDE DEF Good
<1>3. 0 .. m \subseteq Good
  BY <1>1, <1>2, EveryLength
<1>4. m \in Good
  BY <1>3
<1> QED BY <1>4 DEF Good

LEMMA KeptSame ==
  ASSUME NEW S, NEW s \in Seq(S), NEW K, NEW L, \A i \in Items(s) : i \in K <=> i \in L
  PROVE  Kept(s, K) = Kept(s, L)
<1>1. Len(s) \in Nat /\ \A j \in 1 .. Len(s) : s[j] \in K <=> s[j] \in L
  BY DEF Items
<1>2. Keeping(s, K)[Len(s)] = Keeping(s, L)[Len(s)]
  <2>1. ASSUME NEW m \in Nat, m = Len(s) PROVE Keeping(s, K)[m] = Keeping(s, L)[m]
    <3>1. m <= Len(s) /\ \A j \in 1 .. m : s[j] = s[j] /\ (s[j] \in K <=> s[j] \in L)
      BY <1>1, <2>1
    <3> QED BY <3>1, KeepingSame
  <2> QED BY <1>1, <2>1
<1> QED BY <1>2, KeptIsKeeping

LEMMA KeptEmpty ==
  ASSUME NEW K
  PROVE  Kept(<<>>, K) = <<>>
<1>1. <<>> \in Seq({}) /\ Len(<<>>) = 0
  OBVIOUS
<1>2. Keeping(<<>>, K)[0] = <<>>
  BY <1>1, KeepingSteps
<1> QED BY <1>1, <1>2, KeptIsKeeping

(* Keeping goes through a concatenation part by part. *)
LEMMA KeptConcat ==
  ASSUME NEW S, NEW s \in Seq(S), NEW t \in Seq(S), NEW K
  PROVE  Kept(s \o t, K) = Kept(s, K) \o Kept(t, K)
<1> DEFINE u == s \o t
           a == Len(s)
           Good == {j \in Nat : Keeping(u, K)[a + j] = Kept(s, K) \o Keeping(t, K)[j]}
<1>0. /\ u \in Seq(S) /\ a \in Nat /\ Len(t) \in Nat /\ Len(u) = a + Len(t)
      /\ \A j \in 1 .. a : u[j] = s[j]
      /\ \A j \in 1 .. Len(t) : u[a + j] = t[j]
  BY ConcatProperties
<1>k. Kept(s, K) \in Seq(S)
  BY KeptTyped
<1>s. \A p \in Nat : p < Len(u) =>
        Keeping(u, K)[p + 1] = IF u[p + 1] \in K THEN Append(Keeping(u, K)[p], u[p + 1]) ELSE Keeping(u, K)[p]
  <2>1. u \in Seq(S)
    BY <1>0
  <2> HIDE DEF u
  <2> QED BY <2>1, KeepingSteps
<1> HIDE DEF u, a
<1>1. 0 \in Good
  <2>1. Keeping(u, K)[a] = Keeping(s, K)[a]
    <3>1. a <= Len(u) /\ a <= Len(s) /\ \A j \in 1 .. a : u[j] = s[j] /\ (u[j] \in K <=> u[j] \in K)
      BY <1>0 DEF a
    <3>2. a \in Nat /\ u \in Seq(S)
      BY <1>0
    <3> QED BY <3>1, <3>2, KeepingSame
  <2>2. Keeping(s, K)[a] = Kept(s, K)
    BY KeptIsKeeping DEF a
  <2>3. Kept(s, K) \o Keeping(t, K)[0] = Kept(s, K)
    BY <1>k, KeepingSteps, ConcatEmptySeq
  <2>4. a + 0 = a
    BY <1>0
  <2> QED BY <2>1, <2>2, <2>3, <2>4
<1>2. ASSUME NEW j \in Nat, j < Len(t), j \in Good PROVE j + 1 \in Good
  <2> DEFINE c == a + j
             kj == Keeping(t, K)[j]
             e == t[j + 1]
  <2>1. Keeping(u, K)[c] = Kept(s, K) \o kj
    BY <1>2
  <2>2. c \in Nat /\ c < Len(u) /\ a + (j + 1) = c + 1 /\ u[c + 1] = e /\ e \in S
    <3>1. u[a + (j + 1)] = t[j + 1] /\ a + (j + 1) = (a + j) + 1
      BY <1>0, <1>2
    <3> QED BY <1>0, <1>2, <3>1
  <2>3. kj \in Seq(S)
    <3>0. j \in 0 .. Len(t)
      BY <1>0, <1>2
    <3>1. kj \in Seq(Items(t) \cap K)
      BY <3>0, KeepingTyped
    <3>2. Items(t) \cap K \subseteq S
      BY DEF Items
    <3> HIDE DEF kj
    <3> QED BY <3>1, <3>2, SeqMonotonic
  <2>6. Keeping(t, K)[j + 1] = IF e \in K THEN Append(kj, e) ELSE kj
    BY <1>2, KeepingSteps
  <2> HIDE DEF c, kj, e
  <2>7. Keeping(u, K)[c + 1] = IF e \in K THEN Append(Keeping(u, K)[c], e) ELSE Keeping(u, K)[c]
    BY <1>s, <2>2
  <2>8. Append(Kept(s, K) \o kj, e) = Kept(s, K) \o Append(kj, e)
    <3>1. ASSUME NEW x \in Seq(S), NEW y \in Seq(S), NEW z \in S
          PROVE  Append(x \o y, z) = x \o Append(y, z)
      <4>1. Append(x \o y, z) = (x \o y) \o <<z>>
        BY ConcatProperties, AppendIsConcat
      <4>2. <<z>> \in Seq(S)
        OBVIOUS
      <4>3. Append(y, z) = y \o <<z>>
        BY AppendIsConcat
      <4> QED BY <4>1, <4>2, <4>3, ConcatAssociative
    <3> QED BY <1>k, <2>2, <2>3, <3>1
  <2>9. Keeping(u, K)[a + (j + 1)] = Kept(s, K) \o Keeping(t, K)[j + 1]
    BY <2>1, <2>2, <2>6, <2>7, <2>8, Zenon
  <2> QED BY <2>9
<1>3. 0 .. Len(t) \subseteq Good
  <2> HIDE DEF Good
  <2> QED BY <1>0, <1>1, <1>2, EveryLength
<1>4. Keeping(u, K)[Len(u)] = Kept(s, K) \o Keeping(t, K)[Len(t)]
  BY <1>0, <1>3
<1> QED BY <1>4, KeptIsKeeping DEF u

(* The entries from a + 1 to b. *)
LEMMA ItemsOfPart ==
  ASSUME NEW S, NEW s \in Seq(S), NEW a \in Nat, NEW b \in Nat, b <= Len(s)
  PROVE  /\ SubSeq(s, a + 1, b) \in Seq(S)
         /\ Items(SubSeq(s, a + 1, b)) \subseteq Items(s)
         /\ a <= b => Len(SubSeq(s, a + 1, b)) = b - a
         /\ b <= a => SubSeq(s, a + 1, b) = <<>>
         /\ \A j \in 1 .. b - a : SubSeq(s, a + 1, b)[j] = s[a + j]
<1>0. Len(s) \in Nat /\ DOMAIN s = 1 .. Len(s)
  OBVIOUS
<1>1. \A j \in a + 1 .. b : s[j] \in Items(s) /\ s[j] \in S
  BY <1>0 DEF Items
<1>2. a + 1 \in Int /\ b \in Int /\ b - (a + 1) + 1 = b - a
  OBVIOUS
<1>3. /\ SubSeq(s, a + 1, b) \in Seq(S)
      /\ Len(SubSeq(s, a + 1, b)) = IF a + 1 <= b THEN b - (a + 1) + 1 ELSE 0
      /\ \A j \in 1 .. b - (a + 1) + 1 : SubSeq(s, a + 1, b)[j] = s[(a + 1) + j - 1]
  BY <1>1, <1>2, SubSeqProperties
<1>4. SubSeq(s, a + 1, b) \in Seq(Items(s))
  BY <1>1, <1>2, SubSeqProperties
<1>5. Items(SubSeq(s, a + 1, b)) \subseteq Items(s)
  BY <1>4 DEF Items
<1>6. b <= a => SubSeq(s, a + 1, b) = <<>>
  BY <1>2, SubSeqEmpty
<1>7. ASSUME NEW j \in 1 .. b - a PROVE SubSeq(s, a + 1, b)[j] = s[a + j]
  <2>1. (a + 1) + j - 1 = a + j
    OBVIOUS
  <2> QED BY <1>2, <1>3, <2>1
<1>8. a <= b => Len(SubSeq(s, a + 1, b)) = b - a
  BY <1>3
<1> QED BY <1>3, <1>5, <1>6, <1>7, <1>8

LEMMA TakeTyped ==
  ASSUME NEW S, NEW s \in Seq(S), NEW k \in Nat
  PROVE  Take(s, k) \in Seq(S)
<1>1. Len(s) \in Nat
  OBVIOUS
<1>2. ASSUME NEW b \in Nat, b <= Len(s) PROVE SubSeq(s, 1, b) \in Seq(S)
  <2>1. SubSeq(s, 0 + 1, b) \in Seq(S)
    BY <1>2, ItemsOfPart
  <2>2. 0 + 1 = 1
    OBVIOUS
  <2> QED BY <2>1, <2>2
<1> QED BY <1>1, <1>2 DEF Take

(* The first k entries of a part of a sequence are a part of it. *)
LEMMA TakePart ==
  ASSUME NEW S, NEW s \in Seq(S), NEW a \in Nat, NEW b \in Nat, a <= b, b <= Len(s), NEW k \in Nat
  PROVE  LET e == IF a + k < b THEN a + k ELSE b
         IN  Take(SubSeq(s, a + 1, b), k) = SubSeq(s, a + 1, e)
<1> DEFINE t == SubSeq(s, a + 1, b)
           e == IF a + k < b THEN a + k ELSE b
           l == IF k < Len(t) THEN k ELSE Len(t)
           x == SubSeq(t, 0 + 1, l)
           y == SubSeq(s, a + 1, e)
<1>1. t \in Seq(S) /\ Len(t) = b - a /\ \A j \in 1 .. b - a : t[j] = s[a + j]
  BY ItemsOfPart
<1> HIDE DEF t
<1>2. l \in Nat /\ l <= Len(t) /\ e \in Nat /\ a <= e /\ e <= Len(s) /\ e <= b /\ e - a = l
  BY <1>1
<1> HIDE DEF e, l
<1>3. x \in Seq(S) /\ Len(x) = l /\ \A j \in 1 .. l : x[j] = t[j]
  <2>1. 0 <= l /\ l - 0 = l /\ \A j \in 1 .. l : 0 + j = j
    BY <1>2
  <2> QED BY <1>1, <1>2, <2>1, ItemsOfPart
<1>4. y \in Seq(S) /\ Len(y) = l /\ \A j \in 1 .. l : y[j] = s[a + j]
  BY <1>2, ItemsOfPart
<1> HIDE DEF x, y
<1>5. Len(x) = Len(y) /\ \A j \in 1 .. Len(x) : x[j] = y[j]
  <2>1. ASSUME NEW j \in 1 .. l PROVE x[j] = y[j]
    <3>1. j \in 1 .. b - a
      BY <1>2
    <3>2. x[j] = t[j] /\ y[j] = s[a + j]
      BY <1>3, <1>4
    <3>3. t[j] = s[a + j]
      BY <1>1, <3>1
    <3> QED BY <3>2, <3>3
  <2> QED BY <1>3, <1>4, <2>1
<1>6. x = y
  BY <1>3, <1>4, <1>5, SeqEqual
<1>7. Take(t, k) = x
  <2>1. 0 + 1 = 1
    OBVIOUS
  <2> QED BY <2>1 DEF Take, x, l
<1> QED BY <1>6, <1>7 DEF t, y, e

(* Every entry of x stands in c between lo and hi, and entries that stand  *)
(* one after the other in x do so in c.                                    *)
InOrder(x, c, lo, hi) ==
  /\ \A j \in 1 .. Len(x) : \E a \in lo + 1 .. hi : c[a] = x[j]
  /\ \A j, k \in 1 .. Len(x) : j < k => \E a, b \in lo + 1 .. hi : a < b /\ c[a] = x[j] /\ c[b] = x[k]

LEMMA OrderConcat ==
  ASSUME NEW S, NEW x \in Seq(S), NEW y \in Seq(S), NEW c,
         NEW lo \in Nat, NEW mid \in Nat, NEW hi \in Nat, lo <= mid, mid <= hi,
         InOrder(x, c, lo, mid), InOrder(y, c, mid, hi)
  PROVE  InOrder(x \o y, c, lo, hi)
<1> DEFINE z == x \o y
           m == Len(x)
           n == Len(y)
<1>1. /\ m \in Nat /\ n \in Nat /\ Len(z) = m + n
      /\ \A j \in 1 .. m + n : z[j] = IF j <= m THEN x[j] ELSE y[j - m]
  BY ConcatProperties, LenProperties
<1>2. /\ \A j \in 1 .. m : \E a \in lo + 1 .. mid : c[a] = x[j]
      /\ \A j, k \in 1 .. m : j < k => \E a, b \in lo + 1 .. mid : a < b /\ c[a] = x[j] /\ c[b] = x[k]
  BY DEF InOrder
<1>3. /\ \A j \in 1 .. n : \E a \in mid + 1 .. hi : c[a] = y[j]
      /\ \A j, k \in 1 .. n : j < k => \E a, b \in mid + 1 .. hi : a < b /\ c[a] = y[j] /\ c[b] = y[k]
  BY DEF InOrder
<1> HIDE DEF z, m, n
<1>4. ASSUME NEW j \in 1 .. m + n PROVE \E a \in lo + 1 .. hi : c[a] = z[j]
  <2>1. CASE j <= m
    <3>1. j \in 1 .. m /\ z[j] = x[j]
      BY <1>1, <2>1
    <3>2. PICK a \in lo + 1 .. mid : c[a] = x[j]
      BY <1>2, <3>1
    <3>3. a \in lo + 1 .. hi
      OBVIOUS
    <3> QED BY <3>1, <3>2, <3>3
  <2>2. CASE ~(j <= m)
    <3>1. j - m \in 1 .. n /\ z[j] = y[j - m]
      BY <1>1, <2>2
    <3>2. PICK a \in mid + 1 .. hi : c[a] = y[j - m]
      BY <1>3, <3>1
    <3>3. a \in lo + 1 .. hi
      OBVIOUS
    <3> QED BY <3>1, <3>2, <3>3
  <2> QED BY <2>1, <2>2
<1>5. ASSUME NEW j \in 1 .. m + n, NEW k \in 1 .. m + n, j < k
      PROVE  \E a, b \in lo + 1 .. hi : a < b /\ c[a] = z[j] /\ c[b] = z[k]
  <2>1. CASE k <= m
    <3>1. j \in 1 .. m /\ k \in 1 .. m /\ z[j] = x[j] /\ z[k] = x[k]
      BY <1>1, <1>5, <2>1
    <3>2. PICK a \in lo + 1 .. mid, b \in lo + 1 .. mid : a < b /\ c[a] = x[j] /\ c[b] = x[k]
      BY <1>2, <1>5, <3>1
    <3>3. a \in lo + 1 .. hi /\ b \in lo + 1 .. hi
      OBVIOUS
    <3> QED BY <3>1, <3>2, <3>3
  <2>2. CASE j <= m /\ ~(k <= m)
    <3>1. j \in 1 .. m /\ k - m \in 1 .. n /\ z[j] = x[j] /\ z[k] = y[k - m]
      BY <1>1, <2>2
    <3>2. PICK a \in lo + 1 .. mid : c[a] = x[j]
      BY <1>2, <3>1
    <3>3. PICK b \in mid + 1 .. hi : c[b] = y[k - m]
      BY <1>3, <3>1
    <3>4. a \in lo + 1 .. hi /\ b \in lo + 1 .. hi /\ a < b
      OBVIOUS
    <3> QED BY <3>1, <3>2, <3>3, <3>4
  <2>3. CASE ~(j <= m)
    <3>1. j - m \in 1 .. n /\ k - m \in 1 .. n /\ j - m < k - m /\ z[j] = y[j - m] /\ z[k] = y[k - m]
      BY <1>1, <1>5, <2>3
    <3>2. PICK a \in mid + 1 .. hi, b \in mid + 1 .. hi : a < b /\ c[a] = y[j - m] /\ c[b] = y[k - m]
      BY <1>3, <3>1
    <3>3. a \in lo + 1 .. hi /\ b \in lo + 1 .. hi
      OBVIOUS
    <3> QED BY <3>1, <3>2, <3>3
  <2> QED BY <1>1, <1>5, <2>1, <2>2, <2>3
<1>6. InOrder(z, c, lo, hi)
  BY <1>1, <1>4, <1>5 DEF InOrder
<1> QED BY <1>6 DEF z

LEMMA EmptyOrder == ASSUME NEW c, NEW lo, NEW hi PROVE InOrder(<<>>, c, lo, hi)
<1>1. 1 .. Len(<<>>) = {}
  BY EmptySeq
<1> QED BY <1>1 DEF InOrder

(* What is kept of a part of a list stands in that part, in its order. *)
LEMMA KeptInOrder ==
  ASSUME NEW S, NEW c \in Seq(S), NEW a \in Nat, NEW b \in Nat, a <= b, b <= Len(c), NEW K
  PROVE  InOrder(Kept(SubSeq(c, a + 1, b), K), c, a, b)
<1> DEFINE t == SubSeq(c, a + 1, b)
           Good == {n \in Nat : InOrder(Keeping(t, K)[n], c, a, a + n)}
<1>0. t \in Seq(S) /\ Len(t) = b - a /\ Len(t) \in Nat /\ \A j \in 1 .. b - a : t[j] = c[a + j]
  BY ItemsOfPart
<1> HIDE DEF t
<1>1. 0 \in Good
  <2>1. Keeping(t, K)[0] = <<>>
    BY <1>0, KeepingSteps
  <2> QED BY <2>1, EmptyOrder
<1>2. ASSUME NEW n \in Nat, n < Len(t), n \in Good PROVE n + 1 \in Good
  <2> DEFINE kn == Keeping(t, K)[n]
             e == t[n + 1]
             mid == a + n
  <2>1. InOrder(kn, c, a, mid)
    BY <1>2
  <2>2. e \in S /\ mid \in Nat /\ a + (n + 1) = mid + 1 /\ e = c[mid + 1] /\ a <= mid
    <3>1. n + 1 \in 1 .. b - a /\ n + 1 \in 1 .. Len(t) /\ a + (n + 1) = (a + n) + 1
      BY <1>0, <1>2
    <3>2. t[n + 1] = c[a + (n + 1)]
      BY <1>0, <3>1
    <3> QED BY <1>0, <1>2, <3>1, <3>2
  <2>3. kn \in Seq(S)
    <3>1. n \in 0 .. Len(t)
      BY <1>0, <1>2
    <3>2. kn \in Seq(Items(t) \cap K)
      BY <1>0, <3>1, KeepingTyped
    <3>3. Items(t) \cap K \subseteq S
      BY <1>0 DEF Items
    <3> HIDE DEF kn
    <3> QED BY <3>2, <3>3, SeqMonotonic
  <2>4. Keeping(t, K)[n + 1] = IF e \in K THEN Append(kn, e) ELSE kn
    BY <1>0, <1>2, KeepingSteps
  <2> HIDE DEF kn, e, mid
  <2>5. <<e>> \in Seq(S) /\ InOrder(<<e>>, c, mid, mid + 1) /\ InOrder(<<>>, c, mid, mid + 1) /\ <<>> \in Seq(S)
    <3>1. <<e>> \in Seq(S) /\ Len(<<e>>) = 1 /\ <<e>>[1] = e
      BY <2>2
    <3> QED BY <2>2, <3>1, EmptyOrder DEF InOrder
  <2>6. InOrder(kn \o <<e>>, c, a, mid + 1) /\ InOrder(kn \o <<>>, c, a, mid + 1)
    <3>1. mid + 1 \in Nat /\ mid <= mid + 1
      BY <2>2
    <3> QED BY <2>1, <2>2, <2>3, <2>5, <3>1, OrderConcat
  <2>7. Append(kn, e) = kn \o <<e>> /\ kn = kn \o <<>>
    BY <2>2, <2>3, AppendIsConcat, ConcatEmptySeq
  <2>8. InOrder(Keeping(t, K)[n + 1], c, a, a + (n + 1))
    BY <2>2, <2>4, <2>6, <2>7, Zenon
  <2> QED BY <2>8
<1>3. 0 .. Len(t) \subseteq Good
  <2> HIDE DEF Good
  <2> QED BY <1>0, <1>1, <1>2, EveryLength
<1>4. a + Len(t) = b /\ Len(t) \in Good
  BY <1>0, <1>3
<1>5. InOrder(Keeping(t, K)[Len(t)], c, a, a + Len(t))
  BY <1>4
<1>6. Kept(t, K) = Keeping(t, K)[Len(t)]
  BY KeptIsKeeping
<1>7. InOrder(Kept(t, K), c, a, b)
  BY <1>4, <1>5, <1>6, Zenon
<1> QED BY <1>7 DEF t

-----------------------------------------------------------------------------
(* Where a token points, and what the caller is to be shown. *)
End(t) == IF t = None THEN Len(catalogue) ELSE t
Visible == IF kind = "all" THEN reads ELSE reads \cap reaches
Tokens == Nat \cup {None}

SearchTyped ==
  /\ kind \in Kinds /\ max_results \in Nat \ {0}
  /\ catalogue \in Seq(Item) /\ page \in Seq(Item) /\ seen \in Seq(Item)
  /\ pc \in {"idle", "filter", "refill"}
  /\ token \in Tokens /\ next_page_token \in Tokens
  /\ pc # "idle" => token # None
  /\ shifted => changed

(* What is on its way to the client was readable, and so was what the      *)
(* request's memo says it may read.                                        *)
PageReadable ==
  /\ pc # "idle" => reads \subseteq could
  /\ \A i \in DOMAIN memo : memo[i] => i \in could
  /\ pc = "idle" \/ (pc = "refill" /\ kind # "all") => Items(page) \subseteq could

(* As long as the list stands, the tokens split it: what the client has    *)
(* seen stands before its token, and the page between that token and the   *)
(* next.                                                                   *)
PageInOrder ==
  /\ End(token) <= Len(catalogue) /\ End(next_page_token) <= Len(catalogue)
  /\ pc = "idle" => InOrder(seen, catalogue, 0, End(token))
  /\ pc = "filter" \/ (pc = "refill" /\ kind = "all") =>
       /\ token <= End(next_page_token)
       /\ page = SubSeq(catalogue, token + 1, End(next_page_token))
       /\ InOrder(seen, catalogue, 0, token)
  /\ pc = "refill" /\ kind # "all" => InOrder(seen \o page, catalogue, 0, End(next_page_token))

(* As long as nothing changes, what was seen, with the filtered page, is   *)
(* all that is visible up to the token.                                    *)
PageComplete ==
  /\ \A i \in DOMAIN memo : memo[i] <=> i \in reads
  /\ pc = "idle" => seen = Kept(SubSeq(catalogue, 1, End(token)), Visible)
  /\ pc = "filter" \/ (pc = "refill" /\ kind = "all") => seen = Kept(SubSeq(catalogue, 1, token), Visible)
  /\ pc = "refill" /\ kind # "all" => seen \o page = Kept(SubSeq(catalogue, 1, End(next_page_token)), Visible)

SearchInv ==
  /\ SearchTyped /\ PageReadable
  /\ ~shifted => PageInOrder
  /\ ~changed => PageComplete

(* One page of MLflow's list, and its token. *)
LEMMA SearchFacts ==
  ASSUME SearchTyped, NEW o \in Nat
  PROVE  /\ search(o) \in Seq(Item) /\ search_token(o) \in Tokens
         /\ o <= Len(catalogue) =>
              LET e == IF o + max_results < Len(catalogue) THEN o + max_results ELSE Len(catalogue)
              IN  /\ search(o) = SubSeq(catalogue, o + 1, e) /\ End(search_token(o)) = e
                  /\ e \in Nat /\ o <= e /\ e <= Len(catalogue)
<1> DEFINE n == Len(catalogue)
           e == IF o + max_results < n THEN o + max_results ELSE n
<1>1. catalogue \in Seq(Item) /\ n \in Nat /\ n <= Len(catalogue) /\ max_results \in Nat
  BY DEF SearchTyped
<1>2. SubSeq(catalogue, o + 1, n) \in Seq(Item)
  BY <1>1, ItemsOfPart
<1>3. search(o) \in Seq(Item)
  BY <1>1, <1>2, TakeTyped DEF search
<1>4. search_token(o) \in Tokens /\ End(search_token(o)) = e
  <2>1. None \notin Nat /\ o + max_results \in Nat
    BY <1>1, SearchAssumption
  <2> QED BY <2>1 DEF search_token, Tokens, End
<1>5. ASSUME o <= n PROVE search(o) = SubSeq(catalogue, o + 1, e) /\ e \in Nat /\ o <= e /\ e <= n
  <2>1. search(o) = SubSeq(catalogue, o + 1, e)
    BY <1>1, <1>5, TakePart DEF search
  <2> QED BY <1>1, <1>5, <2>1
<1> QED BY <1>3, <1>4, <1>5

(* The memo, with the decisions about X added. *)
LEMMA DecideFacts ==
  ASSUME NEW X
  PROVE  /\ DOMAIN Decide(memo, X) = DOMAIN memo \cup X
         /\ (reads \subseteq could /\ \A i \in DOMAIN memo : memo[i] => i \in could) =>
              \A i \in DOMAIN memo \cup X : Decide(memo, X)[i] => i \in could
         /\ (\A i \in DOMAIN memo : memo[i] <=> i \in reads) =>
              \A i \in DOMAIN memo \cup X : Decide(memo, X)[i] <=> i \in reads
<1> DEFINE D == Decide(memo, X)
<1>1. D = [i \in DOMAIN memo \cup X |-> IF i \in DOMAIN memo THEN memo[i] ELSE i \in reads]
  BY DEF Decide
<1>2. DOMAIN D = DOMAIN memo \cup X
  BY <1>1
<1>3. \A i \in DOMAIN memo : D[i] = memo[i]
  BY <1>1
<1>4. \A i \in X \ DOMAIN memo : D[i] = (i \in reads)
  BY <1>1
<1> HIDE DEF D
<1>5. \A i \in DOMAIN memo \cup X : i \in DOMAIN memo \/ i \in X \ DOMAIN memo
  OBVIOUS
<1>6. ASSUME reads \subseteq could, \A i \in DOMAIN memo : memo[i] => i \in could,
             NEW i \in DOMAIN memo \cup X, D[i]
      PROVE  i \in could
  BY <1>3, <1>4, <1>5, <1>6
<1>7. ASSUME \A i \in DOMAIN memo : memo[i] <=> i \in reads, NEW i \in DOMAIN memo \cup X
      PROVE  D[i] <=> i \in reads
  BY <1>3, <1>4, <1>5, <1>7
<1> QED BY <1>2, <1>6, <1>7 DEF D

(* A filtered batch. *)
LEMMA ReadableFacts ==
  ASSUME NEW got \in Seq(Item), NEW look \in BOOLEAN
  PROVE  LET g == Readable(got, Decide(memo, Items(got)), look)
         IN  /\ g \in Seq(Item)
             /\ (reads \subseteq could /\ \A i \in DOMAIN memo : memo[i] => i \in could) => Items(g) \subseteq could
             /\ \E R : g = Kept(got, R)
             /\ (kind # "all" /\ Items(got) \subseteq Items(catalogue) /\ \A i \in DOMAIN memo : memo[i] <=> i \in reads) =>
                  g = Kept(got, Visible)
<1> DEFINE D == Decide(memo, Items(got))
           R == {i \in Items(got) : D[i] /\ can_access_workspace(i, look)}
           g == Readable(got, D, look)
<1>1. g = Kept(got, R)
  BY DEF Readable
<1>2. g \in Seq(Item) /\ Items(g) \subseteq Items(got) \cap R
  BY <1>1, KeptTyped
<1>3. ASSUME reads \subseteq could, \A i \in DOMAIN memo : memo[i] => i \in could
      PROVE  Items(g) \subseteq could
  <2>1. \A i \in Items(got) : D[i] => i \in could
    BY <1>3, DecideFacts
  <2> HIDE DEF D, g
  <2> QED BY <1>2, <2>1
<1>4. ASSUME kind # "all", Items(got) \subseteq Items(catalogue), \A i \in DOMAIN memo : memo[i] <=> i \in reads
      PROVE  g = Kept(got, Visible)
  <2>1. \A i \in Items(got) : D[i] <=> i \in reads
    BY <1>4, DecideFacts
  <2>2. \A i \in Items(got) : can_access_workspace(i, look) <=> i \in reaches
    BY <1>4 DEF can_access_workspace
  <2>3. \A i \in Items(got) : i \in R <=> i \in Visible
    <3> HIDE DEF D
    <3> QED BY <1>4, <2>1, <2>2 DEF Visible
  <2> HIDE DEF R
  <2>4. Kept(got, R) = Kept(got, Visible)
    BY <2>3, KeptSame
  <2> QED BY <1>1, <2>4
<1> HIDE DEF R
<1> QED BY <1>1, <1>2, <1>3, <1>4

(* One turn of a refilling loop: the batch, how it is added to the page,   *)
(* and where it ends.                                                      *)
Fetched(got, look) ==
  /\ got \in Seq(Item) /\ look \in BOOLEAN
  /\ page' = page \o Readable(got, Decide(memo, Items(got)), look)
  /\ memo' = Decide(memo, Items(got))
  /\ next_page_token' \in Tokens
  /\ next_page_token <= Len(catalogue) =>
       /\ End(next_page_token') <= Len(catalogue) /\ next_page_token <= End(next_page_token')
       /\ got = SubSeq(catalogue, next_page_token + 1, End(next_page_token'))

(* The turn that finds nothing more. *)
Exhausted ==
  /\ page' = page /\ memo' = memo /\ next_page_token' = None
  /\ next_page_token <= Len(catalogue) => next_page_token = Len(catalogue)

LEMMA RefillFetches ==
  ASSUME SearchTyped, refill
  PROVE  (\E got : Fetched(got, FALSE)) \/ Exhausted
<1> DEFINE o == next_page_token
           k == max_results - Len(page)
           got == Take(search(o), k)
           n == Len(catalogue)
<1>1. /\ kind = "offset" /\ o # None /\ Len(page) < max_results
      /\ IF got = <<>> THEN Loop(page, memo, None)
         ELSE Loop(page \o Readable(got, Decide(memo, Items(got)), FALSE), Decide(memo, Items(got)), o + Len(got))
  BY DEF refill, More
<1>2. o \in Nat /\ k \in Nat /\ k # 0 /\ n \in Nat /\ catalogue \in Seq(Item) /\ max_results \in Nat \ {0}
  BY <1>1 DEF SearchTyped, Tokens
<1> HIDE DEF k
<1>3. got \in Seq(Item)
  BY <1>2, SearchFacts, TakeTyped
<1> DEFINE e == IF o + max_results < n THEN o + max_results ELSE n
           f == IF o + k < e THEN o + k ELSE e
<1>4. ASSUME o <= n
      PROVE  got = SubSeq(catalogue, o + 1, f) /\ Len(got) = f - o /\ f \in Nat /\ o <= f /\ f <= n /\ (f = o => o = n)
  <2>1. search(o) = SubSeq(catalogue, o + 1, e) /\ e \in Nat /\ o <= e /\ e <= n
    BY <1>2, <1>4, SearchFacts
  <2>2. f \in Nat /\ o <= f /\ f <= n /\ (f = o => o = n)
    BY <1>2, <1>4, <2>1
  <2> HIDE DEF e
  <2>3. got = SubSeq(catalogue, o + 1, f)
    BY <1>2, <2>1, TakePart
  <2> HIDE DEF f
  <2>4. Len(got) = f - o
    BY <1>2, <2>2, <2>3, ItemsOfPart
  <2> QED BY <2>2, <2>3, <2>4
<1> HIDE DEF got, f
<1>5. CASE got = <<>>
  <2>1. page' = page /\ memo' = memo /\ next_page_token' = None
    BY <1>1, <1>5 DEF Loop
  <2>2. ASSUME o <= n PROVE o = n
    BY <1>2, <1>4, <1>5, <2>2
  <2> QED BY <2>1, <2>2 DEF Exhausted
<1>6. CASE got # <<>>
  <2>1. /\ page' = page \o Readable(got, Decide(memo, Items(got)), FALSE)
        /\ memo' = Decide(memo, Items(got)) /\ next_page_token' = o + Len(got)
    BY <1>1, <1>6 DEF Loop
  <2>2. Len(got) \in Nat /\ o + Len(got) \in Nat /\ None \notin Nat
    BY <1>2, <1>3, SearchAssumption
  <2>3. next_page_token' \in Tokens /\ End(next_page_token') = o + Len(got)
    BY <2>1, <2>2 DEF Tokens, End
  <2>4. ASSUME o <= n
        PROVE  End(next_page_token') <= n /\ o <= End(next_page_token') /\ got = SubSeq(catalogue, o + 1, End(next_page_token'))
    <3>1. o + Len(got) = f
      BY <1>2, <1>4, <2>4
    <3> QED BY <1>4, <2>3, <2>4, <3>1
  <2>5. Fetched(got, FALSE)
    BY <1>3, <2>1, <2>3, <2>4 DEF Fetched
  <2> QED BY <2>5
<1> QED BY <1>5, <1>6

LEMMA LoggedFetches ==
  ASSUME SearchTyped, refill_logged
  PROVE  \E got : Fetched(got, TRUE)
<1> DEFINE o == next_page_token
           batch == search(o)
           n == Len(catalogue)
           walked(k) == Readable(Take(batch, k), Decide(memo, Items(Take(batch, k))), TRUE)
           stops == {k \in 1 .. Len(batch) : Len(page) + Len(walked(k)) >= max_results}
           last == search_token(o) = None
           end == IF stops = {} THEN Len(batch) ELSE CHOOSE i \in stops : \A j \in stops : i <= j
           got == Take(batch, end)
           next == CASE last /\ end = Len(batch) -> None
                     [] ~last /\ stops = {} -> o + max_results
                     [] OTHER -> o + end
<1>1. o # None /\ Loop(page \o walked(end), Decide(memo, Items(got)), next)
  BY DEF refill_logged, More
<1>2. o \in Nat /\ n \in Nat /\ catalogue \in Seq(Item) /\ max_results \in Nat \ {0} /\ None \notin Nat
  BY <1>1, SearchAssumption DEF SearchTyped, Tokens
<1>3. batch \in Seq(Item) /\ Len(batch) \in Nat
  BY <1>2, SearchFacts
<1>4. end \in Nat /\ end <= Len(batch) /\ (stops = {} => end = Len(batch))
  <2>1. stops \subseteq 1 .. Len(batch)
    OBVIOUS
  <2> HIDE DEF stops, batch
  <2>2. CASE stops = {}
    BY <1>3, <2>2
  <2>3. CASE stops # {}
    <3>1. stops \in SUBSET Nat
      BY <1>3, <2>1
    <3>2. \E i \in stops : \A j \in stops : i <= j
      BY <2>3, <3>1, LeastOf
    <3>3. end \in stops
      BY <2>3, <3>2
    <3> HIDE DEF end
    <3> QED BY <1>3, <2>1, <2>3, <3>3
  <2> QED BY <2>2, <2>3
<1> HIDE DEF stops, end
<1>5. got \in Seq(Item)
  BY <1>3, <1>4, TakeTyped
<1>6. /\ page' = page \o Readable(got, Decide(memo, Items(got)), TRUE)
      /\ memo' = Decide(memo, Items(got)) /\ next_page_token' = next
  BY <1>1 DEF Loop
<1>7. next \in Tokens
  BY <1>2, <1>4 DEF Tokens
<1>8. ASSUME o <= n
      PROVE  End(next) <= n /\ o <= End(next) /\ got = SubSeq(catalogue, o + 1, End(next))
  <2> DEFINE e == IF o + max_results < n THEN o + max_results ELSE n
  <2>1. batch = SubSeq(catalogue, o + 1, e) /\ End(search_token(o)) = e /\ e \in Nat /\ o <= e /\ e <= n
    BY <1>2, <1>8, SearchFacts
  <2>2. Len(batch) = e - o
    <3> HIDE DEF batch, e
    <3> QED BY <1>2, <2>1, ItemsOfPart
  <2>3. last => e = n
    BY <2>1 DEF End
  <2>4. ~last => e = o + max_results
    BY <1>2 DEF search_token
  <2>5. End(next) = o + end
    <3>1. CASE last /\ end = Len(batch)
      <4>1. next = None
        <5> HIDE DEF last, batch
        <5> QED BY <3>1
      <4> HIDE DEF next, last, batch, e
      <4> QED BY <1>2, <1>4, <2>1, <2>2, <2>3, <3>1, <4>1 DEF End
    <3>2. CASE ~(last /\ end = Len(batch)) /\ stops = {}
      <4>1. ~last /\ end = Len(batch)
        <5> HIDE DEF last, batch
        <5> QED BY <1>4, <3>2
      <4>2. next = o + max_results
        <5> HIDE DEF last, batch
        <5> QED BY <3>2, <4>1
      <4> HIDE DEF next, last, batch, e
      <4>3. o + end = o + max_results
        BY <1>2, <1>4, <2>1, <2>2, <2>4, <4>1
      <4> QED BY <1>2, <4>2, <4>3 DEF End
    <3>3. CASE ~(last /\ end = Len(batch)) /\ stops # {}
      <4>1. next = o + end
        <5> HIDE DEF last, batch
        <5> QED BY <3>3
      <4> HIDE DEF next
      <4> QED BY <1>2, <1>4, <4>1 DEF End
    <3> QED BY <3>1, <3>2, <3>3
  <2> HIDE DEF e
  <2>6. got = SubSeq(catalogue, o + 1, IF o + end < e THEN o + end ELSE e)
    BY <1>2, <1>4, <2>1, TakePart
  <2>7. (IF o + end < e THEN o + end ELSE e) = o + end /\ o + end <= n /\ o <= o + end
    <3> HIDE DEF batch
    <3> QED BY <1>2, <1>4, <2>1, <2>2
  <2> HIDE DEF got, next
  <2> QED BY <2>5, <2>6, <2>7
<1> HIDE DEF got, next
<1>9. Fetched(got, TRUE)
  BY <1>5, <1>6, <1>7, <1>8 DEF Fetched
<1> QED BY <1>9

(* What is added to an ordered, or to a complete, prefix. *)
LEMMA AddsInOrder ==
  ASSUME NEW S, NEW c \in Seq(S), NEW x \in Seq(S), NEW a \in Nat, NEW b \in Nat, a <= b, b <= Len(c),
         NEW R, InOrder(x, c, 0, a)
  PROVE  InOrder(x \o Kept(SubSeq(c, a + 1, b), R), c, 0, b)
<1> DEFINE g == Kept(SubSeq(c, a + 1, b), R)
<1>1. SubSeq(c, a + 1, b) \in Seq(S)
  BY ItemsOfPart
<1>2. g \in Seq(S) /\ InOrder(g, c, a, b)
  BY <1>1, KeptTyped, KeptInOrder
<1> HIDE DEF g
<1>3. 0 \in Nat /\ 0 <= a
  OBVIOUS
<1>4. InOrder(x \o g, c, 0, b)
  BY <1>2, <1>3, OrderConcat
<1> QED BY <1>4 DEF g

LEMMA AddsComplete ==
  ASSUME NEW S, NEW c \in Seq(S), NEW a \in Nat, NEW b \in Nat, a <= b, b <= Len(c), NEW W
  PROVE  Kept(SubSeq(c, 1, a), W) \o Kept(SubSeq(c, a + 1, b), W) = Kept(SubSeq(c, 1, b), W)
<1>1. SubSeq(c, 1, a) \in Seq(S) /\ SubSeq(c, a + 1, b) \in Seq(S)
  <2>1. SubSeq(c, 0 + 1, a) \in Seq(S) /\ SubSeq(c, a + 1, b) \in Seq(S)
    BY ItemsOfPart
  <2>2. 0 + 1 = 1
    OBVIOUS
  <2> QED BY <2>1, <2>2
<1>2. SubSeq(c, 1, a) \o SubSeq(c, a + 1, b) = SubSeq(c, 1, b)
  <2>1. 1 \in 1 .. Len(c) + 1 /\ a \in 1 - 1 .. Len(c) /\ b \in a .. Len(c)
    OBVIOUS
  <2> QED BY <2>1, ConcatAdjacentSubSeq
<1> DEFINE p == SubSeq(c, 1, a)
           q == SubSeq(c, a + 1, b)
<1>3. Kept(p \o q, W) = Kept(p, W) \o Kept(q, W)
  <2>1. p \in Seq(S) /\ q \in Seq(S)
    BY <1>1
  <2> HIDE DEF p, q
  <2> QED BY <2>1, KeptConcat
<1> QED BY <1>2, <1>3, Zenon

LEMMA SearchStarts == SearchInit => SearchInv
<1> SUFFICES ASSUME SearchInit PROVE SearchInv
  OBVIOUS
<1> USE DEF SearchInit
<1>1. SearchTyped
  BY SearchAssumption DEF SearchTyped, Tokens
<1>2. Len(catalogue) \in Nat /\ End(token) = 0 /\ End(next_page_token) = Len(catalogue) /\ Items(page) = {}
  BY <1>1, SearchAssumption DEF SearchTyped, End, Items
<1>3. PageReadable
  BY <1>2 DEF PageReadable
<1>4. PageInOrder
  BY <1>2, EmptyOrder DEF PageInOrder
<1>5. PageComplete
  <2>1. SubSeq(catalogue, 1, 0) = <<>>
    BY SubSeqEmpty
  <2>2. seen = Kept(SubSeq(catalogue, 1, End(token)), Visible)
    BY <1>2, <2>1, KeptEmpty, Zenon
  <2>3. DOMAIN memo = {} /\ pc = "idle"
    OBVIOUS
  <2> QED BY <2>2, <2>3 DEF PageComplete
<1> QED BY <1>1, <1>3, <1>4, <1>5 DEF SearchInv

(* What a step that leaves the list and the permissions alone does to the  *)
(* parts that only depend on them.                                         *)
Quiet == UNCHANGED <<kind, max_results, catalogue, reads, reaches, changed, shifted>>

LEMMA QuietParts ==
  ASSUME Quiet
  PROVE  /\ Visible' = Visible
         /\ End(token)' = End(token') /\ End(next_page_token)' = End(next_page_token')
BY DEF Quiet, Visible, End

LEMMA SearchKeeps ==
  ASSUME SearchInv, Search
  PROVE  SearchInv'
<1>1. /\ pc = "idle" /\ pc' = "filter" /\ token \in Nat /\ memo' = <<>> /\ could' = reads
      /\ page' = search(token) /\ next_page_token' = search_token(token)
      /\ token' = token /\ seen' = seen /\ Quiet
  BY DEF Search, Quiet, world, SearchInv, SearchTyped, Tokens
<1>2. SearchTyped /\ PageReadable /\ (~shifted => PageInOrder) /\ (~changed => PageComplete)
  BY DEF SearchInv
<1>3. SearchTyped'
  BY <1>1, <1>2, SearchFacts, SearchAssumption DEF SearchTyped, Quiet, Tokens
<1>4. PageReadable'
  BY <1>1 DEF PageReadable, Quiet
<1>5. End(token) = token /\ End(token') = token /\ token # None
  BY <1>1, SearchAssumption DEF End
<1>6. ASSUME ~shifted PROVE PageInOrder'
  <2>1. token <= Len(catalogue) /\ InOrder(seen, catalogue, 0, token)
    BY <1>1, <1>2, <1>5, <1>6 DEF PageInOrder
  <2>2. /\ page' = SubSeq(catalogue, token + 1, End(next_page_token'))
        /\ token <= End(next_page_token') /\ End(next_page_token') <= Len(catalogue)
    BY <1>1, <1>2, <2>1, SearchFacts
  <2> QED BY <1>1, <1>5, <2>1, <2>2, QuietParts DEF PageInOrder, Quiet
<1>7. ASSUME ~changed PROVE PageComplete'
  <2>1. seen = Kept(SubSeq(catalogue, 1, token), Visible)
    BY <1>1, <1>2, <1>5, <1>7 DEF PageComplete
  <2> QED BY <1>1, <2>1, QuietParts DEF PageComplete, Quiet
<1> QED BY <1>1, <1>3, <1>4, <1>6, <1>7 DEF SearchInv, Quiet

(* A turn of a refilling loop. *)
LEMMA FetchedKeeps ==
  ASSUME SearchInv, NEW got, NEW look, Fetched(got, look),
         pc = "refill", pc' = "refill", kind # "all", next_page_token # None,
         UNCHANGED <<token, seen, could>>, Quiet
  PROVE  SearchInv'
<1> DEFINE D == Decide(memo, Items(got))
           g == Readable(got, D, look)
           o == next_page_token
           e == End(next_page_token')
<1>1. SearchTyped /\ PageReadable /\ (~shifted => PageInOrder) /\ (~changed => PageComplete)
  BY DEF SearchInv
<1>2. got \in Seq(Item) /\ look \in BOOLEAN /\ page' = page \o g /\ memo' = D /\ next_page_token' \in Tokens
  BY DEF Fetched
<1>3. /\ o \in Nat /\ End(o) = o /\ catalogue \in Seq(Item) /\ page \in Seq(Item) /\ seen \in Seq(Item)
      /\ Len(catalogue) \in Nat /\ e \in Nat
  BY <1>1, <1>2 DEF SearchTyped, Tokens, End
<1>4. g \in Seq(Item)
  BY <1>2, ReadableFacts
<1>5. SearchTyped'
  <2>1. page' \in Seq(Item)
    <3> HIDE DEF g
    <3> QED BY <1>2, <1>3, <1>4, ConcatProperties
  <2> QED BY <1>1, <1>2, <2>1 DEF SearchTyped, Quiet
<1>6. PageReadable'
  <2>1. reads \subseteq could /\ (\A i \in DOMAIN memo : memo[i] => i \in could) /\ Items(page) \subseteq could
    BY <1>1 DEF PageReadable
  <2>2. Items(g) \subseteq could /\ \A i \in DOMAIN D : D[i] => i \in could
    BY <1>2, <2>1, ReadableFacts, DecideFacts
  <2>3. Items(page') \subseteq could
    <3> HIDE DEF g
    <3>1. DOMAIN page' = 1 .. Len(page) + Len(g) /\ \A j \in 1 .. Len(page) + Len(g) :
            page'[j] = IF j <= Len(page) THEN page[j] ELSE g[j - Len(page)]
      BY <1>2, <1>3, <1>4, ConcatProperties
    <3>2. \A j \in 1 .. Len(page) : page[j] \in could
      BY <1>3, <2>1 DEF Items
    <3>3. \A j \in 1 .. Len(g) : g[j] \in could
      BY <1>4, <2>2 DEF Items
    <3>4. ASSUME NEW j \in 1 .. Len(page) + Len(g) PROVE page'[j] \in could
      <4>1. j <= Len(page) \/ j - Len(page) \in 1 .. Len(g)
        BY <1>3, <1>4
      <4> QED BY <1>3, <3>1, <3>2, <3>3, <4>1
    <3> QED BY <3>1, <3>4 DEF Items
  <2> HIDE DEF D, g
  <2> QED BY <1>2, <2>1, <2>2, <2>3 DEF PageReadable, Quiet
<1>7. ASSUME ~shifted
      PROVE  /\ End(token) <= Len(catalogue) /\ o <= e /\ e <= Len(catalogue)
             /\ got = SubSeq(catalogue, o + 1, e) /\ InOrder(seen \o page, catalogue, 0, o)
  <2>1. End(token) <= Len(catalogue) /\ o <= Len(catalogue) /\ InOrder(seen \o page, catalogue, 0, o)
    BY <1>1, <1>3, <1>7 DEF PageInOrder
  <2> QED BY <2>1 DEF Fetched
<1>8. seen \o page \in Seq(Item) /\ seen \o page' = (seen \o page) \o g
  <2> HIDE DEF g
  <2>1. seen \o page \in Seq(Item)
    BY <1>3, ConcatProperties
  <2>2. seen \o (page \o g) = (seen \o page) \o g
    <3>1. \A x, y, z \in Seq(Item) : (x \o y) \o z = x \o (y \o z)
      BY ConcatAssociative
    <3> QED BY <1>3, <1>4, <3>1, Zenon
  <2> QED BY <1>2, <2>1, <2>2, Zenon
<1>9. ASSUME ~shifted PROVE PageInOrder'
  <2>1. PICK R : g = Kept(got, R)
    BY <1>2, ReadableFacts
  <2> HIDE DEF g, e
  <2>2. InOrder((seen \o page) \o g, catalogue, 0, e)
    BY <1>3, <1>7, <1>8, <1>9, <2>1, AddsInOrder
  <2>3. InOrder(seen \o page', catalogue, 0, e)
    BY <1>8, <2>2
  <2> QED BY <1>7, <1>9, <2>3, QuietParts DEF PageInOrder, Quiet, e
<1>10. ASSUME ~changed PROVE PageComplete'
  <2>1. (\A i \in DOMAIN memo : memo[i] <=> i \in reads) /\ seen \o page = Kept(SubSeq(catalogue, 1, o), Visible)
    BY <1>1, <1>3, <1>10 DEF PageComplete
  <2>2. ~shifted
    BY <1>1, <1>10 DEF SearchTyped
  <2>3. Items(got) \subseteq Items(catalogue)
    <3> HIDE DEF e
    <3> QED BY <1>3, <1>7, <2>2, ItemsOfPart
  <2>4. g = Kept(got, Visible) /\ \A i \in DOMAIN D : D[i] <=> i \in reads
    BY <1>2, <2>1, <2>3, ReadableFacts, DecideFacts
  <2> HIDE DEF g, e, D
  <2>5. (seen \o page) \o g = Kept(SubSeq(catalogue, 1, e), Visible)
    <3>1. Kept(SubSeq(catalogue, 1, o), Visible) \o Kept(SubSeq(catalogue, o + 1, e), Visible)
          = Kept(SubSeq(catalogue, 1, e), Visible)
      BY <1>3, <1>7, <2>2, AddsComplete
    <3> QED BY <1>7, <2>1, <2>2, <2>4, <3>1, Zenon
  <2>6. seen \o page' = Kept(SubSeq(catalogue, 1, e), Visible)
    BY <1>8, <2>5
  <2> QED BY <1>2, <2>4, <2>6, QuietParts DEF PageComplete, Quiet, e
<1> QED BY <1>5, <1>6, <1>9, <1>10 DEF SearchInv, Quiet

(* Loop leaves everything but the handler's own variables. *)
LEMMA LoopFacts ==
  ASSUME NEW p, NEW m, NEW next, Loop(p, m, next)
  PROVE  /\ page' = p /\ memo' = m /\ next_page_token' = next /\ pc' = "refill"
         /\ UNCHANGED <<token, seen, could>> /\ Quiet
BY DEF Loop, Quiet, world

(* MLflow's own page, filtered, or kept whole for the callers of fetch_all. *)
LEMMA FilterKeeps ==
  ASSUME SearchInv, filter_page
  PROVE  SearchInv'
<1>1. SearchTyped /\ PageReadable /\ (~shifted => PageInOrder) /\ (~changed => PageComplete)
  BY DEF SearchInv
<1>2. pc = "filter" /\ token \in Nat /\ page \in Seq(Item) /\ seen \in Seq(Item) /\ catalogue \in Seq(Item)
  BY <1>1 DEF filter_page, SearchTyped, Tokens
<1>3. CASE kind = "all"
  <2>1. /\ page' = page /\ memo' = memo /\ next_page_token' = next_page_token /\ pc' = "refill"
        /\ UNCHANGED <<token, seen, could>> /\ Quiet
    BY <1>3, LoopFacts DEF filter_page
  <2>2. SearchTyped' /\ PageReadable'
    BY <1>1, <1>2, <1>3, <2>1 DEF SearchTyped, PageReadable, Quiet
  <2>3. ASSUME ~shifted PROVE PageInOrder'
    BY <1>1, <1>2, <1>3, <2>1, <2>3 DEF PageInOrder, Quiet, End
  <2>4. ASSUME ~changed PROVE PageComplete'
    BY <1>1, <1>2, <1>3, <2>1, <2>4, QuietParts DEF PageComplete, Quiet
  <2> QED BY <2>1, <2>2, <2>3, <2>4 DEF SearchInv, Quiet
<1>4. CASE kind # "all"
  <2> DEFINE D == Decide(memo, Items(page))
             g == Readable(page, D, TRUE)
             e == End(next_page_token)
  <2>1. /\ page' = g /\ memo' = D /\ next_page_token' = next_page_token /\ pc' = "refill"
        /\ UNCHANGED <<token, seen, could>> /\ Quiet
    BY <1>4, LoopFacts DEF filter_page
  <2>2. g \in Seq(Item) /\ TRUE \in BOOLEAN
    BY <1>2, ReadableFacts
  <2>3. SearchTyped'
    <3> HIDE DEF g, D
    <3> QED BY <1>1, <1>2, <2>1, <2>2 DEF SearchTyped, Quiet
  <2>4. PageReadable'
    <3>1. reads \subseteq could /\ (\A i \in DOMAIN memo : memo[i] => i \in could)
      BY <1>1, <1>2 DEF PageReadable
    <3>2. Items(g) \subseteq could /\ \A i \in DOMAIN D : D[i] => i \in could
      BY <1>2, <3>1, ReadableFacts, DecideFacts
    <3> HIDE DEF D, g
    <3> QED BY <2>1, <3>1, <3>2 DEF PageReadable, Quiet
  <2>5. End(next_page_token') = e /\ End(token') = End(token) /\ e \in Tokens \cup Nat
    BY <1>1, <1>2, <2>1 DEF End, SearchTyped, Tokens
  <2>6. ASSUME ~shifted
        PROVE  /\ e \in Nat /\ token <= e /\ e <= Len(catalogue) /\ End(token) <= Len(catalogue)
               /\ page = SubSeq(catalogue, token + 1, e) /\ InOrder(seen, catalogue, 0, token)
    BY <1>1, <1>2, <2>6 DEF PageInOrder, End, SearchTyped, Tokens
  <2>7. ASSUME ~shifted PROVE PageInOrder'
    <3>1. PICK R : g = Kept(page, R)
      BY <1>2, <2>2, ReadableFacts
    <3> HIDE DEF g, e
    <3>2. InOrder(seen \o g, catalogue, 0, e)
      BY <1>2, <2>6, <2>7, <3>1, AddsInOrder
    <3> QED BY <1>4, <2>1, <2>5, <2>6, <2>7, <3>2, QuietParts DEF PageInOrder, Quiet
  <2>8. ASSUME ~changed PROVE PageComplete'
    <3>1. (\A i \in DOMAIN memo : memo[i] <=> i \in reads) /\ seen = Kept(SubSeq(catalogue, 1, token), Visible)
      BY <1>1, <1>2, <2>8 DEF PageComplete
    <3>2. ~shifted
      BY <1>1, <2>8 DEF SearchTyped
    <3>3. Items(page) \subseteq Items(catalogue)
      <4> HIDE DEF e
      <4> QED BY <1>2, <2>6, <3>2, ItemsOfPart
    <3>4. g = Kept(page, Visible) /\ \A i \in DOMAIN D : D[i] <=> i \in reads
      BY <1>2, <1>4, <2>2, <3>1, <3>3, ReadableFacts, DecideFacts
    <3> HIDE DEF g, e, D
    <3>5. seen \o g = Kept(SubSeq(catalogue, 1, e), Visible)
      <4>1. Kept(SubSeq(catalogue, 1, token), Visible) \o Kept(SubSeq(catalogue, token + 1, e), Visible)
            = Kept(SubSeq(catalogue, 1, e), Visible)
        BY <1>2, <2>6, <3>2, AddsComplete
      <4> QED BY <2>6, <3>1, <3>2, <3>4, <4>1, Zenon
    <3> QED BY <1>4, <2>1, <2>5, <3>4, <3>5, QuietParts DEF PageComplete, Quiet
  <2> QED BY <2>1, <2>3, <2>4, <2>7, <2>8 DEF SearchInv, Quiet
<1> QED BY <1>3, <1>4

LEMMA RefillKeeps ==
  ASSUME SearchInv, refill
  PROVE  SearchInv'
<1>1. SearchTyped /\ PageReadable /\ (~shifted => PageInOrder) /\ (~changed => PageComplete)
  BY DEF SearchInv
<1>2. /\ pc = "refill" /\ pc' = "refill" /\ kind # "all" /\ next_page_token # None
      /\ UNCHANGED <<token, seen, could>> /\ Quiet
  BY LoopFacts DEF refill, More
<1>3. ASSUME NEW got, Fetched(got, FALSE) PROVE SearchInv'
  BY <1>2, <1>3, FetchedKeeps
<1>4. CASE Exhausted
  <2>1. page' = page /\ memo' = memo /\ next_page_token' = None
    BY <1>4 DEF Exhausted
  <2>2. SearchTyped' /\ PageReadable'
    BY <1>1, <1>2, <2>1 DEF SearchTyped, PageReadable, Quiet, Tokens
  <2>3. next_page_token <= Len(catalogue) => End(next_page_token') = End(next_page_token)
    BY <1>2, <1>4, <2>1 DEF Exhausted, End
  <2>4. ASSUME ~shifted PROVE PageInOrder' /\ End(next_page_token') = End(next_page_token)
    <3>1. next_page_token <= Len(catalogue)
      BY <1>1, <1>2, <2>4 DEF PageInOrder, End
    <3>2. End(next_page_token)' = End(next_page_token) /\ End(token)' = End(token)
      BY <1>2, <2>3, <3>1, QuietParts DEF End, Quiet
    <3> QED BY <1>1, <1>2, <2>1, <2>3, <2>4, <3>1, <3>2 DEF PageInOrder, Quiet
  <2>5. ASSUME ~changed PROVE PageComplete'
    <3>1. ~shifted
      BY <1>1, <2>5 DEF SearchTyped
    <3> QED BY <1>1, <1>2, <2>1, <2>4, <2>5, <3>1, QuietParts DEF PageComplete, Quiet
  <2> QED BY <1>2, <2>2, <2>4, <2>5 DEF SearchInv, Quiet
<1> QED BY <1>1, <1>3, <1>4, RefillFetches

LEMMA LoggedKeeps ==
  ASSUME SearchInv, refill_logged
  PROVE  SearchInv'
<1>1. /\ pc = "refill" /\ pc' = "refill" /\ kind # "all" /\ next_page_token # None
      /\ UNCHANGED <<token, seen, could>> /\ Quiet
  BY LoopFacts DEF refill_logged, More
<1>2. PICK got : Fetched(got, TRUE)
  BY LoggedFetches DEF SearchInv
<1> QED BY <1>1, <1>2, FetchedKeeps

(* fetch_all takes MLflow's pages one after the other. *)
LEMMA FetchAllKeeps ==
  ASSUME SearchInv, fetch_all
  PROVE  SearchInv'
<1> DEFINE o == next_page_token
           n == Len(catalogue)
<1>1. SearchTyped /\ PageReadable /\ (~shifted => PageInOrder) /\ (~changed => PageComplete)
  BY DEF SearchInv
<1>2. /\ pc = "refill" /\ pc' = "refill" /\ kind = "all" /\ o # None
      /\ page' = page \o search(o) /\ memo' = memo /\ next_page_token' = search_token(o)
      /\ UNCHANGED <<token, seen, could>> /\ Quiet
  BY LoopFacts DEF fetch_all, More
<1>3. /\ o \in Nat /\ token \in Nat /\ End(o) = o /\ n \in Nat
      /\ catalogue \in Seq(Item) /\ page \in Seq(Item)
  BY <1>1, <1>2 DEF SearchTyped, Tokens, End
<1>4. search(o) \in Seq(Item) /\ search_token(o) \in Tokens
  BY <1>1, <1>3, SearchFacts
<1>5. SearchTyped'
  <2>1. page' \in Seq(Item)
    BY <1>2, <1>3, <1>4, ConcatProperties
  <2> QED BY <1>1, <1>2, <1>4, <2>1 DEF SearchTyped, Quiet
<1>6. PageReadable'
  BY <1>1, <1>2 DEF PageReadable, Quiet
<1>7. ASSUME ~shifted PROVE PageInOrder'
  <2> DEFINE e == End(next_page_token')
  <2>1. /\ token <= o /\ o <= n /\ page = SubSeq(catalogue, token + 1, o)
        /\ InOrder(seen, catalogue, 0, token) /\ End(token) <= n
    BY <1>1, <1>2, <1>3, <1>7 DEF PageInOrder
  <2>2. search(o) = SubSeq(catalogue, o + 1, e) /\ e \in Nat /\ o <= e /\ e <= n
    BY <1>1, <1>2, <1>3, <2>1, SearchFacts
  <2> HIDE DEF e
  <2>3. SubSeq(catalogue, token + 1, o) \o SubSeq(catalogue, o + 1, e) = SubSeq(catalogue, token + 1, e)
    <3>1. token + 1 \in 1 .. n + 1 /\ o \in (token + 1) - 1 .. n /\ e \in o .. n
      BY <1>3, <2>1, <2>2
    <3> QED BY <1>3, <3>1, ConcatAdjacentSubSeq
  <2>4. page' = SubSeq(catalogue, token + 1, e)
    BY <1>2, <2>1, <2>2, <2>3, Zenon
  <2>5. token <= e
    BY <1>3, <2>1, <2>2
  <2> QED BY <1>2, <1>7, <2>1, <2>2, <2>4, <2>5, QuietParts DEF PageInOrder, Quiet, e, End
<1>8. ASSUME ~changed PROVE PageComplete'
  BY <1>1, <1>2, <1>8, QuietParts DEF PageComplete, Quiet
<1> QED BY <1>2, <1>5, <1>6, <1>7, <1>8 DEF SearchInv, Quiet

(* The response: the client moves on to the next token. *)
LEMMA SendKeeps ==
  ASSUME SearchInv, SendPage
  PROVE  SearchInv'
<1> DEFINE shown == IF kind = "all" THEN Kept(page, reads) ELSE page
           e == End(next_page_token)
<1>1. SearchTyped /\ PageReadable /\ (~shifted => PageInOrder) /\ (~changed => PageComplete)
  BY DEF SearchInv
<1>2. /\ pc = "refill" /\ pc' = "idle" /\ token' = next_page_token
      /\ seen' = seen \o shown /\ page' = shown
      /\ UNCHANGED <<memo, next_page_token, could>> /\ Quiet
  BY DEF SendPage, Quiet, world
<1>3. page \in Seq(Item) /\ seen \in Seq(Item) /\ catalogue \in Seq(Item) /\ token \in Nat
  BY <1>1, <1>2 DEF SearchTyped, Tokens
<1>4. shown \in Seq(Item) /\ Items(shown) \subseteq could
  <2>1. reads \subseteq could
    BY <1>1, <1>2 DEF PageReadable
  <2>2. CASE kind = "all"
    <3>1. Kept(page, reads) \in Seq(Item) /\ Items(Kept(page, reads)) \subseteq reads
      BY <1>3, KeptTyped
    <3> QED BY <2>1, <2>2, <3>1
  <2>3. CASE kind # "all"
    BY <1>1, <1>2, <1>3, <2>3 DEF PageReadable
  <2> QED BY <2>2, <2>3
<1>5. SearchTyped' /\ PageReadable'
  <2> HIDE DEF shown
  <2>1. seen' \in Seq(Item)
    BY <1>2, <1>3, <1>4, ConcatProperties
  <2>2. SearchTyped'
    BY <1>1, <1>2, <1>4, <2>1 DEF SearchTyped, Quiet
  <2>3. PageReadable'
    BY <1>1, <1>2, <1>4 DEF PageReadable, Quiet
  <2> QED BY <2>2, <2>3
<1>6. End(token)' = e /\ End(next_page_token)' = e
  BY <1>2, QuietParts DEF Quiet, End
<1>7. ASSUME ~shifted
      PROVE  e <= Len(catalogue) /\ InOrder(seen \o shown, catalogue, 0, e)
  <2>1. CASE kind # "all"
    BY <1>1, <1>2, <1>7, <2>1 DEF PageInOrder
  <2>2. CASE kind = "all"
    <3>1. /\ e \in Nat /\ token <= e /\ e <= Len(catalogue) /\ page = SubSeq(catalogue, token + 1, e)
          /\ InOrder(seen, catalogue, 0, token)
      BY <1>1, <1>2, <1>3, <1>7, <2>2 DEF PageInOrder, SearchTyped, Tokens, End
    <3> HIDE DEF e
    <3>2. InOrder(seen \o Kept(SubSeq(catalogue, token + 1, e), reads), catalogue, 0, e)
      BY <1>3, <3>1, AddsInOrder
    <3> QED BY <2>2, <3>1, <3>2
  <2> QED BY <2>1, <2>2
<1>8. ASSUME ~shifted PROVE PageInOrder'
  <2> HIDE DEF shown, e
  <2> QED BY <1>2, <1>6, <1>7, <1>8 DEF PageInOrder, Quiet
<1>9. ASSUME ~changed PROVE PageComplete'
  <2>1. seen \o shown = Kept(SubSeq(catalogue, 1, e), Visible)
    <3>1. CASE kind # "all"
      BY <1>1, <1>2, <1>9, <3>1 DEF PageComplete
    <3>2. CASE kind = "all"
      <4>1. ~shifted
        BY <1>1, <1>9 DEF SearchTyped
      <4>2. e \in Nat /\ token <= e /\ e <= Len(catalogue) /\ page = SubSeq(catalogue, token + 1, e)
        BY <1>1, <1>2, <1>3, <3>2, <4>1 DEF PageInOrder, SearchTyped, Tokens, End
      <4>3. seen = Kept(SubSeq(catalogue, 1, token), Visible) /\ shown = Kept(page, Visible)
        BY <1>1, <1>2, <1>9, <3>2 DEF PageComplete, Visible
      <4> HIDE DEF shown, e
      <4>4. Kept(SubSeq(catalogue, 1, token), Visible) \o Kept(SubSeq(catalogue, token + 1, e), Visible)
            = Kept(SubSeq(catalogue, 1, e), Visible)
        BY <1>3, <4>2, AddsComplete
      <4> QED BY <4>2, <4>3, <4>4, Zenon
    <3> QED BY <3>1, <3>2
  <2>2. \A i \in DOMAIN memo : memo[i] <=> i \in reads
    BY <1>1, <1>9 DEF PageComplete
  <2> HIDE DEF shown, e
  <2>3. seen' = Kept(SubSeq(catalogue', 1, End(token)'), Visible')
    BY <1>2, <1>6, <2>1, QuietParts DEF Quiet
  <2> QED BY <1>2, <2>2, <2>3 DEF PageComplete, Quiet
<1> QED BY <1>2, <1>5, <1>8, <1>9 DEF SearchInv, Quiet

(* Other requests: a new permission cannot take back what could be read    *)
(* during the request, and a change of the list is recorded.               *)
LEMMA OthersKeep ==
  ASSUME SearchInv, OtherRequests
  PROVE  SearchInv'
<1>1. SearchTyped /\ PageReadable /\ (~shifted => PageInOrder)
  BY DEF SearchInv
<1>2. PICK i \in Item : SetPermission(i) \/ SetWorkspacePermission(i) \/ Create(i) \/ Delete(i)
  BY DEF OtherRequests
<1>3. /\ changed' = TRUE
      /\ UNCHANGED <<kind, max_results, pc, page, memo, next_page_token, token, seen>>
  BY <1>2 DEF SetPermission, SetWorkspacePermission, Create, Delete, Edit, server
<1>4. catalogue' \in Seq(Item) /\ ((catalogue' = catalogue /\ shifted' = shifted) \/ shifted' = TRUE)
  <2>0. catalogue \in Seq(Item)
    BY <1>1 DEF SearchTyped
  <2>1. CASE SetPermission(i) \/ SetWorkspacePermission(i)
    BY <2>0, <2>1 DEF SetPermission, SetWorkspacePermission
  <2>2. CASE Create(i)
    <3>1. shifted' = TRUE /\ catalogue' \in {<<i>> \o catalogue, Append(catalogue, i)}
      BY <2>2 DEF Create
    <3>2. <<i>> \o catalogue \in Seq(Item) /\ Append(catalogue, i) \in Seq(Item)
      BY <2>0
    <3> QED BY <3>1, <3>2
  <2>3. CASE Delete(i)
    <3>1. shifted' = TRUE /\ catalogue' = Kept(catalogue, Items(catalogue) \ {i})
      BY <2>3 DEF Delete
    <3>2. Kept(catalogue, Items(catalogue) \ {i}) \in Seq(Item)
      BY <2>0, KeptTyped
    <3> QED BY <3>1, <3>2
  <2> QED BY <1>2, <2>1, <2>2, <2>3
<1>5. could \subseteq could' /\ (reads \subseteq could => reads' \subseteq could')
  BY <1>2 DEF SetPermission, SetWorkspacePermission, Create, Delete
<1>6. SearchTyped'
  BY <1>1, <1>3, <1>4 DEF SearchTyped
<1>7. PageReadable'
  BY <1>1, <1>3, <1>5 DEF PageReadable
<1>8. ASSUME ~shifted' PROVE PageInOrder'
  BY <1>1, <1>3, <1>4, <1>8 DEF PageInOrder, End
<1> QED BY <1>3, <1>6, <1>7, <1>8 DEF SearchInv

LEMMA SearchStutters ==
  ASSUME SearchInv, UNCHANGED searchVars
  PROVE  SearchInv'
BY DEF SearchInv, SearchTyped, PageReadable, PageInOrder, PageComplete, Visible, End, searchVars, server, world

LEMMA SearchInvHolds == SearchSpec => []SearchInv
<1>1. SearchInv /\ [SearchNext]_searchVars => SearchInv'
  BY SearchKeeps, FilterKeeps, RefillKeeps, LoggedKeeps, FetchAllKeeps, SendKeeps, OthersKeep, SearchStutters
     DEF SearchNext, Handler
<1> QED BY <1>1, SearchStarts, PTL DEF SearchSpec

(* What a search response shows was readable at some instant of its        *)
(* request, whatever permissions, workspaces and lists change during the   *)
(* refill loops and whatever the request's memo holds.                     *)
THEOREM SearchesShowWhatWasReadable == SearchSpec => []ShownWereReadable
<1>1. SearchInv => ShownWereReadable
  BY DEF SearchInv, PageReadable, ShownWereReadable
<1> QED BY <1>1, SearchInvHolds, PTL

(* Unless MLflow's list shifts, the pages a client is shown repeat nothing *)
(* and keep the list's order, whatever page size, token and permission     *)
(* changes: the refill loops never take a batch twice or out of turn.      *)
THEOREM SearchesKeepOrder == SearchSpec => []OrderKeptUnlessShifted
<1>1. ASSUME SearchInv, ~shifted, NEW j \in 1 .. Len(seen), NEW k \in 1 .. Len(seen), j < k
      PROVE  \E a, b \in 1 .. Len(catalogue) : a < b /\ catalogue[a] = seen[j] /\ catalogue[b] = seen[k]
  <2>1. SearchTyped /\ PageInOrder
    BY <1>1 DEF SearchInv
  <2>2. seen \in Seq(Item) /\ page \in Seq(Item) /\ Len(seen) \in Nat /\ Len(page) \in Nat /\ Len(catalogue) \in Nat
    BY <2>1 DEF SearchTyped
  <2>3. ASSUME NEW x, NEW hi \in Nat, hi <= Len(catalogue), InOrder(x, catalogue, 0, hi),
               j \in 1 .. Len(x), k \in 1 .. Len(x), x[j] = seen[j], x[k] = seen[k]
        PROVE  \E a, b \in 1 .. Len(catalogue) : a < b /\ catalogue[a] = seen[j] /\ catalogue[b] = seen[k]
    <3>1. PICK a \in 0 + 1 .. hi, b \in 0 + 1 .. hi : a < b /\ catalogue[a] = x[j] /\ catalogue[b] = x[k]
      BY <1>1, <2>3 DEF InOrder
    <3>2. a \in 1 .. Len(catalogue) /\ b \in 1 .. Len(catalogue)
      BY <2>2, <2>3
    <3> QED BY <2>3, <3>1, <3>2
  <2>4. CASE pc = "idle"
    <3>1. InOrder(seen, catalogue, 0, End(token)) /\ End(token) \in Nat /\ End(token) <= Len(catalogue)
      BY <2>1, <2>2, <2>4 DEF PageInOrder, SearchTyped, Tokens, End
    <3> QED BY <2>3, <3>1
  <2>5. CASE pc = "filter" \/ (pc = "refill" /\ kind = "all")
    <3>1. InOrder(seen, catalogue, 0, token) /\ token \in Nat /\ token <= Len(catalogue)
      BY <2>1, <2>2, <2>5 DEF PageInOrder, SearchTyped, Tokens, End
    <3> QED BY <2>3, <3>1
  <2>6. CASE pc = "refill" /\ kind # "all"
    <3>1. /\ InOrder(seen \o page, catalogue, 0, End(next_page_token))
          /\ End(next_page_token) \in Nat /\ End(next_page_token) <= Len(catalogue)
      BY <2>1, <2>2, <2>6 DEF PageInOrder, SearchTyped, Tokens, End
    <3>2. Len(seen \o page) = Len(seen) + Len(page) /\ \A l \in 1 .. Len(seen) : (seen \o page)[l] = seen[l]
      BY <2>2, ConcatProperties
    <3>3. j \in 1 .. Len(seen \o page) /\ k \in 1 .. Len(seen \o page)
      BY <2>2, <3>2
    <3> QED BY <2>3, <3>1, <3>2, <3>3
  <2> QED BY <2>1, <2>4, <2>5, <2>6 DEF SearchTyped
<1>2. SearchInv => OrderKeptUnlessShifted
  BY <1>1 DEF OrderKeptUnlessShifted
<1> QED BY <1>2, SearchInvHolds, PTL

(* A client that follows the tokens to the end while nothing changes was   *)
(* shown exactly what it may read: no refill loop skips an item, wherever  *)
(* the unreadable ones lie and whatever the page size.                     *)
THEOREM QuietSearchesShowEverything == SearchSpec => []QuietSearchIsComplete
<1>1. ASSUME SearchInv, pc = "idle", token = None, ~changed
      PROVE  seen = Wanted
  <2>1. catalogue \in Seq(Item) /\ PageComplete
    BY <1>1 DEF SearchInv, SearchTyped
  <2>2. seen = Kept(SubSeq(catalogue, 1, Len(catalogue)), Visible)
    BY <1>1, <2>1 DEF PageComplete, End
  <2>3. SubSeq(catalogue, 1, Len(catalogue)) = catalogue
    BY <2>1, SubSeqFull
  <2> QED BY <2>2, <2>3 DEF Wanted, Visible
<1>2. SearchInv => QuietSearchIsComplete
  BY <1>1 DEF QuietSearchIsComplete
<1> QED BY <1>2, SearchInvHolds, PTL
=============================================================================
