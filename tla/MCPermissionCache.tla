------------------------- MODULE MCPermissionCache -------------------------
(* Small instances of PermissionCache for TLC. *)
EXTENDS PermissionCache

CONSTANTS u1, g1, r1, r2, w1, s1, s2, k1, k2, a1

DirectOrder == <<"user", "group">>
FullOrder == <<"user", "group", "regex", "group-regex">>

OwnId == [r \in Resource |-> r]
SameId == [r \in Resource |-> r1]

OneServer == [p \in Worker \cup Admin |-> s1]
TwoServers == [p \in Worker \cup Admin |-> IF p = k2 THEN s2 ELSE s1]

AllRows == {[holder |-> u1, matches |-> {w1}, priority |-> 1, permission |-> "MANAGE"],
            [holder |-> g1, matches |-> {w1}, priority |-> 2, permission |-> "READ"],
            [holder |-> u1, matches |-> {r1}, priority |-> 1, permission |-> "EDIT"]}

EmptyDatabase == [direct |-> [c \in Holder \X Target |-> Nil], regex |-> {}, member |-> {}]
EmptyOrGranted == {EmptyDatabase, [EmptyDatabase EXCEPT !.direct[u1, w1] = "READ"]}

(* The .cfg describes two servers with caches of their own, in which       *)
(* nothing fails, and a user with a row for the workspace.  Such servers   *)
(* share only the database, so each is looked at on its own: k2's, which   *)
(* no write invalidates, and in the deployment "alone" k1's, with every    *)
(* kind of row and three writes.  In "redis" they share a cache that fails *)
(* at times.                                                               *)
CONSTANT Deployments
VARIABLE deployment

Redis == INSTANCE PermissionCache WITH SharedCache <- TRUE, Faults <- TRUE, MaxChanges <- 1
Alone == INSTANCE PermissionCache WITH RegexRows <- AllRows, MaxChanges <- 3, MaxTime <- 1

Only(k) == \A j \in Worker \ {k} : worker'[j] = worker[j]
MCInit ==
  /\ Init /\ deployment \in Deployments
  /\ deployment = "alone" <=> db = EmptyDatabase
MCNext ==
  /\ \/ deployment = "local" /\ Next /\ Only(k2)
     \/ deployment = "redis" /\ Redis!Next
     \/ deployment = "alone" /\ Alone!Next /\ Only(k1)
  /\ UNCHANGED deployment
MCSpec == MCInit /\ [][MCNext]_<<vars, deployment>>
=============================================================================
