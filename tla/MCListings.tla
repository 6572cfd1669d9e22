----------------------------- MODULE MCListings -----------------------------
(* Small instances of SourceLoops and BatchResolution, which share         *)
(* PermissionResolution.  A behaviour is of one of the two: it runs one    *)
(* loop over a table and stops, or calls listings while others write.      *)
(*   Loops: two priorities, matching and other rows, every permission      *)
(* level.  Listings: two resources, two groups, one workspace; writes are  *)
(* few and may fall between any two queries.                               *)
EXTENDS SourceLoops, BatchResolution

CONSTANTS u1, g1, g2, r1, r2, w1

Order == <<"user", "group", "regex", "group-regex">>
Row(h, names, p, perm) == [holder |-> h, matches |-> names, priority |-> p, permission |-> perm]

Pool == {Row(u1, {w1}, p, perm) : p \in {1, 2}, perm \in ALL_PERMISSIONS}
        \cup {Row(u1, {}, p, "MANAGE") : p \in {1, 2}}

Rows == {Row(g1, {r1}, 1, "MANAGE"), Row(g1, {w1}, 1, "MANAGE"), Row(u1, {r2}, 1, "READ")}
Empty == [direct |-> [x \in Holder \X Target |-> Nil], regex |-> {}, member |-> {}]
TwoGroups == [Empty EXCEPT !.direct[<<g1, r1>>] = "MANAGE", !.direct[<<g2, r1>>] = "READ",
                           !.member = {<<u1, g1>>, <<u1, g2>>}]
Databases == {Empty, TwoGroups, [Empty EXCEPT !.direct[<<u1, w1>>] = "MANAGE"]}

NoListing ==
  /\ pc = "closed" /\ db = Empty /\ writes = MaxWrites
  /\ header = NoWorkspace /\ ctx = EmptyCtx /\ memo = NoMemo /\ wsCache = [w \in Workspace |-> Nil]
  /\ walk = NoWalk /\ results = [r \in Resource |-> Nil] /\ recorded = {} /\ returned = {}
  /\ seen = {db} /\ origin = [w \in Workspace |-> [dbs |-> {}, failed |-> FALSE]]
NoLoop ==
  /\ loop = "resource" /\ regexes = <<>> /\ position = 1 /\ best_perm = Nil /\ best_priority = Nil /\ done = TRUE

(* The loop has returned; nothing else happens in its behaviour. *)
Returned == done /\ pc = "closed" /\ UNCHANGED <<loopVars, batchVars>>

Init ==
  \/ LoopInit /\ NoListing
  \/ NoLoop /\ BatchInit
Next ==
  \/ LoopNext /\ UNCHANGED batchVars
  \/ BatchNext /\ UNCHANGED loopVars
  \/ Returned
Spec == Init /\ [][Next]_<<loopVars, batchVars>>
=============================================================================
