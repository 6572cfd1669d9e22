------------------------------ MODULE InitOnce ------------------------------
(***************************************************************************)
(* What mlflow_oidc_auth.store promises its callers: there is at most one  *)
(* store, it is never replaced, and a caller is handed that store or, as   *)
(* long as there is none, an error.                                        *)
(***************************************************************************)
CONSTANTS Thread, Object, Nil

VARIABLES object,            \* the store, once there is one
          held               \* what each thread's call has come to

vars == <<object, held>>

Idle == [kind |-> "idle", of |-> Nil]
Asking == [kind |-> "asking", of |-> Nil]

Init == object = Nil /\ held = [t \in Thread |-> Idle]

Ask(t) == held[t] = Idle /\ held' = [held EXCEPT ![t] = Asking] /\ UNCHANGED object

(* Whoever makes the store is one of the callers. *)
Create ==
  /\ object = Nil /\ \E t \in Thread : held[t] = Asking
  /\ object' \in Object
  /\ UNCHANGED held

Answer(t) ==
  /\ held[t] = Asking /\ object # Nil
  /\ held' = [held EXCEPT ![t] = [kind |-> "store", of |-> object]]
  /\ UNCHANGED object

Refuse(t) ==
  /\ held[t] = Asking /\ object = Nil
  /\ held' = [held EXCEPT ![t] = [kind |-> "error", of |-> Nil]]
  /\ UNCHANGED object

Leave(t) == held[t] \notin {Idle, Asking} /\ held' = [held EXCEPT ![t] = Idle] /\ UNCHANGED object

Next == Create \/ \E t \in Thread : Ask(t) \/ Answer(t) \/ Refuse(t) \/ Leave(t)

Spec == Init /\ [][Next]_vars
=============================================================================
