----------------------------- MODULE LazyStore -----------------------------
(***************************************************************************)
(* mlflow_oidc_auth.store: the proxy that creates the SqlAlchemyStore on   *)
(* the first attribute access, with double-checked locking.  The threads   *)
(* of one process are the event loop, the worker that verifies basic-auth  *)
(* passwords and the pool that runs synchronous handlers.  init_db opens   *)
(* the engine (with retries), migrates the schema and only then creates    *)
(* the repositories, without which a store is of no use.                   *)
(***************************************************************************)
EXTENDS Naturals

CONSTANTS Thread, Nil,
          MaxRetries         \* max_retries of _create_engine

ASSUME LazyStoreAssumption ==
  /\ MaxRetries \in Nat \ {0}
  /\ Nil \notin Thread
  /\ Nil \notin [by : Thread, whole : BOOLEAN]

VARIABLES instance, lock,
          at,                \* where in _get_instance each thread is
          attempt,           \* its attempt to reach the database
          got                \* what its call has returned

lazy == <<instance, lock, at, attempt, got>>

Store(t, whole) == [by |-> t, whole |-> whole]
Stores == [by : Thread, whole : BOOLEAN]

LazyTypeOK ==
  /\ instance \in Stores \cup {Nil}
  /\ lock \in Thread \cup {Nil}
  /\ at \in [Thread -> {"idle", "look", "wait", "check", "connect", "migrate", "publish", "reread", "got", "raised"}]
  /\ attempt \in [Thread -> 0 .. MaxRetries]
  /\ got \in [Thread -> Stores \cup {Nil}]

LazyInit ==
  /\ instance = Nil /\ lock = Nil
  /\ at = [t \in Thread |-> "idle"]
  /\ attempt = [t \in Thread |-> 0]
  /\ got = [t \in Thread |-> Nil]

To(t, place) == at' = [at EXCEPT ![t] = place]

(* An attribute of the proxy is read or written. *)
Access(t) == at[t] = "idle" /\ To(t, "look") /\ UNCHANGED <<instance, lock, attempt, got>>

Returns(t) ==
  /\ To(t, "got") /\ got' = [got EXCEPT ![t] = instance]
  /\ UNCHANGED <<instance, attempt>>

(* The first look, without the lock. *)
Look(t) ==
  /\ at[t] = "look"
  /\ \/ instance # Nil /\ Returns(t)
     \/ instance = Nil /\ To(t, "wait") /\ UNCHANGED <<instance, attempt, got>>
  /\ UNCHANGED lock

Acquire(t) ==
  /\ at[t] = "wait" /\ lock = Nil
  /\ lock' = t /\ To(t, "check")
  /\ UNCHANGED <<instance, attempt, got>>

Construct(t) ==
  /\ To(t, "connect") /\ attempt' = [attempt EXCEPT ![t] = 1]
  /\ UNCHANGED <<instance, lock, got>>

NoSecondLook(t) == at[t] = "check" /\ Construct(t)

(* The second look, with the lock held. *)
Check(t) ==
  /\ at[t] = "check"
  /\ \/ instance # Nil /\ Returns(t) /\ lock' = Nil
     \/ instance = Nil /\ Construct(t)

KeepLock(t) ==
  /\ To(t, "raised") /\ attempt' = [attempt EXCEPT ![t] = 0]
  /\ UNCHANGED <<instance, lock, got>>

(* The exception leaves _init and, through the with statement, the lock. *)
Raise(t) ==
  /\ To(t, "raised") /\ lock' = Nil /\ attempt' = [attempt EXCEPT ![t] = 0]
  /\ UNCHANGED <<instance, got>>

Connect(t) == at[t] = "connect" /\ To(t, "migrate") /\ UNCHANGED <<instance, lock, attempt, got>>

ConnectFails(t) ==
  /\ at[t] = "connect"
  /\ \/ /\ attempt[t] < MaxRetries
        /\ attempt' = [attempt EXCEPT ![t] = @ + 1]
        /\ UNCHANGED <<instance, lock, at, got>>
     \/ attempt[t] = MaxRetries /\ Raise(t)

(* migrate_if_needed, then the repositories. *)
Migrate(t) == at[t] = "migrate" /\ To(t, "publish") /\ UNCHANGED <<instance, lock, attempt, got>>
MigrateFails(t) == at[t] = "migrate" /\ Raise(t)

Publish(t) ==
  /\ at[t] = "publish"
  /\ instance' = Store(t, TRUE)
  /\ To(t, "reread") /\ attempt' = [attempt EXCEPT ![t] = 0]
  /\ UNCHANGED <<lock, got>>

Reread(t) == at[t] = "reread" /\ Returns(t) /\ lock' = Nil

(* The caller goes on with the store, or with the exception. *)
Leave(t) ==
  /\ at[t] \in {"got", "raised"}
  /\ To(t, "idle") /\ got' = [got EXCEPT ![t] = Nil]
  /\ UNCHANGED <<instance, lock, attempt>>

get_instance(t) ==
  Look(t) \/ Acquire(t) \/ Check(t) \/ Connect(t) \/ Migrate(t) \/ Publish(t) \/ Reread(t)
InitFails(t) == ConnectFails(t) \/ MigrateFails(t)

LazyNext == \E t \in Thread : Access(t) \/ get_instance(t) \/ InitFails(t) \/ Leave(t)

LazySpec == LazyInit /\ [][LazyNext]_lazy

-----------------------------------------------------------------------------
(* What a caller can see of the above. *)
Held(t) == [kind |-> CASE at[t] = "idle" -> "idle" [] at[t] = "got" -> "store"
                       [] at[t] = "raised" -> "error" [] OTHER -> "asking",
            of |-> IF at[t] = "got" THEN got[t] ELSE Nil]

Abstract == INSTANCE InitOnce WITH Object <- {Store(t, TRUE) : t \in Thread},
                                   object <- instance, held <- [t \in Thread |-> Held(t)]

(* store.py: the proxy implements InitOnce.  No thread is ever handed a    *)
(* store whose init_db has not finished, or a second one, and none sees an *)
(* error once a store exists, whichever threads race on the first access   *)
(* and whichever initialisations fail.                                     *)
StoreIsInitOnce == Abstract!Spec
=============================================================================
