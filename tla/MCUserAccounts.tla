-------------------------- MODULE MCUserAccounts --------------------------
(* Two users, two sources and two requests whose transactions may overlap. *)
EXTENDS UserAccounts, TLC

CONSTANTS u1, u2, s1, q1, q2

Accounts == Permutations(User) \cup Permutations(Request)
===========================================================================
