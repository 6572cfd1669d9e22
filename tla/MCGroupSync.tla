----------------------------- MODULE MCGroupSync -----------------------------
(* One person of each provider, an API user of the partner, two service    *)
(* accounts of one namespace.                                              *)
EXTENDS GroupSync, TLC

CONSTANTS home, partner, u1, u2, u3, k1, k2, q1, q2, g1, g2, n1

Paths == [u \in User |-> IF u \in {k1, k2} THEN "k8s" ELSE IF u = u3 THEN "bearer" ELSE "login"]
Idps == [u \in User |-> IF u = u1 THEN home ELSE partner]
Namespaces == [u \in User |-> n1]
Always == [x \in Provider |-> "every_login"]
Modes == [x \in Provider |-> IF x = home THEN "additive" ELSE "authoritative"]
Twins == Permutations(Request)
=============================================================================
