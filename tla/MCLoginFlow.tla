---------------------------- MODULE MCLoginFlow ----------------------------
(* The default provider and a partner that both know a person called u1,   *)
(* two callbacks at once.                                                  *)
EXTENDS LoginFlow, TLC

CONSTANTS home, partner, st1, st2, st3, f1, f2, b1, u1, s1, s2

Id(prov, sub, email) == [provider |-> prov, subject |-> sub, username |-> u1, email |-> email]
AnyClaims == {Id(home, s1, TRUE), Id(home, Nil, TRUE), Id(partner, s2, TRUE), Id(partner, s2, FALSE), Id(partner, Nil, TRUE)}
PartnerByEmail == [x \in Provider |-> IF x = partner THEN "email" ELSE "subject"]
DirectoryOnly == [x \in Provider |-> IF x = partner THEN "scim" ELSE "jit"]
PartnerNoAdmins == [x \in Provider |-> IF x = partner THEN "none" ELSE "claims"]
Twins == Permutations(Flow) \cup Permutations(State)
=============================================================================
