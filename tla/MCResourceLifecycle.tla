------------------------- MODULE MCResourceLifecycle -------------------------
(* Small instance of ResourceLifecycle: an owner, a member of a group and  *)
(* an administrator the users table does not know; every resource type.    *)
EXTENDS ResourceLifecycle, TLC

CONSTANTS u1, u2, adm, g1, n1, n2

Renamings == Permutations(Name)
Members1 == {<<u2, g1>>}
Off == [enabled |-> FALSE, header |-> Nil, requireContext |-> FALSE, denyDefault |-> FALSE]
InOther == [enabled |-> TRUE, header |-> "other", requireContext |-> TRUE, denyDefault |-> TRUE]
TwoConfigs == {Off, InOther}
OneConfig == {Off}
==============================================================================
