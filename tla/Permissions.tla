---------------------------- MODULE Permissions ----------------------------
(***************************************************************************)
(* The permission levels of mlflow_oidc_auth/permissions.py: five names,   *)
(* a numeric priority that orders them, and the capabilities each carries. *)
(* NO_PERMISSIONS has the largest priority and no capability at all.       *)
(***************************************************************************)
EXTENDS Integers

ALL_PERMISSIONS == {"READ", "USE", "EDIT", "MANAGE", "NO_PERMISSIONS"}

priority ==
  [p \in ALL_PERMISSIONS |-> IF p = "READ" THEN 1
                            ELSE IF p = "USE" THEN 2
                            ELSE IF p = "EDIT" THEN 3
                            ELSE IF p = "MANAGE" THEN 4
                            ELSE 100]

(* The capabilities (can_read, can_use, ...) of each level. *)
capabilities ==
  [p \in ALL_PERMISSIONS |-> CASE p = "READ" -> {"read"}
                               [] p = "USE" -> {"read", "use"}
                               [] p = "EDIT" -> {"read", "use", "update"}
                               [] p = "MANAGE" -> {"read", "use", "update", "delete", "manage"}
                               [] OTHER -> {}]

(* True when permission1 is at most permission2 in the priority order. *)
compare_permissions(permission1, permission2) ==
  priority[permission1] <= priority[permission2]

=============================================================================
