------------------------- MODULE MCPermissionRoutes -------------------------
(* Small instance of PermissionRoutes: every route of two types at a time, *)
(* one request after another; and two overlapping requests on the direct   *)
(* rows of one type.                                                       *)
EXTENDS PermissionRoutes

CONSTANTS u1, u2, g1

Order == <<"user", "group", "regex", "group-regex">>
Seeds == {<<u1, "direct">>, <<g1, "direct">>, <<g1, "pattern">>}
Grants == [create |-> {"MANAGE"}, update |-> {"READ"}]

Serial(types, header) ==
  [types |-> types, routes |-> {r \in Routes : r.type \in types}, slots |-> {1}, header |-> header,
   member |-> {<<u1, g1>>}, admins |-> {}]
Overlapping(t, admins0) ==
  [types |-> {t}, routes |-> {r \in Routes : r.type = t /\ r.scope = "direct" /\ r.holder # "self"},
   slots |-> {1, 2}, header |-> NoWorkspace, member |-> {<<u1, g1>>}, admins |-> admins0]
Everything ==
  {Serial({"experiment", "scorer"}, NoWorkspace), Serial({"registered_model", "prompt"}, NoWorkspace),
   Serial({"gateway_model_definition", "gateway_secret"}, NoWorkspace),
   Serial({"gateway_endpoint", "workspace"}, "workspace"),
   Overlapping("experiment", {}), Overlapping("experiment", {u1})}
=============================================================================
