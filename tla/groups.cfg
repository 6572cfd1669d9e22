CONSTANTS
  home = home  partner = partner  u1 = u1  u2 = u2  u3 = u3  k1 = k1  k2 = k2  q1 = q1  q2 = q2
  g1 = g1  g2 = g2  n1 = n1  Nil = Nil
  User = {u1, u2, u3, k1, k2}  Request = {q1, q2}
  Provider = {home, partner}  DEFAULT_PROVIDER_ID = home
  Claimable = {g1, g2}  OIDC_GROUP_NAME = {g1, g2}
  path <- Paths  idp <- Idps  namespace <- Namespaces  namespace_allowlist = {n1}
  group_sync <- Always  group_sync_mode <- Modes
  MaxOps = 3
  MaxFailures = 1
SPECIFICATION Spec
INVARIANT TypeOK AdditiveKeeps AuthoritativeReplaces GroupedWithoutContention
SYMMETRY Twins
CHECK_DEADLOCK FALSE
