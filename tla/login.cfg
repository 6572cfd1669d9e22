CONSTANTS
  home = home  partner = partner  st1 = st1  st2 = st2  st3 = st3  f1 = f1  f2 = f2  b1 = b1  u1 = u1  s1 = s1  s2 = s2
  Nil = Nil
  Provider = {home, partner}  DEFAULT_PROVIDER_ID = home
  State = {st1, st2, st3}  Flow = {f1, f2}  Browser = {b1}  User = {u1}  Subject = {s1, s2}
  identity_binding <- PartnerByEmail
  provisioning <- DirectoryOnly
  admin_source <- PartnerNoAdmins
  Claims <- AnyClaims
  MaxUid = 3  MaxDeletes = 1  MaxFailures = 1
SPECIFICATION Spec
INVARIANT AttemptUsedOnce SessionsAreBound OneProviderPerUser CookieOwnsItsTokens
SYMMETRY Twins
CHECK_DEADLOCK FALSE
