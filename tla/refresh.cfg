CONSTANTS
  r1 = r1  r2 = r2  t1 = t1  t2 = t2  p1 = p1  p2 = p2  elsewhere = elsewhere  k0 = k0  k1 = k1
  Nil = Nil  NoKeys = NoKeys  NoKid = NoKid  Never = Never
  Thread = {t1, t2}
  loop = t1
  worker = t2
  Request = {r1, r2}
  Provider = {p1, p2}
  WithIssuer = {p1, p2}
  Kid = {k0, k1}
  KeyId <- KeyIds
  Issuer = {p1, p2, elsewhere}
  DefaultProvider = p1
  Sid = {1, 2}
  MaxRetries = 2
  JwksTTL = 1
  MaxGeneration = 1
  Lifetime = 2
  Leeway = 1
  Scenarios <- AllScenarios
SPECIFICATION Spec
INVARIANTS AdmittedWasEntitled NoSessionOutlivesItsToken OnlyARaceLogsOut LoggedOutStaysOut AcceptedKeyIsTheIssuers PresentKeyIsAccepted
PROPERTIES RequestsAreAnswered StoreIsInitOnce
CHECK_DEADLOCK FALSE
