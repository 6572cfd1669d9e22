CONSTANTS
  u1 = u1  u2 = u2  s1 = s1  q1 = q1  q2 = q2  Nil = Nil
  User = {u1, u2}  Session = {s1}  Request = {q1, q2}
  Source = {"manual", "scim"}
  Enforcement = "enforce"
  MaxOps = 5
  MaxId = 3
SPECIFICATION Spec
INVARIANT TypeOK SerialWritesKeepAnAdmin EndedForGood
PROPERTY ColumnsChangeOnDemand
SYMMETRY Accounts
CHECK_DEADLOCK FALSE
