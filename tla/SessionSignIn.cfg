CONSTANTS
  Sid = {s1, s2, s3}
  NoSid = NoSid
  User = {alice}
  Admin = {}
  NoUser = NoUser
  Request = {r1, r2}
  NoRow = NoRow
  NoRequest = NoRequest
  IdleTtl = 1
  AbsoluteTtl = 2
  MinRevocationTtl = 1
  SessionLimit = 1
  MaxTime = 4
SPECIFICATION SignInSpec
VIEW WithoutSwitch
SYMMETRY Symmetric
INVARIANTS TypeOK NoResurrection SidNamesOneLogin
PROPERTIES LimitAfterSignIn
CHECK_DEADLOCK FALSE
