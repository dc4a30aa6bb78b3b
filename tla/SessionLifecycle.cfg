CONSTANTS
  Sid = {s1, s2}
  NoSid = NoSid
  User = {alice, root}
  Admin = {root}
  NoUser = NoUser
  Request = {r1}
  NoRow = NoRow
  NoRequest = NoRequest
  IdleTtl = 1
  AbsoluteTtl = 2
  MinRevocationTtl = 1
  SessionLimit = 1
  MaxTime = 4
SPECIFICATION Spec
INVARIANTS NoAdministratorSession
PROPERTIES SessionsEnd
CHECK_DEADLOCK FALSE
