CONSTANTS
  Sid = {s1, s2, s3}
  NoSid = NoSid
  User = {alice}
  Admin = {}
  NoUser = NoUser
  Request = {r1, r2}
  NoRow = NoRow
  NoRequest = NoRequest
  IdleTtl = 1
  AbsoluteTtl = 2
  MinRevocationTtl = 1
  SessionLimit = 2
  MaxTime = 2
SPECIFICATION Spec
SYMMETRY Symmetric
PROPERTIES RevokedSessionIsNotContinued
CHECK_DEADLOCK FALSE
