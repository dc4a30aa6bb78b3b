SPECIFICATION FactorsSpec
CONSTANTS
  Secret = {s1}
  NoSecret = NoSecret
  Code = {c1, c2}
  Passkey = {k1}
  NoKey = NoKey
  Challenge = {h1, h2}
  MaxCodes = 1
  BatchSize = 1
  Sid = {p1, p2}
  NoChallenge = NoChallenge
  Flight = {f1, f2}
  LoginWindow = 0
  MaxTime = 2
  MaxCounter = 1
  MaxEpoch = 1
  Browser = {b1, b2}
  NoRegistration = NoChallenge
  Handler = {r1}
  VerifiedFor = 1
  LastTime = 3
  Ip = {i1, i2}
  Account = {p1, p2}
  Request = {f1, f2, q3}
  MaxPerIp = 3
  MaxPerAccount = 2
  Window = 2
  MaxTrackedKeys = 1
  SecondFactor = TRUE
  NoRecord = NoRecord
  NoAttempt = NoAttempt
VIEW WithoutHistory
SYMMETRY Symmetry
INVARIANTS FactorsOK LimitHolds ReservationsAreCounted VerificationHolds
PROPERTIES AcceptedOnce FactorsAreCurrent FirstFactorBringsCodes
CHECK_DEADLOCK FALSE
