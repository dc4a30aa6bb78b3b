SPECIFICATION ProgressSpec
CONSTANTS
  Stream = {s1, s2}
  Fd = {d1, d2}
  Kinds <- Files
  Chunks = 2
  NoStream = NoStream
  NoFd = NoFd
  Password = {p, q}
  NoPassword = NoPassword
  MaxShareEvents = 3
  MaxNetEvents = 4
  MaxOpen = 1
  Archive = {r1, r2}
  Number = {1, 2}
  NoNumber = NoNumber
  NoFile = NoFile
  SlotLimit = 1
  Repo = {p1}
  File = {f1, f2}
  Upload = {u1}
  Chunk = {1}
  OverrideChoice <- AnyOverride
  SmbEnabled = TRUE
  NoRow = NoRow
  NoBlob = NoBlob
  NoReservation = NoReservation
  NoUpload = NoUpload
  NoLimit = NoLimit
  MaxBytes = 2
  Ip = {i1}
  Account = {a1, a2}
  Attempt = {q1, q2}
  MaxPerIp = 3
  MaxPerAccount = 2
  Window = 2
  MaxTrackedKeys = 2
  SecondFactor = FALSE
  NoRecord = NoRecord
  NoAttempt = NoAttempt
  Item = {g1, g2, g3}
  Pdf = {g3}
  Sheet = {1, 2}
  Load = {l1, l2}
  NoItem = NoItem
  NoLoad = NoLoad
  FirstSheet = 1
  ServerFails = TRUE
  Listed <- AnyEntry
  MaxRead = 4
  MaxEntries = 3
  MaxVisible = 2
  MaxName = 2
  MaxNames = 3
  MaxComponents = 2
  MaxNodes = 3
  MaxRows = 2
  MaxCell = 3
  MaxText = 3
INVARIANTS
  PartsTypeOK MetadataOfItsArchive ListingIsHonest ContentIsOfSelection BarFollowsTransfer
PROPERTIES
  PublicationFollowsRow CertificateCatchesUp WhatBeginsEnds FailuresAreForgiven
CHECK_DEADLOCK FALSE
