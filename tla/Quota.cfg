SPECIFICATION QuotaSpec
CONSTANTS
  Repo = {p0}
  QuotaRepo = {p1, p2}
  QuotaFile = {g1, g2}
  File = {f1, f2, f3}
  Upload = {u1, u2}
  Chunk = {1}
  GlobalChoice <- AnyGlobal
  OverrideChoice <- NoOverrides
  SmbEnabled = TRUE
  NoRow = NoRow
  NoBlob = NoBlob
  NoReservation = NoReservation
  NoUpload = NoUpload
  NoLimit = NoLimit
  MaxBytes = 1
SYMMETRY Symmetric
INVARIANTS RowsAreBacked BlobsAreOwned NoLeakedReservation ReservationsHold
PROPERTIES QuotaRespected
CHECK_DEADLOCK FALSE
