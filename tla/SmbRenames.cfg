SPECIFICATION SyncSpec
CONSTANTS
  f1 = f1
  f2 = f2
  d1 = d1
  n1 = n1
  n2 = n2
  a = a
  b = b
  FileRow = {f1, f2, f3}
  FolderRow = {d1}
  FileNode = {n1, n2, n3, n4}
  DirNode = {i1, i2, i3}
  Name = {a, b, c}
  Root = Root
  NoData = NoData
  Shared <- OnlyFiles
  MaxScanned = 9
  MaxEvents = 2
  A = A
  B = B
  C = C
  StorageRoot = {A, B, C}
  Blob = {n3, n4}
  EnvRoot = A
  Device <- DeviceOf
  Nowhere = Nowhere
  MaxStorageEvents = 2
  Stream = {s1, s2}
  Fd = {n3, n4}
  Kinds <- Both
  Chunks = 2
  NoStream = NoStream
  NoFd = NoFd
INVARIANT RenamesReconciled
CHECK_DEADLOCK FALSE
SYMMETRY Symmetry
