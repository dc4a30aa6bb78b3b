SPECIFICATION Spec
CONSTANTS
  User = {u1, u2}
  Admin = admin
  NoUser = NoUser
  Repo = {r1, r2}
  Folder = {d1, d2, d3}
  NoFolder = NoFolder
  File = {f1}
  Name = {n1}
  Permission = {"upload", "delete"}
  Upload = {q1}
  MaxPerUser = 1
  MaxRepos = 2
  MaxFolders = 3
  MaxDepth = 2
  MaxGrants = 1
  Stored = {s1}
  Read = {a1, a2}
  NoTime = NoTime
  OpensQuietly = FALSE
  MaxClock = 4
  Maximum = {1, 2, 4}
  MaxEntries = 8
INVARIANTS
  RepositoriesTypeOK Forest AccessIsCurrent DataMatchesRows TimesPreserved LogKeepsNewest
CHECK_DEADLOCK FALSE
SYMMETRY Symmetry
