------------------------------ MODULE RepositoryTree ------------------------------
(***************************************************************************)
(* Accounts, repositories, grants, folders and file rows, and the stored    *)
(* data they stand for (repository-creation.js, repository-access.js,       *)
(* repository-folders.js, repository-service.js, routes/repositories.js and *)
(* the account routes of routes/admin.js).                                  *)
(*                                                                         *)
(* A handler that awaits nothing is one action.  Three kinds are not: an    *)
(* upload, which is checked when it begins and recorded when its last file  *)
(* has arrived; a deletion, which removes data file by file before it       *)
(* deletes the row and can stop in between, by an error or a crash; and the *)
(* clean-up after an upload.  While a deletion runs nothing else does: it   *)
(* is synchronous.  Sizes and quotas are UploadQuota, reading is            *)
(* ProtectedStream.                                                         *)
(***************************************************************************)
EXTENDS Integers, FiniteSets, Functions

CONSTANTS
  User, Admin, NoUser,  \* accounts by their row identifier; the administrator
  Repo, Folder, NoFolder,
  File,                 \* file rows and their stored_name, one for one
  Name,                 \* names of repositories and folders, up to case
  Permission,           \* view, upload, download, delete
  Upload,               \* upload requests at the same time
  MaxPerUser,           \* maxRepositoriesPerUser
  MaxRepos,             \* maxTotalRepositories
  MaxFolders,           \* maxFoldersPerRepository
  MaxDepth,             \* MAX_FOLDER_DEPTH
  MaxGrants             \* bound on the grants at the same time

ASSUME TreeAssumption ==
  /\ Admin \notin User /\ NoUser \notin User \cup {Admin} /\ NoFolder \notin Folder
  /\ {"upload", "delete"} \subseteq Permission
  /\ {MaxPerUser, MaxRepos, MaxFolders, MaxDepth, MaxGrants} \subseteq Nat \ {0}

VARIABLES
  users,     \* accounts that exist
  repos,     \* rows of repositories, by identifier
  grants,    \* rows of repository_permissions
  folders,   \* rows of folders
  files,     \* rows of files
  disk,      \* stored data: <<repository directory, stored_name>>
  handedOut, \* identifiers that were used: AUTOINCREMENT and UUIDs do not repeat
  uploads,   \* upload requests
  removal,   \* the deletion that runs
  leftover   \* history: data or rows a crash or an I/O error left behind

treeVars == <<users, repos, grants, folders, files, disk, handedOut, uploads, removal,
              leftover>>

-----------------------------------------------------------------------------
RepoRow == [owner : User \cup {NoUser}, name : Name]
FolderRow == [repo : Repo, parent : Folder \cup {NoFolder}, name : Name]
FileRow == [repo : Repo, folder : Folder \cup {NoFolder}, by : User \cup {Admin, NoUser}]

\* The rows of a table: a function on some of its keys.
IsTable(t, keys, row) == DOMAIN t \subseteq keys /\ \A k \in DOMAIN t : t[k] \in row

NoUpload == [at |-> "none"]
NoRemoval == [what |-> "none"]

TreeTypeOK ==
  /\ users \subseteq User
  /\ IsTable(repos, Repo, RepoRow)
  /\ IsTable(grants, Repo \X User, (SUBSET Permission) \ {{}})
  /\ IsTable(folders, Folder, FolderRow)
  /\ IsTable(files, File, FileRow)
  /\ disk \subseteq Repo \X File
  /\ handedOut \subseteq User \cup Repo \cup Folder \cup File
  /\ uploads \in [Upload -> {NoUpload} \cup
       [at : {"open"}, user : User \cup {Admin}, repo : Repo,
        folder : Folder \cup {NoFolder}, got : SUBSET File]]
  /\ removal \in {NoRemoval} \cup
       [what : {"file", "folder", "repository"}, row : File \cup Folder \cup Repo,
        repo : Repo, todo : SUBSET File]
  /\ leftover \subseteq File

TreeInit ==
  /\ users = {} /\ repos = <<>> /\ grants = <<>> /\ folders = <<>> /\ files = <<>>
  /\ disk = {} /\ handedOut = {} /\ leftover = {}
  /\ uploads = [q \in Upload |-> NoUpload]
  /\ removal = NoRemoval

-----------------------------------------------------------------------------
(* repository-access.js *)

Manages(u, r) == u = Admin \/ repos[r].owner = u

Allows(u, r, p) ==
  /\ r \in DOMAIN repos
  /\ u \in users \cup {Admin}
  /\ \/ Manages(u, r)
     \/ <<r, u>> \in DOMAIN grants /\ p \in grants[<<r, u>>]

(* The tree of folders *)

\* folderDepth and the recursive queries: a folder and the folders above it.
Line(fs, d) ==
  LET up[n \in 0..MaxDepth] ==
        IF n = 0 THEN {d} \cap DOMAIN fs
        ELSE up[n - 1] \cup ({fs[x].parent : x \in up[n - 1]} \cap DOMAIN fs)
  IN  up[MaxDepth]

\* filesInFolderTree and ON DELETE CASCADE.
Below(d) == {x \in DOMAIN folders : d \in Line(folders, x)}

FilesIn(ds) == {f \in DOMAIN files : files[f].folder \in ds}

Siblings(r, p) == {d \in DOMAIN folders : folders[d].repo = r /\ folders[d].parent = p}

\* Deviation: one level more.
FitsBelowTooDeep(p) == Cardinality(Line(folders, p)) <= MaxDepth

FitsBelow(p) == Cardinality(Line(folders, p)) < MaxDepth

-----------------------------------------------------------------------------
Without(f, keys) == Restrict(f, DOMAIN f \ keys)
With(f, key, row) == [x \in DOMAIN f \cup {key} |-> IF x = key THEN row ELSE f[x]]

\* One thread: requests are handled while no deletion runs.
Free == removal = NoRemoval

\* POST /admin/users.  The password is hashed between the check of the name and
\* the INSERT; UNIQUE decides.
CreateUser(u) ==
  /\ Free /\ u \notin handedOut
  /\ users' = users \cup {u} /\ handedOut' = handedOut \cup {u}
  /\ UNCHANGED <<repos, grants, folders, files, disk, uploads, removal, leftover>>

\* POST /admin/users/:userId/delete and what the foreign keys do.
DeleteUser(u) ==
  /\ Free /\ u \in users
  /\ users' = users \ {u}
  /\ repos' = [r \in DOMAIN repos |-> IF repos[r].owner = u
                                      THEN [repos[r] EXCEPT !.owner = NoUser] ELSE repos[r]]
  /\ grants' = Without(grants, Repo \X {u})
  /\ files' = [f \in DOMAIN files |-> IF files[f].by = u
                                      THEN [files[f] EXCEPT !.by = NoUser] ELSE files[f]]
  /\ UNCHANGED <<folders, disk, handedOut, uploads, removal, leftover>>

Owned(u) == {r \in DOMAIN repos : repos[r].owner = u}

\* createRepositoryRecord, in one transaction.
RoomForRepo(u, n) ==
  /\ \A x \in Owned(u) : repos[x].name # n
  /\ Cardinality(Owned(u)) < MaxPerUser
  /\ Cardinality(DOMAIN repos) < MaxRepos

CreateRepo(u, r, n) ==
  /\ Free /\ u \in users /\ r \notin handedOut
  /\ RoomForRepo(u, n)
  /\ repos' = With(repos, r, [owner |-> u, name |-> n])
  /\ handedOut' = handedOut \cup {r}
  /\ UNCHANGED <<users, grants, folders, files, disk, uploads, removal, leftover>>

\* Deviation: the owner may be named too.
AnyAccount(r, v) == v \in users

\* findPermissionTargetByUsername, validatePermissionTarget
Grantee(r, v) == v \in users /\ repos[r].owner # v

\* hasAnyPermission, and its deviation.
AnyChoice(P) == TRUE
SomePermission(P) == P # {}

\* savePermissionGrant, by either route.
Grant(u, r, v, P) ==
  /\ Free /\ r \in DOMAIN repos /\ u \in users \cup {Admin} /\ Manages(u, r)
  /\ Grantee(r, v) /\ SomePermission(P)
  /\ <<r, v>> \in DOMAIN grants \/ Cardinality(DOMAIN grants) < MaxGrants
  /\ grants' = With(grants, <<r, v>>, P)
  /\ UNCHANGED <<users, repos, folders, files, disk, handedOut, uploads, removal, leftover>>

Revoke(u, r, v) ==
  /\ Free /\ r \in DOMAIN repos /\ u \in users \cup {Admin} /\ Manages(u, r)
  /\ <<r, v>> \in DOMAIN grants
  /\ grants' = Without(grants, {<<r, v>>})
  /\ UNCHANGED <<users, repos, folders, files, disk, handedOut, uploads, removal, leftover>>

\* createRepositoryFolder, in one transaction.
CreateFolder(u, r, p, n, d) ==
  /\ Free /\ Allows(u, r, "upload") /\ d \notin handedOut
  /\ p # NoFolder => p \in DOMAIN folders /\ folders[p].repo = r /\ FitsBelow(p)
  /\ Cardinality({x \in DOMAIN folders : folders[x].repo = r}) < MaxFolders
  /\ \A x \in Siblings(r, p) : folders[x].name # n
  /\ folders' = With(folders, d, [repo |-> r, parent |-> p, name |-> n])
  /\ handedOut' = handedOut \cup {d}
  /\ UNCHANGED <<users, repos, grants, files, disk, uploads, removal, leftover>>

-----------------------------------------------------------------------------
(* Deletion: first the data, then the row. *)

Begin(what, row, r, todo) ==
  /\ Free
  /\ removal' = [what |-> what, row |-> row, repo |-> r, todo |-> todo]
  /\ UNCHANGED <<users, repos, grants, folders, files, disk, handedOut, uploads, leftover>>

BeginDeleteFile(u, f) ==
  /\ f \in DOMAIN files /\ Allows(u, files[f].repo, "delete")
  /\ Begin("file", f, files[f].repo, {f})

\* Deviation: the files of the folder itself, not of those below it.
FolderOnly(d) == FilesIn({d})

\* filesInFolderTree
DataBelow(d) == FilesIn(Below(d))

BeginDeleteFolder(u, d) ==
  /\ d \in DOMAIN folders /\ Allows(u, folders[d].repo, "delete")
  /\ Begin("folder", d, folders[d].repo, DataBelow(d))

\* deleteRepository: rmSync of the directory, with what uploads are writing.
BeginDeleteRepo(u, r) ==
  /\ r \in DOMAIN repos /\ u \in users \cup {Admin} /\ Manages(u, r)
  /\ Begin("repository", r, r, {f \in File : <<r, f>> \in disk})

RemoveData(f) ==
  /\ removal # NoRemoval /\ f \in removal.todo
  /\ disk' = disk \ {<<removal.repo, f>>}
  /\ removal' = [removal EXCEPT !.todo = @ \ {f}]
  /\ UNCHANGED <<users, repos, grants, folders, files, handedOut, uploads, leftover>>

\* rmSync or the DELETE fails: next(error).  The rows of what was removed are still there.
GiveUpRemoval ==
  /\ removal # NoRemoval
  /\ removal' = NoRemoval
  /\ leftover' = leftover \cup {f \in DOMAIN files : <<files[f].repo, f>> \notin disk}
  /\ UNCHANGED <<users, repos, grants, folders, files, disk, handedOut, uploads>>

DeleteRow ==
  /\ removal # NoRemoval /\ removal.todo = {}
  /\ removal' = NoRemoval
  /\ CASE removal.what = "file" ->
            files' = Without(files, {removal.row}) /\ UNCHANGED <<repos, grants, folders>>
       [] removal.what = "folder" ->
            /\ files' = Without(files, FilesIn(Below(removal.row)))
            /\ folders' = Without(folders, Below(removal.row))
            /\ UNCHANGED <<repos, grants>>
       [] OTHER ->
            /\ repos' = Without(repos, {removal.row})
            /\ grants' = Without(grants, {removal.row} \X User)
            /\ folders' = Without(folders, {d \in DOMAIN folders : folders[d].repo = removal.row})
            /\ files' = Without(files, {f \in DOMAIN files : files[f].repo = removal.row})
  /\ UNCHANGED <<users, disk, handedOut, uploads, leftover>>

-----------------------------------------------------------------------------
(* POST /:repositoryId/upload *)

BeginUpload(q, u, r, d) ==
  /\ Free /\ uploads[q] = NoUpload /\ Allows(u, r, "upload")
  /\ uploads' = [uploads EXCEPT ![q] =
       [at |-> "open", user |-> u, repo |-> r, folder |-> d, got |-> {}]]
  /\ UNCHANGED <<users, repos, grants, folders, files, disk, handedOut, removal, leftover>>

\* _handleFile.  The directory of the repository is made when it is missing, also
\* when the repository was deleted since the request was admitted.
ReceiveFile(q, f) ==
  /\ Free /\ uploads[q].at = "open" /\ f \notin handedOut
  /\ disk' = disk \cup {<<uploads[q].repo, f>>}
  /\ uploads' = [uploads EXCEPT ![q].got = @ \cup {f}]
  /\ handedOut' = handedOut \cup {f}
  /\ UNCHANGED <<users, repos, grants, folders, files, removal, leftover>>

\* cleanupUploadedFiles
CleanedUp(q) == disk \ ({uploads[q].repo} \X uploads[q].got)

\* getRepositoryFolder at the end of the request.
FolderFound(q) ==
  LET d == uploads[q].folder IN
  d = NoFolder \/ (d \in DOMAIN folders /\ folders[d].repo = uploads[q].repo)

\* chmodSync of every file succeeds.
DataThere(q) == {uploads[q].repo} \X uploads[q].got \subseteq disk

\* The foreign keys hold: the repository and the account still exist.
RowsFit(q) == uploads[q].repo \in DOMAIN repos /\ uploads[q].user \in users \cup {Admin}

Records(q) == FolderFound(q) /\ DataThere(q) /\ RowsFit(q)

NewFiles(q) ==
  [f \in DOMAIN files \cup uploads[q].got |->
     IF f \in DOMAIN files THEN files[f]
     ELSE [repo |-> uploads[q].repo, folder |-> uploads[q].folder, by |-> uploads[q].user]]

EndUpload(q) == uploads' = [uploads EXCEPT ![q] = NoUpload]

RecordUpload(q) ==
  /\ Free /\ uploads[q].at = "open" /\ uploads[q].got # {} /\ Records(q)
  /\ files' = NewFiles(q)
  /\ EndUpload(q)
  /\ UNCHANGED <<users, repos, grants, folders, disk, handedOut, removal, leftover>>

\* The connection closes, a quota is met, or the rows cannot be inserted.
RefuseUpload(q) ==
  /\ Free /\ uploads[q].at = "open"
  /\ disk' = CleanedUp(q)
  /\ EndUpload(q)
  /\ UNCHANGED <<users, repos, grants, folders, files, handedOut, removal, leftover>>

\* commitReservations reads the database after COMMIT; when that fails, the data of
\* committed rows is cleaned up.
RecordThenFail(q) ==
  /\ Free /\ uploads[q].at = "open" /\ uploads[q].got # {} /\ Records(q)
  /\ files' = NewFiles(q)
  /\ disk' = CleanedUp(q)
  /\ leftover' = leftover \cup uploads[q].got
  /\ EndUpload(q)
  /\ UNCHANGED <<users, repos, grants, folders, handedOut, removal>>

\* The process ends at any moment.  Files that were arriving stay.
Crash ==
  /\ uploads' = [q \in Upload |-> NoUpload]
  /\ removal' = NoRemoval
  /\ leftover' = leftover
       \cup (UNION {uploads[q].got : q \in {p \in Upload : uploads[p].at = "open"}})
       \cup {f \in DOMAIN files : <<files[f].repo, f>> \notin disk}
  /\ UNCHANGED <<users, repos, grants, folders, files, disk, handedOut>>

TreeNext ==
  \/ \E u \in User : CreateUser(u) \/ DeleteUser(u)
  \/ \E u \in User, r \in Repo, n \in Name : CreateRepo(u, r, n)
  \/ \E u \in User \cup {Admin}, r \in Repo :
       \/ BeginDeleteRepo(u, r)
       \/ \E v \in User : Revoke(u, r, v) \/ \E P \in SUBSET Permission : Grant(u, r, v, P)
       \/ \E p \in Folder \cup {NoFolder}, n \in Name, d \in Folder : CreateFolder(u, r, p, n, d)
       \/ \E q \in Upload, d \in Folder \cup {NoFolder} : BeginUpload(q, u, r, d)
  \/ \E u \in User \cup {Admin} :
       (\E f \in File : BeginDeleteFile(u, f)) \/ (\E d \in Folder : BeginDeleteFolder(u, d))
  \/ \E f \in File : RemoveData(f)
  \/ \E q \in Upload :
       RecordUpload(q) \/ RefuseUpload(q) \/ RecordThenFail(q) \/ \E f \in File : ReceiveFile(q, f)
  \/ GiveUpRemoval \/ DeleteRow \/ Crash

TreeSpec == TreeInit /\ [][TreeNext]_treeVars

-----------------------------------------------------------------------------
(* Properties *)

\* Folders form trees inside one repository, no deeper than the limit, with different
\* names under one parent; a file lies in a folder of its own repository.  Cascades,
\* deletions that stop half-way and uploads admitted before them do not break it.
Forest ==
  /\ \A d \in DOMAIN folders :
       LET row == folders[d] IN
       /\ row.repo \in DOMAIN repos
       /\ row.parent # NoFolder =>
            row.parent \in DOMAIN folders /\ folders[row.parent].repo = row.repo
       /\ \E x \in Line(folders, d) : folders[x].parent = NoFolder
       /\ Cardinality(Line(folders, d)) <= MaxDepth
       /\ \A x \in Siblings(row.repo, row.parent) : folders[x].name = row.name => x = d
  /\ \A f \in DOMAIN files :
       /\ files[f].repo \in DOMAIN repos
       /\ files[f].folder # NoFolder =>
            files[f].folder \in DOMAIN folders /\ folders[files[f].folder].repo = files[f].repo

\* Access comes from an account that exists: the owner of a repository and everybody
\* named in a grant do, the owner is in no grant, and a grant goes with its repository.
AccessIsCurrent ==
  /\ \A r \in DOMAIN repos : repos[r].owner \in users \cup {NoUser}
  /\ \A g \in DOMAIN grants : /\ g[1] \in DOMAIN repos /\ g[2] \in users
                              /\ repos[g[1]].owner # g[2]

\* Data and rows stay together, in whatever order uploads, deletions of their file,
\* folder, repository or account, and errors come.  Data that no row names belongs to
\* an upload that is not finished, or was left by a crash: neither refused uploads nor
\* deletions forget data.  A row whose data is missing is being deleted, or its
\* deletion stopped half-way, or the read after its COMMIT failed: no upload records
\* data that a deletion took away (repositories.js:729-829, repository-folders.js:212-245).
DataMatchesRows ==
  /\ \A b \in disk :
       \/ b[2] \in DOMAIN files /\ files[b[2]].repo = b[1]
       \/ \E q \in Upload : /\ uploads[q].at = "open" /\ uploads[q].repo = b[1]
                            /\ b[2] \in uploads[q].got
       \/ b[2] \in leftover
  /\ \A f \in DOMAIN files :
       \/ <<files[f].repo, f>> \in disk
       \/ f \in leftover
       \/ removal # NoRemoval /\ removal.repo = files[f].repo /\ f \notin removal.todo
=============================================================================
