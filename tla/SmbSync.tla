------------------------------ MODULE SmbSync ------------------------------
(***************************************************************************)
(* smb-sync-service.js: the two-way synchronization of one shared          *)
(* repository.  The database (rows of files and folders, and the mapping   *)
(* of each row to a path and an inode of the projection) and the           *)
(* projection (hard links in a directory Samba serves) are reconciled by   *)
(* passes.  A pass runs in the one thread of the server, so the web routes *)
(* act between passes only; SMB users act on the projection at any moment, *)
(* and the process may end at any moment.                                  *)
(*                                                                         *)
(* The projection is one directory deep.  A file's content is its inode:   *)
(* the stored file and its projection are links to the same inode, and an  *)
(* overwritten file is a new inode.  Sizes, and so the verdict of          *)
(* enforceSmbFileQuota, are left open: every file may be refused.          *)
(***************************************************************************)
EXTENDS Naturals, FiniteSets, Functions

CONSTANTS
  FileRow, FolderRow,   \* identifiers of rows
  FileNode, DirNode,    \* inodes
  Name, Root, NoData,   \* names of entries, the top directory, a lost stored file
  Shared,               \* what the repository may hold when it is first shared
  MaxScanned,           \* SMB_SYNC_MAX_SCANNED_ENTRIES
  MaxEvents             \* bound: what users and failures do

ASSUME SmbSyncAssumption ==
  /\ FileRow \cap FolderRow = {} /\ FileNode \cap DirNode = {}
  /\ Root \notin Name \cup FolderRow /\ NoData \notin FileNode
  /\ \A s \in Shared :
       /\ \E R \in SUBSET FileRow :
            s.files \in [R -> [folder : {Root} \cup DOMAIN s.folders, name : Name, blob : FileNode]]
       /\ \E R \in SUBSET FolderRow : s.folders \in [R -> Name]
       /\ \A r, t \in DOMAIN s.folders : s.folders[r] = s.folders[t] => r = t

Path == ({Root} \cup Name) \X Name
Top(n) == <<Root, n>>

VARIABLES
  db,       \* [files, folders, maps]: the tables of this repository
  proj,     \* the projection: a function from paths to inodes
  marker,   \* PROJECTION_MARKER is there
  pass,     \* the pass under way
  made,     \* history: the contents there have been,
  removed,  \* those that were deleted, overwritten or refused,
  touched,  \* the inodes whose entry an SMB user changed,
  raced,    \* the contents whose entry changed during a pass,
  twinned,  \* and those that two rows have had
  events

smbVars == <<db, proj, marker, pass, made, removed, touched, raced, twinned, events>>

Nothing == [x \in {} |-> x]
Without(f, S) == Restrict(f, DOMAIN f \ S)
With(f, x, v) == [y \in DOMAIN f \cup {x} |-> IF y = x THEN v ELSE f[y]]

\* No pass, or one that has ended: at is "idle", "done" or "failed" (an error, or a crash).
Rest(at, calm) ==
  [at |-> at, scan |-> Nothing, todo |-> {}, seen |-> {}, stable |-> {}, calm |-> calm]
Resting == pass.at \in {"idle", "done", "failed"}

\* The contents that more than one row has.
Holders(d, n) ==
  {r \in DOMAIN d.files : d.files[r].blob = n} \cup {r \in DOMAIN d.maps : d.maps[r].node = n}
Twins(d) == {n \in FileNode : \E r, s \in Holders(d, n) : r # s}

SmbInit ==
  /\ \E s \in Shared : db = [files |-> s.files, folders |-> s.folders, maps |-> Nothing]
  /\ proj = Nothing /\ marker = FALSE
  /\ pass = Rest("idle", FALSE)
  /\ made = {db.files[r].blob : r \in DOMAIN db.files}
  /\ removed = {} /\ touched = {} /\ raced = {} /\ twinned = Twins(db) /\ events = 0

-----------------------------------------------------------------------------
\* Reading the tables and the projection

Rows(d) == DOMAIN d.files \cup DOMAIN d.folders
MappedFiles(d) == DOMAIN d.maps \cap FileRow
MappedFolders(d) == DOMAIN d.maps \cap FolderRow
MappedAt(d, p) == {r \in DOMAIN d.maps : d.maps[r].path = p}

\* folderIdForParentPath: the folder of a path, none if its directory is not mapped.
ParentOf(d, p) ==
  IF p[1] = Root THEN {Root} ELSE MappedAt(d, Top(p[1])) \cap FolderRow

\* UNIQUE (repository_id, relative_path)
PathsUnique(d) == \A r, s \in DOMAIN d.maps : d.maps[r].path = d.maps[s].path => r = s

InDir(p, q) == q[1] = Root /\ p[1] = q[2]
Under(f, q) == {p \in DOMAIN f : p = q \/ InDir(p, q)}
NodesOf(f, S) == {f[p] : p \in S} \cap FileNode

\* Deviation: any entry at the path will do.
StillThere(r) == db.maps[r].path \in DOMAIN proj

\* Contents that only the projection has.
Unrecorded == NodesOf(proj, DOMAIN proj) \ {db.files[r].blob : r \in DOMAIN db.files}

\* The mapped entry is where the mapping says, with the same identity.
InPlace(r) ==
  /\ db.maps[r].path \in DOMAIN proj
  /\ proj[db.maps[r].path] = db.maps[r].node

\* The value that is stored: a directory that is not mapped counts as the top.
ParentOrRoot(d, p) == IF ParentOf(d, p) = {} THEN {Root} ELSE ParentOf(d, p)

\* What a row's file lies below: the directory of its folder, if that is mapped.
DirOf(d, folder) ==
  IF folder = Root THEN {Root}
  ELSE IF folder \in DOMAIN d.maps THEN {d.maps[folder].path[2]} ELSE {}

\* Deviation: only the disk is asked.
NoConflictOnDisk(p, own) == p \in DOMAIN proj => \E r \in own : db.maps[r].path = p

\* allocateRelativePath: the name itself, or, with a suffix, another one of the
\* directory; none if there is no directory to read or no name left.  An entry's own
\* path is not in its way.
NoConflict(p, own) ==
  /\ MappedAt(db, p) \subseteq own
  /\ p \in DOMAIN proj => \E r \in own : db.maps[r].path = p
Allocated(dir, n, own) ==
  IF dir # Root /\ (Top(dir) \in DOMAIN proj => proj[Top(dir)] \notin DirNode) THEN {}
  ELSE IF NoConflict(<<dir, n>>, own) THEN {<<dir, n>>}
  ELSE {p \in {dir} \X Name : NoConflict(p, own)}

\* uniqueDatabaseFolderName
FolderName(d, n, own) ==
  LET taken == {d.folders[r] : r \in DOMAIN d.folders \ own}
  IN  IF n \notin taken THEN {n} ELSE Name \ taken

\* A directory's entry takes another path, and what lies below goes with it.
Shifted(p, from, to) ==
  IF p = from THEN to ELSE IF InDir(p, from) THEN <<to[2], p[2]>> ELSE p
Renamed(f, from, to) ==
  [q \in (DOMAIN f \ Under(f, from)) \cup {Shifted(p, from, to) : p \in Under(f, from)} |->
     IF \E p \in Under(f, from) : Shifted(p, from, to) = q
     THEN f[CHOOSE p \in Under(f, from) : Shifted(p, from, to) = q]
     ELSE f[q]]

\* updateMappingPath, and for a folder updateFolderMappingPrefix
Remapped(d, r, to) ==
  LET from == d.maps[r].path
      moved == IF r \in FolderRow THEN {s \in DOMAIN d.maps : InDir(d.maps[s].path, from)} ELSE {}
      Moved(m) == [m EXCEPT !.path = Shifted(m.path, from, to)]
  IN  [d EXCEPT !.maps =
        [s \in DOMAIN @ |-> IF s \in moved \cup {r} THEN Moved(@[s]) ELSE @[s]]]

-----------------------------------------------------------------------------
\* Deleting rows with their data

\* deleteFileObject
FileDeleted(d, r) ==
  [d EXCEPT !.files = Without(@, {r}), !.maps = Without(@, {r})]

FilesOf(d, r) == {f \in DOMAIN d.files : d.files[f].folder = r}

\* deleteFolderObject: the row's cascade removes the rows of its files; the mappings
\* that go are those below the folder's path.
FolderDeleted(d, r) ==
  LET path == d.maps[r].path
  IN  [files |-> Without(d.files, FilesOf(d, r)),
       folders |-> Without(d.folders, {r}),
       maps |-> Without(d.maps, {s \in DOMAIN d.maps : LET p == d.maps[s].path
                                                       IN  p = path \/ InDir(p, path)})]

\* The contents a user takes away with a folder: those of its rows, once the folder's
\* directory was removed or renamed by an SMB user.
LostWith(d, r) ==
  IF d.maps[r].node \in touched THEN {d.files[f].blob : f \in FilesOf(d, r)} \cap FileNode ELSE {}

\* The data of some rows is removed and the process ends before their rows are.
DataLost(d, S) ==
  [d EXCEPT !.files = [r \in DOMAIN @ |-> IF r \in S THEN [@[r] EXCEPT !.blob = NoData] ELSE @[r]]]

-----------------------------------------------------------------------------
\* What users and failures do

Happens == events < MaxEvents /\ events' = events + 1
Disturbed == pass' = [pass EXCEPT !.calm = FALSE]
NewNode(n) == n \notin made /\ made' = made \cup {n}
FileAt(p) == p \in DOMAIN proj /\ proj[p] \in FileNode
Vacant(p) ==
  /\ p \notin DOMAIN proj
  /\ p[1] # Root => Top(p[1]) \in DOMAIN proj /\ proj[Top(p[1])] \in DirNode

\* A file is created, or saved over another one: a new inode takes the path.
SmbWrite(p, n) ==
  /\ Vacant(p) \/ FileAt(p)
  /\ NewNode(n)
  /\ proj' = With(proj, p, n)
  /\ removed' = removed \cup NodesOf(proj, {p} \cap DOMAIN proj)
  /\ touched' = touched \cup NodesOf(proj, {p} \cap DOMAIN proj)

SmbUnlink(p) ==
  /\ FileAt(p)
  /\ proj' = Without(proj, {p})
  /\ removed' = removed \cup {proj[p]}
  /\ touched' = touched \cup {proj[p]}
  /\ UNCHANGED made

\* A file is renamed or moved, over another file perhaps.
SmbRename(p, q) ==
  /\ p # q /\ FileAt(p)
  /\ Vacant(q) \/ FileAt(q)
  /\ proj' = With(Without(proj, {p}), q, proj[p])
  /\ removed' = removed \cup (NodesOf(proj, {q} \cap DOMAIN proj) \ {proj[p]})
  /\ touched' = touched \cup NodesOf(proj, {p, q} \cap DOMAIN proj)
  /\ UNCHANGED made

\* An inode is used again, but one that the scan under way has seen stays what it was there.
SmbMkdir(n, node) ==
  /\ Vacant(Top(n))
  /\ node \notin Range(proj) \cup {db.maps[r].node : r \in DOMAIN db.maps}
  /\ proj' = With(proj, Top(n), node)
  /\ touched' = touched \ ({node} \ Range(pass.scan))
  /\ UNCHANGED <<made, removed>>

SmbRmdir(n) ==
  /\ Under(proj, Top(n)) = {Top(n)} /\ proj[Top(n)] \in DirNode
  /\ proj' = Without(proj, {Top(n)})
  /\ touched' = touched \cup {proj[Top(n)]}
  /\ UNCHANGED <<made, removed>>

SmbRenameDir(n, m) ==
  /\ Top(n) \in DOMAIN proj /\ proj[Top(n)] \in DirNode /\ Vacant(Top(m))
  /\ proj' = Renamed(proj, Top(n), Top(m))
  /\ touched' = touched \cup {proj[p] : p \in Under(proj, Top(n))}
  /\ UNCHANGED <<made, removed>>

SmbChange ==
  \/ \E p \in Path, n \in FileNode : SmbWrite(p, n)
  \/ \E p \in Path : SmbUnlink(p)
  \/ \E p, q \in Path : SmbRename(p, q)
  \/ \E n \in Name, node \in DirNode : SmbMkdir(n, node)
  \/ \E n \in Name : SmbRmdir(n)
  \/ \E n, m \in Name : SmbRenameDir(n, m)

\* The contents of the entries that differ between two projections.
Differing(was, is) ==
  LET same == {p \in DOMAIN was \cap DOMAIN is : was[p] = is[p]}
  IN  NodesOf(was, DOMAIN was \ same) \cup NodesOf(is, DOMAIN is \ same)
RacesWithPass == raced' = raced \cup Differing(proj, proj')

SmbUser ==
  /\ Happens /\ SmbChange /\ Disturbed
  /\ IF Resting THEN UNCHANGED raced ELSE RacesWithPass
  /\ UNCHANGED <<db, marker>>

\* The routes, between two passes.
WebUpload(r, folder, name, n) ==
  /\ Resting /\ Happens
  /\ r \notin Rows(db) \cup DOMAIN db.maps
  /\ folder \in {Root} \cup DOMAIN db.folders
  /\ NewNode(n)
  /\ db' = [db EXCEPT !.files = With(@, r, [folder |-> folder, name |-> name, blob |-> n])]
  /\ Disturbed
  /\ UNCHANGED <<proj, marker, removed, touched, raced>>

WebDeleteFile(r) ==
  /\ Resting /\ Happens
  /\ r \in DOMAIN db.files
  /\ db' = [db EXCEPT !.files = Without(@, {r})]
  /\ removed' = removed \cup ({db.files[r].blob} \cap FileNode)
  /\ Disturbed
  /\ UNCHANGED <<proj, marker, made, touched, raced>>

\* What the folder's directory holds goes as well.
WebDeleteFolder(r) ==
  /\ Resting /\ Happens
  /\ r \in DOMAIN db.folders
  /\ db' = [db EXCEPT !.files = Without(@, FilesOf(db, r)), !.folders = Without(@, {r})]
  /\ removed' = removed \cup ({db.files[f].blob : f \in FilesOf(db, r)} \cap FileNode)
  /\ Disturbed
  /\ UNCHANGED <<proj, marker, made, touched, raced>>

\* The volume of the projections is lost and made again, or the share is withdrawn and
\* published again: cleanupDisabledProjections removes the directory, then the mappings.
LoseProjection ==
  /\ Resting /\ Happens
  /\ proj' = Nothing /\ marker' = FALSE
  /\ db' \in {db, [db EXCEPT !.maps = Nothing]}
  /\ removed' = removed \cup Unrecorded
  /\ Disturbed
  /\ UNCHANGED <<made, touched, raced>>

\* The process ends between two steps of a pass.
CrashDuringPass ==
  /\ ~Resting /\ Happens
  /\ pass' = Rest("failed", FALSE)
  /\ UNCHANGED <<db, proj, marker, made, removed, touched, raced>>

\* An error that is not caught ends the pass, and the process may end within a step.
Fails == pass' = Rest("failed", pass.calm)
EndsWithin == Happens /\ pass' = Rest("failed", FALSE)
TornDeletion(S) == \E T \in SUBSET S : T # {} /\ db' = DataLost(db, T) /\ EndsWithin

-----------------------------------------------------------------------------
\* A pass: the marker, and entries whose rows the routes deleted

At(stage) == pass.at = stage
Goes(stage, todo) == pass' = [pass EXCEPT !.at = stage, !.todo = todo]
Did(x) == pass' = [pass EXCEPT !.todo = @ \ {x}]
Saw(x, r) == pass' = [pass EXCEPT !.todo = @ \ {x}, !.seen = @ \cup {r}]
KeepsHistory == UNCHANGED <<made, touched, raced>>

BeginPassUnmarked ==
  /\ Resting
  /\ pass' = Rest("web", TRUE)
  /\ UNCHANGED <<db, proj, marker, made, removed, touched, raced, events>>

BeginPass ==
  /\ Resting
  /\ pass' = Rest(IF marker THEN "web" ELSE "wipe", TRUE)
  /\ UNCHANGED <<db, proj, marker, made, removed, touched, raced, events>>

\* ensureProjectionState without a marker: everything is removed, then the mappings,
\* then the marker is written.
Wipe ==
  /\ At("wipe")
  /\ proj' = Nothing
  /\ removed' = removed \cup Unrecorded
  /\ Goes("unmap", {})
  /\ KeepsHistory /\ UNCHANGED <<db, marker, events>>

Unmap ==
  /\ At("unmap")
  /\ db' = [db EXCEPT !.maps = Nothing]
  /\ Goes("mark", {})
  /\ KeepsHistory /\ UNCHANGED <<proj, marker, removed, events>>

Mark ==
  /\ At("mark")
  /\ marker' = TRUE
  /\ Goes("web", {})
  /\ KeepsHistory /\ UNCHANGED <<db, proj, removed, events>>

Orphans == DOMAIN db.maps \ Rows(db)

\* removeWebDeletedProjectionEntries: longer paths first.
RemoveWebDeleted(r) ==
  /\ At("web")
  /\ r \in Orphans
  /\ r \in FolderRow => \A s \in Orphans : ~InDir(db.maps[s].path, db.maps[r].path)
  /\ LET gone == IF InPlace(r) THEN Under(proj, db.maps[r].path) ELSE {}
     IN  /\ proj' = Without(proj, gone)
         /\ removed' = removed \cup NodesOf(proj, gone)
  /\ \/ /\ db' = [db EXCEPT !.maps = Without(@, {r})]
        /\ UNCHANGED <<pass, events>>
     \/ EndsWithin /\ UNCHANGED db
  /\ KeepsHistory /\ UNCHANGED marker

-----------------------------------------------------------------------------
\* applyDatabaseChangesToMappedEntries: names as the database has them

BeginApply ==
  /\ At("web") /\ Orphans = {}
  /\ Goes("apply", DOMAIN db.maps)
  /\ KeepsHistory /\ UNCHANGED <<db, proj, marker, removed, events>>

\* The entry's directory is stable: applied before it in this pass.
Settled(r) ==
  r \in FolderRow \/ db.files[r].folder = Root \/ db.files[r].folder \in pass.stable

Applicable(r) ==
  /\ r \in DOMAIN db.maps /\ InPlace(r) /\ Settled(r)
  /\ (r \in FolderRow) = (db.maps[r].node \in DirNode)

NameOf(r) == IF r \in FolderRow THEN db.folders[r] ELSE db.files[r].name
FolderOf(r) == IF r \in FolderRow THEN Root ELSE db.files[r].folder

\* The entry is renamed, and the mapping says so afterwards.
Apply(r) ==
  \E dir \in DirOf(db, FolderOf(r)) :
    LET paths == Allocated(dir, NameOf(r), {r}) IN
    IF paths = {} THEN Fails /\ UNCHANGED <<db, proj, events>>
    ELSE \E p \in paths :
      /\ proj' = Renamed(proj, db.maps[r].path, p)
      /\ \/ /\ db' = Remapped(db, r, p)
            /\ pass' = [pass EXCEPT !.todo = @ \ {r},
                 !.stable = IF r \in FolderRow THEN @ \cup {r} ELSE @]
            /\ UNCHANGED events
         \/ p # db.maps[r].path /\ EndsWithin /\ UNCHANGED db

ApplyEntry(r) ==
  /\ At("apply") /\ r \in pass.todo
  /\ r \in FileRow => pass.todo \cap FolderRow = {}
  /\ IF ~Applicable(r) THEN Did(r) /\ UNCHANGED <<db, proj, events>>
     ELSE IF r \in FileRow /\ db.files[r].blob = NoData
          THEN Fails /\ UNCHANGED <<db, proj, events>>
          ELSE /\ r \in FileRow => db.files[r].blob = db.maps[r].node
               /\ Apply(r)
  /\ KeepsHistory /\ UNCHANGED <<marker, removed>>

\* The stored file is an inode of its own: the projection is linked to it again.
Relink(r) ==
  /\ At("apply") /\ r \in pass.todo
  /\ r \in FileRow /\ pass.todo \cap FolderRow = {}
  /\ Applicable(r) /\ db.files[r].blob \notin {NoData, db.maps[r].node}
  /\ LET p == db.maps[r].path
     IN  \/ /\ proj' = [proj EXCEPT ![p] = db.files[r].blob]
            /\ db' = [db EXCEPT !.maps[r].node = db.files[r].blob]
            /\ Did(r) /\ UNCHANGED events
         \/ EndsWithin /\ proj' = Without(proj, {p}) /\ UNCHANGED db
  /\ KeepsHistory /\ UNCHANGED <<marker, removed>>

\* A user saves the file between the lstat that identifies the entry and the one
\* whose identity is recorded.
ApplyDuringSave(r, n) ==
  /\ At("apply") /\ r \in pass.todo
  /\ r \in FileRow /\ pass.todo \cap FolderRow = {}
  /\ Applicable(r) /\ db.files[r].blob = db.maps[r].node
  /\ Happens /\ SmbWrite(db.maps[r].path, n)
  /\ db' = [db EXCEPT !.maps[r].node = n]
  /\ pass' = [pass EXCEPT !.todo = @ \ {r}, !.calm = FALSE]
  /\ RacesWithPass /\ UNCHANGED marker

-----------------------------------------------------------------------------
\* scanProjection

\* What a scan may see when the projection becomes that of the next state meanwhile:
\* an entry that changed, as it was, as it is, or not at all.
Sighted(was, is, scan) ==
  /\ \A p \in DOMAIN scan :
       /\ \E f \in {was, is} : p \in DOMAIN f /\ scan[p] = f[p]
       /\ p[1] # Root => Top(p[1]) \in DOMAIN scan /\ scan[Top(p[1])] \in DirNode
  /\ \A p \in DOMAIN was \cap DOMAIN is :
       (was[p] = is[p] /\ (p[1] # Root => Top(p[1]) \in DOMAIN scan)) => p \in DOMAIN scan

Scans(was, is) ==
  LET both == DOMAIN was \cup DOMAIN is
  IN  {s \in UNION {[S -> Range(was) \cup Range(is)] : S \in SUBSET both} : Sighted(was, is, s)}

\* The entries of a scan; more of them than allowed end the pass.
Within(scan) == Cardinality(DOMAIN scan) <= MaxScanned
Dirs(scan) == {p \in DOMAIN scan : scan[p] \in DirNode}
Leaves(scan) == {p \in DOMAIN scan : scan[p] \in FileNode}
StableRows(d, scan) ==
  {r \in DOMAIN d.maps : d.maps[r].path \in DOMAIN scan /\ scan[d.maps[r].path] = d.maps[r].node}

Scanned(scan, calm) ==
  IF Within(scan)
  THEN pass' = [Rest("movefolders", calm) EXCEPT
         !.scan = scan, !.todo = Dirs(scan), !.stable = StableRows(db, scan)]
  ELSE pass' = Rest("failed", calm)

Scan ==
  /\ At("apply") /\ pass.todo = {}
  /\ Scanned(proj, pass.calm)
  /\ KeepsHistory /\ UNCHANGED <<db, proj, marker, removed, events>>

ScanDuringChange ==
  /\ At("apply") /\ pass.todo = {}
  /\ Happens /\ SmbChange
  /\ \E scan \in Scans(proj, proj') : Scanned(scan, FALSE)
  /\ RacesWithPass /\ UNCHANGED <<db, marker>>

-----------------------------------------------------------------------------
\* syncProjectionToDatabase: folders

\* What is found elsewhere under the same identity was moved.  Of several rows of one
\* identity only the one read last is looked at, and that may be any of them.
Owners(kind, p) == {r \in DOMAIN db.maps \cap kind : db.maps[r].node = pass.scan[p]}
MovedRows(kind, p) == {r \in Owners(kind, p) : r \notin pass.stable /\ db.maps[r].path # p}

\* moveFolderFromSmb; a path another row is mapped to is refused by the database.
MoveFolder(p) ==
  /\ At("movefolders") /\ p \in pass.todo
  /\ \/ /\ MovedRows(FolderRow, p) # Owners(FolderRow, p) \/ Owners(FolderRow, p) = {}
        /\ Did(p) /\ UNCHANGED db
     \/ \E r \in MovedRows(FolderRow, p) : \E n \in FolderName(db, p[2], {r}) :
       LET next == [Remapped(db, r, p) EXCEPT !.folders[r] = n]
       IN  IF PathsUnique(next) THEN Did(p) /\ db' = next ELSE Fails /\ UNCHANGED db
  /\ KeepsHistory /\ UNCHANGED <<proj, marker, removed, events>>

BeginFolders ==
  /\ At("movefolders") /\ pass.todo = {}
  /\ Goes("folders", Dirs(pass.scan))
  /\ KeepsHistory /\ UNCHANGED <<db, proj, marker, removed, events>>

\* What was at a path whose entry is of another kind or identity goes.
Cleared(d, S) ==
  IF S = {} THEN d
  ELSE LET r == CHOOSE x \in S : TRUE
       IN  IF r \in FolderRow THEN FolderDeleted(d, r) ELSE FileDeleted(d, r)
DataOf(d, S) ==
  UNION {IF r \in FolderRow THEN FilesOf(d, r) ELSE {r} \cap DOMAIN d.files : r \in S}
LostBy(S) == UNION {IF r \in FolderRow THEN LostWith(db, r) ELSE {} : r \in S}

\* createSmbFolderRecord: one folder more than allowed is removed from the projection.
CreateFolder(d, p) ==
  IF FolderRow \subseteq DOMAIN d.folders \cup DOMAIN d.maps
  THEN LET gone == IF p \in DOMAIN proj THEN Under(proj, p) ELSE {}
       IN  /\ proj' = Without(proj, gone)
           /\ removed' = removed \cup NodesOf(proj, gone) \cup LostBy(MappedAt(db, p))
           /\ db' = d /\ Did(p)
  ELSE \E r \in FolderRow \ (DOMAIN d.folders \cup DOMAIN d.maps), n \in FolderName(d, p[2], {}) :
         /\ db' = [d EXCEPT !.folders = With(@, r, n),
                            !.maps = With(@, r, [path |-> p, node |-> pass.scan[p]])]
         /\ removed' = removed \cup LostBy(MappedAt(db, p))
         /\ Saw(p, r) /\ UNCHANGED proj

EnterFolder(p) ==
  /\ At("folders") /\ p \in pass.todo
  /\ LET here == MappedAt(db, p)
         same == {r \in here \cap FolderRow : db.maps[r].node = pass.scan[p]}
     IN  \/ /\ same # {}
            /\ \E r \in same : \E n \in FolderName(db, p[2], {r}) :
                 db' = [db EXCEPT !.folders[r] = n] /\ Saw(p, r)
            /\ UNCHANGED <<proj, removed, events>>
         \/ /\ same = {}
            /\ CreateFolder(Cleared(db, here), p)
            /\ UNCHANGED events
         \/ /\ same = {}
            /\ TornDeletion(DataOf(db, here))
            /\ removed' = removed \cup LostBy(here)
            /\ UNCHANGED proj
  /\ KeepsHistory /\ UNCHANGED marker

-----------------------------------------------------------------------------
\* syncProjectionToDatabase: files

BeginMoves ==
  /\ At("folders") /\ pass.todo = {}
  /\ pass' = [pass EXCEPT !.at = "movefiles", !.todo = Leaves(pass.scan),
                          !.stable = StableRows(db, pass.scan)]
  /\ KeepsHistory /\ UNCHANGED <<db, proj, marker, removed, events>>

RenamingRowOnly(d, r, p, parent) ==
  [d EXCEPT !.files[r] = [@ EXCEPT !.folder = parent, !.name = p[2]]]

\* The row says where the entry is.
Renaming(d, r, p, parent) ==
  [d EXCEPT !.files[r] = [@ EXCEPT !.folder = parent, !.name = p[2]], !.maps[r].path = p]

\* moveFileFromSmb
MoveFile(p) ==
  /\ At("movefiles") /\ p \in pass.todo
  /\ LET movable == {r \in MovedRows(FileRow, p) : r \in DOMAIN db.files /\ ParentOf(db, p) # {}}
     IN  \/ /\ movable # Owners(FileRow, p) \/ Owners(FileRow, p) = {}
            /\ Did(p) /\ UNCHANGED db
         \/ \E r \in movable, parent \in ParentOf(db, p) :
           LET next == Renaming(db, r, p, parent)
           IN  IF PathsUnique(next) THEN Did(p) /\ db' = next ELSE Fails /\ UNCHANGED db
  /\ KeepsHistory /\ UNCHANGED <<proj, marker, removed, events>>

BeginFiles ==
  /\ At("movefiles") /\ pass.todo = {}
  /\ Goes("files", Leaves(pass.scan))
  /\ KeepsHistory /\ UNCHANGED <<db, proj, marker, removed, events>>

\* importSmbFile: what is at the path now is linked, the identity of the scan recorded.
Import(d, p) ==
  \/ /\ ParentOf(d, p) = {} \/ p \notin DOMAIN proj
     /\ db' = d /\ Did(p) /\ UNCHANGED <<proj, removed>>
  \/ /\ ParentOf(d, p) # {} /\ FileAt(p)
     /\ \E r \in FileRow \ (DOMAIN d.files \cup DOMAIN d.maps), parent \in ParentOf(d, p) :
          /\ db' = [d EXCEPT
               !.files = With(@, r, [folder |-> parent, name |-> p[2], blob |-> proj[p]]),
               !.maps = With(@, r, [path |-> p, node |-> pass.scan[p]])]
          /\ Saw(p, r)
     /\ UNCHANGED <<proj, removed>>
  \/ /\ ParentOf(d, p) # {} /\ p \in DOMAIN proj /\ proj[p] \in DirNode
     /\ db' = d /\ Fails /\ UNCHANGED <<proj, removed>>
  \* rejectSmbFile
  \/ /\ ParentOf(d, p) # {} /\ (p \in DOMAIN proj => FileAt(p))
     /\ proj' = Without(proj, {p})
     /\ removed' = removed \cup NodesOf(proj, {p} \cap DOMAIN proj)
     /\ db' = d /\ Did(p)

\* replaceMappedFile, and what follows when the quota refuses the new file.
Replace(r, p) ==
  \/ /\ FileAt(p)
     /\ \E parent \in ParentOrRoot(db, p) :
          db' = [Renaming(db, r, p, parent) EXCEPT
                   !.files[r].blob = proj[p], !.maps[r].node = pass.scan[p]]
     /\ Saw(p, r) /\ UNCHANGED <<proj, removed, events>>
  \/ /\ ~FileAt(p)
     /\ Fails /\ UNCHANGED <<db, proj, removed, events>>
  \/ /\ p \in DOMAIN proj => FileAt(p)
     /\ removed' = removed \cup NodesOf(proj, {p} \cap DOMAIN proj)
     /\ \/ /\ db.files[r].blob # NoData
           /\ Vacant(p) \/ p \in DOMAIN proj
           /\ proj' = With(proj, p, db.files[r].blob)
           /\ db' = [db EXCEPT !.maps[r].node = db.files[r].blob]
           /\ Saw(p, r) /\ UNCHANGED events
        \/ /\ db.files[r].blob = NoData \/ ~(Vacant(p) \/ p \in DOMAIN proj)
           /\ proj' = Without(proj, {p})
           /\ Fails /\ UNCHANGED <<db, events>>
        \/ /\ proj' = Without(proj, {p})
           /\ EndsWithin /\ UNCHANGED db

EnterFile(p) ==
  /\ At("files") /\ p \in pass.todo
  /\ LET files == MappedAt(db, p) \cap FileRow
         folders == MappedAt(db, p) \cap FolderRow
     IN  \/ \E r \in files :
              IF r \notin DOMAIN db.files THEN Did(p) /\ UNCHANGED <<db, proj, removed, events>>
              ELSE IF db.maps[r].node # pass.scan[p] THEN Replace(r, p)
              ELSE \E parent \in ParentOrRoot(db, p) :
                     /\ db' = Renaming(db, r, p, parent)
                     /\ Saw(p, r) /\ UNCHANGED <<proj, removed, events>>
         \/ /\ files = {} /\ folders = {}
            /\ Import(db, p) /\ UNCHANGED events
         \/ \E r \in folders :
              /\ \/ db' = FolderDeleted(db, r) /\ UNCHANGED <<pass, events>>
                 \/ TornDeletion(FilesOf(db, r))
              /\ removed' = removed \cup LostWith(db, r)
              /\ UNCHANGED proj
  /\ KeepsHistory /\ UNCHANGED marker

-----------------------------------------------------------------------------
\* syncProjectionToDatabase: what was not seen was deleted

BeginDeletions ==
  /\ At("files") /\ pass.todo = {}
  /\ Goes("deletefiles", MappedFiles(db) \ pass.seen)
  /\ KeepsHistory /\ UNCHANGED <<db, proj, marker, removed, events>>

\* The stored file goes, then the row, then the mapping.
DeleteUnseenFile(r) ==
  /\ At("deletefiles") /\ r \in pass.todo
  /\ \/ db' = FileDeleted(db, r) /\ Did(r) /\ UNCHANGED events
     \/ /\ \/ db' = DataLost(db, {r})
           \/ db' = [db EXCEPT !.files = Without(@, {r})]
        /\ EndsWithin
  /\ KeepsHistory /\ UNCHANGED <<proj, marker, removed>>

BeginFolderDeletions ==
  /\ At("deletefiles") /\ pass.todo = {}
  /\ Goes("deletefolders", MappedFolders(db) \ pass.seen)
  /\ KeepsHistory /\ UNCHANGED <<db, proj, marker, removed, events>>

DeleteUnseenFolder(r) ==
  /\ At("deletefolders") /\ r \in pass.todo
  /\ removed' = removed \cup LostWith(db, r)
  /\ \/ db' = FolderDeleted(db, r) /\ Did(r) /\ UNCHANGED events
     \/ TornDeletion(FilesOf(db, r))
  /\ KeepsHistory /\ UNCHANGED <<proj, marker>>

-----------------------------------------------------------------------------
\* ensureUnmappedDatabaseProjection

BeginProject ==
  /\ At("deletefolders") /\ pass.todo = {}
  /\ Goes("project", Rows(db) \ DOMAIN db.maps)
  /\ KeepsHistory /\ UNCHANGED <<db, proj, marker, removed, events>>

\* The entry is made, then its mapping.
Project(r, dir, node) ==
  LET paths == Allocated(dir, NameOf(r), {}) IN
  IF paths = {}
  THEN Fails /\ UNCHANGED <<db, proj, events>>
  ELSE \E p \in paths :
    /\ proj' = With(proj, p, node)
    /\ \/ /\ db' = [db EXCEPT !.maps = With(@, r, [path |-> p, node |-> node])]
          /\ Did(r) /\ UNCHANGED events
       \/ EndsWithin /\ UNCHANGED db

ProjectFolder(r, node) ==
  /\ At("project") /\ r \in pass.todo \cap FolderRow
  /\ node \in DirNode \ (Range(proj) \cup {db.maps[s].node : s \in DOMAIN db.maps})
  /\ Project(r, Root, node)
  /\ touched' = touched \ {node}
  /\ UNCHANGED <<marker, made, removed, raced>>

ProjectFile(r) ==
  /\ At("project") /\ r \in pass.todo \cap FileRow /\ pass.todo \cap FolderRow = {}
  /\ \E dir \in DirOf(db, FolderOf(r)) :
       IF db.files[r].blob = NoData THEN Fails /\ UNCHANGED <<db, proj, events>>
       ELSE Project(r, dir, db.files[r].blob)
  /\ KeepsHistory /\ UNCHANGED <<marker, removed>>

EndPass ==
  /\ At("project") /\ pass.todo = {}
  /\ pass' = Rest("done", pass.calm)
  /\ KeepsHistory /\ UNCHANGED <<db, proj, marker, removed, events>>

-----------------------------------------------------------------------------
SmbAction ==
  \/ SmbUser
  \/ \E r \in FileRow, folder \in {Root} \cup FolderRow, name \in Name, n \in FileNode :
       WebUpload(r, folder, name, n)
  \/ \E r \in FileRow : WebDeleteFile(r)
  \/ \E r \in FolderRow : WebDeleteFolder(r)
  \/ LoseProjection \/ CrashDuringPass
  \/ BeginPass \/ Wipe \/ Unmap \/ Mark
  \/ \E r \in FileRow \cup FolderRow : RemoveWebDeleted(r) \/ ApplyEntry(r)
  \/ \E r \in FileRow : Relink(r) \/ ProjectFile(r) \/ DeleteUnseenFile(r)
  \/ \E r \in FileRow, n \in FileNode : ApplyDuringSave(r, n)
  \/ BeginApply \/ Scan \/ ScanDuringChange
  \/ \E p \in Path : MoveFolder(p) \/ EnterFolder(p) \/ MoveFile(p) \/ EnterFile(p)
  \/ BeginFolders \/ BeginMoves \/ BeginFiles \/ BeginDeletions \/ BeginFolderDeletions
  \/ \E r \in FolderRow : DeleteUnseenFolder(r)
  \/ BeginProject \/ EndPass
  \/ \E r \in FolderRow, node \in DirNode : ProjectFolder(r, node)

SmbNext == SmbAction /\ twinned' = twinned \cup Twins(db')

SmbSpec == SmbInit /\ [][SmbNext]_smbVars

-----------------------------------------------------------------------------
\* Properties

\* Types; folders of one name do not exist, a path is mapped once, and an entry of the
\* projection lies in a directory that exists (smb-schema.js:24-37).
SmbTypeOK ==
  /\ DOMAIN db.files \subseteq FileRow /\ DOMAIN db.folders \subseteq FolderRow
  /\ \A r \in DOMAIN db.files :
       db.files[r] \in [folder : {Root} \cup DOMAIN db.folders, name : Name,
                        blob : FileNode \cup {NoData}]
  /\ \A r, s \in DOMAIN db.folders :
       db.folders[r] \in Name /\ (db.folders[r] = db.folders[s] => r = s)
  /\ \A r \in DOMAIN db.maps :
       db.maps[r] \in [path : Path, node : IF r \in FileRow THEN FileNode ELSE DirNode]
  /\ PathsUnique(db)
  /\ DOMAIN proj \subseteq Path /\ Range(proj) \subseteq FileNode \cup DirNode
  /\ \A p \in DOMAIN proj :
       p[1] # Root => Top(p[1]) \in DOMAIN proj /\ proj[Top(p[1])] \in DirNode

Kept(n) == n \in Range(proj) \cup {db.files[r].blob : r \in DOMAIN db.files}

\* A content that nobody deleted, overwrote or was refused, and whose entry stood still
\* while passes ran, is still in the storage or in the projection, whatever else users
\* do, whenever a pass ends early and whenever the projection is lost.
ContentKept == \A n \in made \ (removed \cup raced) : Kept(n)

\* A user changed the entry of a row, put another one in its place, or changed the
\* entry of its folder.
Touched(r) ==
  \/ /\ r \in DOMAIN db.maps
     /\ {db.maps[r].node, db.files[r].blob} \cap (touched \cup raced) # {}
  \/ /\ r \in DOMAIN db.maps /\ db.maps[r].path \in DOMAIN pass.scan
     /\ pass.scan[db.maps[r].path] # db.maps[r].node
  \/ /\ db.files[r].folder \in DOMAIN db.maps
     /\ db.maps[db.files[r].folder].node \in touched

\* docs/SMB.md:73: a pass deletes the row of a file, or its data, only after an SMB user
\* changed its entry, or if another row has had the same inode; a lost projection, an
\* aborted scan or a crash is no deletion.
DeletedByUser ==
  [][~Resting =>
       \A r \in DOMAIN db.files :
         (r \notin DOMAIN db'.files \/ (db.files[r].blob # NoData /\ db'.files[r].blob = NoData))
           => Touched(r) \/ (r \in DOMAIN db.maps /\ db.maps[r].node \in twinned)]_smbVars

\* A pass that nothing disturbed leaves the database and the projection in agreement.
Agreement ==
  pass.at = "done" /\ pass.calm =>
    /\ DOMAIN db.maps = Rows(db)
    /\ DOMAIN proj = {db.maps[r].path : r \in DOMAIN db.maps}
    /\ \A r \in DOMAIN db.maps : proj[db.maps[r].path] = db.maps[r].node
    /\ \A r \in DOMAIN db.files :
         /\ db.files[r].blob \in {db.maps[r].node, NoData} \/ db.maps[r].node \in raced
         /\ ParentOf(db, db.maps[r].path) = {db.files[r].folder}

\* docs/SMB.md:10: "SMB rename, move, overwrite, edit, and delete operations are
\* reconciled back into RecordDrive": a pass that nothing disturbs does not fail.
RenamesReconciled == ~(pass.at = "failed" /\ pass.calm)
=============================================================================
