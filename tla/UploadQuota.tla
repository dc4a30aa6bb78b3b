------------------------------ MODULE UploadQuota ------------------------------
(***************************************************************************)
(* Uploads of RecordDrive: the blobs on disk, the rows of table files, and *)
(* the in-memory reservations that keep concurrent uploads within the      *)
(* quotas although rows are written only when a request is complete.       *)
(*                                                                         *)
(* A request is admitted with a copy of the limits, receives its files     *)
(* chunk by chunk, and ends in one synchronous handler that checks the     *)
(* quotas again and commits.  Other uploads, deletions, SMB imports,       *)
(* changes of the limits and a crash may come between any two steps.       *)
(***************************************************************************)
EXTENDS Naturals, FiniteSets, Functions

CONSTANTS
  Repo,             \* repositories, all created at the start
  File,             \* storage names the generator can hand out
  Upload,           \* upload requests that can be in flight together
  Chunk,            \* sizes of the chunks a client sends
  GlobalChoice,     \* server-wide limits an administrator may set
  OverrideChoice,   \* per-repository limits an owner may set
  SmbEnabled,       \* SMB_ENABLED
  NoRow, NoBlob, NoReservation, NoUpload, NoLimit,
  MaxBytes          \* bound on the size of one file

ASSUME ChunkAssumption == Chunk \subseteq Nat \ {0} /\ MaxBytes \in Nat
ASSUME FileAssumption == IsFiniteSet(File)
ASSUME SmbAssumption == SmbEnabled \in BOOLEAN

VARIABLES
  rows,       \* table files
  blobs,      \* files below UPLOAD_ROOT, by storage name
  dirs,       \* repositories with a directory below UPLOAD_ROOT
  repos,      \* table repositories
  reserved,   \* reservations of createQuotaCoordinator
  usage,      \* its cached repositoryUsage and totalUsage
  settings,   \* quota settings: server-wide, and overrides of a repository
  uploads,    \* the requests in flight
  torn,       \* history: rows whose blob was removed and which stayed
  unread,     \* history: rows of commits after which refreshUsage failed
  orphans     \* history: blobs a crash left without an owner

memory == <<reserved, usage, uploads>>
disk == <<rows, blobs, dirs, repos>>
history == <<torn, unread, orphans>>
vars == <<disk, memory, settings, history>>

-----------------------------------------------------------------------------
(* Limits: 0 stands for no limit.                                           *)

Limits == [fileBytes : Nat, repoBytes : Nat, totalBytes : Nat,
           repoFiles : Nat, totalFiles : Nat, perUpload : Nat]

Overrides == [fileBytes : Nat \cup {NoLimit}, repoBytes : Nat \cup {NoLimit}]

ASSUME LimitAssumption ==
  /\ GlobalChoice \subseteq Limits
  /\ OverrideChoice \subseteq Overrides
  /\ NoLimit \notin Nat

NoOverride == [fileBytes |-> NoLimit, repoBytes |-> NoLimit]

Within(amount, limit) == limit = 0 \/ amount <= limit

Or(override, value) == IF override = NoLimit THEN value ELSE override

\* loadEffectiveQuotaSettings.
Effective(r) ==
  [settings.global EXCEPT
     !.fileBytes = Or(settings.override[r].fileBytes, @),
     !.repoBytes = Or(settings.override[r].repoBytes, @)]

-----------------------------------------------------------------------------
(* Rows and blobs, reservations, and requests.  A request receives the files *)
(* it is writing, has stored some, and removes the one in removing.         *)

Amount == [count : Nat, size : Nat]

Entry == [repo : Repo, size : Nat]

Reservation == [repo : Repo, bytes : Nat, limits : Limits]

Request == [repo : Repo, limits : Limits, writing : SUBSET File, stored : SUBSET File,
            removing : SUBSET File, aborting : BOOLEAN]

ASSUME NullAssumption ==
  /\ NoRow \notin Entry /\ NoBlob \notin Entry
  /\ NoReservation \notin Reservation /\ NoUpload \notin Request

-----------------------------------------------------------------------------
(* Sums over the table and over the reservations.                           *)

\* SELECT COUNT(*), SUM(size) FROM files, for the repositories in R.
RowUsage(table, R) ==
  LET S == {f \in File : table[f] # NoRow /\ table[f].repo \in R}
  IN  [count |-> Cardinality(S), size |-> SumFunction([f \in S |-> table[f].size])]

ActiveIn(R) == {f \in File : reserved[f] # NoReservation /\ reserved[f].repo \in R}

\* activeUsage.
ActiveUsage(R) ==
  [count |-> Cardinality(ActiveIn(R)),
   size  |-> SumFunction([f \in ActiveIn(R) |-> reserved[f].bytes])]

\* Deviation: the coordinator trusts what it read before.
NotRefreshed(table, R) == usage

\* refreshUsage for each repository in R.
Refreshed(table, R) ==
  IF R = {} THEN usage
  ELSE [repo  |-> [r \in Repo |-> IF r \in R THEN RowUsage(table, {r}) ELSE usage.repo[r]],
        total |-> RowUsage(table, Repo)]

CanReserve(r, l) ==
  LET fresh == Refreshed(rows, {r})
  IN  /\ Within(fresh.repo[r].count + ActiveUsage({r}).count + 1, l.repoFiles)
      /\ Within(fresh.total.count + ActiveUsage(Repo).count + 1, l.totalFiles)

\* grow reads the cached usage, not the tables.
CanGrow(f, n) ==
  LET held == reserved[f]
  IN  /\ Within(held.bytes + n, held.limits.fileBytes)
      /\ Within(usage.repo[held.repo].size + ActiveUsage({held.repo}).size + n,
                held.limits.repoBytes)
      /\ Within(usage.total.size + ActiveUsage(Repo).size + n, held.limits.totalBytes)

\* enforceUploadQuotas, inside the transaction that inserts the rows.
Enforced(r, l, files) ==
  LET size == SumFunction([f \in files |-> reserved[f].bytes])
      mine == RowUsage(rows, {r})
      all  == RowUsage(rows, Repo)
  IN  /\ Within(mine.size + size, l.repoBytes)
      /\ Within(all.size + size, l.totalBytes)
      /\ Within(mine.count + Cardinality(files), l.repoFiles)
      /\ Within(all.count + Cardinality(files), l.totalFiles)

-----------------------------------------------------------------------------
Init ==
  /\ rows = [f \in File |-> NoRow]
  /\ blobs = [f \in File |-> NoBlob]
  /\ dirs = {}
  /\ repos = Repo
  /\ reserved = [f \in File |-> NoReservation]
  /\ usage = [repo  |-> [r \in Repo |-> [count |-> 0, size |-> 0]],
              total |-> [count |-> 0, size |-> 0]]
  /\ settings \in [global : GlobalChoice, override : [Repo -> {NoOverride}]]
  /\ uploads = [u \in Upload |-> NoUpload]
  /\ torn = {} /\ unread = {} /\ orphans = {}

Fresh(f) ==
  /\ rows[f] = NoRow /\ blobs[f] = NoBlob /\ reserved[f] = NoReservation
  /\ f \notin torn \cup orphans
  /\ \A u \in Upload : uploads[u] # NoUpload =>
       f \notin uploads[u].writing \cup uploads[u].stored \cup uploads[u].removing

Active(u) == uploads[u] # NoUpload

Without(map, S, none) == [f \in File |-> IF f \in S THEN none ELSE map[f]]

-----------------------------------------------------------------------------
(* A request.                                                               *)

\* requireUpload let the request in; uploadFiles copies the limits.
Admit(u, r) ==
  /\ ~Active(u)
  /\ r \in repos
  /\ uploads' = [uploads EXCEPT ![u] =
       [repo |-> r, limits |-> Effective(r), writing |-> {}, stored |-> {},
        removing |-> {}, aborting |-> FALSE]]
  /\ UNCHANGED <<disk, reserved, usage, settings, history>>

Receiving(u) == Active(u) /\ ~uploads[u].aborting

Held(u) == uploads[u].writing \cup uploads[u].stored

\* multer's limits.files.
HasRoom(u) == Cardinality(Held(u)) < uploads[u].limits.perUpload

\* _handleFile up to the start of the pipeline.
StartFile(u, f) ==
  /\ Receiving(u) /\ Fresh(f)
  /\ LET r == uploads[u].repo
         l == uploads[u].limits
     IN  /\ HasRoom(u)
         /\ CanReserve(r, l)
         /\ usage' = Refreshed(rows, {r})
         /\ reserved' = [reserved EXCEPT ![f] = [repo |-> r, bytes |-> 0, limits |-> l]]
         /\ blobs' = [blobs EXCEPT ![f] = [repo |-> r, size |-> 0]]
         /\ dirs' = dirs \cup {r}
  /\ uploads' = [uploads EXCEPT ![u].writing = @ \cup {f}]
  /\ UNCHANGED <<rows, repos, settings, history>>

\* reserve refuses the next file of the request.
RefuseFile(u) ==
  /\ Receiving(u)
  /\ HasRoom(u)
  /\ ~CanReserve(uploads[u].repo, uploads[u].limits)
  /\ usage' = Refreshed(rows, {uploads[u].repo})
  /\ uploads' = [uploads EXCEPT ![u].aborting = TRUE]
  /\ UNCHANGED <<disk, reserved, settings, history>>

\* A chunk passes the limiter and reaches the disk, unless the name is gone.
Grow(u, f, n) ==
  /\ Active(u) /\ f \in uploads[u].writing
  /\ reserved[f].bytes + n <= MaxBytes
  /\ CanGrow(f, n)
  /\ reserved' = [reserved EXCEPT ![f].bytes = @ + n]
  /\ blobs' = IF blobs[f] = NoBlob THEN blobs ELSE [blobs EXCEPT ![f].size = @ + n]
  /\ UNCHANGED <<rows, dirs, repos, usage, settings, uploads, history>>

\* Deviation: the temporary file of a failed pipeline stays.
FileAbandoned(u, f) ==
  /\ Active(u) /\ f \in uploads[u].writing
  /\ reserved' = [reserved EXCEPT ![f] = NoReservation]
  /\ uploads' = [uploads EXCEPT ![u].writing = @ \ {f}, ![u].aborting = TRUE]
  /\ UNCHANGED <<disk, usage, settings, history>>

\* The limiter refused a chunk, the connection closed or the disk failed: removePath,
\* release, and multer aborts the request.
FileFails(u, f) ==
  /\ Active(u) /\ f \in uploads[u].writing
  /\ blobs' = [blobs EXCEPT ![f] = NoBlob]
  /\ reserved' = [reserved EXCEPT ![f] = NoReservation]
  /\ uploads' = [uploads EXCEPT ![u].writing = @ \ {f}, ![u].aborting = TRUE]
  /\ UNCHANGED <<rows, dirs, repos, usage, settings, history>>

FileStored(u, f) ==
  /\ Active(u) /\ f \in uploads[u].writing
  /\ uploads' = [uploads EXCEPT ![u].writing = @ \ {f}, ![u].stored = @ \cup {f}]
  /\ UNCHANGED <<disk, reserved, usage, settings, history>>

\* The body was cut, had too many parts, or its CSRF token was wrong.
Abort(u) ==
  /\ Receiving(u)
  /\ uploads' = [uploads EXCEPT ![u].aborting = TRUE]
  /\ UNCHANGED <<disk, reserved, usage, settings, history>>

\* multer removes the stored files of an aborted request one by one: _removeFile
\* releases the reservation ...
RemoveStored(u, f) ==
  /\ Active(u) /\ uploads[u].aborting
  /\ uploads[u].writing = {} /\ uploads[u].removing = {}
  /\ f \in uploads[u].stored
  /\ reserved' = [reserved EXCEPT ![f] = NoReservation]
  /\ uploads' = [uploads EXCEPT ![u].stored = @ \ {f}, ![u].removing = {f}]
  /\ UNCHANGED <<disk, usage, settings, history>>

\* ... and fs.rm is done later.
Removed(u, f) ==
  /\ Active(u) /\ f \in uploads[u].removing
  /\ blobs' = [blobs EXCEPT ![f] = NoBlob]
  /\ uploads' = [uploads EXCEPT ![u].removing = @ \ {f}]
  /\ UNCHANGED <<rows, dirs, repos, reserved, usage, settings, history>>

AbortDone(u) ==
  /\ Active(u) /\ uploads[u].aborting
  /\ uploads[u].writing \cup uploads[u].stored \cup uploads[u].removing = {}
  /\ uploads' = [uploads EXCEPT ![u] = NoUpload]
  /\ UNCHANGED <<disk, reserved, usage, settings, history>>

Received(u) == Receiving(u) /\ uploads[u].writing = {}

\* Deviation: no foreign key ties a file to its repository.
InsertableAnywhere(u) == \A f \in uploads[u].stored : blobs[f] # NoBlob

\* What the handler's transaction needs besides the quotas: the files are there for
\* chmod, the repository for the foreign key.
Insertable(u) ==
  /\ uploads[u].repo \in repos
  /\ \A f \in uploads[u].stored : blobs[f] # NoBlob

\* The rows are inserted and the reservations given back, on either way out of COMMIT.
InsertRows(u) ==
  LET S == uploads[u].stored
  IN  /\ Received(u) /\ S # {} /\ Insertable(u)
      /\ rows' = [f \in File |-> IF f \in S THEN [repo |-> uploads[u].repo,
                                                  size |-> reserved[f].bytes]
                                 ELSE rows[f]]
      /\ reserved' = Without(reserved, S, NoReservation)
      /\ uploads' = [uploads EXCEPT ![u] = NoUpload]

MayCommit(u) == Enforced(uploads[u].repo, uploads[u].limits, uploads[u].stored)

\* Deviation: the reservations already kept the quotas.
CommitReserved(u) ==
  /\ InsertRows(u)
  /\ usage' = Refreshed(rows', {uploads[u].repo})
  /\ UNCHANGED <<blobs, dirs, repos, settings, history>>

\* Quotas checked, rows inserted, COMMIT, commitReservations.
Commit(u) ==
  /\ InsertRows(u) /\ MayCommit(u)
  /\ usage' = Refreshed(rows', {uploads[u].repo})
  /\ UNCHANGED <<blobs, dirs, repos, settings, history>>

\* refreshUsage in commitReservations fails after COMMIT: cleanupUploadedFiles removes
\* the blobs of the new rows, and the cached usage does not know of them.
CommitThenFail(u) ==
  /\ InsertRows(u) /\ MayCommit(u)
  /\ blobs' = Without(blobs, uploads[u].stored, NoBlob)
  /\ torn' = torn \cup uploads[u].stored /\ unread' = unread \cup uploads[u].stored
  /\ UNCHANGED <<dirs, repos, usage, settings, orphans>>

\* Deviation: a refused request keeps its reservations.
RejectKept(u) ==
  /\ Received(u)
  /\ blobs' = Without(blobs, uploads[u].stored, NoBlob)
  /\ uploads' = [uploads EXCEPT ![u] = NoUpload]
  /\ UNCHANGED <<rows, dirs, repos, reserved, usage, settings, history>>

\* cleanupUploadedFiles: the handler refused the request (its token, its folder, no
\* file, the quotas) or rolled back.
Reject(u) ==
  /\ Received(u)
  /\ blobs' = Without(blobs, uploads[u].stored, NoBlob)
  /\ reserved' = Without(reserved, uploads[u].stored, NoReservation)
  /\ uploads' = [uploads EXCEPT ![u] = NoUpload]
  /\ UNCHANGED <<rows, dirs, repos, usage, settings, history>>

-----------------------------------------------------------------------------
(* The other writers.                                                       *)

\* The blob first, then the row.
DeleteFile(f) ==
  /\ rows[f] # NoRow /\ rows[f].repo \in dirs
  /\ blobs' = [blobs EXCEPT ![f] = NoBlob]
  /\ rows' = [rows EXCEPT ![f] = NoRow]
  /\ torn' = torn \ {f} /\ unread' = unread \ {f}
  /\ UNCHANGED <<dirs, repos, memory, settings, orphans>>

\* The DELETE fails: the row stays without its blob.
DeleteFileFails(f) ==
  /\ rows[f] # NoRow /\ rows[f].repo \in dirs
  /\ blobs' = [blobs EXCEPT ![f] = NoBlob]
  /\ torn' = torn \cup {f}
  /\ UNCHANGED <<rows, dirs, repos, memory, settings, unread, orphans>>

BlobsIn(r) == {f \in File : blobs[f] # NoBlob /\ blobs[f].repo = r}
RowsIn(r) == {f \in File : rows[f] # NoRow /\ rows[f].repo = r}

\* deleteRepository: the directory, then the row; its files cascade.
DeleteRepository(r) ==
  /\ r \in repos
  /\ blobs' = Without(blobs, BlobsIn(r), NoBlob)
  /\ dirs' = dirs \ {r}
  /\ rows' = Without(rows, RowsIn(r), NoRow)
  /\ repos' = repos \ {r}
  /\ torn' = torn \ RowsIn(r) /\ unread' = unread \ RowsIn(r)
  /\ orphans' = orphans \ BlobsIn(r)
  /\ UNCHANGED <<memory, settings>>

\* rmSync fails after it removed some of the directory, or the DELETE after all of it.
DeleteRepositoryFails(r, gone) ==
  /\ r \in repos /\ gone \subseteq BlobsIn(r)
  /\ blobs' = Without(blobs, gone, NoBlob)
  /\ dirs' = IF gone = BlobsIn(r) THEN dirs \ {r} ELSE dirs
  /\ torn' = torn \cup (gone \cap RowsIn(r)) /\ orphans' = orphans \ gone
  /\ UNCHANGED <<rows, repos, memory, settings, unread>>

\* importSmbFile: current limits, the table, and no look at the reservations.
SmbImport(f, r, n) ==
  LET l == Effective(r)
  IN  /\ SmbEnabled /\ r \in repos /\ Fresh(f) /\ n <= MaxBytes
      /\ Within(n, l.fileBytes)
      /\ Within(RowUsage(rows, {r}).size + n, l.repoBytes)
      /\ Within(RowUsage(rows, Repo).size + n, l.totalBytes)
      /\ Within(RowUsage(rows, {r}).count + 1, l.repoFiles)
      /\ Within(RowUsage(rows, Repo).count + 1, l.totalFiles)
      /\ rows' = [rows EXCEPT ![f] = [repo |-> r, size |-> n]]
      /\ blobs' = [blobs EXCEPT ![f] = [repo |-> r, size |-> n]]
      /\ dirs' = dirs \cup {r}
      /\ UNCHANGED <<repos, memory, settings, history>>

UpdateGlobal(g) ==
  /\ settings' = [settings EXCEPT !.global = g]
  /\ UNCHANGED <<disk, memory, history>>

UpdateOverride(r, o) ==
  /\ r \in repos
  /\ settings' = [settings EXCEPT !.override[r] = o]
  /\ UNCHANGED <<disk, memory, history>>

-----------------------------------------------------------------------------
(* A crash: the memory is lost, blobs without a row are nobody's.           *)

Restarted(bs) ==
  /\ reserved' = [f \in File |-> NoReservation]
  /\ usage' = [repo  |-> [r \in Repo |-> [count |-> 0, size |-> 0]],
               total |-> [count |-> 0, size |-> 0]]
  /\ uploads' = [u \in Upload |-> NoUpload]
  /\ blobs' = bs
  /\ orphans' = {f \in File : rows[f] = NoRow /\ bs[f] # NoBlob}
  /\ unread' = {}
  /\ UNCHANGED <<rows, repos, settings, torn>>

\* At any moment; in the middle of a deletion it leaves what one that failed leaves.
Crash == Restarted(blobs) /\ UNCHANGED dirs

\* Between the link and the INSERT of an import.
CrashInImport(f, r, n) ==
  /\ SmbEnabled /\ r \in repos /\ Fresh(f) /\ n <= MaxBytes
  /\ Restarted([blobs EXCEPT ![f] = [repo |-> r, size |-> n]])
  /\ dirs' = dirs \cup {r}

-----------------------------------------------------------------------------
Receive ==
  \E u \in Upload :
    \/ \E r \in Repo : Admit(u, r)
    \/ \E f \in File : \/ StartFile(u, f) \/ FileFails(u, f)
                       \/ FileStored(u, f)
                       \/ \E n \in Chunk : Grow(u, f, n)
    \/ RefuseFile(u) \/ Abort(u)

CleanUp(u) ==
  (\E f \in File : RemoveStored(u, f) \/ Removed(u, f)) \/ AbortDone(u)

Finish == \E u \in Upload : Commit(u) \/ CommitThenFail(u) \/ Reject(u) \/ CleanUp(u)

Others ==
  \/ \E f \in File : DeleteFile(f) \/ DeleteFileFails(f)
  \/ \E r \in Repo : \/ DeleteRepository(r)
                     \/ \E gone \in SUBSET File : DeleteRepositoryFails(r, gone)
                     \/ \E f \in File, n \in Chunk : SmbImport(f, r, n)
                     \/ \E o \in OverrideChoice : UpdateOverride(r, o)
  \/ \E g \in GlobalChoice : UpdateGlobal(g)

Crashes ==
  \/ Crash
  \/ \E f \in File, r \in Repo, n \in Chunk : CrashInImport(f, r, n)

Next == Receive \/ Finish \/ Others \/ Crashes

\* multer goes on with its clean-up, and fs.rm calls back.
Spec == Init /\ [][Next]_vars /\ \A u \in Upload : WF_vars(CleanUp(u))

-----------------------------------------------------------------------------
\* The type of each variable; a request holds no more files than its limit allows
\* (uploadFiles).
TypeOK ==
  /\ rows \in [File -> Entry \cup {NoRow}]
  /\ blobs \in [File -> Entry \cup {NoBlob}]
  /\ dirs \subseteq Repo /\ repos \subseteq Repo
  /\ reserved \in [File -> Reservation \cup {NoReservation}]
  /\ usage \in [repo : [Repo -> Amount], total : Amount]
  /\ settings \in [global : Limits, override : [Repo -> Overrides]]
  /\ uploads \in [Upload -> Request \cup {NoUpload}]
  /\ \A u \in Upload : Active(u) => Cardinality(Held(u)) <= uploads[u].limits.perUpload
  /\ torn \cup unread \cup orphans \subseteq File

\* A row names a repository that exists, and a blob that is whole and its own.  Only
\* three statements that fail, or a crash at their place, leave a row without its blob:
\* the DELETE after the removal of a file or of a directory, and the read after the
\* COMMIT of an upload (torn); then there is none, never another's or a part.  Uploads
\* that end after a deletion took their files or their repository insert nothing
\* (chmodSync and the foreign key in the upload transaction).
RowsAreBacked ==
  \A f \in File : rows[f] # NoRow =>
    /\ rows[f].repo \in repos
    /\ blobs[f] = IF f \in torn THEN NoBlob ELSE rows[f]

\* Every blob is the data of a row, belongs to a request in flight, or was left by a
\* crash: no refusal, failure or deletion leaves a temporary file behind
\* (removePath, _removeFile, cleanupUploadedFiles).
BlobsAreOwned ==
  \A f \in File : blobs[f] # NoBlob =>
    \/ rows[f] # NoRow \/ f \in orphans
    \/ \E u \in Upload : Active(u) /\ f \in Held(u) \cup uploads[u].removing

\* A reservation belongs to exactly one request that still holds its file: no path
\* out of a request leaks quota (release, commit, cleanupUploadedFiles).
NoLeakedReservation ==
  \A f \in File : reserved[f] # NoReservation =>
    \E u \in Upload :
      /\ Active(u) /\ f \in Held(u)
      /\ \A v \in Upload \ {u} : Active(v) => f \notin Held(v)

InForce(r) ==
  {Effective(r)} \cup
  {uploads[u].limits : u \in {v \in Upload : Active(v) /\ uploads[v].repo = r}}

\* Whatever adds to a repository leaves it, and the server, within limits that are
\* set now or were when a request in flight was admitted: interleaved uploads,
\* imports that bypass the reservations and changed limits never add up to more
\* (enforceUploadQuotas, enforceSmbFileQuota).
QuotaRespected ==
  [][\A r \in Repo :
       RowUsage(rows', {r}).count > RowUsage(rows, {r}).count =>
         LET mine == RowUsage(rows', {r})
             all  == RowUsage(rows', Repo)
         IN  \E l \in InForce(r) :
               /\ Within(mine.size, l.repoBytes) /\ Within(mine.count, l.repoFiles)
               /\ Within(all.size, l.totalBytes) /\ Within(all.count, l.totalFiles)]_vars

\* The rows the coordinator was told of.
Counted == Without(rows, unread, NoRow)

\* With fixed limits and without SMB the rows never exceed the quotas, and neither do
\* rows and reservations together, stale cache and all: no upload is refused after its
\* last byte was accepted.  The exception is the bytes of commits after which
\* refreshUsage failed: until they are deleted or the process restarts, reservations
\* may exceed the quotas by that much (reserve, grow, commit).
NoOversubscription ==
  \A r \in Repo :
    LET l == Effective(r)
    IN  /\ Within(RowUsage(rows, {r}).size, l.repoBytes)
        /\ Within(RowUsage(rows, {r}).count, l.repoFiles)
        /\ Within(RowUsage(rows, Repo).size, l.totalBytes)
        /\ Within(RowUsage(rows, Repo).count, l.totalFiles)
        /\ Within(RowUsage(Counted, {r}).size + ActiveUsage({r}).size, l.repoBytes)
        /\ Within(RowUsage(Counted, {r}).count + ActiveUsage({r}).count, l.repoFiles)
        /\ Within(RowUsage(Counted, Repo).size + ActiveUsage(Repo).size, l.totalBytes)
        /\ Within(RowUsage(Counted, Repo).count + ActiveUsage(Repo).count, l.totalFiles)

\* An aborted request whose pipelines have ended gives back its reservations and
\* removes its files, even those a deletion of the repository removed before.
AbortIsCleanedUp ==
  \A u \in Upload :
    (Active(u) /\ uploads[u].aborting /\ uploads[u].writing = {}) ~> ~Active(u)
=============================================================================
