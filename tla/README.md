# A verification project for RecordDrive

RecordDrive is a file-sharing server: Node.js, Express, one SQLite database
(`node:sqlite`, synchronous), a directory of stored files, a Samba sidecar that publishes
shares, and a browser client. This directory holds TLA+ models of the parts of it that run
interleaved, the TLC configurations that check small instances of them, and TLAPS proofs
for every value of the constants. `PROJECT.json` maps each definition to the lines it
models, and lists components, runs, deviations, hazards, findings and theorems.

Paths below are relative to the root of the repository; `routes/`, `middleware/` and
single `.js` files without a directory are under `src/`.

## How the program runs, and what that means for the models

Node runs one callback at a time, and the database is synchronous, so **the code between
two `await`s (or between two callbacks of a stream) is atomic with respect to every other
request**. What interleaves is what lies between: a request waits for bcrypt, for an
authenticator library, for the body of an upload, for a read from the disk, for a parser,
for the client to drain the response. Every action of the models is one such stretch of
code, with all the calls it makes. Three things break the rule and have actions of their
own inside such a stretch: the process may die between two statements that write the disk
or the database; a call may fail; and actors outside the process (SMB users, the sidecar, a
worker thread, an operator who replaces files, writes that already left for the thread
pool) act at any moment.

Three kinds of state matter: tables (survive a crash), files (survive a crash, not
transactional with the tables), and memory of the process (maps of reservations, sessions
copied into requests, cached counts; lost in a crash).

## Inventory

| Component | State | Operations | Interacts with | Hard behaviour | What makes it correct |
| --- | --- | --- | --- | --- | --- |
| Session store (`session-store.js`, `app.js`, `middleware/auth.js`, `admin-access.js`) | `sessions`, `revoked_sessions`; copies in requests in flight | get, set, touch, destroy, prune, purge, cleanup timer, purge at start | sign-in, settings, admin routes; express-session | a request writes its copy back after the session was revoked; tombstones lapse; crash inside a revocation | a revoked identifier never comes back; lifetime limits; no administrator session when access is disabled |
| Uploads and quotas (`upload-storage.js`, `quota-settings.js`, `routes/repositories.js`) | `files`, blobs on disk, in-memory reservations, cached usage | admit, receive, grow, fail, abort, commit, delete, change limits | multer, SMB importer, repository deletion | concurrent uploads against one quota, stale cache, clean-up by callbacks, crash between blob and row | rows and blobs agree, nothing leaks, quotas hold |
| Attempt limiter (`middleware/login-rate-limit.js`) | two maps of records for each of three uses; reservations held across awaits | reserve, complete, clear, expire, evict | sign-in, second factors, settings | windows roll over and maps are trimmed while attempts are in flight | the maximum holds under concurrency; nothing is lost or counted twice; no key is blocked for ever |
| Protected streams (`protected-file-stream.js`, `disclosure-authorization.js`) | descriptor, timer, response, cached decision | open, pump, recheck, terminate, finalize | repository routes, permissions, sessions, previews | revocation during a read or while the client is stalled; descriptor reuse | no chunk after revocation; one close per descriptor; every stream ends |
| Second factors (`routes/auth.js`, `routes/settings.js`, `security-service.js`, `webauthn-challenge-store.js`) | last TOTP step, recovery keys, passkey counters, challenges, pending sign-ins | verify, consume, enrol, remove, regenerate, show | sessions, limiter | two requests with one code; a factor removed while a code is verified; a password verification that lapses during an await | each code, key and challenge is accepted once; no change without a fresh verification |
| Repositories, permissions, folders (`repository-creation.js`, `repository-service.js`, `repository-access.js`, `repository-folders.js`, `routes/admin.js`) | accounts, repositories, grants, folders, file rows, stored data | create, rename, grant, upload, delete file, folder, repository, account | uploads, streams, SMB | deletion stops half-way; what an upload names disappears while it arrives | the tree stays a forest within its limits; data and rows agree; access only from accounts that exist |
| File access times (`file-access-time.js`) | policy, initial times, times on disk | read, restore, change the policy | streams, SMB settings, SMB passes | the policy changes during a read, or stops half-way; passes record times | times are preserved while the policy says so |
| Activity log (`database.js`) | `activity_logs`, cached count | append, trim, restart | every route | cached count against the table | bounded, newest kept |
| SMB synchronization (`smb-sync-service.js`, `smb-schema.js`) | rows, mappings, projection directory | scan, match, move, import, delete, project | uploads, folders, users on the share | users change the share while it is scanned; crash in the middle of a pass | no content lost, no row deleted without a user, agreement after a pass |
| SMB shares (`smb-settings.js`, `smb/entrypoint.sh`) | row, manifest, credential commands, Samba's users and shares | save settings, publish, roll back, consume, generate | the sidecar, through files only | either process stops anywhere; the sidecar reads between any two writes | Samba serves what the row grants, with the password the row stands for |
| Storage relocation (`storage-settings.js`) | root in use, stored root, files under each root | rename, copy, verify, save, undo, adopt | everything that opens a file | any step fails, then its undoing; uploads in flight | every recorded file is whole, under the root in use |
| Previews (`file-preview.js`, `archive-preview-security.js`, `seven-zip-parser-worker.js`) | slots, worker, timer, descriptor; budgets of a listing | acquire, parse, time out, release; collect, omit, report | protected streams | late messages of a worker that was given up; five budgets met in any order | slots are given back; an answer is about its own archive; what is left out is reported |
| Network server (`server.js`, `network-server.js`, `tls-settings.js`) | listeners, certificate, recorded signature, signals | start, fail, reload, shut down | settings, administrator | files replaced during a start or reload; a connection that stays open | a new certificate comes into use; a signal ends the process |
| Browser client (`public/js/app.js`) | selection, preview pane, loads in flight, transfer bar | select, open, switch sheet; upload, download, cancel, hide | the server's routes | loads overlap and are aborted; timers of one transfer fire in the next | the pane shows the selected file; the bar follows the transfer |
| Request checks, error text, configuration, translations | none of their own | | | | left to unit tests |

Accounts (`routes/auth.js`, `routes/admin.js`, `routes/settings.js`) appear in the models
of the components whose state they change.

## Modules

| Module | Models | Checked by | Proved in |
| --- | --- | --- | --- |
| `SessionStore` | sessions from cookie to table, tombstones, requests in flight, administrator access | `MCSessionStore` | `SessionStoreProofs` |
| `UploadQuota` | uploads, reservations, rows, blobs, limits, deletions, imports, crashes | `MCUploadQuota`, `MCProgress` | `UploadQuotaProofs`, `QuotaProofs` |
| `RateLimiter` | the three attempt limiters | `MCSecondFactors`, `MCProgress` | `SecondFactorProofs` |
| `ProtectedStream` | downloads, PDF previews, structured previews | `MCSmbStorage`, `MCProgress`, `MCProtectedStream` | `StorageProofs` |
| `SecondFactor` | the rows of one account's factors and the statements that change them | through the next two | `SecondFactorProofs` |
| `MfaLogin` | the second step of a sign-in; implements `OneTime` | `MCSecondFactors` | `SecondFactorProofs` |
| `OneTime` | abstract: a token is accepted at most once | as a property of `MfaLogin` | `SecondFactorProofs` |
| `MfaSettings` | enrolment, removal and display of factors | `MCSecondFactors` | `SecondFactorProofs` |
| `RepositoryTree` | accounts, repositories, grants, folders, files and their data | `MCRepositories` | `RepositoryProofs` |
| `AccessTimes` | access times under a changing policy | `MCRepositories` | `RepositoryProofs` |
| `ActivityLog` | the log and its retention | `MCRepositories` | `RepositoryProofs` |
| `SmbSync` | a synchronization pass against SMB users, failures and crashes | `MCSmbStorage` | `StorageProofs`, `SmbProofs` |
| `StorageRelocation` | moving the storage root | `MCSmbStorage` | `StorageProofs` |
| `SmbShare` | publication of a share by two processes | `MCProgress` | `ProgressProofs` |
| `NetworkServer` | listeners, certificate, shutdown | `MCProgress` | `ProgressProofs` |
| `PreviewSlots` | slots, worker, timer and descriptor of a 7z preview | `MCProgress` | `ProgressProofs` |
| `PreviewListing` | what a listing of a ZIP, 7z or XLSX contains and admits to leave out | `MCProgress` | `ProgressProofs` |
| `BrowserClient` | preview pane and transfer bar | `MCProgress` | `ProgressProofs` |

Modules keep the names of the functions where TLA+ allows it. Definitions marked
*Deviation* are not used by the specifications: each is a plausible mistake in the
definition below it, and `PROJECT.json` ("mutants") says which property notices it.

**Parts.** Components that only meet at an interface are checked side by side in one run:
an MC module has a variable `part`, chosen in its initial states, and a behaviour is one of
the part that was chosen while the variables of the others stay as they are. Nothing is
composed that way; it only keeps the number of runs, and of state spaces to look after,
small. Where components do interact, one module has both sides: `SessionStore` (requests,
store, administrator switch), `UploadQuota` (uploads, deletions, SMB imports),
`MfaLogin` (sign-ins against settings), `RepositoryTree` (uploads against deletions and
permissions), `SmbShare` (server and sidecar), `PreviewSlots` (worker, timer, descriptor
table), `StorageRelocation` (handler, uploads in flight, operator).

### SessionStore

`store` is the two tables; the operators `Store...`, `Revoke`, `Purge`, `Prune` and `Sweep`
each map the tables before a call of the store to the tables after it, and the actions
compose them in the order of the code. A request is `Begin...` (load, absolute lifetime,
account check, administrator block), any handler action, and `End...` (what express-session
writes when the response ends: save, touch, create, or nothing). Between them the request
holds a copy `sess` of its session, which is the whole difficulty.

Sessions are abstracted to four kinds: `anonymous`, `flow` (a reference to an account and
no rights), `pending` (password accepted, second factor missing) and `authenticated`.
Encryption and hashing are left out; identifiers are fresh. `CrashInRevocation` stops
between the tombstone and the deletion of the row; `CrashInPurge` stops in the loop of a
purge. A restart may change `ADMIN_ACCESS_DISABLED`. History that no guard reads: `ended`
(identifiers revoked so far) and `loginAt` (the login behind a session).

### UploadQuota

A request is admitted with a copy of the limits (`Admit`), and its files go through
`StartFile` (reserve), `Grow` (one chunk through the limiter) and `FileStored` or
`FileFails`. It ends in `Commit` or `Reject`, each one synchronous handler, or, once it is
aborting, in multer's own clean-up: `RemoveStored`, `Removed`, `AbortDone`, one file at a
time. `CommitThenFail` is the commit after which `refreshUsage` fails: the rows stay, the
clean-up removes their blobs and gives back the reservations, and the cache is what it was.
`DeleteFile`, `DeleteRepository`, `SmbImport`, the two updates of limits and crashes come in
between. `DeleteFileFails` and `DeleteRepositoryFails` are deletions whose second statement
fails, or whose `rmSync` stops half-way; a crash at the same place leaves what they leave,
so it is one of them followed by `Crash`. Removals of single files in a clean-up are taken
to succeed. `usage` is the coordinator's cache: `reserve` and `commit`
refresh it, `grow` only reads it. Sizes are counted in chunks, 0 means no limit as in the
code. multer and busboy are external: what they do with a failed request (no further part
is handled, running pipelines end, stored files are removed one after the other) is
modelled from the storage engine's interface. History: `torn` (rows that lost their blob to
a deletion or a commit that failed after its first half), `unread` (those of commits the
cache was not told of) and `orphans` (blobs a crash left); they say what such a failure may
do, so that the invariants can demand everything else.

### RateLimiter

A record in the map is the JavaScript object that reservations point at; `detached` says
which reservations point at an object that is no longer in the map, since the code compares
references there. Time only matters as the age of a record, up to `Window`, so the clock
needs no bound. The order in which idle records are evicted is a choice (`Trimmed`).
`SecondFactor` selects the variant with a separate look at the limits
(`checkMfaRateLimit`) and with `clearMfaAttempts` from sign-in; the two other limiters
differ in constants only. History: `failures` by age.

### ProtectedStream

A stream's `stage` is the await its handler is in. The functions `FileLoop` and
`BufferLoop` run the pump from the top of its loop to the next await; `Become` is the place
where `finalize` closes the descriptor. `fds` maps descriptor numbers to the request whose
file is open there: numbers are reused, so a close too many would hit another request.
`authorized` is what the decision would be now; `Answer` lets a check fail for an
authorized request (the database is busy) but never succeed for another. A response that
was destroyed emits `close` later (`Destroyed`). `Again` lets a client reuse its slot, so
that runs do not end.

### SecondFactor, MfaLogin, MfaSettings, OneTime

`SecondFactor` has one operator per statement or transaction of `security-service.js` and
of the challenge table. `MfaLogin` has the routes of the second step: those that await
nothing are one action; the others begin (`BeginTotp`, `BeginOptions`, `BeginPasskey`),
hold a copy of their session and of what they read (secret, counter, challenge), and end
(`AcceptTotp`, `IssueOptions`, `AcceptPasskey` and their refusals), while other requests,
and the settings of another session (`EnrolTotp`, `EnrolKey`, `RemoveFactor`,
`RenewCodes`), run. `Save` writes the copy back as express-session does: over whatever
other requests wrote.

`OneTime` is what the factors promise: open tokens, spent tokens, and a count. The mapping
takes as tokens the steps of an enrolment of TOTP, the recovery keys and the challenges;
open is what the database would accept now, and a sign-in is one use. That a token is open
when it is used, and never again afterwards, is what compare-and-swap, the single-use
column and the deletion of a challenge have to achieve together.

`MfaSettings` has the routes that change factors and the page that shows the TOTP secret
and new recovery keys. Four of them await and look at the verification of the password
again afterwards (`VerifiedAgain`). Hashes, encryption and cryptography of codes and
assertions are external. History: `overdue`.

### RepositoryTree, AccessTimes, ActivityLog

In `RepositoryTree` a handler that awaits nothing is one action on the tables. A deletion
is `BeginDelete...`, one `RemoveData` for each file, and `DeleteRow` with its cascades, or
`GiveUpRemoval` or `Crash` in between; nothing else runs meanwhile, since it is
synchronous. An upload is checked when it begins and recorded (`RecordUpload`) after
checking again that folder, data and rows are there; `RecordThenFail` is the read after
COMMIT that fails and leads into the clean-up of recorded files. Names are values, equal up
to case; the character rules are left out. History: `leftover`.

In `AccessTimes` a read keeps the initial time it found when it began and applies the
policy that holds when it ends. `POST settings` stores the policy and then restores the
files one by one: `Disable` is the whole of it, `DisableStopped` ends on the way with the
new policy, `FailToDisable` is an error after which the old settings are back, and `Share`
restores first. A shared repository has two more writers: a user of the share (`SmbTouch`),
whose time is the one the file should have from then on, and the pass, which records as the
initial time whatever it finds (`SyncPass`), that of a read in flight or of one that could
not set it included, or takes a replaced file over (`SyncReplaces`). So a shared repository
does not keep every time: `disturbed` and `stale` list the files the code lets go, and
`TimesPreserved` is about all others. One more case is in the code and not in its comments:
a row whose initial time is NULL - the start could not open its file - counts as the epoch,
since `Number(null)` is 0 and finite (`file-access-time.js:150`); the branch that would
detect the time is never reached, and a preserving read sets 1970 (`Known`). Such files are
`stale` until a later start or a pass records them. In `ActivityLog` the cached count, the trimming below the
maximum and the failing DELETE are kept, and a restart counts anew with another maximum.

### SmbSync

`db`, `proj` and `marker` are the tables, the directory tree Samba serves, and the marker
file. A pass walks through the phases of `synchronizeRepository` (`BeginPass`, rows deleted
on the web, apply, scan, folders, moves, files, deletions, folders to delete, project,
`EndPass`), one action per row or entry, in the order of the code where it has one. Web
routes act between passes; SMB users (`SmbWrite`, `SmbUnlink`, `SmbRename`, `SmbMkdir`,
`SmbRmdir`, `SmbRenameDir`) between any two actions, and also within the two moments where
the code looks twice (`ScanDuringChange`, `ApplyDuringSave`). A pass may fail or the
process die anywhere (`Fails`, `EndsWithin`, `CrashDuringPass`); the whole projection may
be lost. A content is its inode. The projection is one directory deep. `Owners` are the rows
of one identity: the code keeps them in a map by inode, in which the row read last stays.
History: `made`, `removed`, `touched`, `raced`, and `twinned`, the inodes two rows have had.

### SmbShare

Two processes that share files. An update of the settings commits the row, rewrites the
manifest, writes a command and gives it its mode; each step may fail (`UpdateFails`,
`CommandTakenEarly`, both into `RollBack`, which may fail too) or be the last before
`RestartApp`. The sidecar consumes commands (`ConsumeCommand`, `CommandFails`), regenerates
shares from the manifest (`GenerateShares`), lets its status grow old, stops, and starts
again with or without its accounts. The pass of the synchronization rewrites the manifest
from the rows (`RewriteManifest`). History: `lost`.

### StorageRelocation

`disk` says of each root what it holds of each blob (`none`, `part`, `whole`). A move is
`RenameRoot` or `CopyRoot`, `RemoveSource`, `SaveRoot`, with an action for the failure of
each and of its undoing, a crash in between, and `UseExisting`, which adopts what an
operator copied. Uploads in flight keep writing to their inode wherever it is by now
(`WriteEnds`). History: `torn`, `strayed`.

### NetworkServer, PreviewSlots, PreviewListing

`NetworkServer`: startup is three stretches (options read, HTTPS listens, HTTP listens);
`signature` is recorded at a later moment than `held` was read, in startup and in a reload.
A signal stops the timer and the listeners; the process exits when every connection has
ended or the timer gives up; the same signal again has no handler left. History: `missed`.

`PreviewSlots`: the first of timer, message, error and exit settles a preview. The slot is
freed and the descriptor closed then, while the worker may read on from whatever its number
names; `inbox` is what it posted before it ended.

`PreviewListing`: entries come one by one, in any order an archive may have them; a ZIP is
judged entry by entry, a 7z is collected in the worker and accepted or refused as a whole
by the main thread. `taken` is what the names or cells shown have used of the text budget,
`nodes` the tree budget. Names are sequences of components with a
size. A worksheet is a sequence of rows with a size of text each.

### BrowserClient

Pane: `Select`, `ClickTab`, `ClickSheet` start or abort loads; a load has its headers, then
its body, then the code after each `await`, which the abort of a later click may precede.
Transfers: upload (sending, processing, done), download, cancel, and the timers that hide
the bar and follow the redirect.

## Runs

Twelve runs; seven must pass, and each of these explores its instance completely. Five
show a finding.

| Run | Instance | Shows |
| --- | --- | --- |
| `session_lifecycle` | 2 identifiers, an administrator and a user, 1 request, times 1 to 4 | no administrator session after a start that disables them; the lifetime is absolute; lapsed rows and tombstones go |
| `session_sign_in` | 3 identifiers, 2 requests, limit 1, times 1 to 3, from two kinds of states | a revoked identifier never serves a session again; an identifier names one login; a sign-in keeps itself and the limit |
| `session_continued` | as `session_sign_in`, limit 2, times 1 to 2 | finding 1 |
| `quota` | two instances: 1 repository, 3 files, 2 uploads, SMB, 2 sets of limits; and 2 repositories, 2 files, 2 uploads, one byte in all, no SMB | rows, blobs and reservations agree but for the rows that named failures leave; every addition is within limits in force; in the second, reservations alone keep the quotas with a stale cache |
| `second_factors` | parts `login` (2 sessions, 2 requests, 1 secret, 2 keys, 1 passkey, 2 challenges), `settings` (2 sessions, 1 request that waits, times 0 to 3), `limiter` (2 addresses, 2 accounts, 3 attempts, maps of one idle key) | `MfaLogin` implements `OneTime`; factors are current when a sign-in completes; nothing changes without a verification; a first factor brings keys; the limit holds and counting is exact |
| `repositories` | parts `tree` (2 users and an administrator, 2 repositories, 3 folders to depth 2, 1 file, 1 upload), `times` (1 file, 2 reads, a share, times 1 to 4), `log` (8 entries, maxima 1, 2, 4) | forest, access, data and rows; preserved access times; the newest entries |
| `smb_storage` | parts `sync` (3 file rows, 1 folder, 4 inodes, 2 names, 2 events), `storage` (3 roots on 2 devices, 2 blobs, 2 mishaps), `stream` (2 streams, 2 descriptors, 2 chunks, downloads and previews) | no content is lost, deletions come from users, passes end in agreement; a relocation keeps data whole and found; descriptors have one owner, no chunk without authorization |
| `smb_renames` | 2 file rows, 3 names, 2 events | finding 3 |
| `progress` | nine parts, see below | what must happen happens; the safety of shares, listeners, previews and browser |
| `stream_preview_completion` | 1 structured preview | finding 2 |
| `certificate_replaced` | 4 events, no connection | finding 4 |
| `preview_tab` | 2 files, 2 worksheets, 2 loads, a server that refuses nothing | finding 5 |

The parts of `progress`: 2 streams; a share under 3 events with 2 passwords; a server under
4 events and 1 connection; 2 previews and 1 slot; listings of up to 4 entries of 9 kinds and
worksheets of up to 4 rows; the pane with 3 files, 2 worksheets and 2 loads; the transfer
bar; 1 upload with 2 files; 2 attempts of 2 accounts with maps that hold every key.

### Bounds, and why they are enough

* *Sessions.* Two requests are what a race needs: one revokes, one writes back. The third
  identifier lets both rotate. Lifetimes are 1 and 2: a tombstone
  laid at time 1 holds up to 3 and is deleted at 4, while a request that loaded the session is
  still in flight. `session_sign_in` starts from two
  kinds of states the program reaches, all identifiers fresh and little time left, or two
  fresh and all the time, instead of their product; the proofs show that time and the
  number of requests do not matter for revocation.
* *Uploads.* Two uploads and three files put two files of different requests and one of the
  same request beside each other; the limits (two bytes in a repository, three on the
  server, two files in a request) are reached from below and hit exactly. `MaxBytes` 1
  makes each file one chunk, so that commits and deletions that fail half-way fit in; files
  together are what crosses a limit. A limit of 0 is among the choices. In the second
  instance the server has room for one byte, for which any two uploads compete, in one
  repository or in two; reservations against a stale cache need one file that was committed
  in one repository and one that grows in the other. The proofs cover files of any size.
* *Limiter.* The maxima (3 and 2) keep the order of the code's (20 and 10, 30 and 10, 20
  and 5) and are reached by the attempts in flight alone, by failures alone, and by both.
  `second_factors` uses a view without the history, which no guard reads and which grows
  without bound once records are evicted; `progress` has room for every key, since an
  evicted record forgets its failures.
* *Second factors.* Two sessions with two requests in flight are two answers with one code,
  key or challenge. Steps 0 to 2 and `Tolerated` give a code that is early, due and late.
  `MaxCodes` 1 makes the account run out of keys; two keys let one be replaced. A
  verification of length 1 in a time of 3 lapses before, during and after an await.
* *Tree.* Three folders reach the maximal depth in one repository and name clashes beside
  it; one file and one upload meet every deletion, since deletions are synchronous. One
  name per level is enough for clashes; more names only make them rarer.
* *Access times.* What happens to a file depends on its own times and reads and on the
  settings of the repository, never on another file, so one file with two overlapping reads
  shows every case; "not restored yet" is the empty set of files. Times 2 to 4 keep the time
  of storing, the epoch, and those of two reads or a user of the share apart.
* *SMB.* Two events are one change by a user in each of two moments of a pass, or a change
  and a crash; two changes between passes are a swap of names or a move and an overwrite.
  `BothShares` starts with two files beside each other or one in a folder with the same
  name. `MaxScanned` 4 is exceeded by the entries users can make, so scans that give up are
  among the behaviours.
* *Share, server, storage, previews.* Three or four events reach a fault inside the
  handling of another; each action of these modules fires within them. Two previews on one
  slot and two numbers are one that was given up and one that took over its number.
* *Listings.* The nine entries hit each of the budgets from below, exactly and above, in any
  order; four entries exceed the three that are scanned. Two rows of two bytes exceed a
  budget of three for the text of a worksheet.
* *Browser.* Two loads: the one that is aborted and the one that replaces it.

Symmetry is used in safety runs only, for identifiers the code only compares. In runs of
several parts one group of permutations acts on all of them, so some sets take their names
from another part. Deadlock is checked in `stream_preview_completion`; the others
switch it off since their clocks, events or inputs end.

### Fairness

Fairness belongs to timers, to the event loop and to handlers that have no wait for a
client; in `progress` each is stated for its part. No client, user, administrator or
operator has to do anything.

* `SessionStore`: weak fairness of `Cleanup`, a `setInterval` that lives as long as the
  process.
* `UploadQuota`: weak fairness of `CleanUp(u)`: multer goes on with its list and `fs.rm`
  calls back. The client may stall for ever; `AbortIsCleanedUp` therefore starts when no
  pipeline is running.
* `RateLimiter`: time passes, and each handler settles its reservation, as every path of
  them does, including the one through `catch`; bcrypt and the verification of passkeys end.
* `ProtectedStream`: a read ends, a parser ends (it has a timeout), a destroyed response
  emits `close`, the interval timer fires. Fairness of `Network` is a hypothesis inside
  `CompletionIsReported`, not part of the specification.
* `SmbShare`: the handler runs on; the pass rewrites the manifest every second; the
  sidecar's two loops run while it is up, and the restart policy of the container starts it
  again.
* `NetworkServer`: `listen` succeeds or fails, the reload timer and the timer of the
  shutdown fire. Connections never have to end.
* `PreviewSlots`: the timer fires and posted events are handled. Workers need not end.

### What properties leave out, and what lies there

Some properties name an exception by a history variable. The exceptions are behaviours of
the code, found by checking the property without them:

* `raced` (`ContentKept`): an entry that an SMB user saves between the two moments at which
  a pass looks at it is recorded with an inode whose content no row ever took over; if the
  next pass replaces the entry, that content is gone.
* `strayed` (`RelocationKeepsData`): an upload in flight when `use-existing` adopts another
  root commits its row although its data is under the old one.
* `torn` (`RelocationKeepsData`): a rename that succeeded and whose chmod fails, or a crash
  before the setting is saved, leaves the data whole under a root that is not in use.
* `leftover` (`DataMatchesRows`): a crash, or a deletion that fails half-way, leaves rows
  without data or data without rows; and the read after the COMMIT in
  `routes/repositories.js:795`, if it fails, sends rows that were recorded into the
  clean-up of their data.
* `lost` (`CredentialFollowsRow`): a crash between the COMMIT and the command, a command
  refused or consumed before its chmod, a recreated sidecar and a deleted repository leave
  Samba's password and the row apart, until the owner saves the form again.
* `twinned` (`DeletedByUser`): a process that ends between the link of `Project` and its
  mapping leaves an entry that the next pass imports as a second row of the same inode. The
  map by inode then holds one of the two, and a move of either entry may be taken for the
  other's.
* `missed` (`CertificateCatchesUp`): finding 4.
* An empty row above one that is not (`ListingIsHonest`): `file-preview.js:277` takes the
  number of rows that hold something for the number of the last one, so a worksheet with a
  gap can lose its last rows without a word.

Observed while reading, not stated as properties: two requests for the settings page that
draw the QR code together both show the new recovery keys (`README.md:111` says once); a
second confirmation of one enrolment sets `totp_last_used_step` again; the redirect 350 ms
after an upload cuts off a download begun meanwhile; a 7z preview is refused as a whole for
one name that a ZIP preview would omit.

## What is proved

The theorems are about the specifications the passing runs check (`Spec` of a module, or
the composition of an MC module: `LoginSpec`, `SettingsSpec`, `FactorsSpec`, `FilesSpec`,
`ProgressSpec`, `QuotaSpec`), for every value of the constants that satisfies the named
assumptions of the modules: lifetimes and maxima are positive numbers, null values lie
outside the sets they extend, the sets of files of an upload and of requests of the limiter
are finite. TLC evaluates these on every run. In a composition one part moves at a time and
the others stay, so each part is proved on its own steps.

* `SessionStoreProofs`: `TypeCorrect`, `RevocationIsFinal` (`NoResurrection`),
  `OneLoginPerIdentifier` (`SidNamesOneLogin`), `AdministratorsStayOut`
  (`NoAdministratorSession`), `LifetimeIsAbsolute` (the first half of `SessionsEnd`),
  `LimitHoldsAfterSignIn` (`LimitAfterSignIn`).
  `NoResurrection` is not inductive: a lapsed tombstone no longer refuses a write. The
  strengthening (`IInv`) says of each request that holds a usable copy of a revoked session
  that the tombstone lasts at least until that copy is past the absolute lifetime, or that
  it is past it already (`Covered`): when the one stops refusing, the other refuses. It
  rests on a tombstone lasting the maximum of the idle, the absolute and the minimal
  lifetime (`revocationExpiry`), and on no copy being dated in the future. Of a usable row
  that a crash left beside its tombstone it says that the tombstone outlasts the row, which
  is what the stored expiry passed to `revokeStoredSession` is for. The next three follow
  contents: every step either hands on contents that a row or a request had (`Follows`), or
  adds one under an identifier never issued before (`AddsContent`), so contents under one
  identifier stay those of one login, keep its time, and name an administrator only if one
  could sign in. The limit after a sign-in counts sessions: it rests on finitely many
  identifiers having been handed out, and on none of the others having a tombstone
  (`HandedOut`), without which `pruneUserSessions` could not keep the new session.
* `UploadQuotaProofs`: `RowsBacked`, `BlobsOwned`, `NoLeak`, `QuotasAreRespected`
  (`QuotaRespected`), `ReservationsSufficeAlone`. The invariant of the first three is a
  conjunction over single files (`FileGood`): at most one request has the file; if one
  holds it, there is a reservation of the request's repository, no row, and the blob, if
  any, has exactly the reserved size, which is why `Commit` inserts rows that match their
  blobs; only an aborting request removes files; a row without blob is torn, by one of the
  statements that may fail when half of the work is done. Lemmas say that
  a step keeps this for the files it does not touch. The other two are about sums over
  files: of one more file, of a set that grows, of files that only lose weight. The last
  theorem assumes `~SmbEnabled` and that no step changes a limit, the case in which the
  program counts on reservations alone: then the rows are within every limit, and so are
  rows and reservations together but for the rows of commits that did not refresh the cache
  (`unread`), although a file grows against a cached count. Its invariant
  (`ReservationInv`) says that limits held are those in force, that the rows fit them
  (`RowsFit`, from the check in the transaction), and that where a reservation is held, the
  cached count is not below the rows the coordinator was told of (`CacheCovers`): a commit
  refreshes the count of its repository and the total, or fails to and adds nothing to
  `Counted`.
* `QuotaProofs`: `ReservationsKeepQuotas` (`ReservationsHold`), the same for the second
  instance that the run `quota` explores, which has no administrator and no SMB. The
  definitions of two instances of `UploadQuota`, the run's and the proofs', are shown equal.
* `SecondFactorProofs`: the limiter's `LimiterTypeCorrect`, `CountingIsExact`
  (`ReservationsAreCounted`) and `LimitIsKept` (`LimitHolds`), proved together: only a
  record that counts no attempt in flight leaves the map, so no reservation is ever
  detached; and a failure moves one place from the attempts in flight to the failures, which
  needs exact counting to keep the maximum. Counting is a cardinality; the lemmas relate the
  pending attempts of a key before and after each step to its counter.
  `WindowsHoldFew` is `FailuresInAnyWindow`, the safety half of `FailuresAreForgiven`: in any
  window of time, a key has at most twice its maximum of failures since its last success. It
  assumes `[]RoomLeft`, that each map has room for one more key: an eviction forgets failures,
  and TLC finds more of them in a window where it does. `WindowsHoldFewWithRoom` is the case
  of constants for which nothing is ever evicted, those of the run. The invariant
  (`WindowInv`) says of each record that it counts the failures of its own time, that at
  a full age none is recent, and that those before its time are within the maximum, as its
  predecessor counted them; the sum over a window is the cardinality of a set of marks, one
  for each failure (`SumCountsMarks`), so that a failure adds a mark and time moves them.
  `TokensAreAcceptedOnce` (`AcceptedOnce`) is the refinement of `OneTime` by `MfaLogin`:
  initial states map to initial states, and each step to one of its steps or a stutter, on
  the invariant that no spent step of the present enrolment is above the last one
  (`StepsBehind`), no spent recovery key is in the table (`CodesUnspent`), and a challenge is
  in one row or with one request that answers it (`ChallengesApart`). `CountersOnlyGrow`
  (`FactorsAreCurrent`), `SettingsAreVerified` (`VerificationHolds`), `MethodBringsKeys`
  (`FirstFactorBringsCodes`) are about single steps on that invariant and on `SettingsInv`,
  which says what a handler that waits holds. `KeysStandInForMethods` is `FactorsOK`.
* `RepositoryProofs`: `FoldersFormTrees` (`Forest`), `AccessStaysCurrent`
  (`AccessIsCurrent`), `DataAndRowsMatch` (`DataMatchesRows`), `AccessTimesArePreserved`
  (`TimesPreserved`), `LogIsBounded` (`LogKeepsNewest`), `RepositoriesTypeCorrect`. That
  folders form trees is inductive as the existence of a numbering in which each folder is
  one deeper than its parent (`Ranked`); the line of a folder is related to it by induction
  over depths. For the data, `RemovalOK` says that the deletion in progress takes exactly
  the files of the rows that will go with it, including those that cascade, and `HeldOK`
  that what an upload holds is in no row and with no other upload. For the times,
  `RecordedOK` says that outside `stale` the recorded time and the copies running reads have
  of it are the time the file should have; restoring a file or ending a read then sets that
  time, and a pass in a shared repository, which never updates times, records nothing else
  unless a read is in flight or failed.
* `StorageProofs`: `MovedDataIsKept` (`RelocationKeepsData`). `MoveInv` says for each step a
  relocation has reached what source and target hold: a renamed root left nothing behind, a
  copy has what the rows need, and what remains of a source that is being removed is part
  of the copy; no upload in flight writes into the copy. Every roll-back rests on it.
  For the streams: `TypeCorrect`, `DescriptorsAreSafe`, `DisclosureIsSafe`. `StreamInv` says
  of each stream which stages go with its kind, its timer and its response, and relates each
  open descriptor to the one stream that holds it: a step of a pump either keeps its stream
  holding and touches no descriptor, or ends it and closes the one it holds. The action
  property needs only that a stream that waits for a preview has not been stopped, and goes
  through the two loops.
  For synchronizations: `FilesTypeCorrect` (`FilesTypeOK`), which among the types says that rows and
  mappings refer to what there is, that folders have different names, and that no path is
  mapped twice. `FilesTypeOK` is far from inductive: that a moved folder keeps the paths
  unique needs the mappings to form a tree (`MapsGood`: what is mapped in a directory has a
  mapped folder there) and each mapped file to lie in the directory of its folder
  (`Placed`); that what a pass records is a path and an inode needs the projection, and the
  listing a scan made of it, to be a tree (`IsTree`). `PassGood` says what the pass knows of
  the rows it has still to work through, while requests delete rows between its steps: a
  pass that applies has no mapping without a row, one that projects has only rows that were
  not mapped. The proof assumes of the share (`SmbSyncAssumption`) what the schema
  guarantees: a file's folder exists and no two folders have the same name.
  `ContentIsKept` (`ContentKept`) rests on `ContentInv`, five statements that are
  inductive only together. `FilesKept`: what is stored for a mapped file is the inode its mapping names
  (or both are lost to the users), and while the marker is there that inode is in the
  projection or lost; so a pass may delete a mapped row with its data. `StageGood`: a pass
  works with mappings only under the marker, which `Unmap` and `Mark` set in this order.
  `ScanAgrees`: at a path the pass has still to compare there is what the scan saw, or both
  raced with the pass; so the inode recorded by an import or a replacement is the one
  stored. `FoldersKept` and `ScanKept` are about folders, because a folder's files go with
  it whether they are mapped or not: a folder whose directory no user changed (`Calm`) is
  the only one with this directory, has it in the projection, and is found by the pass at
  every stage (`Found`), so it is never among those that were not seen. The attempt first
  failed on an inode that a user removes and the kernel gives to a new directory within one
  scan: `touched` had then forgotten that the scan's directory was changed. `SmbMkdir` keeps
  it for the inodes of the scan under way; the property was the one at fault, not the code.
* `SmbProofs`: `DeletionsAreUsers` (`DeletedByUser`) is about what one step deletes, and needs
  to know where the entries are. `PlaceInv` says of a row whose content and folder no user
  touched, and whose content no other row has had (`Quiet`), that its entry is linked in its
  folder's directory, and what the pass has found of it (`Placing`): after the scan it was
  seen there; before the files are entered its mapping names it, or will by a move still to
  come; before deletions it was entered. It rests on `ContentsRaced` (stored and mapped
  content differ only if both raced with a pass), `FoldersSettled` (a directory nobody
  changed is where its mapping says from `movefiles` on) and `TwinsKnown`. The theorem then
  goes through the steps that delete: each row they take was touched, or raced, or twinned.
  An early form without `twinned` failed in the model: that is how the case above was found.
  `PassesAgree` (`Agreement`) is about passes that nothing disturbs. `AgreeInv` says, while a
  scan is compared, what was met of it: an entry of the projection is as the scan saw it
  until its stage comes (`Unmet`), and afterwards has a row that was seen (`EntriesMet`); an
  entry of the scan that is gone was refused, with all that lay below, and no folder is
  mapped to it (`ScanMet`); a row that was seen is mapped to an entry that was met
  (`SeenMet`); what was not seen is among what is to be deleted (`UnseenLeft`). When nothing
  is left to delete, every mapping is in place and every entry mapped; `Projected` keeps
  that while the rows that have no entry get one. No mapping loses its row on the way
  (`Orphans`), whether the pass was disturbed or not. That stored and recorded inodes are
  the same is `ContentsRaced` again.
* `ProgressProofs`: `BarStaysWithItsTransfer` (`BarFollowsTransfer`; a busy bar has no timer
  and no button that hides it), `PaneShowsItsSelection` (`ContentIsOfSelection`),
  `MetadataIsOfItsArchive` (`MetadataOfItsArchive`; a number is its request's until the slot
  is given up, and nothing posted later is answered), `PasswordFollowsRow`
  (`CredentialFollowsRow`, the first half of `PublicationFollowsRow`; the password to come,
  once the commands that wait are applied, is the row's, or until its command is written
  that of the row before), `PartsTypeCorrect` (`PartsTypeOK`), `ListingsAreHonest`
  (`ListingIsHonest`). That a sequence of sizes stays within a budget is stated of the
  function of its partial sums (`AddUpTo`), which one more entry extends by one value, so no
  fold has to be computed; `ArchiveCollects` and `SheetCollects` say that what was read is
  shown unless something was left out and noted.

Induction: the library's theorems that take a predicate cannot be instantiated, but a set of
numbers has a least element and a finite set a least subset, which the theorems about
well-founded relations state without one. The sums, the depths of folders and the
numberings are proved in this form, by the least counterexample.

### Only model-checked

* Liveness: the second half of `SessionsEnd`, that the published share follows its row
  (second half of `PublicationFollowsRow`), `CertificateCatchesUp`, `WhatBeginsEnds` (whose
  streams are downloads and PDF previews; structured previews are finding 2), that a full key opens again (second half of `FailuresAreForgiven`). It is out of the
  prover's reach.

## Findings

1. `session_continued`: a password confirmation reads its session, waits for bcrypt, and
   then rotates to a new identifier without asking whether the session was revoked
   meanwhile (`routes/settings.js:129`). `README.md:92` says that a password change revokes
   every other active session; one that is being rotated survives.
2. `stream_preview_completion`: when the client leaves while a structured preview is being
   generated, the `close` event is over before `streamProtectedBuffer` listens for it; the
   pump waits for ever and its interval timer keeps running
   (`protected-file-stream.js:330`).
3. `smb_renames`: when one file takes a path that another mapping still has (a swap or a
   chain of renames between two passes), the UNIQUE constraint abandons the pass, and every
   later one in the same way (`smb-sync-service.js:133`). `docs/SMB.md:10` says that renames
   are reconciled.
4. `certificate_replaced`: the certificate is read before the server listens and its
   modification time afterwards; a pair replaced in between is recorded as the one in use
   and never loaded (`network-server.js:118`). `README.md:297` says that replacement files
   are detected and loaded.
5. `preview_tab`: a second click on the Preview tab or on a worksheet while the body of the
   first load is being read turns the abort into an empty payload; the pane shows an error
   and the second load is aborted (`public/js/app.js:626`).

## Not modelled, and why

* Inputs of one request and no state: CSRF tokens, host header, cookie flags, error texts,
  configuration, translations, display names, password policy. Unit tests reach them.
* Decoding of 7z headers (`seven-zip-parser-worker.js`) and formatting of cells compute on
  bytes in memory, in one call; only what is collected and reported is modelled.
* Names: character rules, normalization and suffixes are abstracted to equal or different.
* The migration of the schema runs before the first request, and alone.
* The rest of the browser client (menus, dialogs, passkey ceremonies, forms): everything it
  can ask for is an input of the server.
* Failures of a database that is open (a full disk under SQLite) are modelled where the
  code has a path for them. Removals of files by a clean-up (`cleanupUploadedFiles`, multer's
  `_removeFile`) do not fail.
* Samba, multer, busboy, otplib, SimpleWebAuthn, the kernel: external, modelled by what the
  code expects of them.

## Plan

Done: the modules above, and a theorem for every safety invariant and action property that
a passing run checks. What remains:

* More than one level of directories in `SmbSync`; the invariants speak of a path and its
  parent, so `MapsGood`, `IsTree` and `EntriesMet` would carry over.
