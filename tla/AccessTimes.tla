-------------------------------- MODULE AccessTimes --------------------------------
(***************************************************************************)
(* The access times of the stored files of one repository                   *)
(* (file-access-time.js): the owner decides whether reading a file updates   *)
(* its access time or leaves the one that is recorded for it, and a share    *)
(* over SMB needs the second.  Reads last long: the policy can change while  *)
(* they run, and each sets the time of its file when it ends.  In a shared   *)
(* repository users of the share touch the same files, and each pass of      *)
(* smb-sync-service.js records the times it finds.                           *)
(***************************************************************************)
EXTENDS Integers, FiniteSets

CONSTANTS
  Stored,      \* the files of the repository
  Read,        \* downloads and previews at the same time
  NoTime,      \* initial_access_time_ms is NULL: stored by an older version
  OpensQuietly, \* O_NOATIME is available: reading does not touch the file
  MaxClock     \* bound on the clock

ASSUME TimesAssumption ==
  NoTime \notin Nat \cup Stored /\ OpensQuietly \in BOOLEAN /\ MaxClock \in Nat \ (0..1)

VARIABLES
  clock,
  updating,    \* update_file_access_time
  shared,      \* smb_enabled
  served,      \* the SMB server serves the share
  initial,     \* initial_access_time_ms
  atime,       \* access times in the file system
  reads,       \* trackers: file, time of access, initial time as it was read
  original,    \* history: the time the file should have: as stored, or as its SMB user left it
  disturbed,   \* history: files whose time could not be set as the policy asks
  stale        \* history: files whose recorded time, or a read's copy of it, may be another

settings == <<updating, shared>>
timesVars == <<clock, settings, served, initial, atime, reads, original, disturbed, stale>>

-----------------------------------------------------------------------------
NotReading == [file |-> NoTime]
Epoch == 0
Storing == 1   \* when the files were stored

TimesTypeOK ==
  /\ clock \in 2..MaxClock
  /\ updating \in BOOLEAN /\ shared \in BOOLEAN /\ served \in BOOLEAN
  /\ initial \in [Stored -> Nat \cup {NoTime}]
  /\ atime \in [Stored -> Nat] /\ original \in [Stored -> Nat]
  /\ reads \in [Read -> {NotReading} \cup [file : Stored, at : Nat, initial : Nat]]
  /\ disturbed \subseteq Stored /\ stale \subseteq Stored

\* A repository as the start left it; NULL for the files that could not be opened.
TimesInit ==
  /\ clock = 2
  /\ updating = TRUE /\ shared = FALSE /\ served = FALSE
  /\ initial \in [Stored -> {Storing, NoTime}]
  /\ atime = [f \in Stored |-> Storing] /\ original = atime
  /\ reads = [r \in Read |-> NotReading]
  /\ disturbed = {}
  /\ stale = {f \in Stored : initial[f] = NoTime}

Reading(f) == {r \in Read : reads[r].file = f}

\* storedInitialAccessTimeMs: Number(null) is 0, which is finite, so the time is never
\* detected here and a missing one is the epoch.
Known(f) == IF initial[f] = NoTime THEN Epoch ELSE initial[f]

\* openStoredFile and createFileAccessTracker.  Without O_NOATIME the file system
\* may write the time of the read.
BeginRead(r, f) ==
  /\ reads[r] = NotReading
  /\ reads' = [reads EXCEPT ![r] = [file |-> f, at |-> clock, initial |-> Known(f)]]
  /\ \/ UNCHANGED atime
     \/ ~OpensQuietly /\ atime' = [atime EXCEPT ![f] = clock]
  /\ UNCHANGED <<clock, settings, served, initial, original, disturbed, stale>>

\* Deviation: the time of the access, as when the read began.
AlwaysNow(r) == reads[r].at

\* complete(): the policy is read again.
Target(r) == IF updating THEN reads[r].at ELSE reads[r].initial

\* complete(), at the end of a read and after an error alike.
EndRead(r) ==
  /\ reads[r] # NotReading
  /\ atime' = [atime EXCEPT ![reads[r].file] = Target(r)]
  /\ reads' = [reads EXCEPT ![r] = NotReading]
  /\ disturbed' = disturbed \ {reads[r].file}
  /\ UNCHANGED <<clock, settings, served, initial, original, stale>>

\* The time cannot be set, or the process ends before it is.
LoseRead(r) ==
  /\ reads[r] # NotReading
  /\ reads' = [reads EXCEPT ![r] = NotReading]
  /\ disturbed' = disturbed \cup {reads[r].file}
  /\ UNCHANGED <<clock, settings, served, initial, atime, original, stale>>

\* restoreRepositoryInitialAccessTimes, as far as it came.
RestoreTimes(fs) == atime' = [f \in Stored |-> IF f \in fs THEN Known(f) ELSE atime[f]]

\* "SMB-enabled repositories must preserve the stored access time."
MayUpdate == ~shared

\* POST /:repositoryId/settings with policy "enabled".
Enable ==
  /\ MayUpdate
  /\ updating' = TRUE
  /\ UNCHANGED <<clock, shared, served, initial, atime, reads, original, disturbed, stale>>

\* The same with "disabled": the policy is stored, then the files are restored one by one.
Disable ==
  /\ updating' = FALSE
  /\ RestoreTimes(Stored) /\ disturbed' = {}
  /\ UNCHANGED <<clock, shared, served, initial, reads, original, stale>>

\* The process ends on the way, or the catch cannot store the old policy either.
DisableStopped(fs) ==
  /\ updating' = FALSE
  /\ RestoreTimes(fs)
  /\ disturbed' = (disturbed \cup (IF updating THEN Stored ELSE {})) \ fs
  /\ UNCHANGED <<clock, shared, served, initial, reads, original, stale>>

\* POST .../settings/smb restores all files first; share and policy are one UPDATE.
Share ==
  /\ shared' = TRUE /\ updating' = FALSE
  /\ RestoreTimes(Stored) /\ disturbed' = {}
  /\ UNCHANGED <<clock, served, initial, reads, original, stale>>

\* In either route a file cannot be restored, or what follows fails (the manifest, the
\* log): the settings are what they were.
FailToDisable(fs) ==
  /\ RestoreTimes(fs) /\ disturbed' = disturbed \ fs
  /\ UNCHANGED <<clock, settings, served, initial, reads, original, stale>>

\* Sharing ends; the policy stays "disabled".
Unshare ==
  /\ shared /\ shared' = FALSE
  /\ UNCHANGED <<clock, updating, served, initial, atime, reads, original, disturbed, stale>>

-----------------------------------------------------------------------------
(* The share.                                                                *)

\* The sidecar follows the manifest.
Follow ==
  /\ served' = shared
  /\ UNCHANGED <<clock, settings, initial, atime, reads, original, disturbed, stale>>

\* A user of the share reads the file or sets its access time.
SmbTouch(f) ==
  /\ served
  /\ atime' = [atime EXCEPT ![f] = clock]
  /\ original' = [original EXCEPT ![f] = clock]
  /\ stale' = stale \cup {f}
  /\ UNCHANGED <<clock, settings, served, initial, reads, disturbed>>

\* A pass records the time it finds; what a read that still runs knows may be older.
Outdated(f) == atime[f] # original[f] \/ (f \in stale /\ Reading(f) # {})

\* reconcileSmbRepository, for the files it comes to.
SyncPass(fs) ==
  /\ shared
  /\ initial' = [f \in Stored |-> IF f \in fs THEN atime[f] ELSE initial[f]]
  /\ stale' = (stale \ fs) \cup {f \in fs : Outdated(f)}
  /\ UNCHANGED <<clock, settings, served, atime, reads, original, disturbed>>

\* replaceMappedFile: a file of the share took the place of another.  Reads of the old
\* data go on, on a file that has no name any more.
SyncReplaces(f) ==
  /\ shared
  /\ atime' = [atime EXCEPT ![f] = clock]
  /\ initial' = [initial EXCEPT ![f] = clock] /\ original' = [original EXCEPT ![f] = clock]
  /\ reads' = [r \in Read |-> IF reads[r].file = f THEN NotReading ELSE reads[r]]
  /\ disturbed' = disturbed \ {f} /\ stale' = stale \ {f}
  /\ UNCHANGED <<clock, settings, served>>

\* createDatabase records what is missing, of the files it can open; reads are lost.
RestartTimes(fs) ==
  /\ fs \subseteq {f \in Stored : initial[f] = NoTime}
  /\ reads' = [r \in Read |-> NotReading]
  /\ disturbed' = disturbed \cup {f \in Stored : Reading(f) # {}}
  /\ initial' = [f \in Stored |-> IF f \in fs THEN atime[f] ELSE initial[f]]
  /\ original' = [f \in Stored |-> IF f \in fs THEN atime[f] ELSE original[f]]
  /\ stale' = stale \ fs
  /\ UNCHANGED <<clock, settings, served, atime>>

TimesTick ==
  /\ clock < MaxClock
  /\ clock' = clock + 1
  /\ UNCHANGED <<settings, served, initial, atime, reads, original, disturbed, stale>>

TimesNext ==
  \/ \E r \in Read : EndRead(r) \/ LoseRead(r) \/ \E f \in Stored : BeginRead(r, f)
  \/ \E fs \in SUBSET Stored :
       FailToDisable(fs) \/ DisableStopped(fs) \/ SyncPass(fs) \/ RestartTimes(fs)
  \/ \E f \in Stored : SmbTouch(f) \/ SyncReplaces(f)
  \/ Enable \/ Disable \/ Share \/ Unshare \/ Follow \/ TimesTick

TimesSpec == TimesInit /\ [][TimesNext]_timesVars

-----------------------------------------------------------------------------
(* Properties *)

\* While the policy preserves access times, a file nobody reads has the time it should
\* have - the one it was stored with, or the one a user of the share left - although
\* reads that began under the other policy ended since.  Exempt are files whose last read
\* could not set the time or that a stopped change of the policy did not come to
\* (`disturbed`), and files of which that time was never recorded, not yet by a pass, or
\* wrongly, by a pass that found the time of a read (`stale`).  Only a repository that is
\* not shared updates the times (file-access-time.js:217-283, repositories.js:446-529).
TimesPreserved ==
  /\ ~updating => \A f \in Stored :
       Reading(f) = {} /\ f \notin disturbed \cup stale => atime[f] = original[f]
  /\ shared => ~updating
=============================================================================
