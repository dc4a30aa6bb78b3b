----------------------------- MODULE MCUploadQuota -----------------------------
(* UploadQuota on two small instances, side by side, with sizes in units of one  *)
(* chunk: a server that publishes shares, with limits an administrator changes,  *)
(* and (Q) one without SMB whose limits are fixed.  A behaviour is one of the    *)
(* instance that was chosen.                                                     *)
EXTENDS UploadQuota, TLC

CONSTANTS QuotaRepo, QuotaFile  \* repositories and files of the second instance

VARIABLES part, qRows, qBlobs, qDirs, qRepos, qReserved, qUsage, qSettings, qUploads,
          qTorn, qUnread, qOrphans

qVars == <<qRows, qBlobs, qDirs, qRepos, qReserved, qUsage, qSettings, qUploads, qTorn,
           qUnread, qOrphans>>

\* Two bytes per repository and three in all, two files per request.
Tight == [fileBytes |-> 2, repoBytes |-> 2, totalBytes |-> 3,
          repoFiles |-> 2, totalFiles |-> 3, perUpload |-> 2]

\* No limit on bytes, nor on the files of a repository.
Loose == [Tight EXCEPT !.fileBytes = 0, !.repoBytes = 0, !.totalBytes = 0, !.repoFiles = 0]

\* One byte in all, so that any two uploads compete for it, in one repository or in two.
Single == [fileBytes |-> 2, repoBytes |-> 1, totalBytes |-> 1,
           repoFiles |-> 2, totalFiles |-> 3, perUpload |-> 2]

Fixed == {Single}
AnyGlobal == {Tight, Loose}
NoOverrides == {}

Q == INSTANCE UploadQuota WITH
  Repo <- QuotaRepo, File <- QuotaFile, SmbEnabled <- FALSE, GlobalChoice <- Fixed,
  OverrideChoice <- NoOverrides, rows <- qRows, blobs <- qBlobs, dirs <- qDirs, repos <- qRepos, reserved <- qReserved,
  usage <- qUsage, settings <- qSettings, uploads <- qUploads, torn <- qTorn,
  unread <- qUnread, orphans <- qOrphans

ASSUME SecondInstance ==
  /\ IsFiniteSet(QuotaFile)
  /\ NoRow \notin Q!Entry /\ NoBlob \notin Q!Entry
  /\ NoReservation \notin Q!Reservation /\ NoUpload \notin Q!Request

QuotaInit ==
  /\ part \in {"shared", "fixed"} /\ Init /\ Q!Init
  /\ part = "fixed" => settings.global = Tight

QuotaNext ==
  /\ UNCHANGED part
  /\ \/ part = "shared" /\ Next /\ UNCHANGED qVars
     \/ part = "fixed" /\ Q!Next /\ UNCHANGED vars

QuotaSpec == QuotaInit /\ [][QuotaNext]_<<part, vars, qVars>>

\* Storage names, requests and repositories are interchangeable.
Symmetric == Permutations(File) \cup Permutations(Upload) \cup Permutations(QuotaRepo)
    \cup Permutations(QuotaFile)

\* NoOversubscription of the second instance: without SMB and with fixed limits rows
\* keep the quotas, and so do rows and reservations together but for the bytes of commits
\* that failed to refresh the cache (reserve, grow, commit).
ReservationsHold == Q!NoOversubscription
=============================================================================
