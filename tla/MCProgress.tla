------------------------------ MODULE MCProgress ------------------------------
(* The parts that must make progress, side by side: streams, shares, listeners,   *)
(* previews and what they list, uploads (Q), the limiter (L), and the browser's     *)
(* pane and transfers.                                                             *)
(* They share no variable: a behaviour is one of the part that was chosen, and     *)
(* fair to the actions of that part.                                               *)
EXTENDS ProtectedStream, SmbShare, NetworkServer, PreviewSlots, PreviewListing,
        BrowserClient, TLC

CONSTANTS
  Repo, File, Upload, Chunk, OverrideChoice, SmbEnabled,  \* of UploadQuota
  NoRow, NoBlob, NoReservation, NoUpload, NoLimit, MaxBytes,
  Ip, Account, Attempt, MaxPerIp, MaxPerAccount,          \* of RateLimiter
  Window, MaxTrackedKeys, SecondFactor, NoRecord, NoAttempt

VARIABLES
  part,
  rows, blobs, dirs, repos, reserved, usage, settings, uploads, torn, unread, orphans,
  records, attempts, detached, failures

quotaVars == <<rows, blobs, dirs, repos, reserved, usage, settings, uploads, torn, unread, orphans>>
limiterVars == <<records, attempts, detached, failures>>
progressVars ==
  <<part, vars, shareVars, netVars, slotVars, listingVars, clientVars, quotaVars,
    limiterVars>>

Files == {"file"}

Tight == [fileBytes |-> 2, repoBytes |-> 2, totalBytes |-> 3,
          repoFiles |-> 2, totalFiles |-> 3, perUpload |-> 2]

NoOverride == [fileBytes |-> NoLimit, repoBytes |-> NoLimit]
Narrow == [fileBytes |-> 1, repoBytes |-> 1]
AnyOverride == {NoOverride, Narrow}
FixedGlobal == {Tight}

\* An archive of two names that share a folder, one below them too deep, names of two
\* and of three bytes, a folder more than the tree has room for, and an unsafe name, an
\* encrypted entry and an anti-file.
Plain(path, bytes) ==
  [path |-> path, bytes |-> bytes, safe |-> TRUE, locked |-> FALSE, anti |-> FALSE]
AnyEntry ==
  {Plain(<<1>>, 1), Plain(<<1, 2>>, 1), Plain(<<3, 4, 5>>, 1), Plain(<<6>>, 2),
   Plain(<<7, 8>>, 1), Plain(<<1>>, 3), [Plain(<<1>>, 1) EXCEPT !.safe = FALSE],
   [Plain(<<1>>, 1) EXCEPT !.locked = TRUE], [Plain(<<1>>, 1) EXCEPT !.anti = TRUE]}

Q == INSTANCE UploadQuota WITH GlobalChoice <- FixedGlobal
L == INSTANCE RateLimiter WITH Request <- Attempt

ProgressInit ==
  /\ part \in {"stream", "share", "network", "preview", "listing", "pane", "transfer", "quota",
               "limiter"}
  /\ Init /\ ShareInit /\ NetInit /\ SlotInit /\ ListingInit /\ ClientInit /\ Q!Init /\ L!Init
  /\ part # "stream" => \A s \in Stream : streams[s] = Fresh("file", 0)
  /\ part # "share" => ~writes.setting
  /\ part # "listing" => kind = "zip"
  /\ part # "network" => ~saved.https /\ ~saved.auto

\* One part moves, the others stay.
Others(own) ==
  /\ own # "stream" => UNCHANGED vars
  /\ own # "share" => UNCHANGED shareVars
  /\ own # "network" => UNCHANGED netVars
  /\ own # "preview" => UNCHANGED slotVars
  /\ own # "listing" => UNCHANGED listingVars
  /\ own \notin {"pane", "transfer"} => UNCHANGED clientVars
  /\ own # "quota" => UNCHANGED quotaVars
  /\ own # "limiter" => UNCHANGED limiterVars

ProgressNext ==
  /\ UNCHANGED part /\ Others(part)
  /\ \/ part = "stream" /\ Next
     \/ part = "share" /\ ShareNext
     \/ part = "network" /\ NetNext
     \/ part = "preview" /\ SlotNext
     \/ part = "listing" /\ ListingNext
     \/ part = "pane" /\ PreviewStep
     \/ part = "transfer" /\ TransferStep
     \/ part = "quota" /\ Q!Next
     \/ part = "limiter" /\ L!Next

\* The fairness each module states for itself, of the part that runs.
ProgressFairness ==
  /\ \A s \in Stream :
       /\ WF_vars(part = "stream" /\ Parsed(s)) /\ WF_vars(part = "stream" /\ ReadStep(s))
       /\ WF_vars(part = "stream" /\ Destroyed(s))
       /\ WF_vars(part = "stream" /\ ~authorized[s] /\ Recheck(s, FALSE))
  /\ WF_shareVars(part = "share" /\ PublishManifest)
  /\ WF_shareVars(part = "share" /\ WriteCommand)
  /\ WF_shareVars(part = "share" /\ FinishUpdate)
  /\ WF_shareVars(part = "share" /\ CommandTakenEarly)
  /\ WF_shareVars(part = "share" /\ RewriteManifest)
  /\ WF_shareVars(part = "share" /\ StartSidecar)
  /\ WF_shareVars(part = "share" /\ ConsumeCommand)
  /\ WF_shareVars(part = "share" /\ GenerateShares)
  /\ WF_netVars(part = "network" /\ HttpsListens) /\ WF_netVars(part = "network" /\ HttpListens)
  /\ WF_netVars(part = "network" /\ TimerReload) /\ WF_netVars(part = "network" /\ RecordSignature)
  /\ WF_netVars(part = "network" /\ ForceExit)
  /\ \A r \in Archive : /\ WF_slotVars(part = "preview" /\ TimesOut(r))
                        /\ WF_slotVars(part = "preview" /\ HandleEvent(r))
  /\ \A u \in Upload : WF_quotaVars(part = "quota" /\ Q!CleanUp(u))
  /\ WF_limiterVars(part = "limiter" /\ L!Tick)
  /\ \A q \in Attempt : WF_limiterVars(part = "limiter" /\ L!Finish(q))

ProgressSpec == ProgressInit /\ [][ProgressNext]_progressVars /\ ProgressFairness

\* Types of the parts.
PartsTypeOK == ShareTypeOK /\ NetTypeOK /\ SlotTypeOK /\ ClientTypeOK

\* A password always belongs to the share its row describes, and shares, credentials and
\* Samba's configuration follow the row (smb-settings.js:226-330, entrypoint.sh).
PublicationFollowsRow == []CredentialFollowsRow /\ ShareFollowsRow

\* What was begun ends and gives back what it holds: a signal ends the process, a
\* preview is answered, a revoked stream of a file ends with its descriptor closed, its
\* completion is reported, and the files of an aborted upload are removed.  Streams are
\* downloads and PDF previews; the pump of a structured preview may wait for ever
\* (stream_preview_completion)
\* (server.js:10-41, file-preview.js:590-660, protected-file-stream.js:60-360,
\* upload-storage.js:219-253).
WhatBeginsEnds ==
  /\ ShutdownEnds /\ EveryPreviewEnds
  /\ RevocationEndsStream /\ CompletionIsReported
  /\ Q!AbortIsCleanedUp

\* Failures are forgotten neither too early nor never: whenever records expire, no stretch
\* of time as long as a window holds more than twice the maximum of them - what two fixed
\* windows that meet may hold - and a key that is full opens again
\* (login-rate-limit.js:44-60, 84-148).
FailuresAreForgiven == []L!FailuresInAnyWindow /\ L!BlockedForAWhile
=============================================================================
