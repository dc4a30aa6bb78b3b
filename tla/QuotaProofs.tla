------------------------------ MODULE QuotaProofs ------------------------------
(***************************************************************************)
(* The two instances of UploadQuota side by side: the theorem about fixed  *)
(* limits holds of the second, whose administrator has no choice.          *)
(***************************************************************************)
EXTENDS MCUploadQuota, TLAPS

P == INSTANCE UploadQuotaProofs WITH
  Repo <- QuotaRepo, File <- QuotaFile, SmbEnabled <- FALSE, GlobalChoice <- Fixed,
  OverrideChoice <- NoOverrides, rows <- qRows, blobs <- qBlobs, dirs <- qDirs,
  repos <- qRepos, reserved <- qReserved, usage <- qUsage, settings <- qSettings,
  uploads <- qUploads, torn <- qTorn, unread <- qUnread, orphans <- qOrphans

-----------------------------------------------------------------------------
(* Q and P are the same instance: their definitions expand alike.            *)

LEMMA SameInit == Q!Init <=> P!Init
BY DEF Q!Init, P!Init, Q!NoOverride, P!NoOverride

LEMMA SameNext == Q!Next <=> P!Next
BY Zenon DEF
   Q!Next, P!Next, Q!Receive, P!Receive, Q!Finish, P!Finish, Q!Others, P!Others, Q!Crashes,
   P!Crashes, Q!CleanUp, P!CleanUp, Q!Admit, P!Admit, Q!StartFile, P!StartFile, Q!FileFails,
   P!FileFails, Q!FileStored, P!FileStored, Q!Grow, P!Grow, Q!RefuseFile, P!RefuseFile, Q!Abort,
   P!Abort, Q!RemoveStored, P!RemoveStored, Q!Removed, P!Removed, Q!AbortDone, P!AbortDone,
   Q!Commit, P!Commit, Q!Reject, P!Reject, Q!DeleteFile, P!DeleteFile, Q!DeleteRepository,
   P!DeleteRepository, Q!SmbImport, P!SmbImport, Q!UpdateGlobal, P!UpdateGlobal,
   Q!UpdateOverride, P!UpdateOverride, Q!Restarted, P!Restarted, Q!Crash, P!Crash,
   Q!InsertRows, P!InsertRows, Q!MayCommit, P!MayCommit, Q!CommitThenFail, P!CommitThenFail,
   Q!DeleteFileFails, P!DeleteFileFails, Q!DeleteRepositoryFails, P!DeleteRepositoryFails,
   Q!CrashInImport, P!CrashInImport, Q!Active, P!Active, Q!Effective, P!Effective, Q!Or, P!Or,
   Q!Receiving, P!Receiving, Q!Held, P!Held, Q!HasRoom, P!HasRoom, Q!Fresh, P!Fresh,
   Q!CanReserve, P!CanReserve, Q!Within, P!Within, Q!Refreshed, P!Refreshed, Q!RowUsage,
   P!RowUsage, Q!ActiveUsage, P!ActiveUsage, Q!ActiveIn, P!ActiveIn, Q!CanGrow, P!CanGrow,
   Q!Enforced, P!Enforced, Q!Received, P!Received, Q!Insertable, P!Insertable, Q!Without,
   P!Without, Q!BlobsIn, P!BlobsIn, Q!RowsIn, P!RowsIn, Q!memory, P!memory, Q!disk, P!disk,
   Q!history, P!history, Q!Cardinality, P!Cardinality, Q!SumFunction, P!SumFunction,
   Q!SumFunctionOnSet, P!SumFunctionOnSet, Q!FoldFunctionOnSet, P!FoldFunctionOnSet,
   Q!MapThenFoldSet, P!MapThenFoldSet

LEMMA SameProperty == P!NoOversubscription => ReservationsHold
BY Zenon DEF ReservationsHold, Q!NoOversubscription, P!NoOversubscription, Q!Counted, P!Counted,
   Q!Without, P!Without, Q!Within, P!Within,
   Q!Effective, P!Effective, Q!Or, P!Or, Q!RowUsage, P!RowUsage, Q!ActiveUsage, P!ActiveUsage,
   Q!ActiveIn, P!ActiveIn, Q!Cardinality, P!Cardinality, Q!SumFunction, P!SumFunction,
   Q!SumFunctionOnSet, P!SumFunctionOnSet, Q!FoldFunctionOnSet, P!FoldFunctionOnSet,
   Q!MapThenFoldSet, P!MapThenFoldSet

\* What UploadQuotaProofs assumes holds of the instance.
InstanceAssumed ==
  /\ NoRow \notin P!Entry /\ NoBlob \notin P!Entry
  /\ NoReservation \notin P!Reservation /\ NoUpload \notin P!Request
  /\ Fixed \subseteq P!Limits /\ NoOverrides \subseteq P!Overrides /\ NoLimit \notin Nat
  /\ P!IsFiniteSet(QuotaFile)
  /\ Chunk \subseteq Nat \ {0} /\ MaxBytes \in Nat

LEMMA AssumptionsHold == InstanceAssumed
<1>1. /\ NoRow \notin P!Entry /\ NoBlob \notin P!Entry
      /\ NoReservation \notin P!Reservation /\ NoUpload \notin P!Request
  BY Zenon, SecondInstance DEF Q!Entry, P!Entry, Q!Reservation, P!Reservation, Q!Request, P!Request,
     Q!Limits, P!Limits
<1>2. Fixed \subseteq P!Limits
  <2>1. Single \in P!Limits
    BY DEF Single, P!Limits
  <2> QED BY <2>1 DEF Fixed
<1>3. NoOverrides \subseteq P!Overrides /\ NoLimit \notin Nat
  BY LimitAssumption DEF NoOverrides
<1>4. P!IsFiniteSet(QuotaFile)
  BY Zenon, SecondInstance DEF P!IsFiniteSet, IsFiniteSet
<1> QED BY <1>1, <1>2, <1>3, <1>4, ChunkAssumption DEF InstanceAssumed

-----------------------------------------------------------------------------
(* The only global limits of the second instance stay in force.              *)

QuotaInv == P!IInv /\ P!ReservationInv /\ qSettings.global = Single

LEMMA QuotaStarts == QuotaInit => QuotaInv
<1> SUFFICES ASSUME QuotaInit PROVE QuotaInv
  OBVIOUS
<1>1. P!Init
  BY SameInit DEF QuotaInit
<1>2. P!IInv
  BY <1>1, AssumptionsHold, P!InitGood DEF InstanceAssumed
<1>3. P!ReservationInv
  BY <1>1, AssumptionsHold, P!NothingReserved DEF InstanceAssumed
<1>4. qSettings.global = Single
  BY <1>1 DEF P!Init, Fixed
<1> QED BY <1>2, <1>3, <1>4 DEF QuotaInv

LEMMA QuotaSteps == QuotaInv /\ [QuotaNext]_<<part, vars, qVars>> => QuotaInv'
<1> SUFFICES ASSUME QuotaInv, [QuotaNext]_<<part, vars, qVars>> PROVE QuotaInv'
  OBVIOUS
<1>1. [P!Next]_(P!vars)
  BY SameNext DEF QuotaNext, qVars, P!vars, P!disk, P!memory, P!history
<1>2. P!IInv'
  BY <1>1, AssumptionsHold, P!NextGood DEF InstanceAssumed, QuotaInv
<1>3. UNCHANGED qSettings
  <2>1. CASE P!Next
    <3>1. \/ UNCHANGED qSettings
          \/ \E g \in Fixed : qSettings' = [qSettings EXCEPT !.global = g]
          \/ \E r \in QuotaRepo, o \in NoOverrides :
               qSettings' = [qSettings EXCEPT !.override[r] = o]
      BY <2>1, P!LimitChanges, AssumptionsHold DEF InstanceAssumed
    <3>2. qSettings \in [global : P!Limits, override : [QuotaRepo -> P!Overrides]]
      BY DEF QuotaInv, P!IInv, P!Types
    <3>3. \/ UNCHANGED qSettings
          \/ qSettings' = [qSettings EXCEPT !.global = Single]
      BY <3>1 DEF Fixed, NoOverrides
    <3>4. qSettings.global = Single
      BY DEF QuotaInv
    <3>5. [qSettings EXCEPT !.global = qSettings.global] = qSettings
      BY <3>2
    <3> QED BY <3>3, <3>4, <3>5
  <2>2. CASE UNCHANGED P!vars
    BY <2>2 DEF P!vars
  <2> QED BY <1>1, <2>1, <2>2
<1>4. P!ReservationInv'
  BY <1>1, <1>2, <1>3, AssumptionsHold, P!StepReserves DEF InstanceAssumed, QuotaInv
<1> QED BY <1>2, <1>3, <1>4 DEF QuotaInv

\* Without SMB and with limits nobody changes, the rows never exceed a quota, and but for those of
\* commits whose refreshUsage failed neither do rows and reservations together, although grow reads
\* a cache that may be stale (reserve, grow, commit of the quota coordinator).
THEOREM ReservationsKeepQuotas == QuotaSpec => []ReservationsHold
<1>1. QuotaInv => ReservationsHold
  BY AssumptionsHold, P!ReservationsSuffice, SameProperty DEF InstanceAssumed, QuotaInv
<1> QED BY <1>1, QuotaStarts, QuotaSteps, PTL DEF QuotaSpec
=============================================================================
