--------------------------- MODULE UploadQuotaProofs ---------------------------
(***************************************************************************)
(* Rows, blobs and reservations agree, for every set of repositories,      *)
(* files and requests, all limits and all sizes.                           *)
(*                                                                         *)
(* FileGood collects what holds of one file: which of its row, its blob    *)
(* and its reservation there are, and which request has it.  A step        *)
(* touches the files of one request or of one repository; Untouched says   *)
(* that it keeps FileGood of all the others.  The sums of the quotas play  *)
(* no part, so usage is left untyped.                                      *)
(***************************************************************************)
EXTENDS UploadQuota, FiniteSetTheorems, WellFoundedInduction, TLAPS

Writing(u)  == IF Active(u) THEN uploads[u].writing ELSE {}
Stored(u)   == IF Active(u) THEN uploads[u].stored ELSE {}
Removing(u) == IF Active(u) THEN uploads[u].removing ELSE {}

Holding(u, f) == f \in Writing(u) \/ f \in Stored(u)
Has(u, f) == Holding(u, f) \/ f \in Removing(u)

Types ==
  /\ rows \in [File -> Entry \cup {NoRow}]
  /\ blobs \in [File -> Entry \cup {NoBlob}]
  /\ reserved \in [File -> Reservation \cup {NoReservation}]
  /\ uploads \in [Upload -> Request \cup {NoUpload}]
  /\ settings \in [global : Limits, override : [Repo -> Overrides]]
  /\ dirs \subseteq Repo /\ repos \subseteq Repo

\* The row is backed; a failed statement or a crash takes its blob.
RowGood(f) ==
  /\ rows[f] # NoRow =>
       rows[f].repo \in repos /\ blobs[f] = IF f \in torn THEN NoBlob ELSE rows[f]
  /\ f \in torn => rows[f] # NoRow

\* The blob and the reservation have an owner.
OwnerGood(f) ==
  /\ blobs[f] # NoBlob =>
       rows[f] # NoRow \/ f \in orphans \/ \E u \in Upload : Has(u, f)
  /\ reserved[f] # NoReservation => \E u \in Upload : Holding(u, f)

\* A request that holds the file has reserved what is on disk.
ClaimGood(u, f) ==
  /\ Holding(u, f) =>
       /\ rows[f] = NoRow
       /\ reserved[f] # NoReservation /\ reserved[f].repo = uploads[u].repo
       /\ blobs[f] # NoBlob =>
            blobs[f] = [repo |-> uploads[u].repo, size |-> reserved[f].bytes]
  /\ f \in Removing(u) =>
       rows[f] = NoRow /\ reserved[f] = NoReservation /\ uploads[u].aborting
  /\ ~(f \in Writing(u) /\ f \in Stored(u))

FileGood(f) ==
  /\ RowGood(f) /\ OwnerGood(f)
  /\ \A u \in Upload : ClaimGood(u, f)
  /\ \A u, v \in Upload : Has(u, f) /\ Has(v, f) => u = v

IInv == Types /\ \A f \in File : FileGood(f)

-----------------------------------------------------------------------------
(* Frames.                                                                  *)

SameData(f) ==
  /\ rows'[f] = rows[f] /\ blobs'[f] = blobs[f] /\ reserved'[f] = reserved[f]
  /\ f \in torn' <=> f \in torn
  /\ f \in orphans' <=> f \in orphans

SameClaim(u, f) ==
  /\ f \in Writing(u)' <=> f \in Writing(u)
  /\ f \in Stored(u)' <=> f \in Stored(u)
  /\ f \in Removing(u)' <=> f \in Removing(u)
  /\ Has(u, f) => /\ uploads'[u].repo = uploads[u].repo
                  /\ uploads[u].aborting => uploads'[u].aborting

LEMMA Untouched ==
  ASSUME NEW f \in File, FileGood(f), SameData(f),
         rows[f] # NoRow => (rows[f].repo \in repos => rows[f].repo \in repos'),
         \A u \in Upload : SameClaim(u, f)
  PROVE  FileGood(f)'
<1>1. RowGood(f)'
  BY DEF FileGood, RowGood, SameData
<1>2. \A u \in Upload : /\ Holding(u, f)' <=> Holding(u, f)
                        /\ Has(u, f)' <=> Has(u, f)
  BY DEF SameClaim, Holding, Has
<1>3. OwnerGood(f)'
  BY <1>2 DEF FileGood, OwnerGood, SameData
<1>4. ASSUME NEW u \in Upload PROVE ClaimGood(u, f)'
  BY <1>2 DEF FileGood, ClaimGood, SameData, SameClaim, Has
<1>5. \A u, v \in Upload : Has(u, f)' /\ Has(v, f)' => u = v
  BY <1>2 DEF FileGood
<1> QED
  BY <1>1, <1>3, <1>4, <1>5 DEF FileGood

\* Request u becomes q; the others stay.
LEMMA PutFacts ==
  ASSUME Types, NEW u \in Upload, NEW q \in Request, uploads' = [uploads EXCEPT ![u] = q]
  PROVE  /\ uploads' \in [Upload -> Request \cup {NoUpload}]
         /\ uploads'[u] = q /\ Active(u)'
         /\ Writing(u)' = q.writing /\ Stored(u)' = q.stored /\ Removing(u)' = q.removing
         /\ \A v \in Upload \ {u}, f \in File : SameClaim(v, f)
<1>1. /\ uploads' \in [Upload -> Request \cup {NoUpload}]
      /\ uploads'[u] = q /\ \A v \in Upload \ {u} : uploads'[v] = uploads[v]
  BY DEF Types
<1>2. q # NoUpload
  BY NullAssumption DEF NullAssumption
<1> QED
  BY <1>1, <1>2 DEF Active, Writing, Stored, Removing, SameClaim

LEMMA LeaveFacts ==
  ASSUME Types, NEW u \in Upload, uploads' = [uploads EXCEPT ![u] = NoUpload]
  PROVE  /\ uploads' \in [Upload -> Request \cup {NoUpload}]
         /\ Writing(u)' = {} /\ Stored(u)' = {} /\ Removing(u)' = {}
         /\ \A v \in Upload \ {u}, f \in File : SameClaim(v, f)
<1>1. /\ uploads' \in [Upload -> Request \cup {NoUpload}]
      /\ uploads'[u] = NoUpload /\ \A v \in Upload \ {u} : uploads'[v] = uploads[v]
  BY DEF Types
<1> QED
  BY <1>1 DEF Active, Writing, Stored, Removing, SameClaim

LEMMA EffectiveType ==
  ASSUME Types, NEW r \in Repo
  PROVE  Effective(r) \in Limits
<1> DEFINE o == settings.override[r]
           g == settings.global
<1>1. g \in Limits /\ o \in Overrides
  BY DEF Types
<1>2. Or(o.fileBytes, g.fileBytes) \in Nat /\ Or(o.repoBytes, g.repoBytes) \in Nat
  BY <1>1 DEF Limits, Overrides, Or
<1>3. Effective(r) = [g EXCEPT !.fileBytes = Or(o.fileBytes, g.fileBytes),
                               !.repoBytes = Or(o.repoBytes, g.repoBytes)]
  BY <1>1 DEF Effective, Limits
<1> HIDE DEF o, g
<1> QED
  BY <1>1, <1>2, <1>3 DEF Limits

\* A file that at most request u has.
LEMMA TouchedGood ==
  ASSUME NEW f \in File, NEW u \in Upload, RowGood(f)', OwnerGood(f)', ClaimGood(u, f)',
         \A v \in Upload \ {u} : ~Has(v, f) /\ SameClaim(v, f)
  PROVE  FileGood(f)'
<1>1. \A v \in Upload \ {u} : ~Has(v, f)' /\ ~Holding(v, f)' /\ f \notin Removing(v)'
                              /\ f \notin Writing(v)'
  BY DEF SameClaim, Holding, Has
<1>2. \A v \in Upload : ClaimGood(v, f)'
  BY <1>1 DEF ClaimGood
<1>3. \A v, w \in Upload : Has(v, f)' /\ Has(w, f)' => v = w
  BY <1>1
<1> QED
  BY <1>2, <1>3 DEF FileGood

\* A step of request u on the files in T.
LEMMA StepGood ==
  ASSUME IInv, Types', NEW u \in Upload, NEW T \in SUBSET File, repos' = repos,
         \A v \in Upload \ {u}, f \in File : SameClaim(v, f),
         \A f \in File \ T : SameData(f) /\ SameClaim(u, f),
         \A f \in T : FileGood(f)'
  PROVE  IInv'
<1> SUFFICES ASSUME NEW f \in File PROVE FileGood(f)'
  BY DEF IInv
<1>1. CASE f \in T
  BY <1>1
<1>2. CASE f \notin T
  <2>1. \A v \in Upload : SameClaim(v, f)
    BY <1>2
  <2> QED
    BY <1>2, <2>1, Untouched DEF IInv
<1> QED
  BY <1>1, <1>2

\* A step of request u on the file f.
LEMMA OneFile ==
  ASSUME IInv, Types', NEW u \in Upload, NEW f \in File, repos' = repos,
         \A v \in Upload \ {u}, g \in File : SameClaim(v, g),
         \A g \in File \ {f} : SameData(g) /\ SameClaim(u, g),
         FileGood(f)'
  PROVE  IInv'
<1> DEFINE T == {f}
<1>1. T \in SUBSET File /\ \A g \in T : FileGood(g)'
  OBVIOUS
<1>2. \A g \in File \ T : SameData(g) /\ SameClaim(u, g)
  OBVIOUS
<1> HIDE DEF T
<1> QED
  BY <1>1, <1>2, StepGood

\* Only request u has a file that it has.
LEMMA Mine ==
  ASSUME IInv, NEW u \in Upload, NEW f \in File, Has(u, f)
  PROVE  \A v \in Upload \ {u} : ~Has(v, f)
BY DEF IInv, FileGood

LEMMA InitGood == Init => IInv
<1> SUFFICES ASSUME Init PROVE IInv
  OBVIOUS
<1>1. Types
  <2>1. settings \in [global : Limits, override : [Repo -> Overrides]]
    <3>1. NoOverride \in Overrides
      BY DEF NoOverride, Overrides
    <3> QED
      BY <3>1, LimitAssumption DEF Init, LimitAssumption
  <2> QED
    BY <2>1 DEF Init, Types
<1>2. \A u \in Upload : Writing(u) = {} /\ Stored(u) = {} /\ Removing(u) = {}
  BY DEF Init, Writing, Stored, Removing, Active
<1>3. ASSUME NEW f \in File PROVE FileGood(f)
  BY <1>2 DEF Init, FileGood, RowGood, OwnerGood, ClaimGood, Holding, Has
<1> QED
  BY <1>1, <1>3 DEF IInv

-----------------------------------------------------------------------------
(* A request.                                                               *)

LEMMA AdmitGood ==
  ASSUME IInv, NEW u \in Upload, NEW r \in Repo, Admit(u, r)
  PROVE  IInv'
<1> DEFINE q == [repo |-> r, limits |-> Effective(r), writing |-> {}, stored |-> {},
                 removing |-> {}, aborting |-> FALSE]
<1>0. Types
  BY DEF IInv
<1>1. q \in Request
  BY <1>0, EffectiveType DEF Request
<1>2. uploads' = [uploads EXCEPT ![u] = q] /\ UNCHANGED <<disk, reserved, settings, history>>
  BY DEF Admit
<1>3. q.writing = {} /\ q.stored = {} /\ q.removing = {}
  OBVIOUS
<1> HIDE DEF q
<1>4. /\ uploads' \in [Upload -> Request \cup {NoUpload}]
      /\ Writing(u)' = {} /\ Stored(u)' = {} /\ Removing(u)' = {}
      /\ \A v \in Upload \ {u}, f \in File : SameClaim(v, f)
  BY <1>0, <1>1, <1>2, <1>3, PutFacts
<1>5. Types'
  BY <1>0, <1>2, <1>4 DEF Types, disk
<1>6. ~Active(u)
  BY DEF Admit
<1>7. \A f \in File : SameData(f) /\ SameClaim(u, f)
  BY <1>2, <1>4, <1>6
     DEF SameData, SameClaim, Writing, Stored, Removing, Holding, Has, disk, history
<1> QED
  BY <1>2, <1>4, <1>5, <1>7, StepGood DEF disk

LEMMA FreshFacts ==
  ASSUME IInv, NEW f \in File, Fresh(f)
  PROVE  /\ rows[f] = NoRow /\ blobs[f] = NoBlob /\ reserved[f] = NoReservation
         /\ f \notin torn /\ f \notin orphans
         /\ \A u \in Upload : ~Has(u, f)
BY DEF Fresh, Has, Holding, Writing, Stored, Removing, Active

LEMMA StartFileGood ==
  ASSUME IInv, NEW u \in Upload, NEW f \in File, StartFile(u, f)
  PROVE  IInv'
<1> DEFINE p == uploads[u]
           q == [p EXCEPT !.writing = @ \cup {f}]
           res == [repo |-> p.repo, bytes |-> 0, limits |-> p.limits]
           blob == [repo |-> p.repo, size |-> 0]
<1>0. Types /\ Active(u) /\ p \in Request
  BY DEF StartFile, Receiving, Active, IInv, Types
<1>1. /\ q \in Request /\ q.repo = p.repo /\ (p.aborting => q.aborting)
      /\ q.writing = p.writing \cup {f} /\ q.stored = p.stored /\ q.removing = p.removing
  BY <1>0 DEF Request
<1>2. /\ uploads' = [uploads EXCEPT ![u] = q]
      /\ reserved' = [reserved EXCEPT ![f] = res]
      /\ blobs' = [blobs EXCEPT ![f] = blob]
      /\ dirs' = dirs \cup {p.repo}
      /\ UNCHANGED <<rows, repos, settings, history>>
  BY DEF StartFile
<1>3. res \in Reservation /\ blob \in Entry /\ p.repo \in Repo
  BY <1>0 DEF Request, Reservation, Entry
<1>4. /\ rows[f] = NoRow /\ blobs[f] = NoBlob /\ reserved[f] = NoReservation
      /\ f \notin torn /\ f \notin orphans
      /\ \A v \in Upload : ~Has(v, f)
  BY FreshFacts DEF StartFile
<1>5. res # NoReservation /\ res.repo = p.repo /\ res.bytes = 0
  BY <1>3, NullAssumption DEF NullAssumption
<1> HIDE DEF q, res
<1>6. /\ uploads' \in [Upload -> Request \cup {NoUpload}]
      /\ uploads'[u] = q
      /\ Writing(u)' = p.writing \cup {f} /\ Stored(u)' = p.stored
      /\ Removing(u)' = p.removing
      /\ \A v \in Upload \ {u}, g \in File : SameClaim(v, g)
  BY <1>0, <1>1, <1>2, PutFacts
<1>7. Types'
  BY <1>0, <1>2, <1>3, <1>6 DEF Types
<1>8. \A g \in File \ {f} : SameData(g) /\ SameClaim(u, g)
  BY <1>0, <1>1, <1>2, <1>6
     DEF SameData, SameClaim, Writing, Stored, Removing, Holding, Has, history, Types
<1>9. FileGood(f)'
  <2>1. /\ rows'[f] = NoRow /\ reserved'[f] = res /\ blobs'[f] = blob
        /\ f \notin torn'
    BY <1>0, <1>2, <1>4 DEF Types, history
  <2>2. f \notin p.writing /\ f \notin p.stored /\ f \notin p.removing
    BY <1>0, <1>4 DEF Has, Holding, Writing, Stored, Removing
  <2>3. Holding(u, f)' /\ f \notin Stored(u)' /\ f \notin Removing(u)'
    BY <1>6, <2>2 DEF Holding
  <2>4. RowGood(f)' /\ OwnerGood(f)'
    BY <2>1, <2>3 DEF RowGood, OwnerGood, Has
  <2>5. ClaimGood(u, f)'
    BY <1>1, <1>5, <1>6, <2>1, <2>3 DEF ClaimGood
  <2> QED
    BY <1>4, <1>6, <2>4, <2>5, TouchedGood
<1> QED
  BY <1>2, <1>6, <1>7, <1>8, <1>9, OneFile

\* A request that changes nothing but whether it is aborting.
LEMMA AbortingGood ==
  ASSUME IInv, NEW u \in Upload, Active(u),
         uploads' = [uploads EXCEPT ![u].aborting = TRUE],
         UNCHANGED <<disk, reserved, settings, history>>
  PROVE  IInv'
<1> DEFINE p == uploads[u]
           q == [p EXCEPT !.aborting = TRUE]
<1>0. Types /\ p \in Request
  BY DEF Active, IInv, Types
<1>1. /\ q \in Request /\ q.repo = p.repo /\ (p.aborting => q.aborting)
      /\ q.writing = p.writing /\ q.stored = p.stored /\ q.removing = p.removing
  BY <1>0 DEF Request
<1>2. uploads' = [uploads EXCEPT ![u] = q]
  BY <1>0
<1> HIDE DEF q
<1>3. /\ uploads' \in [Upload -> Request \cup {NoUpload}]
      /\ uploads'[u] = q
      /\ Writing(u)' = p.writing /\ Stored(u)' = p.stored /\ Removing(u)' = p.removing
      /\ \A v \in Upload \ {u}, g \in File : SameClaim(v, g)
  BY <1>0, <1>1, <1>2, PutFacts
<1>4. Types'
  BY <1>0, <1>3 DEF Types, disk
<1>5. \A g \in File : SameData(g) /\ SameClaim(u, g)
  BY <1>1, <1>3
     DEF SameData, SameClaim, Writing, Stored, Removing, Holding, Has, disk, history
<1>6. {} \in SUBSET File /\ repos' = repos
  BY DEF disk
<1> QED
  BY <1>3, <1>4, <1>5, <1>6, StepGood

LEMMA GrowGood ==
  ASSUME IInv, NEW u \in Upload, NEW f \in File, NEW n \in Chunk, Grow(u, f, n)
  PROVE  IInv'
<1> DEFINE h == reserved[f]
           b == blobs[f]
           res == [h EXCEPT !.bytes = @ + n]
           blob == IF b = NoBlob THEN NoBlob ELSE [b EXCEPT !.size = @ + n]
<1>0. Types /\ FileGood(f) /\ Active(u) /\ f \in Writing(u) /\ n \in Nat
  BY ChunkAssumption DEF Grow, IInv, ChunkAssumption, Writing
<1>1. /\ rows[f] = NoRow /\ h # NoReservation /\ h.repo = uploads[u].repo
      /\ b # NoBlob => b = [repo |-> h.repo, size |-> h.bytes]
      /\ f \notin Stored(u) /\ f \notin Removing(u)
  BY <1>0 DEF FileGood, ClaimGood, Holding
<1>2. h \in Reservation
  BY <1>0, <1>1 DEF Types
<1>3. res \in Reservation /\ res.repo = h.repo /\ res.bytes = h.bytes + n
  BY <1>0, <1>2 DEF Reservation
<1>4. /\ b = NoBlob => blob = NoBlob
      /\ b # NoBlob => blob = [repo |-> h.repo, size |-> res.bytes]
      /\ blob \in Entry \cup {NoBlob}
  <2>1. h.repo \in Repo /\ h.bytes + n \in Nat
    BY <1>0, <1>2 DEF Reservation
  <2>2. CASE b = NoBlob
    BY <2>2
  <2>3. CASE b # NoBlob
    <3>1. b = [repo |-> h.repo, size |-> h.bytes]
      BY <2>3, <1>1
    <3>2. [b EXCEPT !.size = @ + n] = [repo |-> h.repo, size |-> h.bytes + n]
      BY <3>1
    <3> QED
      BY <2>1, <2>3, <3>2, <1>3 DEF Entry
  <2> QED
    BY <2>2, <2>3
<1>5. res # NoReservation
  BY <1>3, NullAssumption DEF NullAssumption
<1>6. /\ reserved' = [reserved EXCEPT ![f] = res]
      /\ blobs' = [blobs EXCEPT ![f] = blob]
      /\ UNCHANGED <<rows, dirs, repos, uploads, settings, history>>
  <2>1. blobs' = [blobs EXCEPT ![f] = blob]
    BY <1>0 DEF Grow, Types
  <2> QED
    BY <2>1 DEF Grow
<1> HIDE DEF res, blob
<1>7. /\ reserved' \in [File -> Reservation \cup {NoReservation}]
      /\ blobs' \in [File -> Entry \cup {NoBlob}]
      /\ reserved'[f] = res /\ blobs'[f] = blob
      /\ \A g \in File \ {f} : reserved'[g] = reserved[g] /\ blobs'[g] = blobs[g]
  BY <1>0, <1>3, <1>4, <1>6 DEF Types
<1>8. Types'
  BY <1>0, <1>6, <1>7 DEF Types
<1>9. \A v \in Upload, g \in File : SameClaim(v, g)
  BY <1>6 DEF SameClaim, Writing, Stored, Removing, Active
<1>10. \A g \in File \ {f} : SameData(g)
  BY <1>6, <1>7 DEF SameData, history
<1>11. FileGood(f)'
  <2>1. Holding(u, f)' /\ f \in Writing(u)' /\ f \notin Stored(u)' /\ f \notin Removing(u)'
    BY <1>0, <1>1, <1>9 DEF Holding, SameClaim
  <2>2. RowGood(f)'
    BY <1>0, <1>1, <1>6 DEF FileGood, RowGood, history
  <2>3. OwnerGood(f)'
    BY <2>1 DEF OwnerGood, Has
  <2>4. ClaimGood(u, f)'
    BY <1>1, <1>3, <1>4, <1>5, <1>6, <1>7, <2>1 DEF ClaimGood
  <2>5. \A v \in Upload \ {u} : ~Has(v, f)
    BY <1>0, Mine DEF Has, Holding
  <2> QED
    BY <1>9, <2>2, <2>3, <2>4, <2>5, TouchedGood
<1> QED
  BY <1>6, <1>8, <1>9, <1>10, <1>11, OneFile

LEMMA FileFailsGood ==
  ASSUME IInv, NEW u \in Upload, NEW f \in File, FileFails(u, f)
  PROVE  IInv'
<1> DEFINE p == uploads[u]
           q == [p EXCEPT !.writing = @ \ {f}, !.aborting = TRUE]
<1>0. Types /\ FileGood(f) /\ Active(u) /\ p \in Request /\ f \in Writing(u)
  BY DEF FileFails, IInv, Types, Active, Writing
<1>1. /\ q \in Request /\ q.repo = p.repo /\ (p.aborting => q.aborting)
      /\ q.writing = p.writing \ {f} /\ q.stored = p.stored /\ q.removing = p.removing
  BY <1>0 DEF Request
<1>2. /\ uploads' = [uploads EXCEPT ![u] = q]
      /\ blobs' = [blobs EXCEPT ![f] = NoBlob]
      /\ reserved' = [reserved EXCEPT ![f] = NoReservation]
      /\ UNCHANGED <<rows, dirs, repos, settings, history>>
  BY <1>0 DEF FileFails
<1>3. rows[f] = NoRow /\ f \notin Stored(u) /\ f \notin Removing(u)
  BY <1>0 DEF FileGood, ClaimGood, Holding
<1> HIDE DEF q
<1>4. /\ uploads' \in [Upload -> Request \cup {NoUpload}]
      /\ uploads'[u] = q
      /\ Writing(u)' = p.writing \ {f} /\ Stored(u)' = p.stored /\ Removing(u)' = p.removing
      /\ \A v \in Upload \ {u}, g \in File : SameClaim(v, g)
  BY <1>0, <1>1, <1>2, PutFacts
<1>5. Types'
  BY <1>0, <1>2, <1>4 DEF Types
<1>6. \A g \in File \ {f} : SameData(g) /\ SameClaim(u, g)
  BY <1>0, <1>1, <1>2, <1>4
     DEF SameData, SameClaim, Writing, Stored, Removing, Holding, Has, history, Types
<1>7. FileGood(f)'
  <2>1. blobs'[f] = NoBlob /\ reserved'[f] = NoReservation /\ rows'[f] = NoRow
    BY <1>0, <1>2, <1>3 DEF Types
  <2>2. ~Holding(u, f)' /\ f \notin Removing(u)' /\ f \notin Writing(u)'
    BY <1>0, <1>3, <1>4 DEF Holding, Stored, Removing
  <2>3. RowGood(f)' /\ OwnerGood(f)' /\ ClaimGood(u, f)'
    BY <1>0, <1>2, <1>3, <2>1, <2>2 DEF FileGood, RowGood, OwnerGood, ClaimGood, history
  <2>4. \A v \in Upload \ {u} : ~Has(v, f)
    BY <1>0, Mine DEF Has, Holding
  <2> QED
    BY <1>4, <2>3, <2>4, TouchedGood
<1> QED
  BY <1>2, <1>4, <1>5, <1>6, <1>7, OneFile

LEMMA FileStoredGood ==
  ASSUME IInv, NEW u \in Upload, NEW f \in File, FileStored(u, f)
  PROVE  IInv'
<1> DEFINE p == uploads[u]
           q == [p EXCEPT !.writing = @ \ {f}, !.stored = @ \cup {f}]
<1>0. Types /\ FileGood(f) /\ Active(u) /\ p \in Request /\ f \in Writing(u)
  BY DEF FileStored, IInv, Types, Active, Writing
<1>1. /\ q \in Request /\ q.repo = p.repo /\ (p.aborting => q.aborting)
      /\ q.writing = p.writing \ {f} /\ q.stored = p.stored \cup {f}
      /\ q.removing = p.removing
  BY <1>0 DEF Request
<1>2. /\ uploads' = [uploads EXCEPT ![u] = q]
      /\ UNCHANGED <<disk, reserved, settings, history>>
  BY <1>0 DEF FileStored
<1>3. f \notin Stored(u) /\ f \notin Removing(u)
  BY <1>0 DEF FileGood, ClaimGood, Holding
<1> HIDE DEF q
<1>4. /\ uploads' \in [Upload -> Request \cup {NoUpload}]
      /\ uploads'[u] = q
      /\ Writing(u)' = p.writing \ {f} /\ Stored(u)' = p.stored \cup {f}
      /\ Removing(u)' = p.removing
      /\ \A v \in Upload \ {u}, g \in File : SameClaim(v, g)
  BY <1>0, <1>1, <1>2, PutFacts
<1>5. Types'
  BY <1>0, <1>2, <1>4 DEF Types, disk
<1>6. \A g \in File : SameData(g)
  BY <1>2 DEF SameData, disk, history
<1>7. \A g \in File \ {f} : SameClaim(u, g)
  BY <1>0, <1>1, <1>4 DEF SameClaim, Writing, Stored, Removing, Holding, Has
<1>8. FileGood(f)'
  <2>1. /\ Holding(u, f)' /\ f \notin Removing(u)' /\ f \notin Writing(u)'
        /\ uploads'[u].repo = uploads[u].repo
    BY <1>0, <1>1, <1>3, <1>4 DEF Holding, Stored, Removing
  <2>2. RowGood(f)' /\ OwnerGood(f)'
    BY <1>0, <1>2, <2>1 DEF FileGood, RowGood, OwnerGood, Has, disk, history
  <2>3. ClaimGood(u, f)'
    BY <1>0, <1>6, <2>1 DEF FileGood, ClaimGood, Holding, SameData
  <2>4. \A v \in Upload \ {u} : ~Has(v, f)
    BY <1>0, Mine DEF Has, Holding
  <2> QED
    BY <1>4, <2>2, <2>3, <2>4, TouchedGood
<1> QED
  BY <1>2, <1>4, <1>5, <1>6, <1>7, <1>8, OneFile DEF disk

LEMMA RemoveStoredGood ==
  ASSUME IInv, NEW u \in Upload, NEW f \in File, RemoveStored(u, f)
  PROVE  IInv'
<1> DEFINE p == uploads[u]
           q == [p EXCEPT !.stored = @ \ {f}, !.removing = {f}]
<1>0. /\ Types /\ FileGood(f) /\ Active(u) /\ p \in Request /\ f \in Stored(u)
      /\ p.writing = {} /\ p.removing = {} /\ p.aborting
  BY DEF RemoveStored, IInv, Types, Active, Stored
<1>1. /\ q \in Request /\ q.repo = p.repo /\ (p.aborting => q.aborting)
      /\ q.writing = {} /\ q.stored = p.stored \ {f} /\ q.removing = {f}
  BY <1>0 DEF Request
<1>2. /\ uploads' = [uploads EXCEPT ![u] = q]
      /\ reserved' = [reserved EXCEPT ![f] = NoReservation]
      /\ UNCHANGED <<disk, settings, history>>
  BY <1>0 DEF RemoveStored
<1>3. rows[f] = NoRow
  BY <1>0 DEF FileGood, ClaimGood, Holding
<1> HIDE DEF q
<1>4. /\ uploads' \in [Upload -> Request \cup {NoUpload}]
      /\ uploads'[u] = q
      /\ Writing(u)' = {} /\ Stored(u)' = p.stored \ {f} /\ Removing(u)' = {f}
      /\ \A v \in Upload \ {u}, g \in File : SameClaim(v, g)
  BY <1>0, <1>1, <1>2, PutFacts
<1>5. Types'
  BY <1>0, <1>2, <1>4 DEF Types, disk
<1>6. \A g \in File \ {f} : SameData(g) /\ SameClaim(u, g)
  BY <1>0, <1>1, <1>2, <1>4
     DEF SameData, SameClaim, Writing, Stored, Removing, Holding, Has, disk, history, Types
<1>7. FileGood(f)'
  <2>1. reserved'[f] = NoReservation /\ rows'[f] = NoRow
    BY <1>0, <1>2, <1>3 DEF Types, disk
  <2>2. ~Holding(u, f)' /\ Has(u, f)' /\ f \notin Writing(u)'
    BY <1>4 DEF Holding, Has
  <2>3. RowGood(f)' /\ OwnerGood(f)' /\ ClaimGood(u, f)'
    BY <1>0, <1>1, <1>2, <1>3, <1>4, <2>1, <2>2
       DEF FileGood, RowGood, OwnerGood, ClaimGood, disk, history
  <2>4. \A v \in Upload \ {u} : ~Has(v, f)
    BY <1>0, Mine DEF Has, Holding
  <2> QED
    BY <1>4, <2>3, <2>4, TouchedGood
<1> QED
  BY <1>2, <1>4, <1>5, <1>6, <1>7, OneFile DEF disk

LEMMA RemovedGood ==
  ASSUME IInv, NEW u \in Upload, NEW f \in File, Removed(u, f)
  PROVE  IInv'
<1> DEFINE p == uploads[u]
           q == [p EXCEPT !.removing = @ \ {f}]
<1>0. Types /\ FileGood(f) /\ Active(u) /\ p \in Request /\ f \in Removing(u)
  BY DEF Removed, IInv, Types, Active, Removing
<1>1. /\ q \in Request /\ q.repo = p.repo /\ (p.aborting => q.aborting)
      /\ q.writing = p.writing /\ q.stored = p.stored /\ q.removing = p.removing \ {f}
  BY <1>0 DEF Request
<1>2. /\ uploads' = [uploads EXCEPT ![u] = q]
      /\ blobs' = [blobs EXCEPT ![f] = NoBlob]
      /\ UNCHANGED <<rows, dirs, repos, reserved, settings, history>>
  BY <1>0 DEF Removed
<1>3. rows[f] = NoRow /\ reserved[f] = NoReservation
  BY <1>0 DEF FileGood, ClaimGood
<1>4. ~Holding(u, f)
  BY <1>0, <1>3 DEF FileGood, ClaimGood
<1> HIDE DEF q
<1>5. /\ uploads' \in [Upload -> Request \cup {NoUpload}]
      /\ uploads'[u] = q
      /\ Writing(u)' = p.writing /\ Stored(u)' = p.stored
      /\ Removing(u)' = p.removing \ {f}
      /\ \A v \in Upload \ {u}, g \in File : SameClaim(v, g)
  BY <1>0, <1>1, <1>2, PutFacts
<1>6. Types'
  BY <1>0, <1>2, <1>5 DEF Types
<1>7. \A g \in File \ {f} : SameData(g) /\ SameClaim(u, g)
  BY <1>0, <1>1, <1>2, <1>5
     DEF SameData, SameClaim, Writing, Stored, Removing, Holding, Has, history, Types
<1>8. FileGood(f)'
  <2>1. blobs'[f] = NoBlob /\ reserved'[f] = NoReservation /\ rows'[f] = NoRow
    BY <1>0, <1>2, <1>3 DEF Types
  <2>2. ~Holding(u, f)' /\ f \notin Removing(u)' /\ f \notin Writing(u)'
    BY <1>0, <1>4, <1>5 DEF Holding, Writing, Stored
  <2>3. RowGood(f)' /\ OwnerGood(f)' /\ ClaimGood(u, f)'
    BY <1>0, <1>2, <1>3, <2>1, <2>2 DEF FileGood, RowGood, OwnerGood, ClaimGood, history
  <2>4. \A v \in Upload \ {u} : ~Has(v, f)
    BY <1>0, Mine DEF Has
  <2> QED
    BY <1>5, <2>3, <2>4, TouchedGood
<1> QED
  BY <1>2, <1>5, <1>6, <1>7, <1>8, OneFile

\* The end of request u, which took the files it had stored with it, or left rows
\* without their blobs (those in gone).
LEMMA LeaveGood ==
  ASSUME IInv, Types', NEW u \in Upload, Active(u), uploads' = [uploads EXCEPT ![u] = NoUpload],
         repos' = repos, orphans' = orphans, Writing(u) = {}, Removing(u) = {},
         NEW gone \in SUBSET Stored(u), torn' = torn \cup gone,
         \A f \in File \ Stored(u) : /\ rows'[f] = rows[f] /\ blobs'[f] = blobs[f]
                                     /\ reserved'[f] = reserved[f],
         \A f \in Stored(u) :
           /\ reserved'[f] = NoReservation
           /\ f \notin gone => \/ rows'[f] = blobs'[f]
                               \/ rows'[f] = NoRow /\ blobs'[f] = NoBlob
           /\ f \in gone => rows'[f] # NoRow /\ blobs'[f] = NoBlob
           /\ rows'[f] # NoRow => rows'[f].repo \in repos
  PROVE  IInv'
<1> DEFINE T == Stored(u)
<1>0. Types /\ T \in SUBSET File
  BY DEF IInv, Types, Stored, Active, Request
<1>1. /\ Writing(u)' = {} /\ Stored(u)' = {} /\ Removing(u)' = {}
      /\ \A v \in Upload \ {u}, f \in File : SameClaim(v, f)
  BY <1>0, LeaveFacts
<1>2. \A f \in File \ T : SameData(f) /\ SameClaim(u, f)
  BY <1>1 DEF SameData, SameClaim, Holding, Has
<1>3. ASSUME NEW f \in T PROVE FileGood(f)'
  <2>0. f \in File
    BY <1>0
  <2>1. /\ reserved'[f] = NoReservation
        /\ f \notin gone => \/ rows'[f] = blobs'[f]
                            \/ rows'[f] = NoRow /\ blobs'[f] = NoBlob
        /\ f \in gone => rows'[f] # NoRow /\ blobs'[f] = NoBlob
        /\ rows'[f] # NoRow => rows'[f].repo \in repos
    OBVIOUS
  <2>2. FileGood(f) /\ Holding(u, f)
    BY <2>0 DEF IInv, Holding
  <2>3. f \in torn' <=> f \in gone
    BY <2>2 DEF FileGood, RowGood, ClaimGood
  <2>4. ~Holding(u, f)' /\ f \notin Removing(u)' /\ f \notin Writing(u)'
    BY <1>1 DEF Holding
  <2>5. \A v \in Upload \ {u} : ~Has(v, f)
    BY <2>0, <2>2, Mine DEF Has
  <2>6. RowGood(f)'
    BY <2>1, <2>3 DEF RowGood
  <2>7. OwnerGood(f)'
    <3>1. rows'[f] \in Entry \cup {NoRow} /\ blobs'[f] \in Entry \cup {NoBlob}
      BY <2>0 DEF Types
    <3>2. blobs'[f] # NoBlob => rows'[f] # NoRow
      BY <2>1, <3>1, NullAssumption DEF NullAssumption
    <3> QED
      BY <2>1, <3>2 DEF OwnerGood
  <2>8. ClaimGood(u, f)'
    BY <2>4 DEF ClaimGood
  <2> QED
    BY <1>1, <2>0, <2>5, <2>6, <2>7, <2>8, TouchedGood
<1> HIDE DEF T
<1> QED
  BY <1>0, <1>1, <1>2, <1>3, StepGood

LEMMA AbortDoneGood ==
  ASSUME IInv, NEW u \in Upload, AbortDone(u)
  PROVE  IInv'
<1>0. Types /\ Active(u)
  BY DEF AbortDone, IInv
<1>1. Writing(u) = {} /\ Stored(u) = {} /\ Removing(u) = {}
  BY DEF AbortDone, Writing, Stored, Removing
<1>2. /\ uploads' = [uploads EXCEPT ![u] = NoUpload]
      /\ UNCHANGED <<disk, reserved, settings, history>>
  BY DEF AbortDone
<1>3. Types'
  BY <1>0, <1>2, LeaveFacts DEF Types, disk
<1>4. {} \in SUBSET Stored(u) /\ torn' = torn \cup {} /\ orphans' = orphans
  BY <1>2 DEF history
<1> QED
  BY <1>0, <1>1, <1>2, <1>3, <1>4, LeaveGood DEF disk

\* What both ends of a commit do: the blobs of the files in gone are removed.
LEMMA InsertGood ==
  ASSUME IInv, NEW u \in Upload, InsertRows(u), NEW gone \in SUBSET uploads[u].stored,
         blobs' = Without(blobs, gone, NoBlob), torn' = torn \cup gone,
         UNCHANGED <<dirs, repos, settings, orphans>>
  PROVE  IInv'
<1> DEFINE p == uploads[u]
           r == p.repo
           S == p.stored
<1>0. /\ Types /\ Active(u) /\ p \in Request /\ S = Stored(u)
      /\ Writing(u) = {} /\ p.aborting = FALSE
  BY DEF InsertRows, Received, Receiving, IInv, Types, Active, Stored, Writing, Request
<1>9. Removing(u) = {}
  BY <1>0 DEF IInv, FileGood, ClaimGood, Removing, Request
<1>1. /\ rows' = [f \in File |-> IF f \in S THEN [repo |-> r, size |-> reserved[f].bytes]
                                 ELSE rows[f]]
      /\ reserved' = [f \in File |-> IF f \in S THEN NoReservation ELSE reserved[f]]
      /\ uploads' = [uploads EXCEPT ![u] = NoUpload]
      /\ blobs' = [f \in File |-> IF f \in gone THEN NoBlob ELSE blobs[f]]
      /\ r \in repos /\ \A f \in S : blobs[f] # NoBlob
  BY DEF InsertRows, Without, Insertable
<1>2. S \subseteq File /\ r \in Repo
  BY <1>0 DEF Request
<1>3. \A f \in S : /\ reserved[f] \in Reservation
                   /\ blobs[f] = [repo |-> r, size |-> reserved[f].bytes]
  BY <1>0, <1>1, <1>2 DEF IInv, FileGood, ClaimGood, Holding, Types
<1>4. \A f \in S : [repo |-> r, size |-> reserved[f].bytes] \in Entry
  BY <1>2, <1>3 DEF Reservation, Entry
<1>5. /\ rows' \in [File -> Entry \cup {NoRow}]
      /\ reserved' \in [File -> Reservation \cup {NoReservation}]
  BY <1>0, <1>1, <1>4 DEF Types
<1>6. Types'
  BY <1>0, <1>1, <1>5, LeaveFacts DEF Types
<1>7. \A f \in S : /\ rows'[f].repo \in repos /\ reserved'[f] = NoReservation
                   /\ f \notin gone => rows'[f] = blobs'[f]
                   /\ f \in gone => rows'[f] # NoRow /\ blobs'[f] = NoBlob
  <2> SUFFICES ASSUME NEW f \in S
               PROVE  /\ rows'[f].repo \in repos /\ reserved'[f] = NoReservation
                      /\ f \notin gone => rows'[f] = blobs'[f]
                      /\ f \in gone => rows'[f] # NoRow /\ blobs'[f] = NoBlob
    OBVIOUS
  <2>1. rows'[f] = [repo |-> r, size |-> reserved[f].bytes] /\ rows'[f] \in Entry
    BY <1>1, <1>2, <1>4
  <2>2. rows'[f] # NoRow
    BY <2>1, NullAssumption DEF NullAssumption
  <2>3. reserved'[f] = NoReservation /\ (f \notin gone => blobs'[f] = blobs[f])
        /\ (f \in gone => blobs'[f] = NoBlob)
    BY <1>1, <1>2
  <2> QED
    BY <1>1, <1>3, <2>1, <2>2, <2>3
<1>8. \A f \in File \ S : /\ rows'[f] = rows[f] /\ blobs'[f] = blobs[f]
                          /\ reserved'[f] = reserved[f]
  BY <1>1
<1>10. /\ gone \in SUBSET Stored(u) /\ torn' = torn \cup gone /\ orphans' = orphans
       /\ repos' = repos
  BY <1>0
<1> HIDE DEF S
<1> QED
  BY <1>0, <1>1, <1>6, <1>7, <1>8, <1>9, <1>10, LeaveGood

LEMMA CommitGood ==
  ASSUME IInv, NEW u \in Upload, Commit(u)
  PROVE  IInv'
<1>1. InsertRows(u) /\ UNCHANGED <<blobs, dirs, repos, settings, history>>
  BY DEF Commit
<1>2. {} \in SUBSET uploads[u].stored /\ torn' = torn \cup {}
  BY <1>1 DEF history
<1>3. blobs' = Without(blobs, {}, NoBlob)
  BY <1>1 DEF Without, IInv, Types
<1> QED
  BY <1>1, <1>2, <1>3, InsertGood DEF history

LEMMA CommitThenFailGood ==
  ASSUME IInv, NEW u \in Upload, CommitThenFail(u)
  PROVE  IInv'
BY InsertGood DEF CommitThenFail

LEMMA RejectGood ==
  ASSUME IInv, NEW u \in Upload, Reject(u)
  PROVE  IInv'
<1> DEFINE p == uploads[u]
           S == p.stored
<1>0. /\ Types /\ Active(u) /\ p \in Request /\ S = Stored(u)
      /\ Writing(u) = {} /\ p.aborting = FALSE
  BY DEF Reject, Received, Receiving, IInv, Types, Active, Stored, Writing, Request
<1>1. Removing(u) = {}
  BY <1>0 DEF IInv, FileGood, ClaimGood, Removing, Request
<1>2. /\ blobs' = [f \in File |-> IF f \in S THEN NoBlob ELSE blobs[f]]
      /\ reserved' = [f \in File |-> IF f \in S THEN NoReservation ELSE reserved[f]]
      /\ uploads' = [uploads EXCEPT ![u] = NoUpload]
      /\ UNCHANGED <<rows, dirs, repos, settings, history>>
  BY DEF Reject, Without
<1>3. S \subseteq File
  BY <1>0 DEF Request
<1>4. Types'
  BY <1>0, <1>2, LeaveFacts DEF Types
<1>5. \A f \in S : rows'[f] = NoRow /\ blobs'[f] = NoBlob /\ reserved'[f] = NoReservation
  BY <1>0, <1>2, <1>3 DEF IInv, FileGood, ClaimGood, Holding
<1>6. \A f \in File \ S : /\ rows'[f] = rows[f] /\ blobs'[f] = blobs[f]
                          /\ reserved'[f] = reserved[f]
  BY <1>2
<1>7. {} \in SUBSET Stored(u) /\ torn' = torn \cup {} /\ orphans' = orphans
  BY <1>2 DEF history
<1> HIDE DEF S
<1> QED
  BY <1>0, <1>1, <1>2, <1>4, <1>5, <1>6, <1>7, LeaveGood

-----------------------------------------------------------------------------
(* The other writers leave the requests alone.                              *)

SameClaims == \A u \in Upload, f \in File : SameClaim(u, f)

LEMMA UploadsKept == UNCHANGED uploads => SameClaims
BY DEF SameClaims, SameClaim, Writing, Stored, Removing, Active

\* A step that removes the rows and the blobs in T, and those of no other file.
LEMMA PurgedGood ==
  ASSUME IInv, Types', NEW T \in SUBSET File, UNCHANGED memory,
         \A f \in File \ T : SameData(f) /\ (rows[f] # NoRow => rows[f].repo \in repos'),
         \A f \in T : /\ rows'[f] = NoRow /\ blobs'[f] = NoBlob
                      /\ f \notin torn'
  PROVE  IInv'
<1> SUFFICES ASSUME NEW f \in File PROVE FileGood(f)'
  BY DEF IInv
<1>0. FileGood(f) /\ \A u \in Upload : SameClaim(u, f)
  BY UploadsKept DEF IInv, memory, SameClaims
<1>1. CASE f \notin T
  BY <1>0, <1>1, Untouched
<1>2. CASE f \in T
  <2>1. \A u \in Upload : /\ Holding(u, f)' <=> Holding(u, f)
                          /\ Has(u, f)' <=> Has(u, f)
    BY <1>0 DEF SameClaim, Holding, Has
  <2>2. /\ rows'[f] = NoRow /\ blobs'[f] = NoBlob /\ f \notin torn'
        /\ reserved'[f] = reserved[f]
    BY <1>2 DEF memory
  <2>3. RowGood(f)' /\ OwnerGood(f)'
    BY <1>0, <2>1, <2>2 DEF FileGood, RowGood, OwnerGood
  <2>4. ASSUME NEW u \in Upload PROVE ClaimGood(u, f)'
    BY <1>0, <2>1, <2>2 DEF FileGood, ClaimGood, SameClaim, Has
  <2> QED
    BY <1>0, <2>1, <2>3, <2>4 DEF FileGood
<1> QED
  BY <1>1, <1>2

LEMMA DeleteFileGood ==
  ASSUME IInv, NEW f \in File, DeleteFile(f)
  PROVE  IInv'
<1> DEFINE T == {f}
<1>1. Types /\ Types' /\ T \in SUBSET File /\ UNCHANGED memory
  BY DEF DeleteFile, IInv, Types, memory
<1>2. \A g \in File \ T : SameData(g) /\ (rows[g] # NoRow => rows[g].repo \in repos')
  BY <1>1 DEF DeleteFile, SameData, IInv, FileGood, RowGood, memory, Types
<1>3. \A g \in T : rows'[g] = NoRow /\ blobs'[g] = NoBlob /\ g \notin torn'
  BY <1>1 DEF DeleteFile, Types
<1> HIDE DEF T
<1> QED
  BY <1>1, <1>2, <1>3, PurgedGood

LEMMA DeleteRepositoryGood ==
  ASSUME IInv, NEW r \in Repo, DeleteRepository(r)
  PROVE  IInv'
<1> DEFINE T == RowsIn(r) \cup BlobsIn(r)
<1>1. Types /\ Types' /\ T \in SUBSET File /\ UNCHANGED memory
  BY DEF DeleteRepository, Without, IInv, Types, memory, RowsIn, BlobsIn
<1>2. ASSUME NEW f \in T PROVE rows'[f] = NoRow /\ blobs'[f] = NoBlob /\ f \notin torn'
  <2>1. f \in File /\ RowGood(f)
    BY <1>1 DEF IInv, FileGood
  <2>2. f \in RowsIn(r) \/ (rows[f] = NoRow /\ f \in BlobsIn(r))
    BY <2>1 DEF RowsIn, BlobsIn, RowGood
  <2>3. f \in BlobsIn(r) \/ blobs[f] = NoBlob
    BY <2>1, <2>2 DEF RowsIn, BlobsIn, RowGood
  <2> QED
    BY <2>1, <2>2, <2>3 DEF DeleteRepository, Without, RowGood
<1>3. ASSUME NEW f \in File \ T
      PROVE  SameData(f) /\ (rows[f] # NoRow => rows[f].repo \in repos')
  <2>1. f \notin RowsIn(r) /\ f \notin BlobsIn(r) /\ RowGood(f)
    BY DEF IInv, FileGood
  <2>2. rows[f] # NoRow => rows[f].repo \in repos \ {r}
    BY <2>1 DEF RowGood, RowsIn
  <2> QED
    BY <2>1, <2>2 DEF DeleteRepository, Without, SameData, memory
<1> HIDE DEF T
<1> QED
  BY <1>1, <1>2, <1>3, PurgedGood

\* A step that removes the blobs in T and leaves their rows.
LEMMA TakenGood ==
  ASSUME IInv, Types', NEW T \in SUBSET File, UNCHANGED memory, repos' = repos,
         \A f \in File \ T : SameData(f),
         \A f \in T : /\ rows'[f] = rows[f] /\ blobs'[f] = NoBlob
                      /\ f \in torn' <=> rows[f] # NoRow
  PROVE  IInv'
<1> SUFFICES ASSUME NEW f \in File PROVE FileGood(f)'
  BY DEF IInv
<1>0. FileGood(f) /\ \A u \in Upload : SameClaim(u, f)
  BY UploadsKept DEF IInv, memory, SameClaims
<1>1. CASE f \notin T
  BY <1>0, <1>1, Untouched
<1>2. CASE f \in T
  <2>1. \A u \in Upload : /\ Holding(u, f)' <=> Holding(u, f)
                          /\ Has(u, f)' <=> Has(u, f)
    BY <1>0 DEF SameClaim, Holding, Has
  <2>2. /\ rows'[f] = rows[f] /\ blobs'[f] = NoBlob /\ (f \in torn' <=> rows[f] # NoRow)
        /\ reserved'[f] = reserved[f]
    BY <1>2 DEF memory
  <2>3. RowGood(f)' /\ OwnerGood(f)'
    BY <1>0, <2>1, <2>2 DEF FileGood, RowGood, OwnerGood
  <2>4. ASSUME NEW u \in Upload PROVE ClaimGood(u, f)'
    BY <1>0, <2>1, <2>2 DEF FileGood, ClaimGood, SameClaim, Has
  <2> QED
    BY <1>0, <2>1, <2>3, <2>4 DEF FileGood
<1> QED
  BY <1>1, <1>2

LEMMA DeleteFileFailsGood ==
  ASSUME IInv, NEW f \in File, DeleteFileFails(f)
  PROVE  IInv'
<1> DEFINE T == {f}
<1>1. Types /\ Types' /\ T \in SUBSET File /\ UNCHANGED memory /\ repos' = repos
  BY DEF DeleteFileFails, IInv, Types, memory
<1>2. \A g \in File \ T : SameData(g)
  BY <1>1 DEF DeleteFileFails, SameData, memory, Types
<1>3. \A g \in T : /\ rows'[g] = rows[g] /\ blobs'[g] = NoBlob
                   /\ g \in torn' <=> rows[g] # NoRow
  BY <1>1 DEF DeleteFileFails, Types
<1> HIDE DEF T
<1> QED
  BY <1>1, <1>2, <1>3, TakenGood

LEMMA DeleteRepositoryFailsGood ==
  ASSUME IInv, NEW r \in Repo, NEW gone \in SUBSET File, DeleteRepositoryFails(r, gone)
  PROVE  IInv'
<1>1. /\ blobs' = [f \in File |-> IF f \in gone THEN NoBlob ELSE blobs[f]]
      /\ torn' = torn \cup (gone \cap RowsIn(r)) /\ orphans' = orphans \ gone
      /\ gone \subseteq BlobsIn(r)
      /\ UNCHANGED <<rows, repos, memory, settings>>
  BY DEF DeleteRepositoryFails, Without
<1>2. Types /\ Types'
  <2>1. dirs' \subseteq dirs
    BY DEF DeleteRepositoryFails
  <2> QED
    BY <1>1, <2>1 DEF IInv, Types, memory
<1>3. \A f \in File \ gone : SameData(f)
  BY <1>1 DEF SameData, memory
<1>4. ASSUME NEW f \in gone
      PROVE  rows'[f] = rows[f] /\ blobs'[f] = NoBlob /\ (f \in torn' <=> rows[f] # NoRow)
  <2>1. RowGood(f) /\ f \in BlobsIn(r) /\ f \in File
    BY <1>1 DEF IInv, FileGood
  <2>2. f \in torn' <=> rows[f] # NoRow
    BY <1>1, <2>1 DEF RowGood, BlobsIn, RowsIn
  <2> QED
    BY <1>1, <2>1, <2>2
<1> QED
  BY <1>1, <1>2, <1>3, <1>4, TakenGood

LEMMA SmbImportGood ==
  ASSUME IInv, NEW f \in File, NEW r \in Repo, NEW n \in Chunk, SmbImport(f, r, n)
  PROVE  IInv'
<1> DEFINE entry == [repo |-> r, size |-> n]
<1>0. Types /\ entry \in Entry /\ r \in repos
  BY ChunkAssumption DEF IInv, ChunkAssumption, Entry, SmbImport
<1>1. /\ rows[f] = NoRow /\ blobs[f] = NoBlob /\ reserved[f] = NoReservation
      /\ f \notin torn /\ f \notin orphans
      /\ \A u \in Upload : ~Has(u, f)
  BY FreshFacts DEF SmbImport
<1>2. /\ rows' = [rows EXCEPT ![f] = entry] /\ blobs' = [blobs EXCEPT ![f] = entry]
      /\ dirs' = dirs \cup {r}
      /\ UNCHANGED <<repos, memory, settings, history>>
  BY DEF SmbImport
<1>3. entry.repo = r
  OBVIOUS
<1> HIDE DEF entry
<1>4. entry # NoRow
  BY <1>0, NullAssumption DEF NullAssumption
<1>5. Types'
  BY <1>0, <1>2 DEF Types, memory
<1>6. \A u \in Upload, g \in File : SameClaim(u, g)
  BY <1>2, UploadsKept DEF memory, SameClaims
<1>7. ASSUME NEW g \in File PROVE FileGood(g)'
  <2>1. CASE g # f
    <3>1. SameData(g)
      BY <1>0, <1>2, <2>1 DEF SameData, Types, memory, history
    <3> QED
      BY <1>2, <1>6, <3>1, Untouched DEF IInv
  <2>2. CASE g = f
    <3>1. \A u \in Upload : ~Holding(u, f)' /\ ~Has(u, f)' /\ f \notin Removing(u)'
                            /\ f \notin Writing(u)'
      BY <1>1, <1>6 DEF SameClaim, Holding, Has
    <3>2. rows'[f] = entry /\ blobs'[f] = entry /\ reserved'[f] = NoReservation
          /\ f \notin torn'
      BY <1>0, <1>1, <1>2 DEF Types, memory, history
    <3>3. RowGood(f)' /\ OwnerGood(f)'
      BY <1>0, <1>2, <1>3, <1>4, <3>2 DEF RowGood, OwnerGood
    <3>4. \A u \in Upload : ClaimGood(u, f)'
      BY <3>1 DEF ClaimGood
    <3> QED
      BY <2>2, <3>1, <3>3, <3>4 DEF FileGood
  <2> QED
    BY <2>1, <2>2
<1> QED
  BY <1>5, <1>7 DEF IInv

\* Changed limits, and steps that change nothing.
LEMMA SettingsGood ==
  ASSUME IInv, UNCHANGED <<disk, memory, history>>,
         settings' \in [global : Limits, override : [Repo -> Overrides]]
  PROVE  IInv'
<1>1. Types'
  BY DEF IInv, Types, disk, memory
<1>2. \A u \in Upload, f \in File : SameClaim(u, f)
  BY UploadsKept DEF memory, SameClaims
<1>3. \A f \in File : FileGood(f)'
  BY <1>2, Untouched DEF IInv, SameData, disk, memory, history
<1> QED
  BY <1>1, <1>3 DEF IInv

LEMMA RestartedGood ==
  ASSUME IInv, NEW bs \in [File -> Entry \cup {NoBlob}], Restarted(bs),
         dirs' \subseteq Repo,
         \A f \in File : rows[f] # NoRow => bs[f] = blobs[f]
  PROVE  IInv'
<1>1. /\ rows' = rows /\ blobs' = bs /\ repos' = repos /\ settings' = settings
      /\ reserved' = [f \in File |-> NoReservation]
      /\ uploads' = [u \in Upload |-> NoUpload]
      /\ torn' = torn
      /\ orphans' = {f \in File : rows[f] = NoRow /\ bs[f] # NoBlob}
  BY DEF Restarted
<1>2. Types'
  BY <1>1 DEF IInv, Types
<1>3. \A u \in Upload : Writing(u)' = {} /\ Stored(u)' = {} /\ Removing(u)' = {}
  BY <1>1 DEF Writing, Stored, Removing, Active
<1>4. ASSUME NEW f \in File PROVE FileGood(f)'
  <2>1. \A u \in Upload : ~Holding(u, f)' /\ ~Has(u, f)' /\ ClaimGood(u, f)'
    BY <1>3 DEF Holding, Has, ClaimGood
  <2>2. RowGood(f)'
    BY <1>1 DEF IInv, FileGood, RowGood
  <2>3. OwnerGood(f)'
    BY <1>1 DEF OwnerGood
  <2> QED
    BY <2>1, <2>2, <2>3 DEF FileGood
<1> QED
  BY <1>2, <1>4 DEF IInv

LEMMA CrashesGood ==
  ASSUME IInv, Crashes
  PROVE  IInv'
<1>0. Types
  BY DEF IInv
<1>1. CASE Crash
  BY <1>0, <1>1, RestartedGood DEF Crash, Types
<1>2. ASSUME NEW r \in Repo, NEW f \in File, NEW n \in Chunk, CrashInImport(f, r, n)
      PROVE  IInv'
  <2> DEFINE bs == [blobs EXCEPT ![f] = [repo |-> r, size |-> n]]
  <2>1. [repo |-> r, size |-> n] \in Entry /\ rows[f] = NoRow
    BY <1>2, ChunkAssumption DEF ChunkAssumption, Entry, CrashInImport, Fresh
  <2>2. bs \in [File -> Entry \cup {NoBlob}]
        /\ \A g \in File : rows[g] # NoRow => bs[g] = blobs[g]
    BY <1>0, <2>1 DEF Types
  <2>3. Restarted(bs) /\ dirs' \subseteq Repo
    BY <1>0, <1>2 DEF CrashInImport, Types
  <2> HIDE DEF bs
  <2> QED
    BY <2>2, <2>3, RestartedGood
<1> QED
  BY <1>1, <1>2 DEF Crashes

-----------------------------------------------------------------------------
LEMMA ReceiveGood ==
  ASSUME IInv, Receive
  PROVE  IInv'
<1>1. PICK u \in Upload :
        \/ \E r \in Repo : Admit(u, r)
        \/ \E f \in File : \/ StartFile(u, f) \/ FileFails(u, f) \/ FileStored(u, f)
                           \/ \E n \in Chunk : Grow(u, f, n)
        \/ RefuseFile(u) \/ Abort(u)
  BY DEF Receive
<1>2. CASE RefuseFile(u)
  BY <1>2, AbortingGood DEF RefuseFile, Receiving
<1>3. CASE Abort(u)
  BY <1>3, AbortingGood DEF Abort, Receiving
<1> QED
  BY <1>1, <1>2, <1>3, AdmitGood, StartFileGood, FileFailsGood, FileStoredGood, GrowGood

LEMMA FinishGood ==
  ASSUME IInv, Finish
  PROVE  IInv'
BY CommitGood, CommitThenFailGood, RejectGood, RemoveStoredGood, RemovedGood, AbortDoneGood DEF Finish, CleanUp

LEMMA OthersGood ==
  ASSUME IInv, Others
  PROVE  IInv'
<1>1. ASSUME NEW g \in GlobalChoice, UpdateGlobal(g) PROVE IInv'
  <2>1. settings' \in [global : Limits, override : [Repo -> Overrides]]
    BY <1>1, LimitAssumption DEF LimitAssumption, UpdateGlobal, IInv, Types
  <2> QED
    BY <1>1, <2>1, SettingsGood DEF UpdateGlobal
<1>2. ASSUME NEW r \in Repo, NEW o \in OverrideChoice, UpdateOverride(r, o) PROVE IInv'
  <2>1. settings' \in [global : Limits, override : [Repo -> Overrides]]
    BY <1>2, LimitAssumption DEF LimitAssumption, UpdateOverride, IInv, Types
  <2> QED
    BY <1>2, <2>1, SettingsGood DEF UpdateOverride
<1> QED
  BY <1>1, <1>2, DeleteFileGood, DeleteFileFailsGood, DeleteRepositoryGood,
     DeleteRepositoryFailsGood, SmbImportGood DEF Others

LEMMA NextGood == IInv /\ [Next]_vars => IInv'
<1> SUFFICES ASSUME IInv, [Next]_vars PROVE IInv'
  OBVIOUS
<1>1. CASE UNCHANGED vars
  BY <1>1, SettingsGood DEF vars, IInv, Types
<1> QED
  BY <1>1, ReceiveGood, FinishGood, OthersGood, CrashesGood DEF Next

LEMMA Invariance == Spec => []IInv
<1>1. Init => IInv
  BY InitGood
<1>2. IInv /\ [Next]_vars => IInv'
  BY NextGood
<1> QED
  BY <1>1, <1>2, PTL DEF Spec

\* Whatever requests, deletions, imports, failing statements and crashes do, in any
\* order: a row has its repository, and its blob whole or, if one of the three named
\* statements failed, none (deleteFile, deleteRepository, commitReservations).
THEOREM RowsBacked == Spec => []RowsAreBacked
<1>1. IInv => RowsAreBacked
  BY DEF IInv, FileGood, RowGood, RowsAreBacked
<1> QED
  BY <1>1, Invariance, PTL

\* No blob is forgotten except by a crash (removePath, _removeFile,
\* cleanupUploadedFiles).
THEOREM BlobsOwned == Spec => []BlobsAreOwned
<1>1. IInv => BlobsAreOwned
  <2> SUFFICES ASSUME IInv, NEW f \in File, blobs[f] # NoBlob, rows[f] = NoRow, f \notin orphans
               PROVE  \E u \in Upload : Active(u) /\ f \in Held(u) \cup uploads[u].removing
    BY DEF BlobsAreOwned
  <2>1. PICK u \in Upload : Has(u, f)
    BY DEF IInv, FileGood, OwnerGood
  <2>2. Active(u) /\ f \in Held(u) \cup uploads[u].removing
    BY <2>1 DEF Has, Holding, Writing, Stored, Removing, Held
  <2> QED
    BY <2>2
<1> QED
  BY <1>1, Invariance, PTL

\* Every reservation has exactly one request that can give it back (release, commit,
\* cleanupUploadedFiles).
THEOREM NoLeak == Spec => []NoLeakedReservation
<1>1. IInv => NoLeakedReservation
  <2> SUFFICES ASSUME IInv, NEW f \in File, reserved[f] # NoReservation
               PROVE  \E u \in Upload :
                        /\ Active(u) /\ f \in Held(u)
                        /\ \A v \in Upload \ {u} : Active(v) => f \notin Held(v)
    BY DEF NoLeakedReservation
  <2>1. PICK u \in Upload : Holding(u, f)
    BY DEF IInv, FileGood, OwnerGood
  <2>2. Active(u) /\ f \in Held(u)
    BY <2>1 DEF Holding, Writing, Stored, Held
  <2>3. ASSUME NEW v \in Upload \ {u}, Active(v) PROVE f \notin Held(v)
    <3>1. f \in Held(v) => Has(v, f)
      BY <2>3 DEF Has, Holding, Writing, Stored, Held
    <3> QED
      BY <2>1, <3>1 DEF IInv, FileGood, Has
  <2> QED
    BY <2>2, <2>3
<1> QED
  BY <1>1, Invariance, PTL

-----------------------------------------------------------------------------
(* Sums.  SumFunctionOnSet takes the elements of a finite set one by one, as  *)
(* CHOOSE gives them: what it adds up to does not depend on that order.       *)

\* Induction on finite sets: no counterexample is the least.
LEMMA NoLeastSet ==
  ASSUME NEW S, IsFiniteSet(S), NEW B \in SUBSET (SUBSET S),
         \A s \in B : \E t \in B : t \subseteq s /\ t # s
  PROVE  B = {}
<1> DEFINE R == StrictSubsetOrdering(S)
           F == FiniteSubsetsOf(S)
<1> SUFFICES ASSUME B # {} PROVE FALSE
  OBVIOUS
<1>1. IsWellFoundedOn(R, F)
  BY FS_StrictSubsetOrderingWellFounded
<1>2. B \subseteq F
  BY FS_Subset DEF FiniteSubsetsOf
<1>3. \E m \in B : \A t \in B : <<t, m>> \notin R
  <2> HIDE DEF R, F
  <2> QED BY <1>1, <1>2, WFMin
<1>4. PICK m \in B : \A t \in B : <<t, m>> \notin R
  BY <1>3
<1>5. PICK t \in B : t \subseteq m /\ t # m
  OBVIOUS
<1> QED BY <1>4, <1>5 DEF StrictSubsetOrdering

First(s) == CHOOSE x \in s : TRUE
Added(w, s, it) == IF s = {} THEN 0 ELSE w[First(s)] + it[s \ {First(s)}]
Adding(w, S, it) == it = [s \in SUBSET S |-> Added(w, s, it)]

LEMMA SumUnfolded ==
  ASSUME NEW w, NEW S
  PROVE  SumFunctionOnSet(w, S) = (CHOOSE it : Adding(w, S, it))[S]
BY Zenon DEF SumFunctionOnSet, FoldFunctionOnSet, MapThenFoldSet, First, Added, Adding

LEMMA FirstIn == ASSUME NEW s, s # {} PROVE First(s) \in s
BY DEF First

LEMMA SumsAgree ==
  ASSUME NEW w, NEW A, NEW i, Adding(w, A, i), NEW v, NEW C, NEW j, Adding(v, C, j),
         NEW S, IsFiniteSet(S), S \subseteq A, S \subseteq C, \A x \in S : w[x] = v[x]
  PROVE  i[S] = j[S]
<1> DEFINE B == {s \in SUBSET S : i[s] # j[s]}
<1>1. \A s \in SUBSET S : i[s] = Added(w, s, i) /\ j[s] = Added(v, s, j)
  <2>1. \A s \in SUBSET A : i[s] = Added(w, s, i)
    BY Zenon DEF Adding
  <2>2. \A s \in SUBSET C : j[s] = Added(v, s, j)
    BY Zenon DEF Adding
  <2> QED BY <2>1, <2>2, Zenon
<1>2. ASSUME NEW s \in B PROVE \E t \in B : t \subseteq s /\ t # s
  <2>1. s # {}
    <3>1. Added(w, {}, i) = 0 /\ Added(v, {}, j) = 0
      BY DEF Added
    <3> QED BY <1>1, <3>1, Zenon
  <2>2. First(s) \in s /\ First(s) \in S
    BY <2>1, FirstIn
  <2>3. i[s] = w[First(s)] + i[s \ {First(s)}] /\ j[s] = v[First(s)] + j[s \ {First(s)}]
    BY <1>1, <2>1, Zenon DEF Added
  <2>4. w[First(s)] = v[First(s)]
    BY <2>2
  <2>5. s \ {First(s)} \in SUBSET S /\ s \ {First(s)} \subseteq s /\ s \ {First(s)} # s
    BY <2>2
  <2>6. i[s \ {First(s)}] # j[s \ {First(s)}]
    BY <2>3, <2>4, Zenon
  <2> QED BY <2>5, <2>6
<1>3. B = {}
  <2> HIDE DEF B
  <2>1. B \in SUBSET (SUBSET S)
    BY DEF B
  <2> QED BY <1>2, <2>1, NoLeastSet
<1> QED BY <1>3

LEMMA SumExists ==
  ASSUME NEW w, NEW S, IsFiniteSet(S)
  PROVE  \E it : Adding(w, S, it)
<1> DEFINE B == {s \in SUBSET S : ~ \E it : Adding(w, s, it)}
           G(s) == CHOOSE it : Adding(w, s, it)
<1>1. ASSUME NEW s \in B, \A t \in SUBSET s : t # s => t \notin B PROVE FALSE
  <2>1. \A t \in SUBSET s : t # s => Adding(w, t, G(t))
    BY <1>1
  <2> DEFINE old(t) == IF t = {} THEN 0 ELSE w[First(t)] + G(t \ {First(t)})[t \ {First(t)}]
             it == [t \in SUBSET s |-> old(t)]
  <2> HIDE DEF G
  <2>2. ASSUME NEW t \in SUBSET s, t # s PROVE it[t] = G(t)[t]
    <3>1. it[t] = old(t)
      OBVIOUS
    <3>2. G(t)[t] = Added(w, t, G(t))
      BY <2>1, <2>2, Zenon DEF Adding
    <3>3. CASE t = {}
      BY <3>1, <3>2, <3>3 DEF Added
    <3>4. CASE t # {}
      <4> DEFINE u == t \ {First(t)}
      <4>1. u \subseteq t /\ u \subseteq s /\ u # s /\ u \subseteq S
        BY <3>4, FirstIn
      <4>2. IsFiniteSet(u)
        BY <4>1, FS_Subset
      <4>3. Adding(w, u, G(u)) /\ Adding(w, t, G(t))
        BY <2>1, <2>2, <4>1
      <4>4. G(t)[u] = G(u)[u]
        <5> HIDE DEF u
        <5> QED BY <4>1, <4>2, <4>3, SumsAgree
      <4> QED BY <3>1, <3>2, <3>4, <4>4 DEF Added
    <3> QED BY <3>3, <3>4
  <2>3. ASSUME NEW t \in SUBSET s PROVE it[t] = Added(w, t, it)
    <3>1. CASE t = {}
      BY <3>1 DEF Added
    <3>2. CASE t # {}
      <4>1. t \ {First(t)} \in SUBSET s /\ t \ {First(t)} # s
        BY <3>2, FirstIn
      <4>2. it[t \ {First(t)}] = G(t \ {First(t)})[t \ {First(t)}]
        <5> HIDE DEF it
        <5> QED BY <2>2, <4>1
      <4>3. it[t] = w[First(t)] + G(t \ {First(t)})[t \ {First(t)}]
        BY <3>2
      <4> HIDE DEF it
      <4> QED BY <3>2, <4>2, <4>3, Zenon DEF Added
    <3> QED BY <3>1, <3>2
  <2>4. it = [t \in SUBSET s |-> it[t]]
    OBVIOUS
  <2>5. Adding(w, s, it)
    <3> HIDE DEF it
    <3> QED BY <2>3, <2>4, Zenon DEF Adding
  <2> QED BY <2>5
<1>2. B = {}
  <2> HIDE DEF B
  <2>1. B \in SUBSET (SUBSET S)
    BY DEF B
  <2>2. \A s \in B : \E t \in B : t \subseteq s /\ t # s
    BY <1>1
  <2> QED BY <2>1, <2>2, NoLeastSet
<1> QED BY <1>2

LEMMA SumEmpty == ASSUME NEW w PROVE SumFunctionOnSet(w, {}) = 0
<1>1. PICK it : it = (CHOOSE i : Adding(w, {}, i))
  OBVIOUS
<1>2. Adding(w, {}, it)
  BY <1>1, SumExists, FS_EmptySet
<1>3. it[{}] = Added(w, {}, it)
  BY <1>2, Zenon DEF Adding
<1> QED BY <1>1, <1>3, SumUnfolded DEF Added

LEMMA SumFirst ==
  ASSUME NEW w, NEW S, IsFiniteSet(S), S # {}
  PROVE  SumFunctionOnSet(w, S) = w[First(S)] + SumFunctionOnSet(w, S \ {First(S)})
<1> DEFINE T == S \ {First(S)}
<1>1. PICK i : i = (CHOOSE it : Adding(w, S, it))
  OBVIOUS
<1>2. PICK j : j = (CHOOSE it : Adding(w, T, it))
  OBVIOUS
<1>3. IsFiniteSet(T) /\ T \subseteq S
  BY FS_Subset
<1>4. Adding(w, S, i) /\ Adding(w, T, j)
  BY <1>1, <1>2, <1>3, SumExists
<1>5. i[S] = w[First(S)] + i[T]
  BY <1>4, Zenon DEF Adding, Added
<1>6. i[T] = j[T]
  <2> HIDE DEF T
  <2> QED BY <1>3, <1>4, SumsAgree
<1>7. SumFunctionOnSet(w, S) = i[S] /\ SumFunctionOnSet(w, T) = j[T]
  BY <1>1, <1>2, SumUnfolded
<1> QED BY <1>5, <1>6, <1>7

LEMMA SumSame ==
  ASSUME NEW w, NEW v, NEW S, IsFiniteSet(S), \A x \in S : w[x] = v[x]
  PROVE  SumFunctionOnSet(w, S) = SumFunctionOnSet(v, S)
<1>1. PICK i : i = (CHOOSE it : Adding(w, S, it))
  OBVIOUS
<1>2. PICK j : j = (CHOOSE it : Adding(v, S, it))
  OBVIOUS
<1>3. Adding(w, S, i) /\ Adding(v, S, j)
  BY <1>1, <1>2, SumExists
<1>4. i[S] = j[S]
  BY <1>3, SumsAgree
<1> QED BY <1>1, <1>2, <1>4, SumUnfolded

LEMMA SumIsNat ==
  ASSUME NEW w, NEW S, IsFiniteSet(S), \A x \in S : w[x] \in Nat
  PROVE  SumFunctionOnSet(w, S) \in Nat
<1> DEFINE B == {s \in SUBSET S : SumFunctionOnSet(w, s) \notin Nat}
<1>1. ASSUME NEW s \in B PROVE \E t \in B : t \subseteq s /\ t # s
  <2>1. s # {} /\ IsFiniteSet(s)
    <3>1. IsFiniteSet(s)
      BY FS_Subset
    <3>2. SumFunctionOnSet(w, {}) = 0
      BY SumEmpty
    <3> QED BY <3>1, <3>2
  <2>2. First(s) \in s /\ w[First(s)] \in Nat
    BY <2>1, FirstIn
  <2>3. SumFunctionOnSet(w, s) = w[First(s)] + SumFunctionOnSet(w, s \ {First(s)})
    BY <2>1, SumFirst
  <2>4. s \ {First(s)} \in B
    BY <2>2, <2>3
  <2> QED BY <2>2, <2>4
<1>2. B = {}
  <2> HIDE DEF B
  <2>1. B \in SUBSET (SUBSET S)
    BY DEF B
  <2> QED BY <1>1, <2>1, NoLeastSet
<1> QED BY <1>2

\* Any element may be taken first.
LEMMA SumTakes ==
  ASSUME NEW w, NEW S, IsFiniteSet(S), \A x \in S : w[x] \in Nat, NEW x \in S
  PROVE  SumFunctionOnSet(w, S) = w[x] + SumFunctionOnSet(w, S \ {x})
<1> DEFINE B == {s \in SUBSET S : \E y \in s : SumFunctionOnSet(w, s)
                                               # w[y] + SumFunctionOnSet(w, s \ {y})}
<1>1. ASSUME NEW s \in B PROVE \E t \in B : t \subseteq s /\ t # s
  <2>1. PICK y \in s : SumFunctionOnSet(w, s) # w[y] + SumFunctionOnSet(w, s \ {y})
    OBVIOUS
  <2> DEFINE z == First(s)
  <2>2. IsFiniteSet(s) /\ z \in s /\ s \subseteq S
    BY <2>1, FirstIn, FS_Subset
  <2>3. SumFunctionOnSet(w, s) = w[z] + SumFunctionOnSet(w, s \ {z})
    BY <2>1, <2>2, SumFirst
  <2> HIDE DEF z
  <2>4. y # z
    BY <2>1, <2>3
  <2> DEFINE a == SumFunctionOnSet(w, s \ {z})
             b == SumFunctionOnSet(w, s \ {y})
             c == SumFunctionOnSet(w, (s \ {z}) \ {y})
  <2>5. (s \ {z}) \ {y} = (s \ {y}) \ {z}
    OBVIOUS
  <2>6. a \in Nat /\ b \in Nat /\ c \in Nat /\ w[y] \in Nat /\ w[z] \in Nat
    <3>1. IsFiniteSet(s \ {z}) /\ IsFiniteSet(s \ {y}) /\ IsFiniteSet((s \ {z}) \ {y})
      BY <2>2, FS_Subset
    <3> QED BY <2>1, <2>2, <3>1, SumIsNat
  <2>7. a # w[y] + c \/ b # w[z] + c
    <3> HIDE DEF a, b, c
    <3>1. SumFunctionOnSet(w, s) # w[y] + b /\ SumFunctionOnSet(w, s) = w[z] + a
      BY <2>1, <2>3 DEF a, b
    <3> QED BY <2>6, <3>1
  <2>8. s \ {z} \in B \/ s \ {y} \in B
    BY <2>1, <2>2, <2>4, <2>5, <2>7
  <2> QED BY <2>1, <2>2, <2>8
<1>2. B = {}
  <2> HIDE DEF B
  <2>1. B \in SUBSET (SUBSET S)
    BY DEF B
  <2> QED BY <1>1, <2>1, NoLeastSet
<1> QED BY <1>2

LEMMA SumAtMost ==
  ASSUME NEW w, NEW v, NEW S, IsFiniteSet(S),
         \A x \in S : w[x] \in Nat /\ v[x] \in Nat /\ w[x] <= v[x]
  PROVE  SumFunctionOnSet(w, S) <= SumFunctionOnSet(v, S)
<1> DEFINE B == {s \in SUBSET S : ~(SumFunctionOnSet(w, s) <= SumFunctionOnSet(v, s))}
<1>1. ASSUME NEW s \in B PROVE \E t \in B : t \subseteq s /\ t # s
  <2>1. s # {} /\ IsFiniteSet(s)
    <3>1. IsFiniteSet(s)
      BY FS_Subset
    <3>2. SumFunctionOnSet(w, {}) = 0 /\ SumFunctionOnSet(v, {}) = 0
      BY SumEmpty
    <3> QED BY <3>1, <3>2
  <2> DEFINE z == First(s)
  <2>2. z \in s /\ w[z] \in Nat /\ v[z] \in Nat /\ w[z] <= v[z]
    BY <2>1, FirstIn
  <2>3. /\ SumFunctionOnSet(w, s) = w[z] + SumFunctionOnSet(w, s \ {z})
        /\ SumFunctionOnSet(v, s) = v[z] + SumFunctionOnSet(v, s \ {z})
    BY <2>1, SumFirst
  <2>4. SumFunctionOnSet(w, s \ {z}) \in Nat /\ SumFunctionOnSet(v, s \ {z}) \in Nat
    <3>1. IsFiniteSet(s \ {z}) /\ s \ {z} \subseteq S
      BY <2>1, FS_Subset
    <3> QED BY <3>1, SumIsNat
  <2> HIDE DEF z
  <2>5. ~(SumFunctionOnSet(w, s \ {z}) <= SumFunctionOnSet(v, s \ {z}))
    BY <2>2, <2>3, <2>4
  <2> QED BY <2>2, <2>5
<1>2. B = {}
  <2> HIDE DEF B
  <2>1. B \in SUBSET (SUBSET S)
    BY DEF B
  <2> QED BY <1>1, <2>1, NoLeastSet
<1> QED BY <1>2

LEMMA SumAdds ==
  ASSUME NEW w, NEW v, NEW u, NEW S, IsFiniteSet(S),
         \A x \in S : w[x] \in Nat /\ v[x] \in Nat /\ u[x] = w[x] + v[x]
  PROVE  SumFunctionOnSet(u, S) = SumFunctionOnSet(w, S) + SumFunctionOnSet(v, S)
<1> DEFINE B == {s \in SUBSET S : SumFunctionOnSet(u, s)
                                  # SumFunctionOnSet(w, s) + SumFunctionOnSet(v, s)}
<1>1. ASSUME NEW s \in B PROVE \E t \in B : t \subseteq s /\ t # s
  <2>1. s # {} /\ IsFiniteSet(s)
    <3>1. IsFiniteSet(s)
      BY FS_Subset
    <3>2. /\ SumFunctionOnSet(w, {}) = 0 /\ SumFunctionOnSet(v, {}) = 0
          /\ SumFunctionOnSet(u, {}) = 0
      BY SumEmpty
    <3>3. SumFunctionOnSet(u, {}) = SumFunctionOnSet(w, {}) + SumFunctionOnSet(v, {})
      BY <3>2
    <3> QED BY <3>1, <3>3, Zenon
  <2> DEFINE z == First(s)
  <2>2. z \in s /\ w[z] \in Nat /\ v[z] \in Nat /\ u[z] = w[z] + v[z]
    BY <2>1, FirstIn
  <2>3. /\ SumFunctionOnSet(w, s) = w[z] + SumFunctionOnSet(w, s \ {z})
        /\ SumFunctionOnSet(v, s) = v[z] + SumFunctionOnSet(v, s \ {z})
        /\ SumFunctionOnSet(u, s) = u[z] + SumFunctionOnSet(u, s \ {z})
    BY <2>1, SumFirst
  <2>4. SumFunctionOnSet(w, s \ {z}) \in Nat /\ SumFunctionOnSet(v, s \ {z}) \in Nat
        /\ SumFunctionOnSet(u, s \ {z}) \in Nat
    <3>1. IsFiniteSet(s \ {z}) /\ s \ {z} \subseteq S
      BY <2>1, FS_Subset
    <3> QED BY <3>1, SumIsNat
  <2> HIDE DEF z
  <2>5. SumFunctionOnSet(u, s \ {z}) # SumFunctionOnSet(w, s \ {z}) + SumFunctionOnSet(v, s \ {z})
    BY <2>2, <2>3, <2>4
  <2> QED BY <2>2, <2>5
<1>2. B = {}
  <2> HIDE DEF B
  <2>1. B \in SUBSET (SUBSET S)
    BY DEF B
  <2> QED BY <1>1, <2>1, NoLeastSet
<1> QED BY <1>2

\* What counts for nothing may be left out.
LEMMA SumOfPart ==
  ASSUME NEW w, NEW S, IsFiniteSet(S), NEW T \in SUBSET S,
         \A x \in S : w[x] \in Nat, \A x \in S \ T : w[x] = 0
  PROVE  SumFunctionOnSet(w, S) = SumFunctionOnSet(w, T)
<1> DEFINE B == {s \in SUBSET S : T \subseteq s /\ SumFunctionOnSet(w, s) # SumFunctionOnSet(w, T)}
<1>1. ASSUME NEW s \in B PROVE \E t \in B : t \subseteq s /\ t # s
  <2>1. PICK x \in s : x \notin T
    OBVIOUS
  <2>2. IsFiniteSet(s) /\ w[x] = 0 /\ IsFiniteSet(s \ {x})
    BY <2>1, FS_Subset
  <2>3. SumFunctionOnSet(w, s) = w[x] + SumFunctionOnSet(w, s \ {x})
    BY <2>2, SumTakes
  <2>4. SumFunctionOnSet(w, s \ {x}) \in Nat
    BY <2>2, SumIsNat
  <2>5. SumFunctionOnSet(w, s) = SumFunctionOnSet(w, s \ {x})
    BY <2>2, <2>3, <2>4
  <2> QED BY <2>1, <2>5
<1>2. B = {}
  <2> HIDE DEF B
  <2>1. B \in SUBSET (SUBSET S)
    BY DEF B
  <2> QED BY <1>1, <2>1, NoLeastSet
<1> QED BY <1>2

LEMMA SumCounts ==
  ASSUME NEW w, NEW S, IsFiniteSet(S), \A x \in S : w[x] = 1
  PROVE  SumFunctionOnSet(w, S) = Cardinality(S)
<1> DEFINE B == {s \in SUBSET S : SumFunctionOnSet(w, s) # Cardinality(s)}
<1>1. ASSUME NEW s \in B PROVE \E t \in B : t \subseteq s /\ t # s
  <2>1. s # {} /\ IsFiniteSet(s)
    BY SumEmpty, FS_EmptySet, FS_Subset
  <2> DEFINE z == First(s)
  <2>2. z \in s /\ w[z] = 1
    BY <2>1, FirstIn
  <2>3. SumFunctionOnSet(w, s) = w[z] + SumFunctionOnSet(w, s \ {z})
    BY <2>1, SumFirst
  <2> HIDE DEF z
  <2>4. Cardinality(s \ {z}) = Cardinality(s) - 1 /\ Cardinality(s) \in Nat
    BY <2>1, <2>2, FS_RemoveElement, FS_CardinalityType
  <2>5. SumFunctionOnSet(w, s \ {z}) # Cardinality(s \ {z})
    BY <2>2, <2>3, <2>4
  <2> QED BY <2>2, <2>5
<1>2. B = {}
  <2> HIDE DEF B
  <2>1. B \in SUBSET (SUBSET S)
    BY DEF B
  <2> QED BY <1>1, <2>1, NoLeastSet
<1> QED BY <1>2

\* One weight changes.
LEMMA SumChanges ==
  ASSUME NEW w, NEW v, NEW S, IsFiniteSet(S), \A y \in S : w[y] \in Nat /\ v[y] \in Nat,
         NEW x \in S, NEW n \in Nat, v[x] = w[x] + n, \A y \in S \ {x} : v[y] = w[y]
  PROVE  SumFunctionOnSet(v, S) = SumFunctionOnSet(w, S) + n
<1>1. IsFiniteSet(S \ {x})
  BY FS_Subset
<1>2. SumFunctionOnSet(v, S \ {x}) = SumFunctionOnSet(w, S \ {x})
  BY <1>1, SumSame
<1>3. SumFunctionOnSet(v, S) = v[x] + SumFunctionOnSet(v, S \ {x})
  BY SumTakes
<1>4. SumFunctionOnSet(w, S) = w[x] + SumFunctionOnSet(w, S \ {x})
  BY SumTakes
<1>5. SumFunctionOnSet(w, S \ {x}) \in Nat
  BY <1>1, SumIsNat
<1> QED BY <1>2, <1>3, <1>4, <1>5

-----------------------------------------------------------------------------
(* What files count for, in the table and among the reservations.            *)

SizeIn(table, R) ==
  [f \in File |-> IF table[f] # NoRow /\ table[f].repo \in R THEN table[f].size ELSE 0]
CountIn(table, R) ==
  [f \in File |-> IF table[f] # NoRow /\ table[f].repo \in R THEN 1 ELSE 0]
BytesIn(held, R) ==
  [f \in File |-> IF held[f] # NoReservation /\ held[f].repo \in R THEN held[f].bytes ELSE 0]
PlacesIn(held, R) ==
  [f \in File |-> IF held[f] # NoReservation /\ held[f].repo \in R THEN 1 ELSE 0]

Sum(w) == SumFunctionOnSet(w, File)

LEMMA SumOfSelected ==
  ASSUME NEW S \in SUBSET File, NEW w, NEW v, \A f \in S : v[f] \in Nat /\ w[f] = v[f],
         \A f \in File \ S : w[f] = 0, DOMAIN v = S
  PROVE  SumFunction(v) = Sum(w) /\ Sum(w) \in Nat
<1>1. IsFiniteSet(File) /\ IsFiniteSet(S)
  BY FileAssumption, FS_Subset
<1>2. \A f \in File : w[f] \in Nat
  OBVIOUS
<1>3. SumFunction(v) = SumFunctionOnSet(v, S)
  BY DEF SumFunction
<1>4. SumFunctionOnSet(v, S) = SumFunctionOnSet(w, S)
  BY <1>1, SumSame
<1>5. SumFunctionOnSet(w, S) = Sum(w)
  BY <1>1, <1>2, SumOfPart DEF Sum
<1>6. Sum(w) \in Nat
  BY <1>1, <1>2, SumIsNat DEF Sum
<1> QED BY <1>3, <1>4, <1>5, <1>6

LEMMA CountOfSelected ==
  ASSUME NEW S \in SUBSET File, NEW w, \A f \in S : w[f] = 1, \A f \in File \ S : w[f] = 0
  PROVE  Cardinality(S) = Sum(w) /\ Sum(w) \in Nat
<1>1. IsFiniteSet(File) /\ IsFiniteSet(S)
  BY FileAssumption, FS_Subset
<1>2. \A f \in File : w[f] \in Nat
  OBVIOUS
<1>3. SumFunctionOnSet(w, S) = Cardinality(S)
  BY <1>1, SumCounts
<1>4. SumFunctionOnSet(w, S) = Sum(w)
  BY <1>1, <1>2, SumOfPart DEF Sum
<1> QED BY <1>1, <1>3, <1>4, FS_CardinalityType

LEMMA TableUsage ==
  ASSUME NEW table \in [File -> Entry \cup {NoRow}], NEW R
  PROVE  /\ RowUsage(table, R).size = Sum(SizeIn(table, R))
         /\ RowUsage(table, R).count = Sum(CountIn(table, R))
         /\ Sum(SizeIn(table, R)) \in Nat /\ Sum(CountIn(table, R)) \in Nat
         /\ RowUsage(table, R) \in Amount
<1> DEFINE S == {f \in File : table[f] # NoRow /\ table[f].repo \in R}
           v == [f \in S |-> table[f].size]
<1>1. /\ RowUsage(table, R) = [count |-> Cardinality(S), size |-> SumFunction(v)]
  BY DEF RowUsage
<1>2. \A f \in S : v[f] \in Nat /\ SizeIn(table, R)[f] = v[f] /\ CountIn(table, R)[f] = 1
  BY DEF SizeIn, CountIn, Entry
<1>3. \A f \in File \ S : SizeIn(table, R)[f] = 0 /\ CountIn(table, R)[f] = 0
  BY DEF SizeIn, CountIn
<1>4. S \in SUBSET File /\ DOMAIN v = S
  OBVIOUS
<1> HIDE DEF S, v
<1>5. SumFunction(v) = Sum(SizeIn(table, R)) /\ Sum(SizeIn(table, R)) \in Nat
  BY <1>2, <1>3, <1>4, SumOfSelected
<1>6. Cardinality(S) = Sum(CountIn(table, R)) /\ Sum(CountIn(table, R)) \in Nat
  BY <1>2, <1>3, <1>4, CountOfSelected
<1> QED BY <1>1, <1>5, <1>6 DEF Amount

LEMMA ReservedUsage ==
  ASSUME reserved \in [File -> Reservation \cup {NoReservation}], NEW R
  PROVE  /\ ActiveUsage(R).size = Sum(BytesIn(reserved, R))
         /\ ActiveUsage(R).count = Sum(PlacesIn(reserved, R))
         /\ Sum(BytesIn(reserved, R)) \in Nat /\ Sum(PlacesIn(reserved, R)) \in Nat
<1> DEFINE S == ActiveIn(R)
           v == [f \in S |-> reserved[f].bytes]
<1>1. ActiveUsage(R) = [count |-> Cardinality(S), size |-> SumFunction(v)]
  BY DEF ActiveUsage
<1>2. \A f \in S : v[f] \in Nat /\ BytesIn(reserved, R)[f] = v[f] /\ PlacesIn(reserved, R)[f] = 1
  BY DEF BytesIn, PlacesIn, Reservation, ActiveIn
<1>3. \A f \in File \ S : BytesIn(reserved, R)[f] = 0 /\ PlacesIn(reserved, R)[f] = 0
  BY DEF BytesIn, PlacesIn, ActiveIn
<1>4. S \in SUBSET File /\ DOMAIN v = S
  BY DEF ActiveIn
<1> HIDE DEF S, v
<1>5. SumFunction(v) = Sum(BytesIn(reserved, R)) /\ Sum(BytesIn(reserved, R)) \in Nat
  BY <1>2, <1>3, <1>4, SumOfSelected
<1>6. Cardinality(S) = Sum(PlacesIn(reserved, R)) /\ Sum(PlacesIn(reserved, R)) \in Nat
  BY <1>2, <1>3, <1>4, CountOfSelected
<1> QED BY <1>1, <1>5, <1>6

Tables == [File -> Entry \cup {NoRow}]

LEMMA TableShrinks ==
  ASSUME NEW t \in Tables, NEW s \in Tables, NEW R,
         \A f \in File : s[f] = t[f] \/ s[f] = NoRow
                         \/ s[f].repo \notin R
  PROVE  /\ RowUsage(s, R).size <= RowUsage(t, R).size
         /\ RowUsage(s, R).count <= RowUsage(t, R).count
<1>1. \A f \in File : /\ SizeIn(s, R)[f] \in Nat /\ SizeIn(t, R)[f] \in Nat
                      /\ SizeIn(s, R)[f] <= SizeIn(t, R)[f]
  BY DEF SizeIn, Tables, Entry
<1>2. \A f \in File : /\ CountIn(s, R)[f] \in Nat /\ CountIn(t, R)[f] \in Nat
                      /\ CountIn(s, R)[f] <= CountIn(t, R)[f]
  BY DEF CountIn
<1>3. Sum(SizeIn(s, R)) <= Sum(SizeIn(t, R))
  BY <1>1, FileAssumption, SumAtMost DEF Sum
<1>4. Sum(CountIn(s, R)) <= Sum(CountIn(t, R))
  BY <1>2, FileAssumption, SumAtMost DEF Sum
<1> QED BY <1>3, <1>4, TableUsage DEF Tables

\* Table s is t with new rows of repository r, of the sizes v.
Inserted(t, s, r, S, v) ==
  /\ DOMAIN v = S
  /\ \A f \in S : t[f] = NoRow /\ v[f] \in Nat /\ s[f] = [repo |-> r, size |-> v[f]]
  /\ \A f \in File \ S : s[f] = t[f]

\* They add what they hold, everywhere r is counted.
LEMMA TableGrows ==
  ASSUME NEW t \in Tables, NEW s \in Tables, NEW r \in Repo, NEW S \in SUBSET File, NEW v,
         Inserted(t, s, r, S, v), NEW R, r \in R
  PROVE  /\ RowUsage(s, R).size = RowUsage(t, R).size + SumFunction(v)
         /\ RowUsage(s, R).count = RowUsage(t, R).count + Cardinality(S)
         /\ SumFunction(v) \in Nat /\ Cardinality(S) \in Nat
<1> DEFINE w == [f \in File |-> IF f \in S THEN v[f] ELSE 0]
           c == [f \in File |-> IF f \in S THEN 1 ELSE 0]
<1>1. \A f \in S : /\ s[f] = [repo |-> r, size |-> v[f]] /\ v[f] \in Nat /\ t[f] = NoRow
                   /\ f \in File
  BY DEF Inserted
<1>2. \A f \in S : /\ s[f] # NoRow /\ s[f].repo = r /\ s[f].size = v[f]
                   /\ v[f] \in Nat /\ t[f] = NoRow
  <2> SUFFICES ASSUME NEW f \in S
               PROVE  s[f] # NoRow /\ s[f].repo = r /\ s[f].size = v[f]
    BY <1>1
  <2>1. s[f] = [repo |-> r, size |-> v[f]] /\ v[f] \in Nat
    BY <1>1
  <2>2. s[f] \in Entry
    BY <2>1 DEF Entry
  <2> QED BY <2>1, <2>2, NullAssumption
<1>10. \A f \in File \ S : s[f] = t[f]
  BY DEF Inserted
<1>3. \A f \in File : /\ SizeIn(t, R)[f] \in Nat /\ w[f] \in Nat
                      /\ SizeIn(s, R)[f] = SizeIn(t, R)[f] + w[f]
  <2> SUFFICES ASSUME NEW f \in File
               PROVE  /\ SizeIn(t, R)[f] \in Nat /\ w[f] \in Nat
                      /\ SizeIn(s, R)[f] = SizeIn(t, R)[f] + w[f]
    OBVIOUS
  <2>1. SizeIn(t, R)[f] \in Nat
    BY DEF SizeIn, Tables, Entry
  <2>2. CASE f \in S
    <3>1. s[f] # NoRow /\ s[f].repo = r /\ s[f].size = v[f] /\ t[f] = NoRow /\ v[f] \in Nat
      BY <1>2, <2>2
    <3>2. SizeIn(s, R)[f] = v[f] /\ SizeIn(t, R)[f] = 0 /\ w[f] = v[f] /\ v[f] \in Nat
      BY <2>2, <3>1 DEF SizeIn
    <3> QED BY <3>2
  <2>3. CASE f \notin S
    <3>1. SizeIn(s, R)[f] = SizeIn(t, R)[f] /\ w[f] = 0
      BY <1>10, <2>3 DEF SizeIn
    <3> QED BY <2>1, <3>1
  <2> QED BY <2>2, <2>3
<1>4. \A f \in File : /\ CountIn(t, R)[f] \in Nat /\ c[f] \in Nat
                      /\ CountIn(s, R)[f] = CountIn(t, R)[f] + c[f]
  <2> SUFFICES ASSUME NEW f \in File
               PROVE  /\ CountIn(t, R)[f] \in Nat /\ c[f] \in Nat
                      /\ CountIn(s, R)[f] = CountIn(t, R)[f] + c[f]
    OBVIOUS
  <2>2. CASE f \in S
    <3>1. s[f] # NoRow /\ s[f].repo = r /\ t[f] = NoRow
      BY <1>2, <2>2
    <3>2. CountIn(s, R)[f] = 1 /\ CountIn(t, R)[f] = 0 /\ c[f] = 1
      BY <2>2, <3>1 DEF CountIn
    <3> QED BY <3>2
  <2>3. CASE f \notin S
    <3>1. CountIn(s, R)[f] = CountIn(t, R)[f] /\ c[f] = 0 /\ CountIn(t, R)[f] \in {0, 1}
      BY <1>10, <2>3 DEF CountIn
    <3> QED BY <3>1
  <2> QED BY <2>2, <2>3
<1>5. /\ \A f \in S : v[f] \in Nat /\ w[f] = v[f] /\ c[f] = 1
      /\ \A f \in File \ S : w[f] = 0 /\ c[f] = 0
      /\ DOMAIN v = S
  BY <1>2 DEF Inserted
<1> HIDE DEF w, c
<1>6. SumFunction(v) = Sum(w) /\ Sum(w) \in Nat
  BY <1>5, SumOfSelected
<1>7. Cardinality(S) = Sum(c) /\ Sum(c) \in Nat
  BY <1>5, CountOfSelected
<1>8. Sum(SizeIn(s, R)) = Sum(SizeIn(t, R)) + Sum(w)
  BY <1>3, FileAssumption, SumAdds DEF Sum
<1>9. Sum(CountIn(s, R)) = Sum(CountIn(t, R)) + Sum(c)
  BY <1>4, FileAssumption, SumAdds DEF Sum
<1> QED BY <1>6, <1>7, <1>8, <1>9, TableUsage DEF Tables

-----------------------------------------------------------------------------
(* What is inserted stays within limits.                                     *)

\* QuotaRespected, of one step and one repository.
InsertionFits(r) ==
  RowUsage(rows', {r}).count > RowUsage(rows, {r}).count =>
    \E l \in InForce(r) :
      /\ Within(RowUsage(rows', {r}).size, l.repoBytes)
      /\ Within(RowUsage(rows', {r}).count, l.repoFiles)
      /\ Within(RowUsage(rows', Repo).size, l.totalBytes)
      /\ Within(RowUsage(rows', Repo).count, l.totalFiles)

LEMMA NothingInserted ==
  ASSUME NEW r \in Repo, rows \in Tables, rows' \in Tables,
         \A f \in File : rows'[f] = rows[f] \/ rows'[f] = NoRow \/ rows'[f].repo # r
  PROVE  InsertionFits(r)
<1>1. RowUsage(rows', {r}).count <= RowUsage(rows, {r}).count
  BY TableShrinks
<1>2. RowUsage(rows', {r}).count \in Nat /\ RowUsage(rows, {r}).count \in Nat
  BY TableUsage DEF Tables
<1> QED BY <1>1, <1>2 DEF InsertionFits

\* What a commit inserts, on either way out of it.
InsertedBytes(u) == SumFunction([f \in uploads[u].stored |-> reserved[f].bytes])
InsertedFiles(u) == Cardinality(uploads[u].stored)

LEMMA InsertAdds ==
  ASSUME IInv, IInv', NEW u \in Upload, InsertRows(u)
  PROVE  /\ \A R : uploads[u].repo \in R =>
              /\ RowUsage(rows', R).size = RowUsage(rows, R).size + InsertedBytes(u)
              /\ RowUsage(rows', R).count = RowUsage(rows, R).count + InsertedFiles(u)
         /\ \A f \in File : rows'[f] = rows[f] \/ rows'[f].repo = uploads[u].repo
         /\ Active(u) /\ uploads[u] \in Request
<1> DEFINE p == uploads[u].repo
           S == uploads[u].stored
           v == [f \in S |-> reserved[f].bytes]
<1>1. rows \in Tables /\ rows' \in Tables
  BY DEF IInv, Types, Tables
<1>2. /\ Active(u) /\ uploads[u] \in Request
      /\ p \in Repo /\ S \in SUBSET File /\ S = Stored(u)
      /\ rows' = [f \in File |-> IF f \in S THEN [repo |-> p, size |-> reserved[f].bytes]
                                 ELSE rows[f]]
  BY DEF InsertRows, Received, Receiving, Active, Stored, IInv, Types, Request
<1>3. \A f \in S : rows[f] = NoRow /\ reserved[f] \in Reservation
  BY <1>2 DEF IInv, FileGood, ClaimGood, Holding, Types
<1>4. \A f \in S : v[f] \in Nat /\ v[f] = reserved[f].bytes
  BY <1>3 DEF Reservation
<1>5. DOMAIN v = S
  OBVIOUS
<1>6. Inserted(rows, rows', p, S, v)
  <2>1. \A f \in File : rows'[f] = IF f \in S THEN [repo |-> p, size |-> reserved[f].bytes]
                                   ELSE rows[f]
    BY <1>2
  <2>2. \A f \in S : f \in File
    BY <1>2
  <2> QED BY <1>3, <1>4, <1>5, <2>1, <2>2 DEF Inserted
<1>7. InsertedBytes(u) = SumFunction(v) /\ InsertedFiles(u) = Cardinality(S)
  BY DEF InsertedBytes, InsertedFiles
<1>8. \A f \in File : rows'[f] = rows[f] \/ rows'[f].repo = p
  <2> SUFFICES ASSUME NEW f \in File PROVE rows'[f] = rows[f] \/ rows'[f].repo = p
    OBVIOUS
  <2>1. CASE f \in S
    <3>1. rows'[f] = [repo |-> p, size |-> v[f]]
      BY <1>6, <2>1 DEF Inserted
    <3> QED BY <3>1
  <2>2. CASE f \notin S
    BY <1>6, <2>2 DEF Inserted
  <2> QED BY <2>1, <2>2
<1>9. Active(u) /\ uploads[u] \in Request
  BY <1>2
<1> HIDE DEF v, S
<1>10. ASSUME NEW R, p \in R
       PROVE  /\ RowUsage(rows', R).size = RowUsage(rows, R).size + SumFunction(v)
              /\ RowUsage(rows', R).count = RowUsage(rows, R).count + Cardinality(S)
  <2> HIDE DEF p
  <2> QED BY <1>1, <1>2, <1>6, <1>10, TableGrows
<1> QED BY <1>7, <1>8, <1>9, <1>10

LEMMA MayInsert ==
  ASSUME NEW u \in Upload, MayCommit(u)
  PROVE  LET p == uploads[u].repo
             l == uploads[u].limits
         IN  /\ Within(RowUsage(rows, {p}).size + InsertedBytes(u), l.repoBytes)
             /\ Within(RowUsage(rows, Repo).size + InsertedBytes(u), l.totalBytes)
             /\ Within(RowUsage(rows, {p}).count + InsertedFiles(u), l.repoFiles)
             /\ Within(RowUsage(rows, Repo).count + InsertedFiles(u), l.totalFiles)
BY DEF MayCommit, Enforced, InsertedBytes, InsertedFiles

LEMMA CommitFits ==
  ASSUME IInv, IInv', NEW u \in Upload, InsertRows(u), MayCommit(u), NEW r \in Repo
  PROVE  InsertionFits(r)
<1> DEFINE p == uploads[u].repo
           l == uploads[u].limits
<1>1. rows \in Tables /\ rows' \in Tables
  BY DEF IInv, Types, Tables
<1>2. /\ \A R : p \in R =>
           /\ RowUsage(rows', R).size = RowUsage(rows, R).size + InsertedBytes(u)
           /\ RowUsage(rows', R).count = RowUsage(rows, R).count + InsertedFiles(u)
      /\ \A f \in File : rows'[f] = rows[f] \/ rows'[f].repo = p
      /\ Active(u) /\ uploads[u] \in Request /\ p \in Repo
  BY InsertAdds DEF Request
<1>3. CASE r # p
  BY <1>1, <1>2, <1>3, NothingInserted
<1>4. CASE r = p
  <2>1. l \in InForce(r)
    BY <1>2, <1>4 DEF InForce
  <2>2. /\ Within(RowUsage(rows, {r}).size + InsertedBytes(u), l.repoBytes)
        /\ Within(RowUsage(rows, Repo).size + InsertedBytes(u), l.totalBytes)
        /\ Within(RowUsage(rows, {r}).count + InsertedFiles(u), l.repoFiles)
        /\ Within(RowUsage(rows, Repo).count + InsertedFiles(u), l.totalFiles)
    BY <1>4, MayInsert
  <2> HIDE DEF l, p
  <2>3. /\ RowUsage(rows', {r}).size = RowUsage(rows, {r}).size + InsertedBytes(u)
        /\ RowUsage(rows', {r}).count = RowUsage(rows, {r}).count + InsertedFiles(u)
        /\ RowUsage(rows', Repo).size = RowUsage(rows, Repo).size + InsertedBytes(u)
        /\ RowUsage(rows', Repo).count = RowUsage(rows, Repo).count + InsertedFiles(u)
    BY <1>2, <1>4
  <2> QED BY <2>1, <2>2, <2>3 DEF InsertionFits
<1> QED BY <1>3, <1>4

LEMMA ImportFits ==
  ASSUME IInv, IInv', NEW f \in File, NEW p \in Repo, NEW n \in Chunk, SmbImport(f, p, n),
         NEW r \in Repo
  PROVE  InsertionFits(r)
<1> DEFINE S == {f}
           v == [g \in S |-> n]
           l == Effective(p)
<1>1. rows \in Tables /\ rows' \in Tables /\ n \in Nat
  BY ChunkAssumption DEF IInv, Types, Tables
<1>2. /\ Within(RowUsage(rows, {p}).size + n, l.repoBytes)
      /\ Within(RowUsage(rows, Repo).size + n, l.totalBytes)
      /\ Within(RowUsage(rows, {p}).count + 1, l.repoFiles)
      /\ Within(RowUsage(rows, Repo).count + 1, l.totalFiles)
      /\ rows' = [rows EXCEPT ![f] = [repo |-> p, size |-> n]]
      /\ rows[f] = NoRow
  BY DEF SmbImport, Fresh
<1>3. l \in InForce(p)
  BY DEF InForce
<1>4. Inserted(rows, rows', p, S, v)
  BY <1>1, <1>2 DEF Tables, Inserted
<1>5. S \in SUBSET File
  OBVIOUS
<1>6. Cardinality(S) = 1 /\ SumFunction(v) = n
  <2>1. Cardinality(S) = 1
    BY FS_Singleton
  <2>2. SumFunction(v) = SumFunctionOnSet(v, S)
    BY DEF SumFunction
  <2>3. IsFiniteSet(S) /\ S # {} /\ First(S) = f
    BY FS_Singleton, FirstIn
  <2>4. SumFunctionOnSet(v, S) = v[f] + SumFunctionOnSet(v, S \ {f})
    <3> HIDE DEF S, v
    <3> QED BY <2>3, SumFirst
  <2>5. S \ {f} = {} /\ v[f] = n
    OBVIOUS
  <2> HIDE DEF S, v
  <2>6. SumFunctionOnSet(v, {}) = 0
    BY SumEmpty
  <2> QED BY <1>1, <2>1, <2>2, <2>4, <2>5, <2>6
<1>7. CASE r # p
  <2>1. \A g \in File : rows'[g] = rows[g] \/ rows'[g].repo # r
    BY <1>1, <1>2, <1>7 DEF Tables
  <2> QED BY <1>1, <2>1, NothingInserted
<1>8. CASE r = p
  <2> HIDE DEF S, v, l
  <2>1. /\ RowUsage(rows', {r}).size = RowUsage(rows, {r}).size + n
        /\ RowUsage(rows', {r}).count = RowUsage(rows, {r}).count + 1
    <3>1. r \in {r}
      OBVIOUS
    <3> QED BY <1>1, <1>4, <1>5, <1>6, <1>8, <3>1, TableGrows
  <2>2. /\ RowUsage(rows', Repo).size = RowUsage(rows, Repo).size + n
        /\ RowUsage(rows', Repo).count = RowUsage(rows, Repo).count + 1
    BY <1>1, <1>4, <1>5, <1>6, TableGrows
  <2> QED BY <1>2, <1>3, <1>8, <2>1, <2>2 DEF InsertionFits
<1> QED BY <1>7, <1>8

LEMMA StepFits ==
  ASSUME IInv, IInv', Next, NEW r \in Repo
  PROVE  InsertionFits(r)
<1>1. rows \in Tables /\ rows' \in Tables
  BY DEF IInv, Types, Tables
<1>2. ASSUME rows' = rows PROVE InsertionFits(r)
  BY <1>1, <1>2, NothingInserted
<1>3. CASE Receive
  <2>1. \A u \in Upload :
          /\ \A p \in Repo : Admit(u, p) => rows' = rows
          /\ RefuseFile(u) \/ Abort(u) => rows' = rows
    BY DEF Admit, RefuseFile, Abort, disk
  <2>2. \A u \in Upload, f \in File : StartFile(u, f) \/ FileFails(u, f) => rows' = rows
    BY DEF StartFile, FileFails, disk
  <2>3. \A u \in Upload, f \in File :
          /\ FileStored(u, f) => rows' = rows
          /\ \A n \in Chunk : Grow(u, f, n) => rows' = rows
    BY DEF FileStored, Grow, disk
  <2> QED BY <1>2, <1>3, <2>1, <2>2, <2>3 DEF Receive
<1>4. CASE Finish
  <2>1. PICK u \in Upload : Commit(u) \/ CommitThenFail(u) \/ Reject(u) \/ CleanUp(u)
    BY <1>4 DEF Finish
  <2>2. (InsertRows(u) /\ MayCommit(u)) \/ rows' = rows
    BY <2>1 DEF Commit, CommitThenFail, Reject, CleanUp, RemoveStored, Removed, AbortDone, disk
  <2> QED BY <1>2, <2>2, CommitFits
<1>5. CASE Others
  <2>1. ASSUME NEW f \in File, DeleteFile(f) PROVE InsertionFits(r)
    <3>1. \A g \in File : rows'[g] = rows[g] \/ rows'[g] = NoRow
      BY <1>1, <2>1 DEF DeleteFile, Tables
    <3> QED BY <1>1, <3>1, NothingInserted
  <2>2. ASSUME NEW p \in Repo, DeleteRepository(p) PROVE InsertionFits(r)
    <3>1. \A g \in File : rows'[g] = rows[g] \/ rows'[g] = NoRow
      BY <2>2 DEF DeleteRepository, Without
    <3> QED BY <1>1, <3>1, NothingInserted
  <2>3. ASSUME NEW p \in Repo, NEW o \in OverrideChoice, UpdateOverride(p, o)
        PROVE  InsertionFits(r)
    BY <1>2, <2>3 DEF UpdateOverride, disk
  <2>4. ASSUME NEW g \in GlobalChoice, UpdateGlobal(g) PROVE InsertionFits(r)
    BY <1>2, <2>4 DEF UpdateGlobal, disk
  <2>5. ASSUME NEW p \in Repo, NEW f \in File, NEW n \in Chunk, SmbImport(f, p, n)
        PROVE  InsertionFits(r)
    BY <2>5, ImportFits
  <2>6. ASSUME \/ \E f \in File : DeleteFileFails(f)
               \/ \E p \in Repo, gone \in SUBSET File : DeleteRepositoryFails(p, gone)
        PROVE  InsertionFits(r)
    BY <1>2, <2>6 DEF DeleteFileFails, DeleteRepositoryFails
  <2> QED BY <1>5, <2>1, <2>2, <2>3, <2>4, <2>5, <2>6 DEF Others
<1>6. CASE Crashes
  BY <1>2, <1>6 DEF Crashes, Crash, CrashInImport, Restarted
<1> QED BY <1>3, <1>4, <1>5, <1>6 DEF Next

\* Whatever adds to a repository leaves it, and the server, within limits that are set now or were
\* when a request in flight was admitted, for every interleaving of uploads, imports and changed
\* limits (enforceUploadQuotas, enforceSmbFileQuota).
THEOREM QuotasAreRespected == Spec => QuotaRespected
<1>1. ASSUME IInv, IInv', [Next]_vars
      PROVE  [\A r \in Repo :
                RowUsage(rows', {r}).count > RowUsage(rows, {r}).count =>
                  LET mine == RowUsage(rows', {r})
                      all  == RowUsage(rows', Repo)
                  IN  \E l \in InForce(r) :
                        /\ Within(mine.size, l.repoBytes) /\ Within(mine.count, l.repoFiles)
                        /\ Within(all.size, l.totalBytes) /\ Within(all.count, l.totalFiles)]_vars
  <2>1. CASE Next
    <3>1. \A r \in Repo : InsertionFits(r)
      BY <1>1, <2>1, StepFits
    <3> QED BY <3>1 DEF InsertionFits
  <2>2. CASE UNCHANGED vars
    BY <2>2
  <2> QED BY <1>1, <2>1, <2>2
<1> QED BY <1>1, Invariance, PTL DEF Spec, QuotaRespected

-----------------------------------------------------------------------------
(* Rows and reservations together, with fixed limits and without SMB.        *)

Holdings == [File -> Reservation \cup {NoReservation}]

Load(t, h, R) == [f \in File |-> SizeIn(t, R)[f] + BytesIn(h, R)[f]]
Places(t, h, R) == [f \in File |-> CountIn(t, R)[f] + PlacesIn(h, R)[f]]

UsedSize(R) == RowUsage(Counted, R).size + ActiveUsage(R).size
UsedCount(R) == RowUsage(Counted, R).count + ActiveUsage(R).count

LEMMA CountedIs ==
  Types => /\ Counted \in Tables
           /\ \A f \in File : Counted[f] = IF f \in unread THEN NoRow ELSE rows[f]
BY DEF Types, Counted, Without, Tables

LEMMA CountedBecomes ==
  ASSUME Types'
  PROVE  /\ Counted' \in Tables
         /\ \A f \in File : Counted'[f] = IF f \in unread' THEN NoRow ELSE rows'[f]
BY DEF Types, Counted, Without, Tables

\* The coordinator was told of no more than there is.
LEMMA CountedLess ==
  Types => \A R : /\ RowUsage(Counted, R).size <= RowUsage(rows, R).size
                  /\ RowUsage(Counted, R).count <= RowUsage(rows, R).count
                  /\ RowUsage(Counted, R) \in Amount /\ RowUsage(rows, R) \in Amount
<1> SUFFICES ASSUME Types, NEW R
             PROVE  /\ RowUsage(Counted, R).size <= RowUsage(rows, R).size
                    /\ RowUsage(Counted, R).count <= RowUsage(rows, R).count
                    /\ RowUsage(Counted, R) \in Amount /\ RowUsage(rows, R) \in Amount
  OBVIOUS
<1>1. rows \in Tables /\ Counted \in Tables
  BY CountedIs DEF Types, Tables
<1>2. \A f \in File : Counted[f] = rows[f] \/ Counted[f] = NoRow \/ Counted[f].repo \notin R
  BY CountedIs
<1> QED BY <1>1, <1>2, TableShrinks, TableUsage DEF Tables

LEMMA CountedThere ==
  ASSUME Types'
  PROVE  \A R : /\ RowUsage(Counted', R).size <= RowUsage(rows', R).size
                /\ RowUsage(Counted', R).count <= RowUsage(rows', R).count
                /\ RowUsage(Counted', R) \in Amount /\ RowUsage(rows', R) \in Amount
<1>1. (Types => \A R : /\ RowUsage(Counted, R).size <= RowUsage(rows, R).size
                       /\ RowUsage(Counted, R).count <= RowUsage(rows, R).count
                       /\ RowUsage(Counted, R) \in Amount /\ RowUsage(rows, R) \in Amount)'
  BY CountedLess, PTL
<1> QED BY <1>1

CountedShrinks == \A f \in File : Counted'[f] = Counted[f] \/ Counted'[f] = NoRow

LEMMA UsedIs ==
  Types => \A R : /\ UsedSize(R) = Sum(Load(Counted, reserved, R)) /\ UsedSize(R) \in Nat
                  /\ UsedCount(R) = Sum(Places(Counted, reserved, R)) /\ UsedCount(R) \in Nat
<1> SUFFICES ASSUME Types, NEW R
             PROVE  /\ UsedSize(R) = Sum(Load(Counted, reserved, R)) /\ UsedSize(R) \in Nat
                    /\ UsedCount(R) = Sum(Places(Counted, reserved, R)) /\ UsedCount(R) \in Nat
  OBVIOUS
<1>0. Counted \in [File -> Entry \cup {NoRow}]
  BY CountedIs DEF Tables
<1>1. \A f \in File : /\ SizeIn(Counted, R)[f] \in Nat /\ BytesIn(reserved, R)[f] \in Nat
                      /\ Load(Counted, reserved, R)[f] = SizeIn(Counted, R)[f] + BytesIn(reserved, R)[f]
  BY <1>0 DEF Load, SizeIn, BytesIn, Types, Entry, Reservation
<1>2. \A f \in File : /\ CountIn(Counted, R)[f] \in Nat /\ PlacesIn(reserved, R)[f] \in Nat
                      /\ Places(Counted, reserved, R)[f]
                         = CountIn(Counted, R)[f] + PlacesIn(reserved, R)[f]
  BY DEF Places, CountIn, PlacesIn
<1>3. Sum(Load(Counted, reserved, R)) = Sum(SizeIn(Counted, R)) + Sum(BytesIn(reserved, R))
  BY <1>1, FileAssumption, SumAdds DEF Sum
<1>4. Sum(Places(Counted, reserved, R)) = Sum(CountIn(Counted, R)) + Sum(PlacesIn(reserved, R))
  BY <1>2, FileAssumption, SumAdds DEF Sum
<1>5. /\ RowUsage(Counted, R).size = Sum(SizeIn(Counted, R)) /\ Sum(SizeIn(Counted, R)) \in Nat
      /\ RowUsage(Counted, R).count = Sum(CountIn(Counted, R)) /\ Sum(CountIn(Counted, R)) \in Nat
  BY <1>0, TableUsage
<1>6. /\ ActiveUsage(R).size = Sum(BytesIn(reserved, R)) /\ Sum(BytesIn(reserved, R)) \in Nat
      /\ ActiveUsage(R).count = Sum(PlacesIn(reserved, R)) /\ Sum(PlacesIn(reserved, R)) \in Nat
  BY ReservedUsage DEF Types
<1> QED BY <1>3, <1>4, <1>5, <1>6 DEF UsedSize, UsedCount

LEMMA UsedBecomes ==
  ASSUME Types'
  PROVE  \A R : /\ UsedSize(R)' = Sum(Load(Counted', reserved', R)) /\ UsedSize(R)' \in Nat
                /\ UsedCount(R)' = Sum(Places(Counted', reserved', R)) /\ UsedCount(R)' \in Nat
<1>1. (Types => \A R : /\ UsedSize(R) = Sum(Load(Counted, reserved, R)) /\ UsedSize(R) \in Nat
                       /\ UsedCount(R) = Sum(Places(Counted, reserved, R)) /\ UsedCount(R) \in Nat)'
  BY UsedIs, PTL
<1>2. \A R : /\ Sum(Load(Counted, reserved, R))' = Sum(Load(Counted', reserved', R))
             /\ Sum(Places(Counted, reserved, R))' = Sum(Places(Counted', reserved', R))
  BY DEF Sum, Load, Places
<1> QED BY <1>1, <1>2

\* File f counts for no more after a step from t and h to s and k.
Lighter(t, h, s, k, f) ==
  \/ (s[f] = t[f] \/ s[f] = NoRow) /\ (k[f] = h[f] \/ k[f] = NoReservation)
  \/ /\ t[f] = NoRow /\ h[f] # NoReservation /\ k[f] = NoReservation
     /\ s[f] # NoRow => s[f].repo = h[f].repo /\ s[f].size = h[f].bytes

LEMMA LoadOfFile ==
  ASSUME NEW t \in Tables, NEW h \in Holdings, NEW R, NEW f \in File
  PROVE  Load(t, h, R)[f] \in Nat /\ Places(t, h, R)[f] \in Nat
<1>1. SizeIn(t, R)[f] \in Nat /\ BytesIn(h, R)[f] \in Nat
  BY DEF SizeIn, BytesIn, Tables, Holdings, Entry, Reservation
<1>2. CountIn(t, R)[f] \in Nat /\ PlacesIn(h, R)[f] \in Nat
  BY DEF CountIn, PlacesIn
<1> QED BY <1>1, <1>2 DEF Load, Places

LEMMA LighterFile ==
  ASSUME NEW t \in Tables, NEW h \in Holdings, NEW s \in Tables, NEW k \in Holdings, NEW R,
         NEW f \in File, Lighter(t, h, s, k, f)
  PROVE  Load(s, k, R)[f] <= Load(t, h, R)[f] /\ Places(s, k, R)[f] <= Places(t, h, R)[f]
<1>1. /\ SizeIn(t, R)[f] \in Nat /\ BytesIn(h, R)[f] \in Nat
      /\ SizeIn(s, R)[f] \in Nat /\ BytesIn(k, R)[f] \in Nat
  BY DEF SizeIn, BytesIn, Tables, Holdings, Entry, Reservation
<1>2. /\ CountIn(t, R)[f] \in Nat /\ PlacesIn(h, R)[f] \in Nat
      /\ CountIn(s, R)[f] \in Nat /\ PlacesIn(k, R)[f] \in Nat
  BY DEF CountIn, PlacesIn
<1>3. CASE (s[f] = t[f] \/ s[f] = NoRow) /\ (k[f] = h[f] \/ k[f] = NoReservation)
  <2>1. SizeIn(s, R)[f] <= SizeIn(t, R)[f] /\ CountIn(s, R)[f] <= CountIn(t, R)[f]
    BY <1>1, <1>2, <1>3 DEF SizeIn, CountIn
  <2>2. BytesIn(k, R)[f] <= BytesIn(h, R)[f] /\ PlacesIn(k, R)[f] <= PlacesIn(h, R)[f]
    BY <1>1, <1>2, <1>3 DEF BytesIn, PlacesIn
  <2> QED BY <1>1, <1>2, <2>1, <2>2 DEF Load, Places
<1>4. CASE /\ t[f] = NoRow /\ h[f] # NoReservation /\ k[f] = NoReservation
           /\ s[f] # NoRow => s[f].repo = h[f].repo /\ s[f].size = h[f].bytes
  <2>1. SizeIn(t, R)[f] = 0 /\ BytesIn(k, R)[f] = 0 /\ CountIn(t, R)[f] = 0
        /\ PlacesIn(k, R)[f] = 0
    BY <1>4 DEF SizeIn, CountIn, BytesIn, PlacesIn
  <2>2. SizeIn(s, R)[f] <= BytesIn(h, R)[f] /\ CountIn(s, R)[f] <= PlacesIn(h, R)[f]
    BY <1>1, <1>2, <1>4 DEF SizeIn, CountIn, BytesIn, PlacesIn
  <2> QED BY <1>1, <1>2, <2>1, <2>2 DEF Load, Places
<1> QED BY <1>3, <1>4 DEF Lighter

LEMMA LoadShrinks ==
  ASSUME NEW t \in Tables, NEW h \in Holdings, NEW s \in Tables, NEW k \in Holdings,
         \A f \in File : Lighter(t, h, s, k, f)
  PROVE  \A R : /\ Sum(Load(s, k, R)) <= Sum(Load(t, h, R))
                /\ Sum(Places(s, k, R)) <= Sum(Places(t, h, R))
<1> SUFFICES ASSUME NEW R
             PROVE  /\ Sum(Load(s, k, R)) <= Sum(Load(t, h, R))
                    /\ Sum(Places(s, k, R)) <= Sum(Places(t, h, R))
  OBVIOUS
<1>1. \A f \in File : /\ Load(s, k, R)[f] \in Nat /\ Load(t, h, R)[f] \in Nat
                      /\ Load(s, k, R)[f] <= Load(t, h, R)[f]
  BY LoadOfFile, LighterFile
<1>2. \A f \in File : /\ Places(s, k, R)[f] \in Nat /\ Places(t, h, R)[f] \in Nat
                      /\ Places(s, k, R)[f] <= Places(t, h, R)[f]
  BY LoadOfFile, LighterFile
<1> QED BY <1>1, <1>2, FileAssumption, SumAtMost DEF Sum

LimitsKept ==
  /\ \A u \in Upload : Active(u) => uploads[u].limits = Effective(uploads[u].repo)
  /\ \A f \in File : reserved[f] # NoReservation =>
       reserved[f].limits = Effective(reserved[f].repo)

\* Where a reservation is held, the cached usage covers the rows the coordinator was told of.
CacheCovers ==
  \A f \in File : reserved[f] # NoReservation =>
    /\ RowUsage(Counted, {reserved[f].repo}).size <= usage.repo[reserved[f].repo].size
    /\ RowUsage(Counted, Repo).size <= usage.total.size

UsageType == [repo : [Repo -> Amount], total : Amount]

Room(r) ==
  /\ Within(UsedSize({r}), Effective(r).repoBytes)
  /\ Within(UsedCount({r}), Effective(r).repoFiles)
  /\ Within(UsedSize(Repo), Effective(r).totalBytes)
  /\ Within(UsedCount(Repo), Effective(r).totalFiles)

\* The rows alone, of failed commits too: enforceUploadQuotas reads the tables.
RowsFit(r) ==
  /\ Within(RowUsage(rows, {r}).size, Effective(r).repoBytes)
  /\ Within(RowUsage(rows, {r}).count, Effective(r).repoFiles)
  /\ Within(RowUsage(rows, Repo).size, Effective(r).totalBytes)
  /\ Within(RowUsage(rows, Repo).count, Effective(r).totalFiles)

ReservationInv ==
  /\ usage \in UsageType /\ LimitsKept /\ CacheCovers
  /\ \A r \in Repo : Room(r) /\ RowsFit(r)

LEMMA WithinLess ==
  ASSUME NEW a \in Nat, NEW b \in Nat, a <= b, NEW l \in Nat, Within(b, l)
  PROVE  Within(a, l)
BY DEF Within

LEMMA EffectiveKept == UNCHANGED settings => \A r : Effective(r)' = Effective(r)
BY DEF Effective

LEMMA EffectiveNumbers ==
  ASSUME Types, NEW r \in Repo
  PROVE  /\ Effective(r).repoBytes \in Nat /\ Effective(r).repoFiles \in Nat
         /\ Effective(r).totalBytes \in Nat /\ Effective(r).totalFiles \in Nat
         /\ Effective(r).totalBytes = settings.global.totalBytes
         /\ Effective(r).totalFiles = settings.global.totalFiles
<1>1. Effective(r) \in Limits
  BY EffectiveType
<1>2. /\ Effective(r).totalBytes = settings.global.totalBytes
      /\ Effective(r).totalFiles = settings.global.totalFiles
  BY DEF Effective, Types, Limits
<1> QED BY <1>1, <1>2 DEF Limits

LEMMA RoomKept ==
  ASSUME Types, Types', UNCHANGED settings, \A r \in Repo : Room(r),
         \A f \in File : Lighter(Counted, reserved, Counted', reserved', f)
  PROVE  \A r \in Repo : Room(r)'
<1> SUFFICES ASSUME NEW r \in Repo PROVE Room(r)'
  OBVIOUS
<1>1. Counted \in Tables /\ Counted' \in Tables /\ reserved \in Holdings /\ reserved' \in Holdings
  BY CountedIs, CountedBecomes DEF Types, Holdings
<1>2. \A R : /\ Sum(Load(Counted', reserved', R)) <= Sum(Load(Counted, reserved, R))
             /\ Sum(Places(Counted', reserved', R)) <= Sum(Places(Counted, reserved, R))
  BY <1>1, LoadShrinks
<1>3. \A R : /\ UsedSize(R) = Sum(Load(Counted, reserved, R)) /\ UsedSize(R) \in Nat
             /\ UsedCount(R) = Sum(Places(Counted, reserved, R)) /\ UsedCount(R) \in Nat
  BY UsedIs
<1>4. \A R : /\ UsedSize(R)' = Sum(Load(Counted', reserved', R)) /\ UsedSize(R)' \in Nat
             /\ UsedCount(R)' = Sum(Places(Counted', reserved', R)) /\ UsedCount(R)' \in Nat
  BY UsedBecomes
<1>5. Effective(r)' = Effective(r)
  BY EffectiveKept
<1> QED BY <1>2, <1>3, <1>4, <1>5, EffectiveNumbers, WithinLess DEF Room

LEMMA RowsFitStay ==
  ASSUME Types, Types', UNCHANGED settings, \A r \in Repo : RowsFit(r),
         \A f \in File : rows'[f] = rows[f] \/ rows'[f] = NoRow
  PROVE  \A r \in Repo : RowsFit(r)'
<1> SUFFICES ASSUME NEW r \in Repo PROVE RowsFit(r)'
  OBVIOUS
<1>1. rows \in Tables /\ rows' \in Tables
  BY DEF Types, Tables
<1>2. \A R : /\ RowUsage(rows', R).size <= RowUsage(rows, R).size
             /\ RowUsage(rows', R).count <= RowUsage(rows, R).count
             /\ RowUsage(rows', R) \in Amount /\ RowUsage(rows, R) \in Amount
  BY <1>1, TableShrinks, TableUsage DEF Tables
<1>3. \A R : /\ RowUsage(rows', R).size \in Nat /\ RowUsage(rows, R).size \in Nat
             /\ RowUsage(rows', R).count \in Nat /\ RowUsage(rows, R).count \in Nat
  BY <1>2 DEF Amount
<1>4. Effective(r)' = Effective(r)
  BY EffectiveKept
<1> QED BY <1>2, <1>3, <1>4, EffectiveNumbers, WithinLess DEF RowsFit

LEMMA LimitsStay ==
  ASSUME LimitsKept, UNCHANGED settings,
         \A u \in Upload : Active(u)' =>
           Active(u) /\ uploads'[u].repo = uploads[u].repo /\ uploads'[u].limits = uploads[u].limits,
         \A f \in File : reserved'[f] # NoReservation =>
           /\ reserved[f] # NoReservation /\ reserved'[f].repo = reserved[f].repo
           /\ reserved'[f].limits = reserved[f].limits
  PROVE  LimitsKept'
<1>1. \A r : Effective(r)' = Effective(r)
  BY EffectiveKept
<1> QED BY <1>1 DEF LimitsKept

LEMMA CacheStays ==
  ASSUME Types, Types', usage \in UsageType, CacheCovers, UNCHANGED usage,
         CountedShrinks,
         \A f \in File : reserved'[f] # NoReservation =>
           reserved[f] # NoReservation /\ reserved'[f].repo = reserved[f].repo
  PROVE  CacheCovers'
<1>1. Counted \in Tables /\ Counted' \in Tables
  BY CountedIs, CountedBecomes
<1>2. \A R : /\ RowUsage(Counted', R).size <= RowUsage(Counted, R).size
             /\ RowUsage(Counted', R).size \in Nat /\ RowUsage(Counted, R).size \in Nat
  BY <1>1, TableShrinks, TableUsage DEF Tables, Amount, CountedShrinks
<1> SUFFICES ASSUME NEW f \in File, reserved'[f] # NoReservation
             PROVE  /\ RowUsage(Counted', {reserved'[f].repo}).size <= usage.repo[reserved'[f].repo].size
                    /\ RowUsage(Counted', Repo).size <= usage.total.size
  BY DEF CacheCovers
<1>3. reserved[f] # NoReservation /\ reserved'[f].repo = reserved[f].repo /\ reserved[f].repo \in Repo
  BY DEF Types, Reservation
<1>4. usage.repo[reserved[f].repo].size \in Nat /\ usage.total.size \in Nat
  BY <1>3 DEF UsageType, Amount
<1>5. /\ RowUsage(Counted, {reserved[f].repo}).size <= usage.repo[reserved[f].repo].size
      /\ RowUsage(Counted, Repo).size <= usage.total.size
  BY <1>3 DEF CacheCovers
<1> QED BY <1>2, <1>3, <1>4, <1>5

\* A step that takes rows the coordinator was told of, and reservations, away, and no
\* limits.
LEMMA TakesAway ==
  ASSUME Types, Types', ReservationInv, UNCHANGED <<settings, usage>>,
         \A u \in Upload : Active(u)' =>
           Active(u) /\ uploads'[u].repo = uploads[u].repo /\ uploads'[u].limits = uploads[u].limits,
         CountedShrinks, \A r \in Repo : RowsFit(r)',
         \A f \in File : reserved'[f] = reserved[f] \/ reserved'[f] = NoReservation
  PROVE  ReservationInv'
<1>1. LimitsKept'
  BY LimitsStay DEF ReservationInv
<1>2. CacheCovers'
  BY CacheStays DEF ReservationInv
<1>3. \A f \in File : Lighter(Counted, reserved, Counted', reserved', f)
  BY DEF Lighter, CountedShrinks
<1>4. \A r \in Repo : Room(r)'
  BY <1>3, RoomKept DEF ReservationInv
<1> QED BY <1>1, <1>2, <1>4 DEF ReservationInv, UsageType

\* No request in flight changes its repository or its limits, and none is new.
RequestsStay ==
  \A u \in Upload : Active(u)' =>
    Active(u) /\ uploads'[u].repo = uploads[u].repo /\ uploads'[u].limits = uploads[u].limits

LEMMA RemovalStays ==
  ASSUME Types, NEW u \in Upload,
         \/ \E f \in File : FileFails(u, f) \/ FileStored(u, f)
                            \/ RemoveStored(u, f) \/ Removed(u, f)
         \/ Abort(u) \/ AbortDone(u) \/ Reject(u)
  PROVE  RequestsStay
<1>1. Active(u) /\ uploads[u] \in Request
  BY DEF Types, Active, FileFails, FileStored, RemoveStored, Removed, Abort, AbortDone, Reject,
         Receiving, Received
<1>2. CASE \E f \in File : FileFails(u, f)
  <2>1. PICK f \in File : FileFails(u, f)
    BY <1>2
  <2> DEFINE q == [uploads[u] EXCEPT !.writing = @ \ {f}, !.aborting = TRUE]
  <2>2. uploads' = [uploads EXCEPT ![u] = q]
    BY <2>1 DEF FileFails
  <2>3. q.repo = uploads[u].repo /\ q.limits = uploads[u].limits
    BY <1>1 DEF Request
  <2> HIDE DEF q
  <2> QED BY <1>1, <2>2, <2>3 DEF RequestsStay, Active, Types
<1>3. CASE \E f \in File : FileStored(u, f)
  <2>1. PICK f \in File : FileStored(u, f)
    BY <1>3
  <2> DEFINE q == [uploads[u] EXCEPT !.writing = @ \ {f}, !.stored = @ \cup {f}]
  <2>2. uploads' = [uploads EXCEPT ![u] = q]
    BY <2>1 DEF FileStored
  <2>3. q.repo = uploads[u].repo /\ q.limits = uploads[u].limits
    BY <1>1 DEF Request
  <2> HIDE DEF q
  <2> QED BY <1>1, <2>2, <2>3 DEF RequestsStay, Active, Types
<1>4. CASE \E f \in File : RemoveStored(u, f)
  <2>1. PICK f \in File : RemoveStored(u, f)
    BY <1>4
  <2> DEFINE q == [uploads[u] EXCEPT !.stored = @ \ {f}, !.removing = {f}]
  <2>2. uploads' = [uploads EXCEPT ![u] = q]
    BY <2>1 DEF RemoveStored
  <2>3. q.repo = uploads[u].repo /\ q.limits = uploads[u].limits
    BY <1>1 DEF Request
  <2> HIDE DEF q
  <2> QED BY <1>1, <2>2, <2>3 DEF RequestsStay, Active, Types
<1>5. CASE \E f \in File : Removed(u, f)
  BY <1>1, <1>5 DEF RequestsStay, Active, Types, Request, Removed
<1>6. CASE Abort(u)
  BY <1>1, <1>6 DEF RequestsStay, Active, Types, Request, Abort
<1>7. CASE AbortDone(u) \/ Reject(u)
  BY <1>1, <1>7 DEF RequestsStay, Active, Types, Request, AbortDone, Reject
<1> QED BY <1>2, <1>3, <1>4, <1>5, <1>6, <1>7

LEMMA TableStays ==
  ASSUME Types, Types', ReservationInv, UNCHANGED <<rows, unread, settings>>
  PROVE  /\ CountedShrinks /\ \A r \in Repo : RowsFit(r)'
         /\ \A f \in File : Counted'[f] = Counted[f]
<1>1. \A f \in File : Counted'[f] = Counted[f]
  BY CountedIs, CountedBecomes
<1>2. \A r \in Repo : RowsFit(r)'
  BY RowsFitStay DEF ReservationInv
<1> QED BY <1>1, <1>2 DEF CountedShrinks

LEMMA RemovalReserves ==
  ASSUME Types, Types', ReservationInv, NEW u \in Upload,
         \/ \E f \in File : FileFails(u, f) \/ FileStored(u, f)
                            \/ RemoveStored(u, f) \/ Removed(u, f)
         \/ Abort(u) \/ AbortDone(u) \/ Reject(u)
  PROVE  ReservationInv'
<1>1. RequestsStay
  BY RemovalStays
<1>2. UNCHANGED <<rows, unread, usage, settings>>
  BY DEF FileFails, FileStored, RemoveStored, Removed, Abort, AbortDone, Reject, disk, history
<1>3. \A f \in File : reserved'[f] = reserved[f] \/ reserved'[f] = NoReservation
  BY DEF FileFails, FileStored, RemoveStored, Removed, Abort, AbortDone, Reject, Without, Types
<1>4. CountedShrinks /\ \A r \in Repo : RowsFit(r)'
  BY <1>2, TableStays
<1> QED BY <1>1, <1>2, <1>3, <1>4, TakesAway DEF RequestsStay

LEMMA StandStill ==
  ASSUME Types, Types', ReservationInv,
         UNCHANGED <<rows, unread, reserved, usage, settings, uploads>>
  PROVE  ReservationInv'
<1>1. \A u \in Upload : Active(u)' =>
        Active(u) /\ uploads'[u].repo = uploads[u].repo /\ uploads'[u].limits = uploads[u].limits
  BY DEF Active
<1>2. UNCHANGED <<settings, usage, rows, unread>>
  OBVIOUS
<1>3. CountedShrinks /\ \A r \in Repo : RowsFit(r)'
  BY <1>2, TableStays
<1> QED BY <1>1, <1>2, <1>3, TakesAway

LEMMA DeletionReserves ==
  ASSUME Types, Types', ReservationInv,
         \/ \E f \in File : DeleteFile(f) \/ DeleteFileFails(f)
         \/ \E r \in Repo : \/ DeleteRepository(r)
                            \/ \E gone \in SUBSET File : DeleteRepositoryFails(r, gone)
  PROVE  ReservationInv'
<1>1. UNCHANGED <<reserved, usage, settings, uploads>>
  BY DEF DeleteFile, DeleteFileFails, DeleteRepository, DeleteRepositoryFails, memory
<1>2. \A f \in File : /\ rows'[f] = rows[f] \/ rows'[f] = NoRow
                      /\ f \notin unread' => f \notin unread \/ rows'[f] = NoRow
  <2>1. CASE \E f \in File : DeleteFile(f)
    BY <2>1 DEF DeleteFile, Types
  <2>2. CASE \E r \in Repo : DeleteRepository(r)
    BY <2>2 DEF DeleteRepository, Without, RowsIn
  <2>3. CASE \/ \E f \in File : DeleteFileFails(f)
             \/ \E r \in Repo, gone \in SUBSET File : DeleteRepositoryFails(r, gone)
    BY <2>3 DEF DeleteFileFails, DeleteRepositoryFails
  <2> QED BY <2>1, <2>2, <2>3
<1>3. \A u \in Upload : Active(u)' =>
        Active(u) /\ uploads'[u].repo = uploads[u].repo /\ uploads'[u].limits = uploads[u].limits
  BY <1>1 DEF Active
<1>4. UNCHANGED <<settings, usage>> /\ \A f \in File : reserved'[f] = reserved[f]
  BY <1>1
<1>5. CountedShrinks
  BY <1>2, CountedIs, CountedBecomes DEF CountedShrinks
<1>6. \A r \in Repo : RowsFit(r)'
  BY <1>1, <1>2, RowsFitStay DEF ReservationInv
<1> QED BY <1>3, <1>4, <1>5, <1>6, TakesAway

LEMMA AdmitReserves ==
  ASSUME Types, Types', ReservationInv, NEW u \in Upload, NEW r \in Repo, Admit(u, r)
  PROVE  ReservationInv'
<1>1. UNCHANGED <<rows, unread, reserved, usage, settings>>
  BY DEF Admit, disk, history
<1>7. /\ \A f \in File : Counted'[f] = Counted[f]
      /\ CountedShrinks /\ \A p \in Repo : RowsFit(p)'
  BY <1>1, TableStays
<1>2. \A p : Effective(p)' = Effective(p)
  BY <1>1, EffectiveKept
<1>3. \A v \in Upload : Active(v)' => uploads'[v].limits = Effective(uploads'[v].repo)
  <2> SUFFICES ASSUME NEW v \in Upload, Active(v)'
               PROVE  uploads'[v].limits = Effective(uploads'[v].repo)
    OBVIOUS
  <2>1. CASE v = u
    <3>1. uploads'[u] = [repo |-> r, limits |-> Effective(r), writing |-> {}, stored |-> {},
                         removing |-> {}, aborting |-> FALSE]
      BY DEF Admit, Types
    <3>2. uploads'[u].repo = r /\ uploads'[u].limits = Effective(r)
      BY <3>1
    <3> QED BY <2>1, <3>2
  <2>2. CASE v # u
    BY <2>2 DEF Admit, Active, Types, ReservationInv, LimitsKept
  <2> QED BY <2>1, <2>2
<1>4. LimitsKept'
  BY <1>1, <1>2, <1>3 DEF LimitsKept, ReservationInv
<1>5. CacheCovers'
  <2>1. \A f \in File : reserved'[f] # NoReservation =>
          reserved[f] # NoReservation /\ reserved'[f].repo = reserved[f].repo
    BY <1>1
  <2> QED BY <1>1, <1>7, <2>1, CacheStays DEF ReservationInv
<1>6. \A p \in Repo : Room(p)'
  <2>1. \A f \in File : Lighter(Counted, reserved, Counted', reserved', f)
    BY <1>1, <1>7 DEF Lighter
  <2> QED BY <1>1, <2>1, RoomKept DEF ReservationInv
<1> QED BY <1>1, <1>4, <1>5, <1>6, <1>7 DEF ReservationInv, UsageType

\* A restart forgets which rows were unread: it holds no reservation, and the tables fit.
LEMMA CrashReserves ==
  ASSUME Types, Types', ReservationInv, ~SmbEnabled, Crashes
  PROVE  ReservationInv'
<1>1. /\ rows' = rows /\ UNCHANGED settings
      /\ reserved' = [f \in File |-> NoReservation]
      /\ uploads' = [u \in Upload |-> NoUpload]
      /\ usage' = [repo  |-> [r \in Repo |-> [count |-> 0, size |-> 0]],
                   total |-> [count |-> 0, size |-> 0]]
  BY DEF Crashes, Crash, CrashInImport, Restarted
<1>2. LimitsKept' /\ CacheCovers'
  BY <1>1 DEF LimitsKept, CacheCovers, Active
<1>3. \A r \in Repo : RowsFit(r)'
  BY <1>1, RowsFitStay DEF ReservationInv
<1>4. \A R : ActiveUsage(R)'.size = 0 /\ ActiveUsage(R)'.count = 0
  <2> SUFFICES ASSUME NEW R PROVE ActiveUsage(R)'.size = 0 /\ ActiveUsage(R)'.count = 0
    OBVIOUS
  <2>1. ActiveIn(R)' = {}
    BY <1>1 DEF ActiveIn
  <2>2. /\ ActiveUsage(R)'.size = SumFunction([f \in {} |-> reserved'[f].bytes])
        /\ ActiveUsage(R)'.count = Cardinality({})
    BY <2>1 DEF ActiveUsage
  <2>3. SumFunction([f \in {} |-> reserved'[f].bytes]) = 0
    BY SumEmpty DEF SumFunction
  <2> QED BY <2>2, <2>3, FS_EmptySet
<1>5. \A R : /\ UsedSize(R)' \in Nat /\ UsedSize(R)' <= RowUsage(rows', R).size
             /\ UsedCount(R)' \in Nat /\ UsedCount(R)' <= RowUsage(rows', R).count
             /\ RowUsage(rows', R).size \in Nat /\ RowUsage(rows', R).count \in Nat
  <2> SUFFICES ASSUME NEW R
               PROVE  /\ UsedSize(R)' \in Nat /\ UsedSize(R)' <= RowUsage(rows', R).size
                      /\ UsedCount(R)' \in Nat /\ UsedCount(R)' <= RowUsage(rows', R).count
                      /\ RowUsage(rows', R).size \in Nat /\ RowUsage(rows', R).count \in Nat
    OBVIOUS
  <2>1. /\ UsedSize(R)' = RowUsage(Counted', R).size + ActiveUsage(R)'.size
        /\ UsedCount(R)' = RowUsage(Counted', R).count + ActiveUsage(R)'.count
    BY DEF UsedSize, UsedCount
  <2>2. /\ RowUsage(Counted', R).size <= RowUsage(rows', R).size
        /\ RowUsage(Counted', R).count <= RowUsage(rows', R).count
        /\ RowUsage(Counted', R) \in Amount /\ RowUsage(rows', R) \in Amount
    BY CountedThere
  <2> QED BY <1>4, <2>1, <2>2 DEF Amount
<1>6. ASSUME NEW r \in Repo PROVE Room(r)'
  <2>1. /\ Within(RowUsage(rows', {r}).size, Effective(r)'.repoBytes)
        /\ Within(RowUsage(rows', {r}).count, Effective(r)'.repoFiles)
        /\ Within(RowUsage(rows', Repo).size, Effective(r)'.totalBytes)
        /\ Within(RowUsage(rows', Repo).count, Effective(r)'.totalFiles)
    BY <1>3 DEF RowsFit
  <2>2. Effective(r)' = Effective(r)
    BY <1>1, EffectiveKept
  <2>3. /\ Effective(r).repoBytes \in Nat /\ Effective(r).repoFiles \in Nat
        /\ Effective(r).totalBytes \in Nat /\ Effective(r).totalFiles \in Nat
    BY EffectiveNumbers
  <2> QED BY <1>5, <2>1, <2>2, <2>3, WithinLess DEF Room
<1>7. usage' \in UsageType
  BY <1>1 DEF UsageType, Amount
<1> QED BY <1>2, <1>3, <1>6, <1>7 DEF ReservationInv, UsageType

\* What refreshUsage reads for repository r, other repositories' rows being the same.
LEMMA RefreshCovers ==
  ASSUME Types, Types', usage \in UsageType, CacheCovers, NEW r \in Repo,
         usage' = Refreshed(rows', {r}),
         \A f \in File : \/ Counted'[f] = Counted[f] \/ Counted'[f] = NoRow
                         \/ Counted'[f].repo = r,
         \A f \in File : reserved'[f] # NoReservation =>
           \/ reserved'[f].repo = r
           \/ reserved[f] # NoReservation /\ reserved[f].repo = reserved'[f].repo
  PROVE  usage' \in UsageType /\ CacheCovers'
<1>1. Counted \in Tables /\ Counted' \in Tables
  BY CountedIs, CountedBecomes
<1>2. \A R : /\ RowUsage(rows', R) \in Amount /\ RowUsage(Counted', R) \in Amount
             /\ RowUsage(Counted, R) \in Amount
             /\ RowUsage(Counted', R).size <= RowUsage(rows', R).size
  BY CountedLess, CountedThere
<1>3. usage' = [repo  |-> [p \in Repo |-> IF p \in {r} THEN RowUsage(rows', {p}) ELSE usage.repo[p]],
                total |-> RowUsage(rows', Repo)]
  BY DEF Refreshed
<1> DEFINE per == [p \in Repo |-> IF p \in {r} THEN RowUsage(rows', {p}) ELSE usage.repo[p]]
           all == RowUsage(rows', Repo)
<1>8. usage' = [repo |-> per, total |-> all]
  BY <1>3
<1>9. per[r] = RowUsage(rows', {r}) /\ \A p \in Repo \ {r} : per[p] = usage.repo[p]
  OBVIOUS
<1>10. per \in [Repo -> Amount] /\ all \in Amount
  BY <1>2 DEF UsageType
<1> HIDE DEF per
<1>4. /\ usage'.total = RowUsage(rows', Repo)
      /\ usage'.repo[r] = RowUsage(rows', {r})
      /\ \A p \in Repo \ {r} : usage'.repo[p] = usage.repo[p]
  BY <1>8, <1>9
<1>5. usage' \in UsageType
  BY <1>8, <1>10 DEF UsageType
<1>6. ASSUME NEW f \in File, reserved'[f] # NoReservation
      PROVE  /\ RowUsage(Counted', {reserved'[f].repo}).size <= usage'.repo[reserved'[f].repo].size
             /\ RowUsage(Counted', Repo).size <= usage'.total.size
  <2>1. reserved'[f].repo \in Repo
    BY <1>6 DEF Types, Reservation
  <2>2. RowUsage(Counted', Repo).size <= usage'.total.size
    BY <1>2, <1>4 DEF Amount
  <2>3. CASE reserved'[f].repo = r
    BY <1>2, <1>4, <2>2, <2>3 DEF Amount
  <2>4. CASE reserved'[f].repo # r
    <3> DEFINE p == reserved'[f].repo
    <3>1. reserved[f] # NoReservation /\ reserved[f].repo = p
      BY <1>6, <2>4
    <3>2. RowUsage(Counted, {p}).size <= usage.repo[p].size
      BY <3>1 DEF CacheCovers
    <3>3. \A g \in File : Counted'[g] = Counted[g] \/ Counted'[g] = NoRow \/ Counted'[g].repo \notin {p}
      BY <2>4
    <3>4. RowUsage(Counted', {p}).size <= RowUsage(Counted, {p}).size
      BY <1>1, <3>3, TableShrinks
    <3>5. usage'.repo[p] = usage.repo[p] /\ usage.repo[p].size \in Nat
      BY <1>4, <2>1, <2>4 DEF UsageType, Amount
    <3> HIDE DEF p
    <3>6. RowUsage(Counted', {p}).size <= usage'.repo[p].size
      BY <1>2, <3>2, <3>4, <3>5 DEF Amount
    <3> QED BY <2>2, <3>6 DEF p
  <2> QED BY <2>3, <2>4
<1>7. CacheCovers'
  BY <1>6 DEF CacheCovers
<1> QED BY <1>5, <1>7

LEMMA RefuseReserves ==
  ASSUME Types, Types', ReservationInv, NEW u \in Upload, RefuseFile(u)
  PROVE  ReservationInv'
<1>1. /\ Active(u) /\ uploads[u] \in Request /\ uploads[u].repo \in Repo
      /\ UNCHANGED <<rows, unread, reserved, settings>>
      /\ usage' = Refreshed(rows', {uploads[u].repo})
  BY DEF RefuseFile, Receiving, Active, Types, Request, disk, history
<1>7. /\ \A f \in File : Counted'[f] = Counted[f]
      /\ CountedShrinks /\ \A p \in Repo : RowsFit(p)'
  BY <1>1, TableStays
<1>2. usage' \in UsageType /\ CacheCovers'
  BY <1>1, <1>7, RefreshCovers DEF ReservationInv
<1>3. \A v \in Upload : Active(v)' =>
        Active(v) /\ uploads'[v].repo = uploads[v].repo /\ uploads'[v].limits = uploads[v].limits
  BY <1>1 DEF RefuseFile, Active, Types, Request
<1>4. LimitsKept'
  BY <1>1, <1>3, LimitsStay DEF ReservationInv
<1>5. \A f \in File : Lighter(Counted, reserved, Counted', reserved', f)
  BY <1>1, <1>7 DEF Lighter
<1>6. \A p \in Repo : Room(p)'
  BY <1>1, <1>5, RoomKept DEF ReservationInv
<1> QED BY <1>2, <1>4, <1>6, <1>7 DEF ReservationInv, UsageType

\* What is inserted was counted in the tables, within the limits of now.
LEMMA InsertionsFit ==
  ASSUME IInv, IInv', ReservationInv, NEW u \in Upload, InsertRows(u), MayCommit(u),
         UNCHANGED settings
  PROVE  \A r \in Repo : RowsFit(r)'
<1> DEFINE p == uploads[u].repo
           l == uploads[u].limits
<1>0. Types /\ rows \in Tables /\ rows' \in Tables
  BY DEF IInv, Types, Tables
<1>1. /\ \A R : p \in R =>
           /\ RowUsage(rows', R).size = RowUsage(rows, R).size + InsertedBytes(u)
           /\ RowUsage(rows', R).count = RowUsage(rows, R).count + InsertedFiles(u)
      /\ \A f \in File : rows'[f] = rows[f] \/ rows'[f].repo = p
      /\ p \in Repo /\ l = Effective(p)
  BY InsertAdds DEF Request, ReservationInv, LimitsKept
<1>2. /\ Within(RowUsage(rows, {p}).size + InsertedBytes(u), l.repoBytes)
      /\ Within(RowUsage(rows, Repo).size + InsertedBytes(u), l.totalBytes)
      /\ Within(RowUsage(rows, {p}).count + InsertedFiles(u), l.repoFiles)
      /\ Within(RowUsage(rows, Repo).count + InsertedFiles(u), l.totalFiles)
  BY MayInsert
<1> HIDE DEF p, l
<1>3. /\ RowUsage(rows', {p}).size = RowUsage(rows, {p}).size + InsertedBytes(u)
      /\ RowUsage(rows', {p}).count = RowUsage(rows, {p}).count + InsertedFiles(u)
      /\ RowUsage(rows', Repo).size = RowUsage(rows, Repo).size + InsertedBytes(u)
      /\ RowUsage(rows', Repo).count = RowUsage(rows, Repo).count + InsertedFiles(u)
  BY <1>1
<1> SUFFICES ASSUME NEW r \in Repo PROVE RowsFit(r)'
  OBVIOUS
<1>4. /\ Effective(r)' = Effective(r)
      /\ Effective(r).totalFiles = Effective(p).totalFiles
      /\ Effective(r).totalBytes = Effective(p).totalBytes
      /\ Effective(r).repoBytes \in Nat /\ Effective(r).repoFiles \in Nat
  BY <1>0, <1>1, EffectiveKept, EffectiveNumbers
<1>5. CASE r = p
  BY <1>1, <1>2, <1>3, <1>4, <1>5 DEF RowsFit
<1>6. CASE r # p
  <2>1. \A f \in File : rows'[f] = rows[f] \/ rows'[f].repo \notin {r}
    BY <1>1, <1>6
  <2>2. /\ RowUsage(rows', {r}).size <= RowUsage(rows, {r}).size
        /\ RowUsage(rows', {r}).count <= RowUsage(rows, {r}).count
        /\ RowUsage(rows', {r}) \in Amount /\ RowUsage(rows, {r}) \in Amount
    BY <1>0, <2>1, TableShrinks, TableUsage DEF Tables
  <2>3. /\ Within(RowUsage(rows, {r}).size, Effective(r).repoBytes)
        /\ Within(RowUsage(rows, {r}).count, Effective(r).repoFiles)
    BY DEF ReservationInv, RowsFit
  <2>4. /\ Within(RowUsage(rows', {r}).size, Effective(r).repoBytes)
        /\ Within(RowUsage(rows', {r}).count, Effective(r).repoFiles)
    BY <1>4, <2>2, <2>3, WithinLess DEF Amount
  <2> QED BY <1>1, <1>2, <1>3, <1>4, <2>4 DEF RowsFit
<1> QED BY <1>5, <1>6

LEMMA CommitReserves ==
  ASSUME IInv, IInv', ReservationInv, NEW u \in Upload, Commit(u)
  PROVE  ReservationInv'
<1> DEFINE r == uploads[u].repo
           S == uploads[u].stored
<1>0. Types /\ Types'
  BY DEF IInv
<1>1. /\ Active(u) /\ uploads[u] \in Request /\ r \in Repo /\ S \in SUBSET File /\ S = Stored(u)
  BY <1>0 DEF Commit, InsertRows, Received, Receiving, Active, Types, Request, Stored
<1>2. /\ UNCHANGED <<settings, unread>> /\ usage' = Refreshed(rows', {r})
      /\ rows' = [f \in File |-> IF f \in S THEN [repo |-> r, size |-> reserved[f].bytes]
                                 ELSE rows[f]]
      /\ reserved' = [f \in File |-> IF f \in S THEN NoReservation ELSE reserved[f]]
      /\ uploads' = [uploads EXCEPT ![u] = NoUpload]
  BY DEF Commit, InsertRows, Without, history
<1>3. \A f \in S : rows[f] = NoRow /\ reserved[f] # NoReservation /\ reserved[f].repo = r
  <2> SUFFICES ASSUME NEW f \in S
               PROVE  rows[f] = NoRow /\ reserved[f] # NoReservation /\ reserved[f].repo = r
    OBVIOUS
  <2>1. f \in File /\ Holding(u, f)
    BY <1>1 DEF Holding
  <2>2. ClaimGood(u, f)
    BY <2>1 DEF IInv, FileGood
  <2> QED BY <2>1, <2>2 DEF ClaimGood
<1> HIDE DEF r, S
<1>4. \A f \in S : rows'[f].repo = r /\ rows'[f].size = reserved[f].bytes
  BY <1>1, <1>2
<1>5. \A f \in File \ S : rows'[f] = rows[f] /\ reserved'[f] = reserved[f]
  BY <1>2
<1>6. \A f \in S : reserved'[f] = NoReservation
  BY <1>1, <1>2
<1>11. /\ \A f \in File \ S : Counted'[f] = Counted[f]
       /\ \A f \in S : Counted[f] = NoRow /\ (Counted'[f] = NoRow \/ Counted'[f] = rows'[f])
  <2>1. \A f \in File : Counted[f] = IF f \in unread THEN NoRow ELSE rows[f]
    BY <1>0, CountedIs
  <2>2. \A f \in File : Counted'[f] = IF f \in unread THEN NoRow ELSE rows'[f]
    BY <1>0, <1>2, CountedBecomes
  <2> QED BY <1>1, <1>3, <1>5, <2>1, <2>2
<1>7. usage' \in UsageType /\ CacheCovers'
  <2>1. \A f \in File : \/ Counted'[f] = Counted[f] \/ Counted'[f] = NoRow
                        \/ Counted'[f].repo = r
    BY <1>4, <1>11
  <2>2. \A f \in File : reserved'[f] # NoReservation =>
          reserved[f] # NoReservation /\ reserved[f].repo = reserved'[f].repo
    BY <1>5, <1>6
  <2> QED BY <1>0, <1>1, <1>2, <2>1, <2>2, RefreshCovers DEF ReservationInv
<1>8. LimitsKept'
  <2>1. \A v \in Upload : Active(v)' =>
          Active(v) /\ uploads'[v].repo = uploads[v].repo /\ uploads'[v].limits = uploads[v].limits
    BY <1>0, <1>2 DEF Active, Types
  <2>2. \A f \in File : reserved'[f] # NoReservation => reserved'[f] = reserved[f]
    BY <1>5, <1>6
  <2> QED BY <1>2, <2>1, <2>2, LimitsStay DEF ReservationInv
<1>9. \A f \in File : Lighter(Counted, reserved, Counted', reserved', f)
  BY <1>3, <1>4, <1>5, <1>6, <1>11 DEF Lighter
<1>10. \A p \in Repo : Room(p)'
  BY <1>0, <1>2, <1>9, RoomKept DEF ReservationInv
<1>12. \A p \in Repo : RowsFit(p)'
  BY <1>2, InsertionsFit DEF Commit
<1> QED BY <1>7, <1>8, <1>10, <1>12 DEF ReservationInv, UsageType

\* The rows are there and the reservations gone, but the coordinator was told of neither.
LEMMA CommitThenFailReserves ==
  ASSUME IInv, IInv', ReservationInv, NEW u \in Upload, CommitThenFail(u)
  PROVE  ReservationInv'
<1> DEFINE S == uploads[u].stored
<1>0. Types /\ Types'
  BY DEF IInv
<1>1. /\ InsertRows(u) /\ MayCommit(u) /\ UNCHANGED <<settings, usage>>
      /\ unread' = unread \cup S
      /\ S = Stored(u) /\ S \subseteq File
      /\ \A f \in File \ S : rows'[f] = rows[f]
      /\ \A f \in File : reserved'[f] = reserved[f] \/ reserved'[f] = NoReservation
      /\ uploads' = [uploads EXCEPT ![u] = NoUpload]
  <2>1. Active(u) /\ S = Stored(u) /\ S \subseteq File
    BY <1>0 DEF CommitThenFail, InsertRows, Received, Receiving, Active, Stored, Types, Request
  <2>2. /\ InsertRows(u) /\ MayCommit(u) /\ UNCHANGED <<settings, usage>>
        /\ unread' = unread \cup S
    BY DEF CommitThenFail
  <2>3. /\ \A f \in File \ S : rows'[f] = rows[f]
        /\ \A f \in File : reserved'[f] = reserved[f] \/ reserved'[f] = NoReservation
        /\ uploads' = [uploads EXCEPT ![u] = NoUpload]
    BY <2>2 DEF InsertRows, Without
  <2> QED BY <2>1, <2>2, <2>3
<1>2. \A f \in S : rows[f] = NoRow
  <2> SUFFICES ASSUME NEW f \in S PROVE rows[f] = NoRow
    OBVIOUS
  <2>1. f \in File /\ Holding(u, f)
    BY <1>1 DEF Holding
  <2>2. ClaimGood(u, f)
    BY <2>1 DEF IInv, FileGood
  <2> QED BY <2>1, <2>2 DEF ClaimGood
<1> HIDE DEF S
<1>3. CountedShrinks
  BY <1>0, <1>1, <1>2, CountedIs, CountedBecomes DEF CountedShrinks
<1>4. \A r \in Repo : RowsFit(r)'
  BY <1>1, InsertionsFit
<1>5. \A v \in Upload : Active(v)' =>
        Active(v) /\ uploads'[v].repo = uploads[v].repo /\ uploads'[v].limits = uploads[v].limits
  BY <1>0, <1>1 DEF Active, Types
<1> QED BY <1>0, <1>1, <1>3, <1>4, <1>5, TakesAway

\* The reservation of one file grows by n bytes, and by c places if it is new.
Reserves(f, r, k, n, c) ==
  /\ UNCHANGED <<rows, unread>>
  /\ f \in File /\ r \in Repo /\ k \in Reservation /\ n \in Nat /\ c \in Nat
  /\ reserved' = [reserved EXCEPT ![f] = k] /\ k.repo = r
  /\ \/ reserved[f] = NoReservation /\ k.bytes = n /\ c = 1
     \/ /\ reserved[f] # NoReservation /\ reserved[f].repo = r
        /\ k.bytes = reserved[f].bytes + n /\ c = 0

LEMMA OneGrows ==
  ASSUME Types, Types', NEW f, NEW r, NEW k, NEW n, NEW c, Reserves(f, r, k, n, c), NEW R
  PROVE  /\ r \in R => UsedSize(R)' = UsedSize(R) + n /\ UsedCount(R)' = UsedCount(R) + c
         /\ r \notin R => UsedSize(R)' = UsedSize(R) /\ UsedCount(R)' = UsedCount(R)
         /\ UsedSize(R) \in Nat /\ UsedCount(R) \in Nat
<1> UNCHANGED <<rows, unread>> /\ f \in File /\ r \in Repo /\ k \in Reservation /\ n \in Nat /\ c \in Nat
  BY DEF Reserves
<1> reserved' = [reserved EXCEPT ![f] = k] /\ k.repo = r
  BY DEF Reserves
<1> \/ reserved[f] = NoReservation /\ k.bytes = n /\ c = 1
    \/ /\ reserved[f] # NoReservation /\ reserved[f].repo = r
       /\ k.bytes = reserved[f].bytes + n /\ c = 0
  BY DEF Reserves
<1> DEFINE w == Load(Counted, reserved, R)
           v == Load(Counted, reserved', R)
           x == Places(Counted, reserved, R)
           y == Places(Counted, reserved', R)
<1>1. Counted \in Tables /\ reserved \in Holdings /\ reserved' \in Holdings
      /\ k # NoReservation
  BY CountedIs, NullAssumption DEF Types, Holdings, NullAssumption
<1>2. \A g \in File : /\ w[g] \in Nat /\ v[g] \in Nat /\ x[g] \in Nat /\ y[g] \in Nat
  BY <1>1, LoadOfFile
<1>3. reserved'[f] = k /\ \A g \in File \ {f} : reserved'[g] = reserved[g]
  BY <1>1 DEF Holdings
<1>4. \A g \in File \ {f} : v[g] = w[g] /\ y[g] = x[g]
  BY <1>3 DEF Load, Places, BytesIn, PlacesIn
<1>5. r \in R => v[f] = w[f] + n /\ y[f] = x[f] + c
  <2> SUFFICES ASSUME r \in R PROVE v[f] = w[f] + n /\ y[f] = x[f] + c
    OBVIOUS
  <2>1. BytesIn(reserved', R)[f] = k.bytes /\ PlacesIn(reserved', R)[f] = 1
    BY <1>1, <1>3 DEF BytesIn, PlacesIn
  <2>2. k.bytes \in Nat /\ SizeIn(Counted, R)[f] \in Nat /\ CountIn(Counted, R)[f] \in Nat
    BY <1>1 DEF Reservation, SizeIn, CountIn, Tables, Entry
  <2>3. CASE reserved[f] = NoReservation /\ k.bytes = n /\ c = 1
    <3>1. BytesIn(reserved, R)[f] = 0 /\ PlacesIn(reserved, R)[f] = 0
      BY <2>3 DEF BytesIn, PlacesIn
    <3> QED BY <2>1, <2>2, <2>3, <3>1 DEF Load, Places
  <2>4. CASE /\ reserved[f] # NoReservation /\ reserved[f].repo = r
             /\ k.bytes = reserved[f].bytes + n /\ c = 0
    <3>1. BytesIn(reserved, R)[f] = reserved[f].bytes /\ PlacesIn(reserved, R)[f] = 1
      BY <2>4 DEF BytesIn, PlacesIn
    <3>2. reserved[f].bytes \in Nat
      BY <1>1, <2>4 DEF Holdings, Reservation
    <3> QED BY <2>1, <2>2, <2>4, <3>1, <3>2 DEF Load, Places
  <2> QED BY <2>3, <2>4
<1>6. r \notin R => v[f] = w[f] + 0 /\ y[f] = x[f] + 0
  <2> SUFFICES ASSUME r \notin R PROVE v[f] = w[f] + 0 /\ y[f] = x[f] + 0
    OBVIOUS
  <2>1. BytesIn(reserved', R)[f] = 0 /\ PlacesIn(reserved', R)[f] = 0
    BY <1>3 DEF BytesIn, PlacesIn
  <2>2. BytesIn(reserved, R)[f] = 0 /\ PlacesIn(reserved, R)[f] = 0
    BY DEF BytesIn, PlacesIn
  <2>3. SizeIn(Counted, R)[f] \in Nat /\ CountIn(Counted, R)[f] \in Nat
    BY <1>1 DEF SizeIn, CountIn, Tables, Entry
  <2> QED BY <2>1, <2>2, <2>3 DEF Load, Places
<1>7. UsedSize(R) = Sum(w) /\ UsedCount(R) = Sum(x) /\ UsedSize(R) \in Nat /\ UsedCount(R) \in Nat
  BY UsedIs
<1>8. UsedSize(R)' = Sum(v) /\ UsedCount(R)' = Sum(y)
  <2>1. /\ UsedSize(R)' = Sum(Load(Counted', reserved', R))
        /\ UsedCount(R)' = Sum(Places(Counted', reserved', R))
    BY UsedBecomes
  <2>2. Counted' = Counted
    BY DEF Counted, Without
  <2> QED BY <2>1, <2>2
<1> HIDE DEF w, v, x, y
<1>9. CASE r \in R
  <2>1. Sum(v) = Sum(w) + n
    BY <1>2, <1>4, <1>5, <1>9, FileAssumption, SumChanges DEF Sum
  <2>2. Sum(y) = Sum(x) + c
    BY <1>2, <1>4, <1>5, <1>9, FileAssumption, SumChanges DEF Sum
  <2> QED BY <1>7, <1>8, <1>9, <2>1, <2>2
<1>10. CASE r \notin R
  <2>1. Sum(v) = Sum(w) + 0
    BY <1>2, <1>4, <1>6, <1>10, FileAssumption, SumChanges DEF Sum
  <2>2. Sum(y) = Sum(x) + 0
    BY <1>2, <1>4, <1>6, <1>10, FileAssumption, SumChanges DEF Sum
  <2> QED BY <1>7, <1>8, <1>10, <2>1, <2>2
<1> QED BY <1>9, <1>10

LEMMA StartFileReserves ==
  ASSUME Types, Types', ReservationInv, NEW u \in Upload, NEW f \in File, StartFile(u, f)
  PROVE  ReservationInv'
<1> DEFINE r == uploads[u].repo
           l == uploads[u].limits
           k == [repo |-> r, bytes |-> 0, limits |-> l]
<1>1. Active(u) /\ uploads[u] \in Request /\ r \in Repo /\ l \in Limits
  BY DEF StartFile, Receiving, Active, Types, Request
<1>2. /\ reserved[f] = NoReservation /\ CanReserve(r, l)
      /\ UNCHANGED <<rows, unread, settings>> /\ usage' = Refreshed(rows', {r})
      /\ reserved' = [reserved EXCEPT ![f] = k]
      /\ uploads' = [uploads EXCEPT ![u].writing = @ \cup {f}]
  BY DEF StartFile, Fresh, history
<1>3. k \in Reservation /\ k.repo = r /\ k.bytes = 0 /\ k.limits = l
  BY <1>1 DEF Reservation
<1>4. l = Effective(r)
  BY <1>1 DEF ReservationInv, LimitsKept
<1>5. \A v \in Upload : Active(v)' =>
        Active(v) /\ uploads'[v].repo = uploads[v].repo /\ uploads'[v].limits = uploads[v].limits
  BY <1>1, <1>2 DEF Active, Types, Request
<1> HIDE DEF r, l, k
<1>6. reserved'[f] = k /\ \A g \in File \ {f} : reserved'[g] = reserved[g]
  BY <1>2 DEF Types
<1>11. /\ \A g \in File : Counted'[g] = Counted[g]
       /\ CountedShrinks /\ \A p \in Repo : RowsFit(p)'
  BY <1>2, TableStays
<1>7. usage' \in UsageType /\ CacheCovers'
  <2>1. \A g \in File : reserved'[g] # NoReservation =>
          \/ reserved'[g].repo = r
          \/ reserved[g] # NoReservation /\ reserved[g].repo = reserved'[g].repo
    BY <1>3, <1>6
  <2> QED BY <1>1, <1>2, <1>11, <2>1, RefreshCovers DEF ReservationInv
<1>8. \A p : Effective(p)' = Effective(p)
  BY <1>2, EffectiveKept
<1>9. LimitsKept'
  BY <1>3, <1>4, <1>5, <1>6, <1>8 DEF LimitsKept, ReservationInv
<1>10. ASSUME NEW p \in Repo PROVE Room(p)'
  <2>1. \A R : /\ r \in R => UsedSize(R)' = UsedSize(R) + 0 /\ UsedCount(R)' = UsedCount(R) + 1
               /\ r \notin R => UsedSize(R)' = UsedSize(R) /\ UsedCount(R)' = UsedCount(R)
               /\ UsedSize(R) \in Nat /\ UsedCount(R) \in Nat
    <3>1. Reserves(f, r, k, 0, 1)
      BY <1>1, <1>2, <1>3 DEF Reserves
    <3> QED BY <3>1, OneGrows
  <2>2. /\ Within(UsedCount({r}) + 1, l.repoFiles)
        /\ Within(UsedCount(Repo) + 1, l.totalFiles)
    <3> DEFINE fresh == Refreshed(rows, {r})
    <3>1. fresh.repo[r] = RowUsage(rows, {r}) /\ fresh.total = RowUsage(rows, Repo)
      BY <1>1 DEF Refreshed
    <3>2. /\ Within(fresh.repo[r].count + ActiveUsage({r}).count + 1, l.repoFiles)
          /\ Within(fresh.total.count + ActiveUsage(Repo).count + 1, l.totalFiles)
      BY <1>2 DEF CanReserve
    <3> HIDE DEF fresh
    <3>3. l.repoFiles \in Nat /\ l.totalFiles \in Nat
      BY <1>1, <1>4, EffectiveNumbers
    <3>4. \A R : /\ RowUsage(Counted, R).count \in Nat /\ RowUsage(rows, R).count \in Nat
                 /\ RowUsage(Counted, R).count <= RowUsage(rows, R).count
                 /\ ActiveUsage(R).count \in Nat
      BY CountedLess, ReservedUsage DEF Types, Amount
    <3>5. \A R : /\ UsedCount(R) + 1 \in Nat
                 /\ RowUsage(rows, R).count + ActiveUsage(R).count + 1 \in Nat
                 /\ UsedCount(R) + 1 <= RowUsage(rows, R).count + ActiveUsage(R).count + 1
      BY <3>4 DEF UsedCount
    <3>6. /\ Within(RowUsage(rows, {r}).count + ActiveUsage({r}).count + 1, l.repoFiles)
          /\ Within(RowUsage(rows, Repo).count + ActiveUsage(Repo).count + 1, l.totalFiles)
      BY <3>1, <3>2
    <3> QED BY <3>3, <3>5, <3>6, WithinLess
  <2>3. /\ Effective(p).totalFiles = Effective(r).totalFiles
        /\ Effective(p).totalBytes = Effective(r).totalBytes
    BY <1>1, EffectiveNumbers
  <2>4. Room(p) /\ Room(r)
    BY <1>1 DEF ReservationInv
  <2>5. /\ UsedSize(Repo)' = UsedSize(Repo) /\ UsedCount(Repo)' = UsedCount(Repo) + 1
        /\ UsedSize({p})' = UsedSize({p})
    BY <1>1, <2>1
  <2>6. IF p = r THEN UsedCount({p})' = UsedCount({r}) + 1
        ELSE UsedCount({p})' = UsedCount({p})
    BY <2>1
  <2> QED BY <1>4, <1>8, <2>2, <2>3, <2>4, <2>5, <2>6 DEF Room
<1> QED BY <1>7, <1>9, <1>10, <1>11 DEF ReservationInv, UsageType

\* The cache grow reads is at least what the coordinator was told of, so the check it makes implies the one it
\* would make after refreshUsage.
LEMMA GrowReserves ==
  ASSUME IInv, IInv', ReservationInv, NEW u \in Upload, NEW f \in File, NEW n \in Chunk,
         Grow(u, f, n)
  PROVE  ReservationInv'
<1> DEFINE h == reserved[f]
           r == h.repo
           k == [h EXCEPT !.bytes = @ + n]
<1>0. Types /\ Types' /\ n \in Nat
  BY ChunkAssumption DEF IInv
<1>1. Active(u) /\ f \in uploads[u].writing /\ CanGrow(f, n)
      /\ UNCHANGED <<rows, unread, usage, settings, uploads>> /\ reserved' = [reserved EXCEPT ![f] = k]
  BY DEF Grow, history
<1>10. CountedShrinks /\ \A p \in Repo : RowsFit(p)'
  BY <1>0, <1>1, TableStays
<1>2. h # NoReservation /\ h \in Reservation /\ r \in Repo
  <2>1. ClaimGood(u, f) /\ Holding(u, f)
    BY <1>1 DEF IInv, FileGood, Holding, Writing
  <2>2. h # NoReservation
    BY <2>1 DEF ClaimGood
  <2> QED BY <1>0, <2>2 DEF Types, Reservation
<1>3. /\ k \in Reservation /\ k.repo = r /\ k.limits = h.limits /\ k.bytes = h.bytes + n
      /\ h.bytes \in Nat
  BY <1>0, <1>2 DEF Reservation
<1>4. h.limits = Effective(r)
  BY <1>2 DEF ReservationInv, LimitsKept
<1> HIDE DEF k
<1>5. reserved'[f] = k /\ \A g \in File \ {f} : reserved'[g] = reserved[g]
  BY <1>0, <1>1 DEF Types
<1>6. \A p : Effective(p)' = Effective(p)
  BY <1>1, EffectiveKept
<1>7. LimitsKept'
  BY <1>1, <1>2, <1>3, <1>4, <1>5, <1>6 DEF LimitsKept, ReservationInv, Active
<1>8. CacheCovers'
  <2>1. \A g \in File : reserved'[g] # NoReservation =>
          reserved[g] # NoReservation /\ reserved'[g].repo = reserved[g].repo
    BY <1>2, <1>3, <1>5
  <2> QED BY <1>0, <1>1, <1>10, <2>1, CacheStays DEF ReservationInv
<1>9. ASSUME NEW p \in Repo PROVE Room(p)'
  <2>1. \A R : /\ r \in R => UsedSize(R)' = UsedSize(R) + n /\ UsedCount(R)' = UsedCount(R) + 0
               /\ r \notin R => UsedSize(R)' = UsedSize(R) /\ UsedCount(R)' = UsedCount(R)
               /\ UsedSize(R) \in Nat /\ UsedCount(R) \in Nat
    <3>1. Reserves(f, r, k, n, 0)
      BY <1>0, <1>1, <1>2, <1>3 DEF Reserves
    <3> QED BY <1>0, <3>1, OneGrows
  <2>2. /\ Within(usage.repo[r].size + ActiveUsage({r}).size + n, Effective(r).repoBytes)
        /\ Within(usage.total.size + ActiveUsage(Repo).size + n, Effective(r).totalBytes)
    BY <1>1, <1>4 DEF CanGrow
  <2>3. /\ RowUsage(Counted, {r}).size <= usage.repo[r].size
        /\ RowUsage(Counted, Repo).size <= usage.total.size
    BY <1>2 DEF ReservationInv, CacheCovers
  <2>4. /\ RowUsage(Counted, {r}).size \in Nat /\ RowUsage(Counted, Repo).size \in Nat
        /\ ActiveUsage({r}).size \in Nat /\ ActiveUsage(Repo).size \in Nat
        /\ usage.repo[r].size \in Nat /\ usage.total.size \in Nat
    <3>1. /\ Counted \in [File -> Entry \cup {NoRow}]
          /\ reserved \in [File -> Reservation \cup {NoReservation}]
      BY <1>0, CountedIs DEF Types, Tables
    <3>2. \A R : RowUsage(Counted, R).size \in Nat /\ ActiveUsage(R).size \in Nat
      BY <3>1, TableUsage, ReservedUsage
    <3>3. usage.repo[r].size \in Nat /\ usage.total.size \in Nat
      BY <1>2 DEF ReservationInv, UsageType, Amount
    <3> QED BY <3>2, <3>3
  <2>5. /\ Within(UsedSize({r}) + n, Effective(r).repoBytes)
        /\ Within(UsedSize(Repo) + n, Effective(r).totalBytes)
    <3> HIDE DEF r
    <3>1. Effective(r).repoBytes \in Nat /\ Effective(r).totalBytes \in Nat
      BY <1>0, <1>2, EffectiveNumbers
    <3>2. /\ UsedSize({r}) + n \in Nat
          /\ usage.repo[r].size + ActiveUsage({r}).size + n \in Nat
          /\ UsedSize({r}) + n <= usage.repo[r].size + ActiveUsage({r}).size + n
      BY <1>0, <2>3, <2>4 DEF UsedSize
    <3>3. /\ UsedSize(Repo) + n \in Nat
          /\ usage.total.size + ActiveUsage(Repo).size + n \in Nat
          /\ UsedSize(Repo) + n <= usage.total.size + ActiveUsage(Repo).size + n
      BY <1>0, <2>3, <2>4 DEF UsedSize
    <3>4. Within(UsedSize({r}) + n, Effective(r).repoBytes)
      BY <2>2, <3>1, <3>2, WithinLess
    <3>5. Within(UsedSize(Repo) + n, Effective(r).totalBytes)
      BY <2>2, <3>1, <3>3, WithinLess
    <3> QED BY <3>4, <3>5
  <2>6. /\ Effective(p).totalFiles = Effective(r).totalFiles
        /\ Effective(p).totalBytes = Effective(r).totalBytes
    BY <1>0, <1>2, EffectiveNumbers
  <2>7. Room(p) /\ Room(r)
    BY <1>2 DEF ReservationInv
  <2>8. /\ UsedSize(Repo)' = UsedSize(Repo) + n /\ UsedCount(Repo)' = UsedCount(Repo)
        /\ UsedCount({p})' = UsedCount({p})
    BY <1>2, <2>1
  <2>9. IF p = r THEN UsedSize({p})' = UsedSize({r}) + n ELSE UsedSize({p})' = UsedSize({p})
    BY <2>1
  <2> QED BY <1>6, <2>5, <2>6, <2>7, <2>8, <2>9 DEF Room
<1> QED BY <1>1, <1>7, <1>8, <1>9, <1>10 DEF ReservationInv, UsageType

LEMMA NothingReserved ==
  ASSUME Init
  PROVE  ReservationInv
<1>1. Types
  BY InitGood DEF IInv
<1>2. /\ rows = [f \in File |-> NoRow] /\ reserved = [f \in File |-> NoReservation]
      /\ uploads = [u \in Upload |-> NoUpload]
      /\ usage = [repo  |-> [r \in Repo |-> [count |-> 0, size |-> 0]],
                  total |-> [count |-> 0, size |-> 0]]
  BY DEF Init
<1>3. LimitsKept /\ CacheCovers
  BY <1>2 DEF LimitsKept, CacheCovers, Active
<1>4. usage \in UsageType
  BY <1>2 DEF UsageType, Amount
<1>7. Counted = [f \in File |-> NoRow]
  BY <1>2 DEF Counted, Without
<1>9. \A R : RowUsage(Counted, R).size = 0 /\ RowUsage(Counted, R).count = 0
  <2> SUFFICES ASSUME NEW R PROVE RowUsage(Counted, R).size = 0 /\ RowUsage(Counted, R).count = 0
    OBVIOUS
  <2>1. {f \in File : Counted[f] # NoRow /\ Counted[f].repo \in R} = {}
    BY <1>7
  <2>2. /\ RowUsage(Counted, R).size = SumFunction([f \in {} |-> Counted[f].size])
        /\ RowUsage(Counted, R).count = Cardinality({})
    BY <2>1 DEF RowUsage
  <2>3. SumFunction([f \in {} |-> Counted[f].size]) = 0
    BY SumEmpty DEF SumFunction
  <2> QED BY <2>2, <2>3, FS_EmptySet
<1>5. \A R : UsedSize(R) = 0 /\ UsedCount(R) = 0
  <2> SUFFICES ASSUME NEW R PROVE UsedSize(R) = 0 /\ UsedCount(R) = 0
    OBVIOUS
  <2>1. ActiveIn(R) = {}
    BY <1>2 DEF ActiveIn
  <2>2. /\ ActiveUsage(R).size = SumFunction([f \in {} |-> reserved[f].bytes])
        /\ ActiveUsage(R).count = Cardinality({})
    BY <2>1 DEF ActiveUsage
  <2>3. SumFunction([f \in {} |-> reserved[f].bytes]) = 0
    BY SumEmpty DEF SumFunction
  <2> QED BY <1>9, <2>2, <2>3, FS_EmptySet DEF UsedSize, UsedCount
<1>6. ASSUME NEW r \in Repo PROVE Room(r)
  <2>1. /\ Effective(r).repoBytes \in Nat /\ Effective(r).repoFiles \in Nat
        /\ Effective(r).totalBytes \in Nat /\ Effective(r).totalFiles \in Nat
    BY <1>1, EffectiveNumbers
  <2> QED BY <1>5, <2>1 DEF Room, Within
<1>8. ASSUME NEW r \in Repo PROVE RowsFit(r)
  <2>1. /\ Effective(r).repoBytes \in Nat /\ Effective(r).repoFiles \in Nat
        /\ Effective(r).totalBytes \in Nat /\ Effective(r).totalFiles \in Nat
    BY <1>1, EffectiveNumbers
  <2>2. rows = Counted
    BY <1>2, <1>7
  <2>3. \A R : RowUsage(rows, R).size = 0 /\ RowUsage(rows, R).count = 0
    BY <1>9, <2>2
  <2> QED BY <2>1, <2>3 DEF RowsFit, Within
<1> QED BY <1>3, <1>4, <1>6, <1>8 DEF ReservationInv

LEMMA StepReserves ==
  ASSUME IInv, IInv', ReservationInv, ~SmbEnabled, UNCHANGED settings, [Next]_vars
  PROVE  ReservationInv'
<1>0. Types /\ Types'
  BY DEF IInv
<1>1. CASE Receive
  <2>1. PICK u \in Upload :
          \/ \E r \in Repo : Admit(u, r)
          \/ \E f \in File : \/ StartFile(u, f) \/ FileFails(u, f) \/ FileStored(u, f)
                             \/ \E n \in Chunk : Grow(u, f, n)
          \/ RefuseFile(u) \/ Abort(u)
    BY <1>1 DEF Receive
  <2>2. CASE \E r \in Repo : Admit(u, r)
    BY <1>0, <2>2, AdmitReserves
  <2>3. CASE \E f \in File : StartFile(u, f)
    BY <1>0, <2>3, StartFileReserves
  <2>4. CASE (\E f \in File : FileFails(u, f) \/ FileStored(u, f)) \/ Abort(u)
    BY <1>0, <2>4, RemovalReserves
  <2>5. CASE \E f \in File, n \in Chunk : Grow(u, f, n)
    BY <2>5, GrowReserves
  <2>6. CASE RefuseFile(u)
    BY <1>0, <2>6, RefuseReserves
  <2> QED BY <2>1, <2>2, <2>3, <2>4, <2>5, <2>6
<1>2. CASE Finish
  <2>1. PICK u \in Upload : Commit(u) \/ CommitThenFail(u) \/ Reject(u) \/ CleanUp(u)
    BY <1>2 DEF Finish
  <2>2. CASE Commit(u) \/ CommitThenFail(u)
    BY <2>2, CommitReserves, CommitThenFailReserves
  <2>3. CASE Reject(u) \/ CleanUp(u)
    <3>1. (\E f \in File : RemoveStored(u, f) \/ Removed(u, f)) \/ AbortDone(u) \/ Reject(u)
      BY <2>3 DEF CleanUp
    <3> QED BY <1>0, <3>1, RemovalReserves
  <2> QED BY <2>1, <2>2, <2>3
<1>3. CASE Others
  <2>1. CASE \/ \E f \in File : DeleteFile(f) \/ DeleteFileFails(f)
             \/ \E r \in Repo : \/ DeleteRepository(r)
                                \/ \E gone \in SUBSET File : DeleteRepositoryFails(r, gone)
    BY <1>0, <2>1, DeletionReserves
  <2>2. CASE \/ \E r \in Repo, o \in OverrideChoice : UpdateOverride(r, o)
             \/ \E g \in GlobalChoice : UpdateGlobal(g)
    <3>1. UNCHANGED <<rows, unread, reserved, usage, settings, uploads>>
      BY <2>2 DEF UpdateOverride, UpdateGlobal, disk, memory, history
    <3> QED BY <1>0, <3>1, StandStill
  <2> QED BY <1>3, <2>1, <2>2 DEF Others, SmbImport
<1>4. CASE Crashes
  BY <1>0, <1>4, CrashReserves
<1>5. CASE UNCHANGED vars
  <2>1. UNCHANGED <<rows, unread, reserved, usage, settings, uploads>>
    BY <1>5 DEF vars, disk, memory, history
  <2> QED BY <1>0, <2>1, StandStill
<1> QED BY <1>1, <1>2, <1>3, <1>4, <1>5 DEF Next

LEMMA ReservationsSuffice == ReservationInv => NoOversubscription
BY DEF ReservationInv, Room, RowsFit, UsedSize, UsedCount, NoOversubscription

\* Without SMB and while the limits stay what they are, the rows never exceed a quota, those of
\* commits whose refreshUsage failed included, and but for these neither do rows and reservations
\* together, although grow reads a cache that may be stale: what an upload was allowed to write, its
\* handler can commit (reserve, grow, commit of the quota coordinator, enforceUploadQuotas).
THEOREM ReservationsSufficeAlone ==
  ~SmbEnabled /\ Spec /\ [][UNCHANGED settings]_vars => []NoOversubscription
<1>1. ASSUME IInv, IInv', ReservationInv, ~SmbEnabled, [Next]_vars, [UNCHANGED settings]_vars
      PROVE  ReservationInv'
  <2>1. UNCHANGED settings
    BY <1>1 DEF vars
  <2> QED BY <1>1, <2>1, StepReserves
<1>2. CASE SmbEnabled
  BY <1>2
<1>3. CASE ~SmbEnabled
  <2>1. ASSUME IInv, IInv', ReservationInv, [Next]_vars, [UNCHANGED settings]_vars
        PROVE  ReservationInv'
    BY <1>1, <1>3, <2>1
  <2> QED BY <2>1, Invariance, NothingReserved, ReservationsSuffice, PTL DEF Spec
<1> QED BY <1>2, <1>3

\* Only an administrator or an owner changes limits.
LEMMA LimitChanges ==
  ASSUME Next
  PROVE  \/ UNCHANGED settings
         \/ \E g \in GlobalChoice : settings' = [settings EXCEPT !.global = g]
         \/ \E r \in Repo, o \in OverrideChoice : settings' = [settings EXCEPT !.override[r] = o]
<1>1. Receive => UNCHANGED settings
  <2>1. \A u \in Upload :
          /\ \A p \in Repo : Admit(u, p) => UNCHANGED settings
          /\ RefuseFile(u) \/ Abort(u) => UNCHANGED settings
    BY DEF Admit, RefuseFile, Abort
  <2>2. \A u \in Upload, f \in File : StartFile(u, f) \/ FileFails(u, f) => UNCHANGED settings
    BY DEF StartFile, FileFails
  <2>3. \A u \in Upload, f \in File :
          /\ FileStored(u, f) => UNCHANGED settings
          /\ \A n \in Chunk : Grow(u, f, n) => UNCHANGED settings
    BY DEF FileStored, Grow
  <2> QED BY <2>1, <2>2, <2>3 DEF Receive
<1>2. Finish => UNCHANGED settings
  BY DEF Finish, Commit, CommitThenFail, Reject, CleanUp, RemoveStored, Removed, AbortDone
<1>3. Crashes => UNCHANGED settings
  BY DEF Crashes, Crash, CrashInImport, Restarted
<1>4. CASE Others
  BY <1>4 DEF Others, DeleteFile, DeleteFileFails, DeleteRepository, DeleteRepositoryFails,
              SmbImport, UpdateGlobal, UpdateOverride
<1> QED BY <1>1, <1>2, <1>3, <1>4 DEF Next
=============================================================================
