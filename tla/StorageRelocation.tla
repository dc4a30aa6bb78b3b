-------------------------- MODULE StorageRelocation --------------------------
(* Moving the directory that holds every stored file (storage-settings.js,   *)
(* POST /admin/storage) while uploads are in flight.  A change of the root   *)
(* either moves the data (rename, or copy, verify and remove across devices) *)
(* and then saves the setting, or adopts data an operator put there.  The    *)
(* handler is synchronous: no other request runs inside it, but writes that  *)
(* already left for the thread pool land at any time, a call may fail and    *)
(* the process may stop between two steps.                                   *)
EXTENDS Naturals, Functions

CONSTANTS StorageRoot, Blob, \* storage roots; stored files, their names never reused
          EnvRoot,           \* the root UPLOAD_ROOT names
          Device,            \* root -> the file system it lives on
          Nowhere,           \* no root, no directory
          MaxStorageEvents   \* bound on failures, crashes and operator copies

ASSUME StorageAssumption ==
  /\ EnvRoot \in StorageRoot /\ Nowhere \notin StorageRoot /\ DOMAIN Device = StorageRoot
  /\ Nowhere \notin [Blob -> {"none", "part", "whole"}]
  /\ MaxStorageEvents \in Nat

VARIABLES disk,       \* root -> Nowhere (no such directory) or what it holds of each blob
          stored,     \* the saved setting, Nowhere before the first
          uploadRoot, \* config.uploadRoot, the root in use
          rows,       \* the rows of table files
          uploads,    \* uploads in flight: path, the root their inode is in, all written
          shared,     \* some repository is published over SMB
          move,       \* the relocation that runs: step, from, to
          torn,       \* history: data moved, setting not
          strayed,    \* history: rows recorded or adopted without data in the root in use
          mishaps     \* failures, crashes and copies so far

storageVars == <<disk, stored, uploadRoot, rows, uploads, shared, move, torn, strayed, mishaps>>

Empty == [b \in Blob |-> "none"]
Exists(r) == disk[r] # Nowhere
Has(r, b) == Exists(r) /\ disk[r][b] # "none"
Whole(r, b) == Exists(r) /\ disk[r][b] = "whole"
Ensured(r) == IF Exists(r) THEN disk[r] ELSE Empty
Saved == IF stored = Nowhere THEN EnvRoot ELSE stored
InFlight == DOMAIN uploads
Idle == move.at = "idle"
NoMove == [at |-> "idle", from |-> uploadRoot, to |-> uploadRoot]
Mishap == mishaps < MaxStorageEvents /\ mishaps' = mishaps + 1

StorageInit ==
  /\ disk = [r \in StorageRoot |-> IF r = EnvRoot THEN Empty ELSE Nowhere]
  /\ stored = Nowhere /\ uploadRoot = EnvRoot
  /\ rows = {} /\ uploads = <<>> /\ shared = FALSE
  /\ move = [at |-> "idle", from |-> EnvRoot, to |-> EnvRoot]
  /\ torn = FALSE /\ strayed = {} /\ mishaps = 0

-----------------------------------------------------------------------------
(* Files.                                                                    *)

BeginUpload(b) ==
  /\ Idle /\ b \notin rows \cup InFlight /\ \A r \in StorageRoot : ~Has(r, b)
  /\ disk' = [disk EXCEPT ![uploadRoot] = [Ensured(uploadRoot) EXCEPT ![b] = "part"]]
  /\ uploads' = [c \in InFlight \cup {b} |->
       IF c = b THEN [path |-> uploadRoot, inode |-> uploadRoot, done |-> FALSE] ELSE uploads[c]]
  /\ UNCHANGED <<stored, uploadRoot, rows, shared, move, torn, strayed, mishaps>>

\* The last write goes to the open inode, wherever it is by now.
WriteEnds(b) ==
  /\ b \in InFlight /\ ~uploads[b].done
  /\ uploads' = [uploads EXCEPT ![b].done = TRUE]
  /\ disk' = IF uploads[b].inode # Nowhere /\ Has(uploads[b].inode, b)
             THEN [disk EXCEPT ![uploads[b].inode][b] = "whole"] ELSE disk
  /\ UNCHANGED <<stored, uploadRoot, rows, shared, move, torn, strayed, mishaps>>

Unlinked(b) ==
  IF Has(uploads[b].path, b) THEN [disk EXCEPT ![uploads[b].path][b] = "none"] ELSE disk

\* The row is inserted when chmod finds a file at the upload's path.
CommitUpload(b) ==
  /\ Idle /\ b \in InFlight /\ uploads[b].done
  /\ IF Has(uploads[b].path, b)
     THEN /\ rows' = rows \cup {b}
          /\ strayed' = IF Whole(uploadRoot, b) THEN strayed ELSE strayed \cup {b}
     ELSE UNCHANGED <<rows, strayed>>
  /\ uploads' = Restrict(uploads, InFlight \ {b})
  /\ UNCHANGED <<disk, stored, uploadRoot, shared, move, torn, mishaps>>

AbortUpload(b) ==
  /\ Idle /\ b \in InFlight
  /\ disk' = Unlinked(b)
  /\ uploads' = Restrict(uploads, InFlight \ {b})
  /\ UNCHANGED <<stored, uploadRoot, rows, shared, move, torn, strayed, mishaps>>

\* A root or a repository directory that is missing makes the request fail.
DeleteStored(b) ==
  /\ Idle /\ b \in rows /\ Exists(uploadRoot)
  /\ disk' = [disk EXCEPT ![uploadRoot][b] = "none"]
  /\ rows' = rows \ {b} /\ strayed' = strayed \ {b}
  /\ UNCHANGED <<stored, uploadRoot, uploads, shared, move, torn, mishaps>>

ChangeSharing ==
  /\ Idle /\ shared' = ~shared
  /\ UNCHANGED <<disk, stored, uploadRoot, rows, uploads, move, torn, strayed, mishaps>>

-----------------------------------------------------------------------------
(* Changing the root.                                                        *)

\* Every row can be opened there; what it finds is not compared.
Verified(r) == \A b \in rows : Has(r, b)

\* No file beside the rows' own; a root that does not exist passes.
ExactTree(r) == \A b \in Blob : Has(r, b) => b \in rows

SameRoot ==
  /\ Idle
  /\ disk' = [disk EXCEPT ![uploadRoot] = Ensured(uploadRoot)]
  /\ IF Verified(uploadRoot)
     THEN /\ stored' = uploadRoot
          /\ torn' = (torn /\ \E b \in rows \ strayed : ~Whole(uploadRoot, b))
     ELSE UNCHANGED <<stored, torn>>
  /\ UNCHANGED <<uploadRoot, rows, uploads, shared, move, strayed, mishaps>>

UseExisting(to) ==
  /\ Idle /\ ~shared /\ to # uploadRoot /\ ExactTree(to)
  /\ disk' = [disk EXCEPT ![to] = Ensured(to)]
  /\ IF Verified(to)
     THEN /\ stored' = to /\ uploadRoot' = to /\ torn' = FALSE
          /\ strayed' = {b \in rows : Has(to, b) /\ ~Whole(to, b)}
          /\ move' = [at |-> "idle", from |-> to, to |-> to]
     ELSE UNCHANGED <<stored, uploadRoot, torn, strayed, move>>
  /\ UNCHANGED <<rows, uploads, shared, mishaps>>

MayMoveTo(to) ==
  /\ Idle /\ ~shared /\ to # uploadRoot /\ \A b \in Blob : ~Has(to, b)

\* Open inodes follow the renamed directory.
RenameRoot(to) ==
  /\ MayMoveTo(to) /\ Device[uploadRoot] = Device[to]
  /\ disk' = [disk EXCEPT ![to] = Ensured(uploadRoot), ![uploadRoot] = Nowhere]
  /\ uploads' = [b \in InFlight |->
       IF uploads[b].inode = uploadRoot THEN [uploads[b] EXCEPT !.inode = to] ELSE uploads[b]]
  /\ move' = [at |-> "renamed", from |-> uploadRoot, to |-> to]
  /\ UNCHANGED <<stored, uploadRoot, rows, shared, torn, strayed, mishaps>>

\* The directory has moved when its chmod fails: the error path puts nothing back.
ChmodFails ==
  /\ Mishap /\ move.at = "renamed"
  /\ move' = NoMove /\ torn' = TRUE
  /\ UNCHANGED <<disk, stored, uploadRoot, rows, uploads, shared, strayed>>

CopyRoot(to) ==
  /\ MayMoveTo(to) /\ Device[uploadRoot] # Device[to]
  /\ disk' = [disk EXCEPT ![to] = Ensured(uploadRoot), ![uploadRoot] = Ensured(uploadRoot)]
  /\ move' = [at |-> "copied", from |-> uploadRoot, to |-> to]
  /\ UNCHANGED <<stored, uploadRoot, rows, uploads, shared, torn, strayed, mishaps>>

\* Deviation: the source is removed whatever the copy came to.
AfterFailedMove == [disk EXCEPT ![move.to] = Nowhere, ![move.from] = Nowhere]

\* What is left of a directory whose copy failed or whose names or sizes differ.
AfterFailedCopy == [disk EXCEPT ![move.to] = Nowhere]

\* The copy or its verification fails (the copy goes), or the chmod after it
\* does (both stay, and the next attempt finds the target in use).
CopyFails ==
  /\ Mishap /\ move.at = "copied"
  /\ disk' \in {disk, AfterFailedCopy}
  /\ move' = NoMove
  /\ UNCHANGED <<stored, uploadRoot, rows, uploads, shared, torn, strayed>>

\* The source goes; a failure leaves any part of it (cleanupRequired).
RemoveSource ==
  /\ move.at = "copied"
  /\ \E kept \in SUBSET {b \in Blob : Has(move.from, b)} :
       /\ disk' = [disk EXCEPT ![move.from] =
            IF kept = {} THEN Nowhere
            ELSE [b \in Blob |-> IF b \in kept THEN disk[move.from][b] ELSE "none"]]
       /\ uploads' = [b \in InFlight |->
            IF uploads[b].inode = move.from /\ b \notin kept
            THEN [uploads[b] EXCEPT !.inode = Nowhere] ELSE uploads[b]]
  /\ move' = [move EXCEPT !.at = "removed"]
  /\ UNCHANGED <<stored, uploadRoot, rows, shared, torn, strayed, mishaps>>

SaveRoot ==
  /\ move.at \in {"renamed", "removed"}
  /\ stored' = move.to /\ uploadRoot' = move.to
  /\ move' = [at |-> "idle", from |-> move.to, to |-> move.to]
  /\ UNCHANGED <<disk, rows, uploads, shared, torn, strayed, mishaps>>

\* The target cannot be written or the setting not saved: rename back.
UndoRename ==
  /\ Mishap /\ move.at = "renamed"
  /\ disk' = [disk EXCEPT ![move.from] = disk[move.to], ![move.to] = Nowhere]
  /\ uploads' = [b \in InFlight |->
       IF uploads[b].inode = move.to THEN [uploads[b] EXCEPT !.inode = move.from] ELSE uploads[b]]
  /\ move' = NoMove
  /\ UNCHANGED <<stored, uploadRoot, rows, shared, torn, strayed>>

\* Or copy back, over what was left, and remove the target (or not).
UndoCopy ==
  /\ Mishap /\ move.at = "removed"
  /\ \E after \in {disk[move.to], Nowhere} :
       disk' = [disk EXCEPT ![move.from] = disk[move.to], ![move.to] = after]
  /\ uploads' = [b \in InFlight |->
       IF uploads[b].inode = move.from THEN [uploads[b] EXCEPT !.inode = Nowhere] ELSE uploads[b]]
  /\ move' = NoMove
  /\ UNCHANGED <<stored, uploadRoot, rows, shared, torn, strayed>>

\* The rollback fails as well; a failed copy back has removed what was left.
UndoFails ==
  /\ Mishap /\ move.at \in {"renamed", "removed"}
  /\ disk' = [disk EXCEPT ![move.from] = Nowhere]
  /\ uploads' = [b \in InFlight |->
       IF uploads[b].inode = move.from THEN [uploads[b] EXCEPT !.inode = Nowhere] ELSE uploads[b]]
  /\ move' = NoMove /\ torn' = TRUE
  /\ UNCHANGED <<stored, uploadRoot, rows, shared, strayed>>

\* The process stops anywhere; its next start takes the saved root and creates it.
CrashAndRestart ==
  /\ Mishap
  /\ uploadRoot' = Saved
  /\ disk' = [disk EXCEPT ![Saved] = Ensured(Saved)]
  /\ uploads' = <<>>
  /\ torn' = (torn \/ move.at \in {"renamed", "removed"})
  /\ move' = [at |-> "idle", from |-> Saved, to |-> Saved]
  /\ UNCHANGED <<stored, rows, shared, strayed>>

\* An operator copies the root in use elsewhere, as "use-existing" expects.
OperatorCopies(to) ==
  /\ Mishap /\ Idle /\ to # uploadRoot /\ Exists(uploadRoot)
  /\ \A b \in Blob : ~Has(to, b)
  /\ disk' = [disk EXCEPT ![to] = disk[uploadRoot]]
  /\ UNCHANGED <<stored, uploadRoot, rows, uploads, shared, move, torn, strayed>>

StorageNext ==
  \/ \E b \in Blob : \/ BeginUpload(b) \/ WriteEnds(b) \/ CommitUpload(b)
                     \/ AbortUpload(b) \/ DeleteStored(b)
  \/ \E to \in StorageRoot : UseExisting(to) \/ RenameRoot(to) \/ CopyRoot(to) \/ OperatorCopies(to)
  \/ ChangeSharing \/ SameRoot \/ ChmodFails \/ CopyFails \/ RemoveSource \/ SaveRoot
  \/ UndoRename \/ UndoCopy \/ UndoFails \/ CrashAndRestart

StorageSpec == StorageInit /\ [][StorageNext]_storageVars

-----------------------------------------------------------------------------
(* Properties.                                                               *)

\* Types; between two changes the running process and its next start use the
\* same root, and the upload's inode is where its data is written.
StorageTypeOK ==
  /\ \A r \in StorageRoot : disk[r] \in {Nowhere} \cup [Blob -> {"none", "part", "whole"}]
  /\ stored \in StorageRoot \cup {Nowhere} /\ uploadRoot \in StorageRoot
  /\ rows \subseteq Blob /\ strayed \subseteq rows /\ InFlight \subseteq Blob \ rows
  /\ \A b \in InFlight : uploads[b].inode = Nowhere \/ Has(uploads[b].inode, b)
  /\ shared \in BOOLEAN /\ torn \in BOOLEAN /\ mishaps \in 0 .. MaxStorageEvents
  /\ Idle => uploadRoot = Saved

\* However a relocation ends, no recorded file loses its data: some root still
\* holds all of it (storage-settings.js:185-258, the copy, its verification, the
\* removal of the source and both rollbacks).
DataSomewhere ==
  \A b \in rows \ strayed : \E r \in StorageRoot : Whole(r, b)

\* Unless a move was cut off before its setting was saved, every recorded file
\* is whole under the root in use.  "strayed" leaves out the rows of uploads a
\* change of the root overtook.
RowsFoundInActive ==
  (Idle /\ ~torn) => \A b \in rows \ strayed : Whole(uploadRoot, b)
=============================================================================
