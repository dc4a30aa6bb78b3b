----------------------------- MODULE MCSmbStorage -----------------------------
(* What happens to stored files besides a single request, part by part: the SMB *)
(* synchronization, the relocation of the storage root, and the streams that     *)
(* send files while rights are revoked and descriptors reused.  The parts share  *)
(* no variable: a behaviour is one of the part that was chosen.                  *)
EXTENDS SmbSync, StorageRelocation, ProtectedStream, TLC

CONSTANTS f1, f2, d1, n1, n2, a, b, A, B, C

VARIABLE part

fileVars == <<part, smbVars, storageVars, vars>>

\* Two files of one name, one of them in a folder; two files beside each other.
InFolder ==
  [files |-> (f1 :> [folder |-> d1, name |-> a, blob |-> n1])
               @@ (f2 :> [folder |-> Root, name |-> a, blob |-> n2]),
   folders |-> (d1 :> a)]
AtRoot ==
  [files |-> (f1 :> [folder |-> Root, name |-> a, blob |-> n1])
               @@ (f2 :> [folder |-> Root, name |-> b, blob |-> n2]),
   folders |-> <<>>]
BothShares == {InFolder, AtRoot}
OnlyFiles == {AtRoot}

\* A and B are on one file system, C on another.
DeviceOf == (A :> 1) @@ (B :> 1) @@ (C :> 2)

\* Downloads and previews.
Both == {"file", "json"}

FilesInit ==
  /\ part \in {"sync", "storage", "stream"} /\ SmbInit /\ StorageInit /\ Init
  /\ part # "sync" => db.files = (CHOOSE s \in Shared : TRUE).files
  /\ part # "stream" => \A s \in Stream : streams[s] = Fresh("file", 0)

FilesNext ==
  /\ UNCHANGED part
  /\ \/ part = "sync" /\ SmbNext /\ UNCHANGED <<storageVars, vars>>
     \/ part = "storage" /\ StorageNext /\ UNCHANGED <<smbVars, vars>>
     \/ part = "stream" /\ Next /\ UNCHANGED <<smbVars, storageVars>>

FilesSpec == FilesInit /\ [][FilesNext]_fileVars

\* The synchronization alone.
SyncSpec == FilesInit /\ part = "sync" /\ [][FilesNext]_fileVars

\* What no share holds at the start is interchangeable.  So are the blobs and
\* descriptors of the other parts, which take their names from the nodes so that
\* one group serves all of them.
Symmetry == Permutations(FileNode \ {n1, n2}) \cup Permutations(DirNode)

\* Types of every part; for the mappings also the uniqueness their table demands
\* (smb-schema.js:24-37).
FilesTypeOK == SmbTypeOK /\ StorageTypeOK /\ TypeOK

\* Whatever step of a relocation fails, the data of every recorded file is whole
\* somewhere, and under the root in use unless the new root could not be saved or an
\* upload was overtaken (storage-settings.js:211-409).
RelocationKeepsData == DataSomewhere /\ RowsFoundInActive
=============================================================================
