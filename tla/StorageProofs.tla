----------------------------- MODULE StorageProofs -----------------------------
(***************************************************************************)
(* Proofs about the files of MCSmbStorage: the storage root and its         *)
(* relocation (StorageRelocation), the streams that send files while rights *)
(* are revoked and descriptors reused (ProtectedStream), the types of the   *)
(* composition, and the contents that synchronizations (SmbSync) keep.      *)
(*                                                                         *)
(* Where the data is depends on the step the relocation has reached: a      *)
(* renamed root has left nothing behind, a copy has what the rows need, and *)
(* what is left of a source that is being removed is a part of the copy.    *)
(* MoveInv says so for each step; the rollbacks rest on it.                 *)
(*                                                                         *)
(* That the tables and the projection keep their types needs their shape:   *)
(* a pass looks the folder of an entry up by the path of its directory, and *)
(* writes what it finds into the rows.  TablesGood says what the rows and    *)
(* the mappings are to each other, IsTree that the projection is a tree,    *)
(* and PassGood what the lists a pass has computed know of the rows that    *)
(* it has yet to work through, while requests change these rows.  SmbInv is *)
(* their conjunction.                                                       *)
(*                                                                         *)
(* That a pass loses no content is about who still has it.  FilesKept says  *)
(* that a mapped file is stored and projected as the same inode, ScanAgrees *)
(* that what a pass records is what it saw, and FoldersKept with ScanKept   *)
(* that a folder whose directory nobody changed is found.  ContentInv is    *)
(* their conjunction with StageGood: passes work with mappings under the    *)
(* marker.                                                                  *)
(***************************************************************************)
EXTENDS MCSmbStorage, TLAPS

MarkOf == {"none", "part", "whole"}
Tree == [Blob -> MarkOf]
Upload == [path : StorageRoot, inode : StorageRoot \cup {Nowhere}, done : BOOLEAN]
DiskTyped == disk \in [StorageRoot -> Tree \cup {Nowhere}]

StorageTypes ==
  /\ DiskTyped
  /\ stored \in StorageRoot \cup {Nowhere} /\ uploadRoot = Saved
  /\ rows \subseteq Blob /\ strayed \subseteq rows
  /\ InFlight \subseteq Blob \ rows
  /\ \A x \in InFlight : uploads[x] \in Upload
  /\ shared \in BOOLEAN /\ torn \in BOOLEAN /\ mishaps \in 0 .. MaxStorageEvents
  /\ move \in [at : {"idle", "renamed", "copied", "removed"}, from : StorageRoot, to : StorageRoot]
  /\ ~Idle => move.from = uploadRoot /\ move.to # move.from

\* An upload that knows its inode is written there.
InodesFound == \A x \in InFlight, r \in StorageRoot : uploads[x].inode = r => Has(r, x)

MoveInv ==
  /\ move.at = "renamed" => ~Exists(move.from)
  /\ move.at = "copied" => \A x \in rows : disk[move.from][x] = disk[move.to][x]
  /\ move.at = "copied" => Exists(move.from) /\ Exists(move.to)
  /\ move.at = "removed" =>
       \A x \in rows : Has(move.from, x) => Has(move.to, x) /\ disk[move.from][x] = disk[move.to][x]
  /\ move.at \in {"copied", "removed"} =>
       \A x \in InFlight : uploads[x].inode # move.to

\* Where every recorded file is whole.
Holding == IF move.at \in {"renamed", "removed"} THEN move.to ELSE uploadRoot
RowsHeld == ~torn => \A x \in rows \ strayed : Whole(Holding, x)

RelocationInv == StorageTypes /\ InodesFound /\ MoveInv /\ DataSomewhere /\ RowsHeld

-----------------------------------------------------------------------------
(* What a root holds.                                                        *)

LEMMA EnsuredTree ==
  ASSUME StorageTypes, NEW r \in StorageRoot
  PROVE  /\ Ensured(r) \in Tree /\ Ensured(r) # Nowhere
         /\ \A x \in Blob : /\ Ensured(r)[x] # "none" <=> Has(r, x)
                            /\ Ensured(r)[x] = "whole" <=> Whole(r, x)
<1>1. CASE Exists(r)
  <2>1. Ensured(r) = disk[r]
    BY <1>1 DEF Ensured
  <2>2. disk[r] \in Tree
    BY <1>1 DEF Exists, StorageTypes, DiskTyped
  <2> QED BY <1>1, <2>1, <2>2, StorageAssumption DEF Tree, MarkOf, Has, Whole
<1>2. CASE ~Exists(r)
  <2>1. Ensured(r) = Empty
    BY <1>2 DEF Ensured
  <2>2. Empty \in Tree
    BY DEF Empty, Tree, MarkOf
  <2>3. \A x \in Blob : Empty[x] = "none"
    BY DEF Empty
  <2> QED BY <1>2, <2>1, <2>2, <2>3, StorageAssumption DEF Tree, MarkOf, Has, Whole
<1> QED BY <1>1, <1>2

\* The tree a root has next, and the roots that keep theirs.
Becomes(r, t) ==
  /\ disk'[r] = t
  /\ Exists(r)' <=> t # Nowhere
  /\ \A x \in Blob : /\ Has(r, x)' <=> t # Nowhere /\ t[x] # "none"
                     /\ Whole(r, x)' <=> t # Nowhere /\ t[x] = "whole"
KeepRoots(S) ==
  \A r \in S :
    /\ disk'[r] = disk[r] /\ (Exists(r)' <=> Exists(r))
    /\ \A x \in Blob : (Has(r, x)' <=> Has(r, x)) /\ (Whole(r, x)' <=> Whole(r, x))

LEMMA OneRoot ==
  ASSUME DiskTyped, NEW r \in StorageRoot, NEW t \in Tree \cup {Nowhere},
         disk' = [disk EXCEPT ![r] = t]
  PROVE  DiskTyped' /\ Becomes(r, t) /\ KeepRoots(StorageRoot \ {r})
<1>1. disk \in [StorageRoot -> Tree \cup {Nowhere}]
  BY DEF DiskTyped
<1>2. disk'[r] = t /\ \A q \in StorageRoot : q # r => disk'[q] = disk[q]
  BY <1>1
<1>3. disk' \in [StorageRoot -> Tree \cup {Nowhere}]
  BY <1>1
<1> QED BY <1>2, <1>3 DEF Exists, Has, Whole, DiskTyped, Becomes, KeepRoots

LEMMA TwoRoots ==
  ASSUME DiskTyped, NEW r \in StorageRoot, NEW t \in Tree \cup {Nowhere},
         NEW s \in StorageRoot, NEW u \in Tree \cup {Nowhere}, r # s,
         disk' = [disk EXCEPT ![r] = t, ![s] = u]
  PROVE  DiskTyped' /\ Becomes(r, t) /\ Becomes(s, u) /\ KeepRoots(StorageRoot \ {r, s})
<1>1. disk \in [StorageRoot -> Tree \cup {Nowhere}]
  BY DEF DiskTyped
<1>2. disk'[r] = t /\ disk'[s] = u /\ \A q \in StorageRoot \ {r, s} : disk'[q] = disk[q]
  BY <1>1
<1>3. disk' \in [StorageRoot -> Tree \cup {Nowhere}]
  BY <1>1
<1> QED BY <1>2, <1>3 DEF Exists, Has, Whole, DiskTyped, Becomes, KeepRoots

LEMMA SameDisk ==
  ASSUME DiskTyped, UNCHANGED disk
  PROVE  DiskTyped' /\ KeepRoots(StorageRoot)
BY DEF Exists, Has, Whole, DiskTyped, KeepRoots

\* One entry of a tree is set.
LEMMA SetEntry ==
  ASSUME NEW t \in Tree, NEW x \in Blob, NEW v \in MarkOf
  PROVE  /\ [t EXCEPT ![x] = v] \in Tree /\ [t EXCEPT ![x] = v] # Nowhere
         /\ [t EXCEPT ![x] = v][x] = v
         /\ \A y \in Blob : y # x => [t EXCEPT ![x] = v][y] = t[y]
BY StorageAssumption DEF Tree, MarkOf

LEMMA RootsNamed ==
  ASSUME StorageTypes
  PROVE  /\ uploadRoot \in StorageRoot /\ Saved \in StorageRoot
         /\ move.from \in StorageRoot /\ move.to \in StorageRoot /\ Holding \in StorageRoot
         /\ Idle => Holding = uploadRoot
BY StorageAssumption DEF StorageTypes, Saved, Holding, Idle

-----------------------------------------------------------------------------
(* Files.                                                                    *)

\* What the properties read of the disk, for the files of the rows.
RowsKept ==
  /\ rows' \ strayed' \subseteq rows \ strayed
  /\ \A r \in StorageRoot, x \in rows' : Whole(r, x) => Whole(r, x)'

LEMMA RowsStayHeld ==
  ASSUME RelocationInv, RowsKept, UNCHANGED <<uploadRoot, move>>, torn => torn'
  PROVE  DataSomewhere' /\ RowsHeld'
<1>1. DataSomewhere'
  BY DEF RelocationInv, RowsKept, DataSomewhere
<1>2. PICK h \in StorageRoot : h = Holding
  BY RootsNamed DEF RelocationInv
<1>3. Holding' = h
  BY <1>2 DEF Holding
<1>4. RowsHeld'
  <2> SUFFICES ASSUME ~torn', NEW x \in rows' \ strayed'
               PROVE  Whole(h, x)'
    BY <1>3 DEF RowsHeld
  <2>1. Whole(h, x)
    BY <1>2 DEF RelocationInv, RowsHeld, RowsKept
  <2> QED BY <2>1 DEF RowsKept
<1> QED BY <1>1, <1>4

LEMMA BeginUploadKeeps ==
  ASSUME RelocationInv, NEW x \in Blob, BeginUpload(x)
  PROVE  RelocationInv'
<1>0. StorageTypes /\ DiskTyped /\ Idle
  BY DEF RelocationInv, BeginUpload, StorageTypes
<1>1. PICK u \in StorageRoot : u = uploadRoot
  BY <1>0, RootsNamed
<1>2. PICK e \in Tree : e = Ensured(u)
  BY <1>0, EnsuredTree
<1> DEFINE t == [e EXCEPT ![x] = "part"]
<1>3. /\ t \in Tree /\ t # Nowhere /\ t[x] = "part"
      /\ \A y \in Blob : y # x => t[y] = e[y]
  BY SetEntry DEF MarkOf
<1>4. disk' = [disk EXCEPT ![u] = t]
  BY <1>1, <1>2 DEF BeginUpload
<1> HIDE DEF t
<1>5. DiskTyped' /\ Becomes(u, t) /\ KeepRoots(StorageRoot \ {u})
  BY <1>0, <1>3, <1>4, OneRoot
<1>6. ASSUME NEW r \in StorageRoot, NEW y \in Blob, y # x
      PROVE  (Has(r, y)' <=> Has(r, y)) /\ (Whole(r, y)' <=> Whole(r, y))
  <2>1. CASE r = u
    <3>1. (Has(u, y)' <=> t[y] # "none") /\ (Whole(u, y)' <=> t[y] = "whole")
      BY <1>3, <1>5 DEF Becomes
    <3>2. (e[y] # "none" <=> Has(u, y)) /\ (e[y] = "whole" <=> Whole(u, y))
      BY <1>0, <1>2, EnsuredTree
    <3> QED BY <3>1, <3>2, <2>1, <1>3, <1>6
  <2>2. CASE r # u
    BY <1>5, <2>2 DEF KeepRoots
  <2> QED BY <2>1, <2>2
<1>7. /\ x \notin rows \cup InFlight
      /\ InFlight' = InFlight \cup {x}
      /\ \A y \in InFlight : uploads'[y] = uploads[y]
      /\ uploads'[x] = [path |-> u, inode |-> u, done |-> FALSE]
      /\ UNCHANGED <<stored, uploadRoot, rows, shared, move, torn, strayed, mishaps>>
  BY <1>1 DEF BeginUpload, InFlight
<1>8. StorageTypes'
  <2>1. /\ InFlight' \subseteq Blob \ rows'
        /\ \A y \in InFlight' : uploads'[y] \in Upload
    <3>1. \A y \in InFlight : uploads'[y] \in Upload
      BY <1>0, <1>7 DEF StorageTypes
    <3>2. uploads'[x] \in Upload
      BY <1>7 DEF Upload
    <3> QED BY <3>1, <3>2, <1>0, <1>7 DEF StorageTypes
  <2>2. Saved' = Saved /\ (Idle' <=> Idle)
    BY <1>7 DEF Saved, Idle
  <2> QED BY <2>1, <2>2, <1>0, <1>5, <1>7 DEF StorageTypes
<1>9. InodesFound'
  <2> SUFFICES ASSUME NEW y \in InFlight', NEW r \in StorageRoot, uploads'[y].inode = r
               PROVE  Has(r, y)'
    BY DEF InodesFound
  <2>1. CASE y = x
    BY <1>3, <1>5, <1>7, <2>1 DEF Becomes
  <2>2. CASE y # x
    <3>1. y \in InFlight /\ uploads'[y] = uploads[y] /\ y \in Blob
      BY <1>7, <2>2, <1>0 DEF StorageTypes
    <3> QED BY <3>1, <1>6, <2>2 DEF RelocationInv, InodesFound
  <2> QED BY <2>1, <2>2
<1>10. MoveInv'
  BY <1>0, <1>7 DEF MoveInv, Idle
<1>11. RowsKept
  BY <1>0, <1>6, <1>7 DEF RowsKept, StorageTypes
<1> QED BY <1>0, <1>7, <1>8, <1>9, <1>10, <1>11, RowsStayHeld DEF RelocationInv

\* The tree of one root is changed at one file.
SetAt(r, x, v) == disk' = [disk EXCEPT ![r][x] = v]

LEMMA EntrySet ==
  ASSUME DiskTyped, NEW r \in StorageRoot, NEW x \in Blob, NEW v \in MarkOf,
         Exists(r), SetAt(r, x, v)
  PROVE  /\ DiskTyped' /\ KeepRoots(StorageRoot \ {r})
         /\ Exists(r)' /\ disk'[r][x] = v
         /\ \A y \in Blob \ {x} : /\ disk'[r][y] = disk[r][y]
                                  /\ (Has(r, y)' <=> Has(r, y)) /\ (Whole(r, y)' <=> Whole(r, y))
         /\ Has(r, x)' <=> v # "none"
         /\ Whole(r, x)' <=> v = "whole"
<1>1. PICK t \in Tree : t = disk[r]
  BY DEF DiskTyped, Exists
<1> DEFINE q == [t EXCEPT ![x] = v]
<1>2. disk' = [disk EXCEPT ![r] = q]
  BY <1>1 DEF SetAt
<1>3. /\ q \in Tree /\ q # Nowhere /\ q[x] = v
      /\ \A y \in Blob : y # x => q[y] = t[y]
  BY SetEntry
<1> HIDE DEF q
<1>4. DiskTyped' /\ Becomes(r, q) /\ KeepRoots(StorageRoot \ {r})
  BY <1>2, <1>3, OneRoot
<1>5. DiskTyped' /\ KeepRoots(StorageRoot \ {r}) /\ disk'[r] = q /\ Exists(r)'
  BY <1>3, <1>4 DEF Becomes
<1>6. \A y \in Blob : (Has(r, y)' <=> q[y] # "none") /\ (Whole(r, y)' <=> q[y] = "whole")
  BY <1>3, <1>4 DEF Becomes
<1>7. \A y \in Blob : (Has(r, y) <=> t[y] # "none") /\ (Whole(r, y) <=> t[y] = "whole")
  BY <1>1 DEF Has, Whole
<1> QED BY <1>1, <1>3, <1>5, <1>6, <1>7

LEMMA WriteEndsKeeps ==
  ASSUME RelocationInv, NEW x \in Blob, WriteEnds(x)
  PROVE  RelocationInv'
<1>0. StorageTypes /\ DiskTyped /\ x \in InFlight /\ x \notin rows
  BY DEF RelocationInv, WriteEnds, StorageTypes
<1>1. PICK i \in StorageRoot \cup {Nowhere} : i = uploads[x].inode
  BY <1>0 DEF StorageTypes, Upload
<1>2. /\ InFlight' = InFlight
      /\ \A y \in InFlight \ {x} : uploads'[y] = uploads[y]
      /\ uploads'[x].inode = i /\ uploads'[x] \in Upload
      /\ UNCHANGED <<stored, uploadRoot, rows, shared, move, torn, strayed, mishaps>>
  BY <1>0, <1>1 DEF WriteEnds, InFlight, StorageTypes, Upload
<1>3. /\ DiskTyped'
      /\ \A r \in StorageRoot : Exists(r)' <=> Exists(r)
      /\ \A r \in StorageRoot, y \in Blob : Has(r, y) => Has(r, y)'
      /\ \A r \in StorageRoot, y \in Blob \ {x} :
           /\ (Has(r, y)' <=> Has(r, y)) /\ (Whole(r, y)' <=> Whole(r, y))
           /\ Exists(r) => disk'[r][y] = disk[r][y]
  <2>1. CASE i # Nowhere /\ Has(i, x)
    <3>1. SetAt(i, x, "whole") /\ Exists(i) /\ i \in StorageRoot
      BY <2>1, <1>0, <1>1 DEF WriteEnds, SetAt, Has
    <3>2. /\ DiskTyped' /\ KeepRoots(StorageRoot \ {i})
          /\ Exists(i)' /\ Has(i, x)'
          /\ \A y \in Blob \ {x} : /\ disk'[i][y] = disk[i][y]
                                   /\ (Has(i, y)' <=> Has(i, y)) /\ (Whole(i, y)' <=> Whole(i, y))
      BY <3>1, <1>0, EntrySet DEF MarkOf
    <3> QED BY <3>1, <3>2 DEF KeepRoots
  <2>2. CASE ~(i # Nowhere /\ Has(i, x))
    <3>1. UNCHANGED disk
      BY <2>2, <1>1 DEF WriteEnds
    <3>2. DiskTyped' /\ KeepRoots(StorageRoot)
      BY <3>1, <1>0, SameDisk
    <3> QED BY <3>1, <3>2 DEF KeepRoots
  <2> QED BY <2>1, <2>2
<1>4. StorageTypes'
  <2>1. \A y \in InFlight' : uploads'[y] \in Upload
    BY <1>0, <1>2 DEF StorageTypes
  <2>2. Saved' = Saved /\ (Idle' <=> Idle)
    BY <1>2 DEF Saved, Idle
  <2> QED BY <2>1, <2>2, <1>0, <1>2, <1>3 DEF StorageTypes
<1>5. InodesFound'
  <2> SUFFICES ASSUME NEW y \in InFlight, NEW r \in StorageRoot, uploads'[y].inode = r
               PROVE  Has(r, y)'
    BY <1>2 DEF InodesFound
  <2>1. uploads[y].inode = r /\ y \in Blob
    BY <1>0, <1>1, <1>2 DEF StorageTypes
  <2> QED BY <2>1, <1>3 DEF RelocationInv, InodesFound
<1>6. MoveInv'
  <2>1. PICK f \in StorageRoot : f = move.from /\ f = move'.from
    BY <1>0, <1>2, RootsNamed
  <2>2. PICK o \in StorageRoot : o = move.to /\ o = move'.to
    BY <1>0, <1>2, RootsNamed
  <2>3. rows \subseteq Blob \ {x} /\ MoveInv
    BY <1>0 DEF StorageTypes, RelocationInv
  <2>4. move.at = "copied" => Exists(f)' /\ Exists(o)' /\ \A y \in rows : disk'[f][y] = disk'[o][y]
    BY <2>1, <2>2, <2>3, <1>3 DEF MoveInv
  <2>5. move.at = "renamed" => ~Exists(f)'
    BY <2>1, <2>2, <2>3, <1>3 DEF MoveInv
  <2>6. move.at = "removed" =>
          \A y \in rows : Has(f, y)' => Has(o, y)' /\ disk'[f][y] = disk'[o][y]
    BY <2>1, <2>2, <2>3, <1>3 DEF MoveInv, Has
  <2>7. \A y \in InFlight : uploads'[y].inode = uploads[y].inode
    BY <1>1, <1>2
  <2> QED BY <2>1, <2>2, <2>3, <2>4, <2>5, <2>6, <2>7, <1>2 DEF MoveInv
<1>7. RowsKept
  BY <1>0, <1>2, <1>3 DEF RowsKept, StorageTypes
<1> QED BY <1>2, <1>4, <1>5, <1>6, <1>7, RowsStayHeld DEF RelocationInv

\* An upload ends and leaves the list.
LEMMA UploadLeaves ==
  ASSUME StorageTypes, NEW x \in InFlight, uploads' = Restrict(uploads, InFlight \ {x})
  PROVE  /\ InFlight' = InFlight \ {x}
         /\ \A y \in InFlight' : uploads'[y] = uploads[y] /\ uploads'[y] \in Upload
BY DEF InFlight, Restrict, StorageTypes

LEMMA CommitUploadKeeps ==
  ASSUME RelocationInv, NEW x \in Blob, CommitUpload(x)
  PROVE  RelocationInv'
<1>0. /\ StorageTypes /\ DiskTyped /\ x \in InFlight /\ Idle
      /\ UNCHANGED <<disk, stored, uploadRoot, shared, move, torn, mishaps>>
  BY DEF RelocationInv, CommitUpload, StorageTypes
<1>1. /\ InFlight' = InFlight \ {x}
      /\ \A y \in InFlight' : uploads'[y] = uploads[y] /\ uploads'[y] \in Upload
  BY <1>0, UploadLeaves DEF CommitUpload
<1>2. PICK u \in StorageRoot : u = uploadRoot
  BY <1>0, RootsNamed
<1>3. /\ rows' \subseteq rows \cup {x} /\ strayed' \subseteq strayed \cup {x}
      /\ strayed \subseteq strayed' /\ rows \subseteq rows'
      /\ x \in strayed' => x \in rows' \/ x \in strayed
      /\ x \in rows' \ strayed' => Whole(u, x) \/ x \in rows
  <2>1. CASE Has(uploads[x].path, x) /\ Whole(u, x)
    <3>1. rows' = rows \cup {x} /\ strayed' = strayed
      BY <1>2, <2>1 DEF CommitUpload
    <3> QED BY <3>1, <2>1
  <2>2. CASE Has(uploads[x].path, x) /\ ~Whole(u, x)
    <3>1. rows' = rows \cup {x} /\ strayed' = strayed \cup {x}
      BY <1>2, <2>2 DEF CommitUpload
    <3> QED BY <3>1
  <2>3. CASE ~Has(uploads[x].path, x)
    BY <1>0, <2>3 DEF CommitUpload, StorageTypes
  <2> QED BY <2>1, <2>2, <2>3
<1>4. DiskTyped' /\ KeepRoots(StorageRoot)
  BY <1>0, SameDisk
<1>5. StorageTypes'
  <2>1. Saved' = Saved /\ (Idle' <=> Idle)
    BY <1>0 DEF Saved, Idle
  <2>2. InFlight' \subseteq Blob \ rows'
    BY <1>0, <1>1, <1>3 DEF StorageTypes
  <2> QED BY <2>1, <2>2, <1>0, <1>1, <1>3, <1>4 DEF StorageTypes
<1>6. InodesFound'
  <2> SUFFICES ASSUME NEW y \in InFlight', NEW r \in StorageRoot, uploads'[y].inode = r
               PROVE  Has(r, y)'
    BY DEF InodesFound
  <2>1. uploads[y].inode = r /\ y \in Blob /\ y \in InFlight
    BY <1>0, <1>1 DEF StorageTypes
  <2> QED BY <2>1, <1>4 DEF RelocationInv, InodesFound, KeepRoots
<1>7. MoveInv'
  BY <1>0 DEF MoveInv, Idle
<1>8. \A y \in rows' \ strayed' : y \in rows \ strayed \/ Whole(u, y)
  BY <1>3
<1>9. rows \subseteq Blob /\ x \in Blob /\ rows' \subseteq Blob
  BY <1>0, <1>3 DEF StorageTypes
<1>10. DataSomewhere'
  <2> SUFFICES ASSUME NEW y \in rows' \ strayed'
               PROVE  \E r \in StorageRoot : Whole(r, y)'
    BY DEF DataSomewhere
  <2>1. PICK r \in StorageRoot : Whole(r, y)
    BY <1>8 DEF RelocationInv, DataSomewhere
  <2> QED BY <2>1, <1>4, <1>9 DEF KeepRoots
<1>11. RowsHeld'
  <2>1. Holding = u /\ Holding' = u
    BY <1>0, <1>2 DEF Holding, Idle
  <2> SUFFICES ASSUME ~torn', NEW y \in rows' \ strayed'
               PROVE  Whole(u, y)'
    BY <2>1 DEF RowsHeld
  <2>2. Whole(u, y)
    BY <1>0, <1>8, <2>1 DEF RelocationInv, RowsHeld
  <2> QED BY <2>2, <1>4, <1>9 DEF KeepRoots
<1> QED BY <1>5, <1>6, <1>7, <1>10, <1>11 DEF RelocationInv

LEMMA AbortUploadKeeps ==
  ASSUME RelocationInv, NEW x \in Blob, AbortUpload(x)
  PROVE  RelocationInv'
<1>0. /\ StorageTypes /\ DiskTyped /\ x \in InFlight /\ Idle /\ x \notin rows
      /\ UNCHANGED <<stored, uploadRoot, rows, shared, move, torn, strayed, mishaps>>
  BY DEF RelocationInv, AbortUpload, StorageTypes
<1>1. /\ InFlight' = InFlight \ {x}
      /\ \A y \in InFlight' : uploads'[y] = uploads[y] /\ uploads'[y] \in Upload
  BY <1>0, UploadLeaves DEF AbortUpload
<1>2. PICK p \in StorageRoot : p = uploads[x].path
  BY <1>0 DEF StorageTypes, Upload
<1>3. /\ DiskTyped'
      /\ \A r \in StorageRoot, y \in Blob \ {x} :
           (Has(r, y)' <=> Has(r, y)) /\ (Whole(r, y)' <=> Whole(r, y))
  <2>1. CASE Has(p, x)
    <3>1. SetAt(p, x, "none") /\ Exists(p)
      BY <2>1, <1>2 DEF AbortUpload, Unlinked, SetAt, Has
    <3> QED BY <3>1, <1>0, EntrySet DEF KeepRoots, MarkOf
  <2>2. CASE ~Has(p, x)
    <3>1. UNCHANGED disk
      BY <2>2, <1>2 DEF AbortUpload, Unlinked
    <3> QED BY <3>1, <1>0, SameDisk DEF KeepRoots
  <2> QED BY <2>1, <2>2
<1>4. StorageTypes'
  <2>1. Saved' = Saved /\ (Idle' <=> Idle)
    BY <1>0 DEF Saved, Idle
  <2> QED BY <2>1, <1>0, <1>1, <1>3 DEF StorageTypes
<1>5. InodesFound'
  <2> SUFFICES ASSUME NEW y \in InFlight', NEW r \in StorageRoot, uploads'[y].inode = r
               PROVE  Has(r, y)'
    BY DEF InodesFound
  <2>1. uploads[y].inode = r /\ y \in Blob \ {x} /\ y \in InFlight
    BY <1>0, <1>1 DEF StorageTypes
  <2> QED BY <2>1, <1>3 DEF RelocationInv, InodesFound
<1>6. MoveInv'
  BY <1>0 DEF MoveInv, Idle
<1>7. RowsKept
  BY <1>0, <1>3 DEF RowsKept, StorageTypes
<1> QED BY <1>0, <1>4, <1>5, <1>6, <1>7, RowsStayHeld DEF RelocationInv

LEMMA DeleteStoredKeeps ==
  ASSUME RelocationInv, NEW x \in Blob, DeleteStored(x)
  PROVE  RelocationInv'
<1>0. /\ StorageTypes /\ DiskTyped /\ x \in rows /\ Idle
      /\ rows' = rows \ {x} /\ strayed' = strayed \ {x}
      /\ UNCHANGED <<stored, uploadRoot, uploads, shared, move, torn, mishaps>>
  BY DEF RelocationInv, DeleteStored, StorageTypes
<1>1. PICK u \in StorageRoot : u = uploadRoot
  BY <1>0, RootsNamed
<1>2. SetAt(u, x, "none") /\ Exists(u)
  BY <1>1 DEF DeleteStored, SetAt
<1>3. /\ DiskTyped'
      /\ \A r \in StorageRoot, y \in Blob \ {x} :
           (Has(r, y)' <=> Has(r, y)) /\ (Whole(r, y)' <=> Whole(r, y))
  BY <1>0, <1>2, EntrySet DEF KeepRoots, MarkOf
<1>4. InFlight' = InFlight /\ x \notin InFlight
  BY <1>0 DEF InFlight, StorageTypes
<1>5. StorageTypes'
  <2>1. Saved' = Saved /\ (Idle' <=> Idle)
    BY <1>0 DEF Saved, Idle
  <2> QED BY <2>1, <1>0, <1>3, <1>4 DEF StorageTypes
<1>6. InodesFound'
  <2> SUFFICES ASSUME NEW y \in InFlight, NEW r \in StorageRoot, uploads[y].inode = r
               PROVE  Has(r, y)'
    BY <1>0, <1>4 DEF InodesFound
  <2>1. y \in Blob \ {x}
    BY <1>0, <1>4 DEF StorageTypes
  <2> QED BY <2>1, <1>3 DEF RelocationInv, InodesFound
<1>7. MoveInv'
  BY <1>0 DEF MoveInv, Idle
<1>8. RowsKept
  BY <1>0, <1>3 DEF RowsKept, StorageTypes
<1> QED BY <1>0, <1>5, <1>6, <1>7, <1>8, RowsStayHeld DEF RelocationInv

LEMMA ChangeSharingKeeps ==
  ASSUME RelocationInv, ChangeSharing
  PROVE  RelocationInv'
<1>0. /\ StorageTypes /\ DiskTyped /\ shared' \in BOOLEAN
      /\ UNCHANGED <<disk, stored, uploadRoot, rows, uploads, move, torn, strayed, mishaps>>
  BY DEF RelocationInv, ChangeSharing, StorageTypes
<1>1. StorageTypes'
  BY <1>0 DEF StorageTypes, Saved, Idle, InFlight, DiskTyped
<1>2. InodesFound' /\ MoveInv' /\ DataSomewhere' /\ RowsHeld'
  BY <1>0 DEF RelocationInv, InodesFound, MoveInv, DataSomewhere, RowsHeld, InFlight, Has,
              Exists, Whole, Holding
<1> QED BY <1>1, <1>2 DEF RelocationInv

-----------------------------------------------------------------------------
(* Changing the root.                                                        *)

\* A directory that is missing is made.
LEMMA RootMade ==
  ASSUME StorageTypes, NEW u \in StorageRoot, disk' = [disk EXCEPT ![u] = Ensured(u)]
  PROVE  /\ DiskTyped' /\ Exists(u)'
         /\ \A r \in StorageRoot, y \in Blob :
              (Has(r, y)' <=> Has(r, y)) /\ (Whole(r, y)' <=> Whole(r, y))
         /\ \A r \in StorageRoot \ {u} : disk'[r] = disk[r]
<1>0. DiskTyped
  BY DEF StorageTypes
<1>1. PICK e \in Tree : e = Ensured(u) /\ e # Nowhere
  BY EnsuredTree
<1>2. DiskTyped' /\ Becomes(u, e) /\ KeepRoots(StorageRoot \ {u})
  BY <1>0, <1>1, OneRoot
<1>3. \A y \in Blob : (e[y] # "none" <=> Has(u, y)) /\ (e[y] = "whole" <=> Whole(u, y))
  BY <1>1, EnsuredTree
<1>4. \A y \in Blob : (Has(u, y)' <=> Has(u, y)) /\ (Whole(u, y)' <=> Whole(u, y))
  BY <1>1, <1>2, <1>3 DEF Becomes
<1>5. \A r \in StorageRoot \ {u} :
        /\ disk'[r] = disk[r]
        /\ \A y \in Blob : (Has(r, y)' <=> Has(r, y)) /\ (Whole(r, y)' <=> Whole(r, y))
  BY <1>2 DEF KeepRoots
<1>6. DiskTyped' /\ Exists(u)'
  BY <1>1, <1>2 DEF Becomes
<1> QED BY ONLY <1>4, <1>5, <1>6

\* No file appears, none goes.
SameFiles ==
  \A r \in StorageRoot, y \in Blob :
    (Has(r, y)' <=> Has(r, y)) /\ (Whole(r, y)' <=> Whole(r, y))

LEMMA InodesStayFound ==
  ASSUME RelocationInv, SameFiles, UNCHANGED uploads
  PROVE  InodesFound'
<1> SUFFICES ASSUME NEW y \in InFlight, NEW r \in StorageRoot, uploads[y].inode = r
             PROVE  Has(r, y)'
  BY DEF InodesFound, InFlight
<1>1. y \in Blob
  BY DEF RelocationInv, StorageTypes
<1> QED BY <1>1 DEF RelocationInv, InodesFound, SameFiles

LEMMA SameRootKeeps ==
  ASSUME RelocationInv, SameRoot
  PROVE  RelocationInv'
<1>0. /\ StorageTypes /\ DiskTyped /\ Idle
      /\ UNCHANGED <<uploadRoot, rows, uploads, shared, move, strayed, mishaps>>
  BY DEF RelocationInv, SameRoot, StorageTypes
<1>1. PICK u \in StorageRoot : u = uploadRoot /\ u = Holding
  BY <1>0, RootsNamed
<1>2. DiskTyped' /\ SameFiles
  <2>1. disk' = [disk EXCEPT ![u] = Ensured(u)]
    BY <1>1 DEF SameRoot
  <2> QED BY <2>1, <1>0, RootMade DEF SameFiles
<1>3. /\ stored' \in {stored, u} /\ torn' \in BOOLEAN
      /\ torn' = torn \/ (\A x \in rows \ strayed : Whole(u, x))
  <2>1. CASE Verified(uploadRoot)
    BY <1>0, <1>1, <2>1 DEF SameRoot, StorageTypes
  <2>2. CASE ~Verified(uploadRoot)
    BY <1>0, <1>1, <2>2 DEF SameRoot, StorageTypes
  <2> QED BY <2>1, <2>2
<1>4. StorageTypes'
  <2>1. Saved' = u
    BY <1>0, <1>1, <1>3, StorageAssumption DEF Saved, StorageTypes
  <2>2. Idle' /\ InFlight' = InFlight
    BY <1>0 DEF Idle, InFlight
  <2> QED BY <2>1, <2>2, <1>0, <1>1, <1>2, <1>3 DEF StorageTypes
<1>5. InodesFound'
  BY <1>0, <1>2, InodesStayFound
<1>6. MoveInv'
  BY <1>0 DEF MoveInv, Idle
<1>7. rows \subseteq Blob
  BY <1>0 DEF StorageTypes
<1>8. DataSomewhere'
  BY <1>0, <1>2, <1>7 DEF RelocationInv, DataSomewhere, SameFiles
<1>9. RowsHeld'
  <2>1. Holding' = u
    BY <1>0, <1>1 DEF Holding
  <2> SUFFICES ASSUME ~torn', NEW y \in rows \ strayed
               PROVE  Whole(u, y)'
    BY <1>0, <2>1 DEF RowsHeld
  <2>2. Whole(u, y)
    BY <1>1, <1>3 DEF RelocationInv, RowsHeld
  <2> QED BY <2>2, <1>2, <1>7 DEF SameFiles
<1> QED BY <1>4, <1>5, <1>6, <1>8, <1>9 DEF RelocationInv

LEMMA UseExistingKeeps ==
  ASSUME RelocationInv, NEW to \in StorageRoot, UseExisting(to)
  PROVE  RelocationInv'
<1>0. /\ StorageTypes /\ DiskTyped /\ Idle
      /\ UNCHANGED <<rows, uploads, shared, mishaps>>
  BY DEF RelocationInv, UseExisting, StorageTypes
<1>1. rows \subseteq Blob /\ InFlight' = InFlight
  BY <1>0 DEF StorageTypes, InFlight
<1>2. DiskTyped' /\ SameFiles
  <2>1. disk' = [disk EXCEPT ![to] = Ensured(to)]
    BY DEF UseExisting
  <2> QED BY <2>1, <1>0, RootMade DEF SameFiles
<1>3. InodesFound'
  BY <1>0, <1>2, InodesStayFound
<1>4. CASE Verified(to)
  <2>1. /\ stored' = to /\ uploadRoot' = to /\ torn' = FALSE
        /\ strayed' = {y \in rows : Has(to, y) /\ ~Whole(to, y)}
        /\ move' = [at |-> "idle", from |-> to, to |-> to]
        /\ \A y \in rows : Has(to, y)
    BY <1>4 DEF UseExisting, Verified
  <2>2. Saved' = to /\ Idle' /\ Holding' = to
    BY <2>1, StorageAssumption DEF Saved, Idle, Holding
  <2>3. StorageTypes'
    BY <2>1, <2>2, <1>0, <1>1, <1>2 DEF StorageTypes
  <2>4. MoveInv'
    BY <2>1 DEF MoveInv
  <2>5. \A y \in rows' \ strayed' : Whole(to, y)'
    BY <2>1, <1>0, <1>1, <1>2 DEF SameFiles
  <2>6. DataSomewhere' /\ RowsHeld'
    BY <2>2, <2>5 DEF DataSomewhere, RowsHeld
  <2> QED BY <2>3, <2>4, <2>6, <1>3 DEF RelocationInv
<1>5. CASE ~Verified(to)
  <2>1. UNCHANGED <<stored, uploadRoot, torn, strayed, move>>
    BY <1>5 DEF UseExisting
  <2>2. Saved' = Saved /\ Idle'
    BY <1>0, <2>1 DEF Saved, Idle
  <2>3. StorageTypes'
    BY <2>1, <2>2, <1>0, <1>1, <1>2 DEF StorageTypes
  <2>4. MoveInv'
    BY <1>0, <2>1 DEF MoveInv, Idle
  <2>5. RowsKept
    BY <1>0, <1>1, <1>2, <2>1 DEF RowsKept, SameFiles
  <2> QED BY <2>1, <2>3, <2>4, <2>5, <1>3, RowsStayHeld DEF RelocationInv
<1> QED BY <1>4, <1>5

LEMMA OperatorCopiesKeeps ==
  ASSUME RelocationInv, NEW to \in StorageRoot, OperatorCopies(to)
  PROVE  RelocationInv'
<1>0. /\ StorageTypes /\ DiskTyped /\ Idle /\ \A y \in Blob : ~Has(to, y)
      /\ mishaps' \in 0 .. MaxStorageEvents
      /\ UNCHANGED <<stored, uploadRoot, rows, uploads, shared, move, torn, strayed>>
  BY StorageAssumption DEF RelocationInv, OperatorCopies, StorageTypes, Mishap
<1>1. PICK u \in StorageRoot : u = uploadRoot
  BY <1>0, RootsNamed
<1>2. PICK t \in Tree \cup {Nowhere} : t = disk[u]
  BY <1>0 DEF DiskTyped
<1>3. DiskTyped' /\ KeepRoots(StorageRoot \ {to})
  <2>1. disk' = [disk EXCEPT ![to] = t]
    BY <1>1, <1>2 DEF OperatorCopies
  <2> QED BY <2>1, <1>0, OneRoot
<1>4. \A r \in StorageRoot, y \in Blob : (Has(r, y) => Has(r, y)') /\ (Whole(r, y) => Whole(r, y)')
  BY <1>0, <1>3 DEF KeepRoots, Has, Whole
<1>5. StorageTypes'
  <2>1. Saved' = Saved /\ Idle' /\ InFlight' = InFlight
    BY <1>0 DEF Saved, Idle, InFlight
  <2> QED BY <2>1, <1>0, <1>3 DEF StorageTypes
<1>6. InodesFound'
  <2> SUFFICES ASSUME NEW y \in InFlight, NEW r \in StorageRoot, uploads[y].inode = r
               PROVE  Has(r, y)'
    BY <1>0 DEF InodesFound, InFlight
  <2>1. y \in Blob
    BY <1>0 DEF StorageTypes
  <2> QED BY <2>1, <1>4 DEF RelocationInv, InodesFound
<1>7. MoveInv'
  BY <1>0 DEF MoveInv, Idle
<1>8. RowsKept
  BY <1>0, <1>4 DEF RowsKept, StorageTypes
<1> QED BY <1>0, <1>5, <1>6, <1>7, <1>8, RowsStayHeld DEF RelocationInv

-----------------------------------------------------------------------------
(* Moving it.                                                                *)

\* While a relocation runs, the root in use is the one it leaves.
LEMMA MoveNames ==
  ASSUME StorageTypes
  PROVE  \E u, o \in StorageRoot :
           /\ u = move.from /\ o = move.to
           /\ ~Idle => u = uploadRoot /\ u = Saved /\ u # o
BY RootsNamed DEF StorageTypes

\* The inodes of some uploads are elsewhere now.
InodesMoved(f, o, P) ==
  [y \in InFlight |->
     IF uploads[y].inode = f /\ y \in P THEN [uploads[y] EXCEPT !.inode = o] ELSE uploads[y]]

LEMMA InodesMove ==
  ASSUME StorageTypes, NEW f \in StorageRoot, NEW o \in StorageRoot \cup {Nowhere},
         NEW P \in SUBSET Blob,
         uploads' = InodesMoved(f, o, P)
  PROVE  /\ InFlight' = InFlight
         /\ \A y \in InFlight :
              /\ uploads'[y] \in Upload
              /\ uploads'[y].inode =
                   IF uploads[y].inode = f /\ y \in P THEN o ELSE uploads[y].inode
<1>1. InFlight' = InFlight
  BY DEF InFlight, InodesMoved
<1>2. ASSUME NEW y \in InFlight
      PROVE  /\ uploads'[y] \in Upload
             /\ uploads'[y].inode =
                  IF uploads[y].inode = f /\ y \in P THEN o ELSE uploads[y].inode
  <2>1. uploads[y] \in Upload
    BY DEF StorageTypes
  <2>2. CASE uploads[y].inode = f /\ y \in P
    <3>1. uploads'[y] = [uploads[y] EXCEPT !.inode = o]
      BY <2>2 DEF InodesMoved
    <3> QED BY <3>1, <2>1, <2>2 DEF Upload
  <2>3. CASE ~(uploads[y].inode = f /\ y \in P)
    <3>1. uploads'[y] = uploads[y]
      BY <2>3 DEF InodesMoved
    <3> QED BY <3>1, <2>1, <2>3
  <2> QED BY <2>2, <2>3
<1> QED BY <1>1, <1>2

\* The same when every upload of the root moves.
LEMMA AllInodesMove ==
  ASSUME StorageTypes, NEW f \in StorageRoot, NEW o \in StorageRoot \cup {Nowhere},
         uploads' = [y \in InFlight |->
           IF uploads[y].inode = f THEN [uploads[y] EXCEPT !.inode = o] ELSE uploads[y]]
  PROVE  /\ InFlight' = InFlight
         /\ \A y \in InFlight :
              /\ uploads'[y] \in Upload
              /\ uploads'[y].inode = IF uploads[y].inode = f THEN o ELSE uploads[y].inode
<1>1. InFlight' = InFlight
  BY DEF InFlight
<1>2. ASSUME NEW y \in InFlight
      PROVE  /\ uploads'[y] \in Upload
             /\ uploads'[y].inode = IF uploads[y].inode = f THEN o ELSE uploads[y].inode
  <2>1. uploads[y] \in Upload
    BY DEF StorageTypes
  <2>2. CASE uploads[y].inode = f
    <3>1. uploads'[y] = [uploads[y] EXCEPT !.inode = o]
      BY <2>2
    <3> QED BY <3>1, <2>1, <2>2 DEF Upload
  <2>3. CASE uploads[y].inode # f
    <3>1. uploads'[y] = uploads[y]
      BY <2>3
    <3> QED BY <3>1, <2>1, <2>3
  <2> QED BY <2>2, <2>3
<1> QED BY <1>1, <1>2

LEMMA RenameRootKeeps ==
  ASSUME RelocationInv, NEW to \in StorageRoot, RenameRoot(to)
  PROVE  RelocationInv'
<1>0. /\ StorageTypes /\ DiskTyped /\ Idle /\ to # uploadRoot
      /\ \A y \in Blob : ~Has(to, y)
      /\ UNCHANGED <<stored, uploadRoot, rows, shared, torn, strayed, mishaps>>
      /\ rows \subseteq Blob /\ InFlight \subseteq Blob
  BY DEF RelocationInv, RenameRoot, MayMoveTo, StorageTypes
<1>1. PICK u \in StorageRoot : u = uploadRoot /\ u = Holding
  BY <1>0, RootsNamed
<1>2. PICK e \in Tree : e = Ensured(u) /\ e # Nowhere
  BY <1>0, EnsuredTree
<1>3. DiskTyped' /\ Becomes(to, e) /\ Becomes(u, Nowhere) /\ KeepRoots(StorageRoot \ {to, u})
  <2>1. disk' = [disk EXCEPT ![to] = e, ![u] = Nowhere]
    BY <1>1, <1>2 DEF RenameRoot
  <2> QED BY <2>1, <1>0, <1>1, TwoRoots
<1>4. move' = [at |-> "renamed", from |-> u, to |-> to]
  BY <1>1 DEF RenameRoot
<1>5. /\ InFlight' = InFlight
      /\ \A y \in InFlight :
           /\ uploads'[y] \in Upload
           /\ uploads'[y].inode = IF uploads[y].inode = u THEN to ELSE uploads[y].inode
  <2>1. uploads' = [y \in InFlight |->
          IF uploads[y].inode = u THEN [uploads[y] EXCEPT !.inode = to] ELSE uploads[y]]
    BY <1>1 DEF RenameRoot
  <2> QED BY <2>1, <1>0, AllInodesMove
<1>6. ASSUME NEW y \in Blob
      PROVE  (Has(u, y) => Has(to, y)') /\ (Whole(u, y) => Whole(to, y)')
  <2>1. (e[y] # "none" <=> Has(u, y)) /\ (e[y] = "whole" <=> Whole(u, y))
    BY <1>0, <1>2, EnsuredTree
  <2> QED BY <2>1, <1>2, <1>3 DEF Becomes
<1>7. ASSUME NEW r \in StorageRoot, r # u, NEW y \in Blob
      PROVE  (Has(r, y) => Has(r, y)') /\ (Whole(r, y) => Whole(r, y)')
  <2>1. CASE r = to
    BY <2>1, <1>0 DEF Has, Whole
  <2>2. CASE r # to
    BY <2>2, <1>7, <1>3 DEF KeepRoots
  <2> QED BY <2>1, <2>2
<1>8. StorageTypes'
  <2>1. Saved' = Saved
    BY <1>0 DEF Saved
  <2> QED BY <2>1, <1>0, <1>1, <1>3, <1>4, <1>5 DEF StorageTypes
<1>9. InodesFound'
  <2> SUFFICES ASSUME NEW y \in InFlight, NEW r \in StorageRoot, uploads'[y].inode = r
               PROVE  Has(r, y)'
    BY <1>5 DEF InodesFound
  <2>1. CASE uploads[y].inode = u
    <3>1. r = to /\ Has(u, y)
      BY <2>1, <1>5 DEF RelocationInv, InodesFound
    <3> QED BY <3>1, <1>0, <1>6
  <2>2. CASE uploads[y].inode # u
    <3>1. uploads[y].inode = r /\ r # u /\ Has(r, y)
      BY <2>2, <1>5 DEF RelocationInv, InodesFound
    <3> QED BY <3>1, <1>0, <1>7
  <2> QED BY <2>1, <2>2
<1>10. MoveInv'
  BY <1>3, <1>4 DEF MoveInv, Becomes
<1>11. DataSomewhere'
  <2> SUFFICES ASSUME NEW y \in rows \ strayed
               PROVE  \E r \in StorageRoot : Whole(r, y)'
    BY <1>0 DEF DataSomewhere
  <2>1. PICK r \in StorageRoot : Whole(r, y)
    BY DEF RelocationInv, DataSomewhere
  <2> QED BY <2>1, <1>0, <1>6, <1>7
<1>12. RowsHeld'
  <2>1. Holding' = to
    BY <1>4 DEF Holding
  <2> SUFFICES ASSUME ~torn, NEW y \in rows \ strayed
               PROVE  Whole(to, y)'
    BY <1>0, <2>1 DEF RowsHeld
  <2>2. Whole(u, y)
    BY <1>1 DEF RelocationInv, RowsHeld
  <2> QED BY <2>2, <1>0, <1>6
<1> QED BY <1>8, <1>9, <1>10, <1>11, <1>12 DEF RelocationInv

LEMMA ChmodFailsKeeps ==
  ASSUME RelocationInv, ChmodFails
  PROVE  RelocationInv'
<1>0. /\ StorageTypes /\ DiskTyped /\ mishaps' \in 0 .. MaxStorageEvents
      /\ torn' = TRUE /\ move' = NoMove
      /\ UNCHANGED <<disk, stored, uploadRoot, rows, uploads, shared, strayed>>
  BY StorageAssumption DEF RelocationInv, ChmodFails, StorageTypes, Mishap
<1>1. uploadRoot \in StorageRoot /\ NoMove = [at |-> "idle", from |-> uploadRoot, to |-> uploadRoot]
  BY <1>0, RootsNamed DEF NoMove
<1>2. StorageTypes'
  <2>1. Saved' = Saved /\ Idle' /\ InFlight' = InFlight
    BY <1>0, <1>1 DEF Saved, Idle, InFlight
  <2> QED BY <2>1, <1>0, <1>1 DEF StorageTypes, DiskTyped
<1>3. InodesFound' /\ MoveInv' /\ DataSomewhere' /\ RowsHeld'
  BY <1>0, <1>1 DEF RelocationInv, InodesFound, MoveInv, DataSomewhere, RowsHeld, InFlight, Has,
                    Exists, Whole
<1> QED BY <1>2, <1>3 DEF RelocationInv

LEMMA CopyRootKeeps ==
  ASSUME RelocationInv, NEW to \in StorageRoot, CopyRoot(to)
  PROVE  RelocationInv'
<1>0. /\ StorageTypes /\ DiskTyped /\ Idle /\ to # uploadRoot
      /\ \A y \in Blob : ~Has(to, y)
      /\ UNCHANGED <<stored, uploadRoot, rows, uploads, shared, torn, strayed, mishaps>>
      /\ rows \subseteq Blob /\ InFlight \subseteq Blob
  BY DEF RelocationInv, CopyRoot, MayMoveTo, StorageTypes
<1>1. PICK u \in StorageRoot : u = uploadRoot /\ u = Holding
  BY <1>0, RootsNamed
<1>2. PICK e \in Tree : e = Ensured(u) /\ e # Nowhere
  BY <1>0, EnsuredTree
<1>3. DiskTyped' /\ Becomes(to, e) /\ Becomes(u, e) /\ KeepRoots(StorageRoot \ {to, u})
  <2>1. disk' = [disk EXCEPT ![to] = e, ![u] = e]
    BY <1>1, <1>2 DEF CopyRoot
  <2> QED BY <2>1, <1>0, <1>1, TwoRoots
<1>4. move' = [at |-> "copied", from |-> u, to |-> to]
  BY <1>1 DEF CopyRoot
<1>5. \A r \in StorageRoot, y \in Blob :
        (Has(r, y) => Has(r, y)') /\ (Whole(r, y) => Whole(r, y)')
  <2> SUFFICES ASSUME NEW r \in StorageRoot, NEW y \in Blob
               PROVE  (Has(r, y) => Has(r, y)') /\ (Whole(r, y) => Whole(r, y)')
    OBVIOUS
  <2>1. CASE r = u
    <3>1. (e[y] # "none" <=> Has(u, y)) /\ (e[y] = "whole" <=> Whole(u, y))
      BY <1>0, <1>2, EnsuredTree
    <3>2. (Has(u, y)' <=> e[y] # "none") /\ (Whole(u, y)' <=> e[y] = "whole")
      BY <1>2, <1>3 DEF Becomes
    <3> QED BY <2>1, <3>1, <3>2
  <2>2. CASE r = to
    BY <2>2, <1>0 DEF Has, Whole
  <2>3. CASE r \notin {to, u}
    BY <2>3, <1>3 DEF KeepRoots
  <2> QED BY <2>1, <2>2, <2>3
<1>6. StorageTypes'
  <2>1. Saved' = Saved /\ InFlight' = InFlight
    BY <1>0 DEF Saved, InFlight
  <2> QED BY <2>1, <1>0, <1>1, <1>3, <1>4 DEF StorageTypes
<1>7. InodesFound'
  <2> SUFFICES ASSUME NEW y \in InFlight, NEW r \in StorageRoot, uploads[y].inode = r
               PROVE  Has(r, y)'
    BY <1>0 DEF InodesFound, InFlight
  <2> QED BY <1>0, <1>5 DEF RelocationInv, InodesFound
<1>8. MoveInv'
  <2>1. Exists(u)' /\ Exists(to)' /\ disk'[u] = disk'[to]
    BY <1>2, <1>3 DEF Becomes
  <2>2. \A y \in InFlight' : uploads'[y].inode # to
    BY <1>0 DEF RelocationInv, InodesFound, InFlight
  <2> QED BY <2>1, <2>2, <1>4 DEF MoveInv
<1>9. DataSomewhere'
  BY <1>0, <1>5 DEF RelocationInv, DataSomewhere
<1>10. RowsHeld'
  <2>1. Holding' = u
    BY <1>0, <1>1, <1>4 DEF Holding
  <2> SUFFICES ASSUME ~torn, NEW y \in rows \ strayed
               PROVE  Whole(u, y)'
    BY <1>0, <2>1 DEF RowsHeld
  <2>2. Whole(u, y)
    BY <1>1 DEF RelocationInv, RowsHeld
  <2> QED BY <2>2, <1>0, <1>5
<1> QED BY <1>6, <1>7, <1>8, <1>9, <1>10 DEF RelocationInv

\* What every step that ends a relocation, or a part of it, keeps.
EndsWith(m) ==
  /\ move' = m
  /\ UNCHANGED <<stored, uploadRoot, rows, shared, strayed>>
  /\ torn' \in BOOLEAN /\ (torn => torn')
  /\ mishaps' \in 0 .. MaxStorageEvents

LEMMA TypesAfter ==
  ASSUME StorageTypes, DiskTyped', InFlight' \subseteq InFlight,
         \A y \in InFlight' : uploads'[y] \in Upload,
         NEW m, EndsWith(m),
         m \in [at : {"idle", "renamed", "copied", "removed"}, from : StorageRoot, to : StorageRoot],
         m.at # "idle" => m.from = uploadRoot /\ m.to # m.from
  PROVE  StorageTypes'
<1>1. Saved' = Saved
  BY DEF Saved, EndsWith
<1> QED BY <1>1 DEF StorageTypes, EndsWith, Idle

LEMMA IdleMoveTyped ==
  ASSUME StorageTypes
  PROVE  /\ NoMove \in [at : {"idle", "renamed", "copied", "removed"},
                        from : StorageRoot, to : StorageRoot]
         /\ NoMove.at = "idle"
BY RootsNamed DEF NoMove

LEMMA CopyFailsKeeps ==
  ASSUME RelocationInv, CopyFails
  PROVE  RelocationInv'
<1>0. /\ StorageTypes /\ DiskTyped /\ move.at = "copied" /\ EndsWith(NoMove)
      /\ UNCHANGED <<uploads, torn>> /\ rows \subseteq Blob /\ InFlight \subseteq Blob
  BY StorageAssumption DEF RelocationInv, CopyFails, StorageTypes, Mishap, EndsWith
<1>1. PICK u \in StorageRoot, o \in StorageRoot :
        u = move.from /\ o = move.to /\ u = uploadRoot /\ u # o
  BY <1>0, MoveNames DEF Idle
<1>2. DiskTyped' /\ KeepRoots(StorageRoot \ {o})
  <2>1. CASE disk' = disk
    BY <2>1, <1>0, SameDisk DEF KeepRoots
  <2>2. CASE disk' = AfterFailedCopy
    <3>1. disk' = [disk EXCEPT ![o] = Nowhere]
      BY <2>2, <1>1 DEF AfterFailedCopy
    <3> QED BY <3>1, <1>0, OneRoot
  <2> QED BY <2>1, <2>2 DEF CopyFails
<1>3. StorageTypes'
  <2>1. InFlight' = InFlight /\ \A y \in InFlight : uploads'[y] \in Upload
    BY <1>0 DEF InFlight, StorageTypes
  <2> QED BY <2>1, <1>0, <1>2, IdleMoveTyped, TypesAfter
<1>4. InodesFound'
  <2> SUFFICES ASSUME NEW y \in InFlight, NEW r \in StorageRoot, uploads[y].inode = r
               PROVE  Has(r, y)'
    BY <1>0 DEF InodesFound, InFlight
  <2>1. r # o /\ Has(r, y)
    BY <1>0, <1>1 DEF RelocationInv, MoveInv, InodesFound
  <2> QED BY <2>1, <1>0, <1>2 DEF KeepRoots
<1>5. MoveInv'
  BY <1>0, IdleMoveTyped DEF MoveInv, EndsWith
<1>6. DataSomewhere'
  <2> SUFFICES ASSUME NEW y \in rows \ strayed
               PROVE  \E r \in StorageRoot : Whole(r, y)'
    BY <1>0 DEF DataSomewhere, EndsWith
  <2>1. PICK r \in StorageRoot : Whole(r, y)
    BY DEF RelocationInv, DataSomewhere
  <2>2. CASE r = o
    <3>1. Whole(u, y)
      BY <2>1, <2>2, <1>0, <1>1 DEF RelocationInv, MoveInv, Whole
    <3> QED BY <3>1, <1>0, <1>1, <1>2 DEF KeepRoots
  <2>3. CASE r # o
    BY <2>1, <2>3, <1>0, <1>2 DEF KeepRoots
  <2> QED BY <2>2, <2>3
<1>7. RowsHeld'
  <2>1. Holding = u /\ Holding' = u
    BY <1>0, <1>1, IdleMoveTyped DEF Holding, EndsWith
  <2> SUFFICES ASSUME ~torn, NEW y \in rows \ strayed
               PROVE  Whole(u, y)'
    BY <1>0, <2>1 DEF RowsHeld, EndsWith
  <2>2. Whole(u, y)
    BY <2>1 DEF RelocationInv, RowsHeld
  <2> QED BY <2>2, <1>0, <1>1, <1>2 DEF KeepRoots
<1> QED BY <1>3, <1>4, <1>5, <1>6, <1>7 DEF RelocationInv

LEMMA RemoveSourceKeeps ==
  ASSUME RelocationInv, RemoveSource
  PROVE  RelocationInv'
<1>0. /\ StorageTypes /\ DiskTyped /\ move.at = "copied"
      /\ UNCHANGED <<stored, uploadRoot, rows, shared, torn, strayed, mishaps>>
      /\ rows \subseteq Blob /\ InFlight \subseteq Blob
  BY DEF RelocationInv, RemoveSource, StorageTypes
<1>1. PICK u \in StorageRoot, o \in StorageRoot :
        u = move.from /\ o = move.to /\ u = uploadRoot /\ u # o
  BY <1>0, MoveNames DEF Idle
<1>2. PICK kept \in SUBSET {y \in Blob : Has(u, y)} :
        /\ disk' = [disk EXCEPT ![u] =
             IF kept = {} THEN Nowhere
             ELSE [y \in Blob |-> IF y \in kept THEN disk[u][y] ELSE "none"]]
        /\ uploads' = [y \in InFlight |->
             IF uploads[y].inode = u /\ y \notin kept
             THEN [uploads[y] EXCEPT !.inode = Nowhere] ELSE uploads[y]]
  <2>1. PICK kept \in SUBSET {y \in Blob : Has(move.from, y)} :
          /\ disk' = [disk EXCEPT ![move.from] =
               IF kept = {} THEN Nowhere
               ELSE [y \in Blob |-> IF y \in kept THEN disk[move.from][y] ELSE "none"]]
          /\ uploads' = [y \in InFlight |->
               IF uploads[y].inode = move.from /\ y \notin kept
               THEN [uploads[y] EXCEPT !.inode = Nowhere] ELSE uploads[y]]
    BY Zenon DEF RemoveSource
  <2>2. move.from = u
    BY <1>1
  <2> QED BY <2>1, <2>2
<1>3. PICK e \in Tree : e = disk[u] /\ e # Nowhere
  BY <1>0, <1>1 DEF RelocationInv, MoveInv, Exists, DiskTyped
<1> DEFINE left == IF kept = {} THEN Nowhere
                   ELSE [y \in Blob |-> IF y \in kept THEN e[y] ELSE "none"]
<1>4. /\ left \in Tree \cup {Nowhere}
      /\ kept # {} => left # Nowhere
      /\ \A y \in Blob : left # Nowhere => left[y] = IF y \in kept THEN e[y] ELSE "none"
  BY <1>3, StorageAssumption DEF Tree, MarkOf
<1>5. disk' = [disk EXCEPT ![u] = left]
  BY <1>2, <1>3
<1> HIDE DEF left
<1>6. DiskTyped' /\ Becomes(u, left) /\ KeepRoots(StorageRoot \ {u})
  BY <1>0, <1>4, <1>5, OneRoot
<1>7. move' = [at |-> "removed", from |-> u, to |-> o]
  <2>1. move' = [move EXCEPT !.at = "removed"]
    BY DEF RemoveSource
  <2> QED BY <2>1, <1>0, <1>1 DEF StorageTypes
<1>8. /\ InFlight' = InFlight
      /\ \A y \in InFlight :
           /\ uploads'[y] \in Upload
           /\ uploads'[y].inode =
                IF uploads[y].inode = u /\ y \in Blob \ kept THEN Nowhere ELSE uploads[y].inode
  <2>1. uploads' = [y \in InFlight |->
          IF uploads[y].inode = u /\ y \in Blob \ kept
          THEN [uploads[y] EXCEPT !.inode = Nowhere] ELSE uploads[y]]
    BY <1>0, <1>2
  <2> DEFINE P == Blob \ kept
  <2>2. P \in SUBSET Blob
    OBVIOUS
  <2>3. uploads' = InodesMoved(u, Nowhere, P)
    BY <2>1 DEF InodesMoved
  <2>4. Nowhere \in StorageRoot \cup {Nowhere}
    OBVIOUS
  <2> HIDE DEF P
  <2>5. /\ InFlight' = InFlight
        /\ \A y \in InFlight :
             /\ uploads'[y] \in Upload
             /\ uploads'[y].inode =
                  IF uploads[y].inode = u /\ y \in P THEN Nowhere ELSE uploads[y].inode
    BY <1>0, <2>2, <2>3, <2>4, InodesMove
  <2> QED BY <2>5 DEF P
<1>9. StorageTypes'
  <2>1. Saved' = Saved
    BY <1>0 DEF Saved
  <2> QED BY <2>1, <1>0, <1>1, <1>6, <1>7, <1>8 DEF StorageTypes
<1>10. InodesFound'
  <2> SUFFICES ASSUME NEW y \in InFlight, NEW r \in StorageRoot, uploads'[y].inode = r
               PROVE  Has(r, y)'
    BY <1>8 DEF InodesFound
  <2>1. uploads[y].inode = r /\ Has(r, y) /\ y \in Blob
    BY <1>0, <1>8, StorageAssumption DEF RelocationInv, InodesFound
  <2>2. CASE r = u
    <3>1. y \in kept
      BY <2>1, <2>2, <1>0, <1>8, StorageAssumption
    <3>2. left # Nowhere /\ left[y] = e[y] /\ e[y] # "none"
      BY <3>1, <1>3, <1>4, <2>1, <2>2 DEF Has
    <3> QED BY <3>2, <2>1, <2>2, <1>6 DEF Becomes
  <2>3. CASE r # u
    BY <2>1, <2>3, <1>6 DEF KeepRoots
  <2> QED BY <2>2, <2>3
<1>11. MoveInv'
  <2>1. ASSUME NEW y \in rows, Has(u, y)'
        PROVE  Has(o, y)' /\ disk'[u][y] = disk'[o][y]
    <3>1. left # Nowhere /\ left[y] # "none" /\ disk'[u] = left
      BY <2>1, <1>0, <1>6 DEF Becomes
    <3>2. left[y] = e[y] /\ e[y] = disk[o][y] /\ e[y] # "none"
      BY <3>1, <1>0, <1>1, <1>3, <1>4 DEF RelocationInv, MoveInv
    <3>3. Has(o, y) /\ disk'[o] = disk[o]
      BY <3>2, <1>0, <1>1, <1>6 DEF RelocationInv, MoveInv, Has, KeepRoots
    <3> QED BY <3>1, <3>2, <3>3, <1>0, <1>1, <1>6 DEF KeepRoots
  <2>2. \A y \in InFlight' : uploads'[y].inode # o
    BY <1>0, <1>1, <1>8, StorageAssumption DEF RelocationInv, MoveInv
  <2> QED BY <2>1, <2>2, <1>0, <1>7 DEF MoveInv
<1>12. ASSUME NEW y \in rows, NEW r \in StorageRoot, Whole(r, y)
       PROVE  \E q \in StorageRoot : Whole(q, y)' /\ (r = u => q = o)
  <2>1. CASE r = u
    <3>1. Whole(o, y)
      BY <2>1, <1>12, <1>0, <1>1 DEF RelocationInv, MoveInv, Whole
    <3> QED BY <3>1, <1>0, <1>1, <1>6 DEF KeepRoots
  <2>2. CASE r # u
    BY <1>12, <2>2, <1>0, <1>6 DEF KeepRoots
  <2> QED BY <2>1, <2>2
<1>13. DataSomewhere'
  <2> SUFFICES ASSUME NEW y \in rows \ strayed
               PROVE  \E r \in StorageRoot : Whole(r, y)'
    BY <1>0 DEF DataSomewhere
  <2> QED BY <1>12 DEF RelocationInv, DataSomewhere
<1>14. RowsHeld'
  <2>1. Holding = u /\ Holding' = o
    BY <1>0, <1>1, <1>7 DEF Holding
  <2> SUFFICES ASSUME ~torn, NEW y \in rows \ strayed
               PROVE  Whole(o, y)'
    BY <1>0, <2>1 DEF RowsHeld
  <2>2. Whole(u, y)
    BY <2>1 DEF RelocationInv, RowsHeld
  <2> QED BY <2>2, <1>12
<1> QED BY <1>9, <1>10, <1>11, <1>13, <1>14 DEF RelocationInv

LEMMA SaveRootKeeps ==
  ASSUME RelocationInv, SaveRoot
  PROVE  RelocationInv'
<1>0. /\ StorageTypes /\ DiskTyped /\ move.at \in {"renamed", "removed"}
      /\ UNCHANGED <<disk, rows, uploads, shared, torn, strayed, mishaps>>
      /\ rows \subseteq Blob /\ InFlight \subseteq Blob /\ InFlight' = InFlight
  BY DEF RelocationInv, SaveRoot, StorageTypes, InFlight
<1>1. PICK o \in StorageRoot : o = move.to /\ o = Holding
  BY <1>0, MoveNames DEF Holding
<1>2. stored' = o /\ uploadRoot' = o /\ move' = [at |-> "idle", from |-> o, to |-> o]
  BY <1>1 DEF SaveRoot
<1>3. Saved' = o /\ Idle' /\ Holding' = o
  BY <1>2, StorageAssumption DEF Saved, Idle, Holding
<1>4. DiskTyped' /\ KeepRoots(StorageRoot)
  BY <1>0, SameDisk
<1>5. StorageTypes'
  BY <1>0, <1>2, <1>3, <1>4 DEF StorageTypes
<1>6. InodesFound'
  <2>1. SameFiles
    BY <1>4 DEF SameFiles, KeepRoots
  <2> QED BY <2>1, <1>0, InodesStayFound
<1>7. MoveInv'
  BY <1>2 DEF MoveInv
<1>8. DataSomewhere'
  BY <1>0, <1>4 DEF RelocationInv, DataSomewhere, KeepRoots
<1>9. RowsHeld'
  <2> SUFFICES ASSUME ~torn, NEW y \in rows \ strayed
               PROVE  Whole(o, y)'
    BY <1>0, <1>3 DEF RowsHeld
  <2>1. Whole(o, y)
    BY <1>1 DEF RelocationInv, RowsHeld
  <2> QED BY <2>1, <1>0, <1>4 DEF KeepRoots
<1> QED BY <1>5, <1>6, <1>7, <1>8, <1>9 DEF RelocationInv

LEMMA UndoRenameKeeps ==
  ASSUME RelocationInv, UndoRename
  PROVE  RelocationInv'
<1>0. /\ StorageTypes /\ DiskTyped /\ move.at = "renamed" /\ EndsWith(NoMove)
      /\ UNCHANGED torn /\ rows \subseteq Blob /\ InFlight \subseteq Blob
  BY StorageAssumption DEF RelocationInv, UndoRename, StorageTypes, Mishap, EndsWith
<1>1. PICK u \in StorageRoot, o \in StorageRoot :
        u = move.from /\ o = move.to /\ u = uploadRoot /\ u # o
  BY <1>0, MoveNames DEF Idle
<1>2. PICK e \in Tree \cup {Nowhere} : e = disk[o]
  BY <1>0 DEF DiskTyped
<1>3. DiskTyped' /\ Becomes(u, e) /\ Becomes(o, Nowhere) /\ KeepRoots(StorageRoot \ {u, o})
  <2>1. disk' = [disk EXCEPT ![u] = e, ![o] = Nowhere]
    BY <1>1, <1>2 DEF UndoRename
  <2> QED BY <2>1, <1>0, <1>1, TwoRoots
<1>4. /\ InFlight' = InFlight
      /\ \A y \in InFlight :
           /\ uploads'[y] \in Upload
           /\ uploads'[y].inode = IF uploads[y].inode = o THEN u ELSE uploads[y].inode
  <2>1. uploads' = [y \in InFlight |->
          IF uploads[y].inode = o THEN [uploads[y] EXCEPT !.inode = u] ELSE uploads[y]]
    BY <1>1 DEF UndoRename
  <2> QED BY <2>1, <1>0, AllInodesMove
<1>5. \A y \in Blob : ~Has(u, y)
  BY <1>0, <1>1 DEF RelocationInv, MoveInv, Has
<1>6. ASSUME NEW y \in Blob
      PROVE  (Has(o, y) => Has(u, y)') /\ (Whole(o, y) => Whole(u, y)')
  BY <1>2, <1>3 DEF Becomes, Has, Whole, Exists
<1>7. ASSUME NEW r \in StorageRoot, r # o, NEW y \in Blob
      PROVE  (Has(r, y) => Has(r, y)') /\ (Whole(r, y) => Whole(r, y)')
  <2>1. CASE r = u
    BY <2>1, <1>5 DEF Has, Whole
  <2>2. CASE r # u
    BY <2>2, <1>7, <1>3 DEF KeepRoots
  <2> QED BY <2>1, <2>2
<1>8. StorageTypes'
  BY <1>0, <1>3, <1>4, IdleMoveTyped, TypesAfter
<1>9. InodesFound'
  <2> SUFFICES ASSUME NEW y \in InFlight, NEW r \in StorageRoot, uploads'[y].inode = r
               PROVE  Has(r, y)'
    BY <1>4 DEF InodesFound
  <2>1. CASE uploads[y].inode = o
    <3>1. r = u /\ Has(o, y)
      BY <2>1, <1>4 DEF RelocationInv, InodesFound
    <3> QED BY <3>1, <1>0, <1>6
  <2>2. CASE uploads[y].inode # o
    <3>1. uploads[y].inode = r /\ r # o /\ Has(r, y)
      BY <2>2, <1>4 DEF RelocationInv, InodesFound
    <3> QED BY <3>1, <1>0, <1>7
  <2> QED BY <2>1, <2>2
<1>10. MoveInv'
  BY <1>0, IdleMoveTyped DEF MoveInv, EndsWith
<1>11. DataSomewhere'
  <2> SUFFICES ASSUME NEW y \in rows \ strayed
               PROVE  \E r \in StorageRoot : Whole(r, y)'
    BY <1>0 DEF DataSomewhere, EndsWith
  <2>1. PICK r \in StorageRoot : Whole(r, y)
    BY DEF RelocationInv, DataSomewhere
  <2> QED BY <2>1, <1>0, <1>6, <1>7
<1>12. RowsHeld'
  <2>1. Holding = o /\ Holding' = u
    BY <1>0, <1>1, IdleMoveTyped DEF Holding, EndsWith
  <2> SUFFICES ASSUME ~torn, NEW y \in rows \ strayed
               PROVE  Whole(u, y)'
    BY <1>0, <2>1 DEF RowsHeld, EndsWith
  <2>2. Whole(o, y)
    BY <2>1 DEF RelocationInv, RowsHeld
  <2> QED BY <2>2, <1>0, <1>6
<1> QED BY <1>8, <1>9, <1>10, <1>11, <1>12 DEF RelocationInv

\* While a source is being removed, the target has what the rows find in it.
LEMMA TargetHasAll ==
  ASSUME RelocationInv, move.at \in {"renamed", "removed"}, NEW y \in rows,
         NEW u \in StorageRoot, u = move.from, NEW o \in StorageRoot, o = move.to
  PROVE  Whole(u, y) => Whole(o, y)
BY DEF RelocationInv, MoveInv, Whole, Has

LEMMA UndoCopyKeeps ==
  ASSUME RelocationInv, UndoCopy
  PROVE  RelocationInv'
<1>0. /\ StorageTypes /\ DiskTyped /\ move.at = "removed" /\ EndsWith(NoMove)
      /\ UNCHANGED torn /\ rows \subseteq Blob /\ InFlight \subseteq Blob
  BY StorageAssumption DEF RelocationInv, UndoCopy, StorageTypes, Mishap, EndsWith
<1>1. PICK u \in StorageRoot, o \in StorageRoot :
        u = move.from /\ o = move.to /\ u = uploadRoot /\ u # o
  BY <1>0, MoveNames DEF Idle
<1>2. PICK e \in Tree \cup {Nowhere} : e = disk[o]
  BY <1>0 DEF DiskTyped
<1>3. PICK after \in Tree \cup {Nowhere} :
        disk' = [disk EXCEPT ![u] = e, ![o] = after]
  <2>1. PICK after \in {disk[move.to], Nowhere} :
          disk' = [disk EXCEPT ![move.from] = disk[move.to], ![move.to] = after]
    BY Zenon DEF UndoCopy
  <2> QED BY <2>1, <1>1, <1>2
<1>4. DiskTyped' /\ Becomes(u, e) /\ KeepRoots(StorageRoot \ {u, o})
  BY <1>0, <1>1, <1>3, TwoRoots
<1>5. /\ InFlight' = InFlight
      /\ \A y \in InFlight :
           /\ uploads'[y] \in Upload
           /\ uploads'[y].inode = IF uploads[y].inode = u THEN Nowhere ELSE uploads[y].inode
  <2>1. uploads' = [y \in InFlight |->
          IF uploads[y].inode = u THEN [uploads[y] EXCEPT !.inode = Nowhere] ELSE uploads[y]]
    BY <1>1 DEF UndoCopy
  <2> QED BY <2>1, <1>0, AllInodesMove
<1>6. \A y \in Blob : Whole(o, y) => Whole(u, y)'
  BY <1>2, <1>4 DEF Becomes, Whole, Exists
<1>7. StorageTypes'
  BY <1>0, <1>4, <1>5, IdleMoveTyped, TypesAfter
<1>8. InodesFound'
  <2> SUFFICES ASSUME NEW y \in InFlight, NEW r \in StorageRoot, uploads'[y].inode = r
               PROVE  Has(r, y)'
    BY <1>5 DEF InodesFound
  <2>1. uploads[y].inode = r /\ r # u
    BY <1>5, StorageAssumption
  <2>2. Has(r, y) /\ r # o
    BY <2>1, <1>0, <1>1 DEF RelocationInv, InodesFound, MoveInv
  <2> QED BY <2>1, <2>2, <1>0, <1>4 DEF KeepRoots
<1>9. MoveInv'
  BY <1>0, IdleMoveTyped DEF MoveInv, EndsWith
<1>10. DataSomewhere'
  <2> SUFFICES ASSUME NEW y \in rows \ strayed
               PROVE  \E r \in StorageRoot : Whole(r, y)'
    BY <1>0 DEF DataSomewhere, EndsWith
  <2>1. PICK r \in StorageRoot : Whole(r, y)
    BY DEF RelocationInv, DataSomewhere
  <2>2. CASE r \in {u, o}
    <3>1. Whole(o, y)
      BY <2>1, <2>2, <1>0, <1>1, TargetHasAll
    <3> QED BY <3>1, <1>0, <1>6
  <2>3. CASE r \notin {u, o}
    BY <2>1, <2>3, <1>0, <1>4 DEF KeepRoots
  <2> QED BY <2>2, <2>3
<1>11. RowsHeld'
  <2>1. Holding = o /\ Holding' = u
    BY <1>0, <1>1, IdleMoveTyped DEF Holding, EndsWith
  <2> SUFFICES ASSUME ~torn, NEW y \in rows \ strayed
               PROVE  Whole(u, y)'
    BY <1>0, <2>1 DEF RowsHeld, EndsWith
  <2>2. Whole(o, y)
    BY <2>1 DEF RelocationInv, RowsHeld
  <2> QED BY <2>2, <1>0, <1>6
<1> QED BY <1>7, <1>8, <1>9, <1>10, <1>11 DEF RelocationInv

LEMMA UndoFailsKeeps ==
  ASSUME RelocationInv, UndoFails
  PROVE  RelocationInv'
<1>0. /\ StorageTypes /\ DiskTyped /\ move.at \in {"renamed", "removed"} /\ EndsWith(NoMove)
      /\ torn' = TRUE /\ rows \subseteq Blob /\ InFlight \subseteq Blob
  BY StorageAssumption DEF RelocationInv, UndoFails, StorageTypes, Mishap, EndsWith
<1>1. PICK u \in StorageRoot, o \in StorageRoot :
        u = move.from /\ o = move.to /\ u = uploadRoot /\ u # o
  BY <1>0, MoveNames DEF Idle
<1>2. DiskTyped' /\ KeepRoots(StorageRoot \ {u})
  <2>1. disk' = [disk EXCEPT ![u] = Nowhere]
    BY <1>1 DEF UndoFails
  <2> QED BY <2>1, <1>0, OneRoot
<1>3. /\ InFlight' = InFlight
      /\ \A y \in InFlight :
           /\ uploads'[y] \in Upload
           /\ uploads'[y].inode = IF uploads[y].inode = u THEN Nowhere ELSE uploads[y].inode
  <2>1. uploads' = [y \in InFlight |->
          IF uploads[y].inode = u THEN [uploads[y] EXCEPT !.inode = Nowhere] ELSE uploads[y]]
    BY <1>1 DEF UndoFails
  <2> QED BY <2>1, <1>0, AllInodesMove
<1>4. StorageTypes'
  BY <1>0, <1>2, <1>3, IdleMoveTyped, TypesAfter
<1>5. InodesFound'
  <2> SUFFICES ASSUME NEW y \in InFlight, NEW r \in StorageRoot, uploads'[y].inode = r
               PROVE  Has(r, y)'
    BY <1>3 DEF InodesFound
  <2>1. uploads[y].inode = r /\ r # u
    BY <1>3, StorageAssumption
  <2> QED BY <2>1, <1>0, <1>2 DEF RelocationInv, InodesFound, KeepRoots
<1>6. MoveInv'
  BY <1>0, IdleMoveTyped DEF MoveInv, EndsWith
<1>7. DataSomewhere'
  <2> SUFFICES ASSUME NEW y \in rows \ strayed
               PROVE  \E r \in StorageRoot : Whole(r, y)'
    BY <1>0 DEF DataSomewhere, EndsWith
  <2>1. PICK r \in StorageRoot : Whole(r, y)
    BY DEF RelocationInv, DataSomewhere
  <2>2. CASE r = u
    <3>1. Whole(o, y)
      BY <2>1, <2>2, <1>0, <1>1, TargetHasAll
    <3> QED BY <3>1, <1>0, <1>1, <1>2 DEF KeepRoots
  <2>3. CASE r # u
    BY <2>1, <2>3, <1>0, <1>2 DEF KeepRoots
  <2> QED BY <2>2, <2>3
<1>8. RowsHeld'
  BY <1>0 DEF RowsHeld
<1> QED BY <1>4, <1>5, <1>6, <1>7, <1>8 DEF RelocationInv

LEMMA CrashAndRestartKeeps ==
  ASSUME RelocationInv, CrashAndRestart
  PROVE  RelocationInv'
<1>0. /\ StorageTypes /\ DiskTyped /\ mishaps' \in 0 .. MaxStorageEvents
      /\ uploads' = <<>> /\ rows \subseteq Blob
      /\ torn' = (torn \/ move.at \in {"renamed", "removed"})
      /\ UNCHANGED <<stored, rows, shared, strayed>>
  BY StorageAssumption DEF RelocationInv, CrashAndRestart, StorageTypes, Mishap
<1>1. PICK u \in StorageRoot : u = Saved /\ u = uploadRoot
  BY <1>0, RootsNamed DEF StorageTypes
<1>2. DiskTyped' /\ SameFiles
  <2>1. disk' = [disk EXCEPT ![u] = Ensured(u)]
    BY <1>1 DEF CrashAndRestart
  <2> QED BY <2>1, <1>0, RootMade DEF SameFiles
<1>3. uploadRoot' = u /\ move' = [at |-> "idle", from |-> u, to |-> u]
  BY <1>1 DEF CrashAndRestart
<1>4. Saved' = u /\ Idle' /\ Holding' = u /\ InFlight' = {}
  BY <1>0, <1>1, <1>3 DEF Saved, Idle, Holding, InFlight
<1>5. StorageTypes'
  BY <1>0, <1>2, <1>3, <1>4 DEF StorageTypes
<1>6. InodesFound' /\ MoveInv'
  BY <1>3, <1>4 DEF InodesFound, MoveInv
<1>7. DataSomewhere'
  BY <1>0, <1>2 DEF RelocationInv, DataSomewhere, SameFiles
<1>8. RowsHeld'
  <2> SUFFICES ASSUME ~torn', NEW y \in rows \ strayed
               PROVE  Whole(u, y)'
    BY <1>0, <1>4 DEF RowsHeld
  <2>1. Holding = u /\ ~torn
    BY <1>0, <1>1 DEF Holding
  <2>2. Whole(u, y)
    BY <2>1 DEF RelocationInv, RowsHeld
  <2> QED BY <2>2, <1>0, <1>2 DEF SameFiles
<1> QED BY <1>5, <1>6, <1>7, <1>8 DEF RelocationInv

-----------------------------------------------------------------------------
LEMMA StorageStarts == StorageInit => RelocationInv
<1> SUFFICES ASSUME StorageInit PROVE RelocationInv
  OBVIOUS
<1>1. DiskTyped
  <2>1. Empty \in Tree
    BY DEF Empty, Tree, MarkOf
  <2> QED BY <2>1 DEF StorageInit, DiskTyped
<1>2. InFlight = {} /\ Idle /\ Saved = EnvRoot
  BY DEF StorageInit, InFlight, Idle, Saved
<1>3. StorageTypes
  <2>1. mishaps \in 0 .. MaxStorageEvents
    BY StorageAssumption DEF StorageInit
  <2>2. move \in [at : {"idle", "renamed", "copied", "removed"}, from : StorageRoot, to : StorageRoot]
    BY StorageAssumption DEF StorageInit
  <2>3. uploadRoot = Saved /\ stored \in StorageRoot \cup {Nowhere}
    BY <1>2 DEF StorageInit
  <2>4. rows = {} /\ strayed = {} /\ shared = FALSE /\ torn = FALSE
    BY DEF StorageInit
  <2> QED BY <1>1, <1>2, <2>1, <2>2, <2>3, <2>4 DEF StorageTypes
<1> QED BY <1>2, <1>3 DEF StorageInit, RelocationInv, InodesFound, MoveInv, DataSomewhere, RowsHeld

LEMMA StorageStep == RelocationInv /\ StorageNext => RelocationInv'
BY BeginUploadKeeps, WriteEndsKeeps, CommitUploadKeeps, AbortUploadKeeps, DeleteStoredKeeps,
   ChangeSharingKeeps, SameRootKeeps, UseExistingKeeps, OperatorCopiesKeeps, RenameRootKeeps,
   ChmodFailsKeeps, CopyRootKeeps, CopyFailsKeeps, RemoveSourceKeeps, SaveRootKeeps,
   UndoRenameKeeps, UndoCopyKeeps, UndoFailsKeeps, CrashAndRestartKeeps
   DEF StorageNext

LEMMA StorageStutters == RelocationInv /\ UNCHANGED storageVars => RelocationInv'
BY DEF RelocationInv, StorageTypes, InodesFound, MoveInv, DataSomewhere, RowsHeld, InFlight, Saved,
       Idle, Has, Whole, Exists, Holding, storageVars, DiskTyped

\* The server alone, whatever else runs beside it.
LEMMA RelocationHolds == FilesSpec => []RelocationInv
<1>1. FilesInit => RelocationInv
  BY StorageStarts DEF FilesInit
<1>2. RelocationInv /\ [FilesNext]_fileVars => RelocationInv'
  BY StorageStep, StorageStutters DEF FilesNext, fileVars
<1> QED BY <1>1, <1>2, PTL DEF FilesSpec

\* However a relocation ends, each recorded file's data is whole under some root, and under
\* the root in use unless a move was cut off before its setting was saved
\* (storage-settings.js:185-409: the rename, the copy and its verification, the removal of the
\* source, both rollbacks and their failures), for any number of roots, files and failures.
THEOREM MovedDataIsKept == FilesSpec => []RelocationKeepsData
<1>1. RelocationInv => RelocationKeepsData
  <2> SUFFICES ASSUME RelocationInv PROVE RowsFoundInActive
    BY DEF RelocationInv, RelocationKeepsData
  <2>1. Idle => Holding = uploadRoot
    BY DEF Idle, Holding
  <2> QED BY <2>1 DEF RelocationInv, RowsHeld, RowsFoundInActive
<1> QED BY <1>1, RelocationHolds, PTL

-----------------------------------------------------------------------------
(***************************************************************************)
(* Protected disclosure (ProtectedStream) for every set of requests and    *)
(* descriptor numbers and every length: types are kept, every open number  *)
(* belongs to exactly one request that will close it, and no chunk leaves  *)
(* unauthorized.                                                           *)
(*                                                                         *)
(* A request holds a descriptor exactly while it is generating a preview   *)
(* or pumping a file (Holds).  So a step of the pump either keeps its      *)
(* request holding, and touches no descriptor, or ends it, and closes the  *)
(* number it holds.  Shape says of one request what both need.             *)
(***************************************************************************)
Shape(q) ==
  /\ q \in Request
  /\ q.final <=> q.stage = "done"
  /\ q.timer => q.stage \in {"reading", "draining"}
  /\ q.stage = "generating" => q.kind = "json"
  /\ q.stage \in {"new", "generating"} => ~q.stopped
  /\ q.stage = "reading" => q.left > 0

StreamInv ==
  /\ streams \in [Stream -> Request]
  /\ \A s \in Stream : Shape(streams[s])
  /\ fds \in [Fd -> Stream \cup {NoStream}]
  /\ authorized \in [Stream -> BOOLEAN]
  /\ DescriptorsAreOwned

Pumping(q) == q.stage \in {"reading", "draining"}

\* r is q after some steps of its pump.
SameFile(q, r) == r.kind = q.kind /\ r.fd = q.fd

Moved(q, r) ==
  /\ Shape(r) /\ SameFile(q, r)
  /\ r.stage \in {"reading", "draining", "done"}

-----------------------------------------------------------------------------
(* The pump.                                                                *)

LEMMA FinishedFacts ==
  ASSUME NEW q \in Request
  PROVE  /\ Moved(q, Finished(q))
         /\ Finished(q).left = q.left /\ Finished(q).stage = "done"
<1> DEFINE r == Finished(q)
<1>1. r \in Request
  BY DEF Finished, Finalized, Request
<1>2. /\ r.kind = q.kind /\ r.fd = q.fd /\ r.left = q.left
      /\ r.stage = "done" /\ r.final = TRUE /\ r.timer = FALSE
  BY DEF Finished, Finalized, Request
<1> HIDE DEF r
<1> QED
  BY <1>1, <1>2 DEF Moved, Shape, SameFile, r

LEMMA EndedFacts ==
  ASSUME NEW q \in Request
  PROVE  /\ Moved(q, Ended(q))
         /\ Ended(q).left = q.left /\ Ended(q).stage = "done"
<1> DEFINE r == [q EXCEPT !.out = "ended"]
<1>1. r \in Request /\ r.kind = q.kind /\ r.fd = q.fd /\ r.left = q.left
  BY DEF Request
<1>2. Ended(q) = Finished(r)
  BY DEF Ended
<1> HIDE DEF r
<1> QED
  BY <1>1, <1>2, FinishedFacts DEF Moved, SameFile

LEMMA TerminatedFacts ==
  ASSUME NEW q \in Request
  PROVE  LET r == Terminated(q)
         IN  /\ r \in Request
             /\ r.kind = q.kind /\ r.fd = q.fd /\ r.left = q.left
             /\ r.stage = q.stage /\ r.final = q.final /\ r.timer = q.timer
<1>1. CASE q.stopped \/ q.final
  BY <1>1 DEF Terminated
<1>2. CASE ~(q.stopped \/ q.final)
  <2>1. Gone(q.out) \in {"open", "ended", "destroyed", "closed"}
    BY DEF Gone
  <2>2. Terminated(q) = [q EXCEPT !.stopped = TRUE, !.out = Gone(q.out)]
    BY <1>2 DEF Terminated
  <2> QED
    BY <2>1, <2>2 DEF Request
<1> QED
  BY <1>1, <1>2

LEMMA StageFacts ==
  ASSUME NEW q \in Request, NEW stage \in {"reading", "draining"}
  PROVE  LET r == [q EXCEPT !.stage = stage]
         IN  /\ r \in Request
             /\ r.kind = q.kind /\ r.fd = q.fd /\ r.left = q.left
             /\ r.stage = stage /\ r.final = q.final
BY DEF Request

LEMMA WrittenFacts ==
  ASSUME NEW q \in Request, NEW n \in 0..q.left
  PROVE  LET r == Written(q, n)
         IN  /\ r \in Request
             /\ r.kind = q.kind /\ r.fd = q.fd /\ r.left = q.left - n
             /\ r.stage = q.stage /\ r.final = q.final /\ r.stopped = q.stopped
<1>1. q.left \in 0..Chunks /\ q.left - n \in 0..Chunks
  BY ChunkAssumption DEF Request, ChunkAssumption
<1> QED
  BY <1>1 DEF Written, Request

LEMMA FileLoopMoves ==
  ASSUME NEW q \in Request, ~q.final, NEW ok
  PROVE  Moved(q, FileLoop(q, ok)) /\ FileLoop(q, ok).left = q.left
<1>1. CASE q.stopped
  BY <1>1, FinishedFacts DEF FileLoop
<1>2. CASE ~q.stopped /\ q.left = 0
  BY <1>2, EndedFacts DEF FileLoop
<1>3. CASE ~q.stopped /\ q.left # 0 /\ ok
  <2>1. q.left > 0
    BY <1>3, ChunkAssumption DEF Request, ChunkAssumption
  <2> DEFINE r == [q EXCEPT !.stage = "reading"]
  <2>2. FileLoop(q, ok) = r
    BY <1>3 DEF FileLoop
  <2>3. /\ r \in Request /\ r.kind = q.kind /\ r.fd = q.fd /\ r.left = q.left
        /\ r.stage = "reading" /\ r.final = q.final
    BY StageFacts
  <2> HIDE DEF r
  <2> QED
    BY <2>1, <2>2, <2>3 DEF Moved, Shape, SameFile
<1>4. CASE ~q.stopped /\ q.left # 0 /\ ~ok
  <2>1. FileLoop(q, ok) = Finished(Terminated(q))
    BY <1>4 DEF FileLoop
  <2> QED
    BY <2>1, TerminatedFacts, FinishedFacts DEF Moved, SameFile
<1> QED
  BY <1>1, <1>2, <1>3, <1>4

LEMMA BufferLoopMoves ==
  ASSUME NEW q \in Request, ~q.final, NEW n \in 0..q.left, NEW then \in Outcome
  PROVE  LET r == BufferLoop(q, n, then)
         IN  /\ Moved(q, r) /\ r.stage # "reading"
             /\ r.left # q.left => ~q.stopped /\ n > 0
<1>1. CASE q.stopped
  BY <1>1, FinishedFacts DEF BufferLoop
<1>2. CASE ~q.stopped /\ q.left = 0
  BY <1>2, EndedFacts DEF BufferLoop
<1>3. CASE ~q.stopped /\ q.left # 0 /\ q.out # "open" /\ then # "refused"
  <2>1. BufferLoop(q, n, then) = [q EXCEPT !.stage = "draining"]
    BY <1>3 DEF BufferLoop
  <2> QED
    BY <2>1, StageFacts DEF Moved, Shape, SameFile
<1>4. CASE ~q.stopped /\ q.left # 0 /\ ~(q.out # "open" /\ then # "refused")
  <2> DEFINE w == Written(q, n)
  <2>1. /\ w \in Request /\ w.kind = q.kind /\ w.fd = q.fd /\ w.left = q.left - n
        /\ w.final = q.final
    BY WrittenFacts
  <2>2. w.left # q.left => n > 0
    BY <2>1, ChunkAssumption DEF Request, ChunkAssumption
  <2>3. \/ BufferLoop(q, n, then) = [w EXCEPT !.stage = "draining"]
        \/ BufferLoop(q, n, then) = Finished(Terminated(w))
        \/ BufferLoop(q, n, then) = Ended(w)
    BY <1>4 DEF BufferLoop, Outcome
  <2> HIDE DEF w
  <2>4. CASE BufferLoop(q, n, then) = [w EXCEPT !.stage = "draining"]
    <3> DEFINE r == [w EXCEPT !.stage = "draining"]
    <3>1. /\ r \in Request /\ r.kind = w.kind /\ r.fd = w.fd /\ r.left = w.left
          /\ r.stage = "draining" /\ r.final = w.final
      BY <2>1, StageFacts
    <3>2. BufferLoop(q, n, then) = r
      BY <2>4
    <3> HIDE DEF r
    <3> QED BY <1>4, <2>1, <2>2, <3>1, <3>2 DEF Moved, Shape, SameFile
  <2>5. CASE BufferLoop(q, n, then) = Finished(Terminated(w))
    BY <1>4, <2>1, <2>2, <2>5, TerminatedFacts, FinishedFacts DEF Moved, SameFile
  <2>6. CASE BufferLoop(q, n, then) = Ended(w)
    BY <1>4, <2>1, <2>2, <2>6, EndedFacts DEF Moved, SameFile
  <2> QED
    BY <2>3, <2>4, <2>5, <2>6
<1> QED
  BY <1>1, <1>2, <1>3, <1>4

LEMMA CloseEventFacts ==
  ASSUME NEW q \in Request, Shape(q)
  PROVE  LET r == CloseEvent(q)
         IN  /\ Shape(r) /\ SameFile(q, r) /\ r.left = q.left
             /\ r.stage = q.stage \/ (q.stage = "draining" /\ r.stage = "done")
<1> DEFINE c == [q EXCEPT !.out = "closed", !.stopped = TRUE]
           d == [q EXCEPT !.out = "closed"]
<1>1. /\ c \in Request /\ SameFile(q, c) /\ c.left = q.left
      /\ c.stage = q.stage /\ c.final = q.final /\ c.timer = q.timer
  BY DEF Request, SameFile
<1>2. /\ d \in Request /\ SameFile(q, d) /\ d.left = q.left /\ d.stopped = q.stopped
      /\ d.stage = q.stage /\ d.final = q.final /\ d.timer = q.timer
  BY DEF Request, SameFile
<1>3. CloseEvent(q) = IF q.stage \in {"new", "generating"} THEN d
                      ELSE IF q.stage = "draining" THEN Finished(c) ELSE c
  BY DEF CloseEvent
<1> HIDE DEF c, d
<1>4. CASE q.stage \in {"new", "generating"}
  BY <1>2, <1>3, <1>4 DEF Shape, SameFile
<1>5. CASE q.stage = "draining"
  BY <1>1, <1>3, <1>5, FinishedFacts DEF Moved, SameFile
<1>6. CASE q.stage \notin {"new", "generating", "draining"}
  BY <1>1, <1>3, <1>6 DEF Shape
<1> QED
  BY <1>4, <1>5, <1>6

-----------------------------------------------------------------------------
(* The tables.                                                              *)

\* A request moves on and keeps its place, or the pump that held it ends.
LEMMA BecomeGood ==
  ASSUME StreamInv, NEW s \in Stream, NEW q, Shape(q), SameFile(streams[s], q),
         \/ q.stage = streams[s].stage
         \/ Pumping(streams[s]) /\ q.stage \in {"reading", "draining", "done"},
         Become(s, q), UNCHANGED authorized
  PROVE  StreamInv'
<1> DEFINE p == streams[s]
<1>1. /\ q \in Request /\ Shape(p) /\ p \in Request
      /\ q.kind = p.kind /\ q.fd = p.fd
  BY DEF StreamInv, Shape, SameFile
<1>2. /\ streams' = [streams EXCEPT ![s] = q]
      /\ streams' \in [Stream -> Request]
      /\ streams'[s] = q
      /\ \A t \in Stream \ {s} : streams'[t] = streams[t]
  BY <1>1 DEF Become, StreamInv
<1>3. \A t \in Stream : Shape(streams'[t])
  BY <1>2 DEF StreamInv
<1>4. \A t \in Stream \ {s} : Holds(t)' <=> Holds(t)
  BY <1>2 DEF Holds
<1>5. CASE fds' = fds /\ (Holds(s)' <=> Holds(s))
  <2>1. DescriptorsAreOwned'
    BY <1>1, <1>2, <1>4, <1>5 DEF DescriptorsAreOwned, StreamInv
  <2> QED
    BY <1>2, <1>3, <1>5, <2>1 DEF StreamInv
<1>6. CASE Holds(s) /\ ~Holds(s)' /\ fds' = Closed(fds, q)
  <2>1. p.fd \in Fd /\ fds[p.fd] = s /\ p.fd # NoFd
    BY <1>6, NullAssumption DEF StreamInv, DescriptorsAreOwned, NullAssumption
  <2>2. fds' = [fds EXCEPT ![p.fd] = NoStream]
    BY <1>1, <1>6, <2>1 DEF Closed
  <2>3. fds' \in [Fd -> Stream \cup {NoStream}]
    BY <2>2 DEF StreamInv
  <2>4. ASSUME NEW t \in Stream, Holds(t)'
        PROVE  streams'[t].fd \in Fd /\ fds'[streams'[t].fd] = t
    <3>1. t # s /\ Holds(t) /\ streams'[t] = streams[t]
      BY <1>2, <1>4, <1>6, <2>4
    <3>2. streams[t].fd \in Fd /\ fds[streams[t].fd] = t
      BY <3>1 DEF StreamInv, DescriptorsAreOwned
    <3>3. streams[t].fd # p.fd
      BY <2>1, <3>1, <3>2
    <3> QED
      BY <2>2, <3>1, <3>2, <3>3 DEF StreamInv
  <2>5. ASSUME NEW d \in Fd, fds'[d] # NoStream
        PROVE  (Holds(fds[d]) /\ streams[fds[d]].fd = d)'
    <3>1. d # p.fd /\ fds'[d] = fds[d]
      BY <2>1, <2>2, <2>5 DEF StreamInv
    <3>2. fds[d] \in Stream /\ Holds(fds[d]) /\ streams[fds[d]].fd = d
      BY <2>5, <3>1 DEF StreamInv, DescriptorsAreOwned
    <3>3. fds[d] # s
      BY <3>1, <3>2
    <3> QED
      BY <1>2, <1>4, <3>1, <3>2, <3>3
  <2>6. DescriptorsAreOwned'
    BY <2>4, <2>5 DEF DescriptorsAreOwned
  <2> QED
    BY <1>2, <1>3, <2>3, <2>6 DEF StreamInv
<1>7. CASE q.stage = p.stage
  BY <1>1, <1>2, <1>5, <1>7 DEF Become, Holds, Shape
<1>8. CASE Pumping(p) /\ q.stage \in {"reading", "draining"}
  BY <1>1, <1>2, <1>5, <1>8 DEF Become, Holds, Shape, Pumping
<1>9. CASE Pumping(p) /\ q.stage = "done" /\ q.kind = "file"
  BY <1>1, <1>2, <1>6, <1>9 DEF Become, Holds, Shape, Pumping
<1>10. CASE Pumping(p) /\ q.stage = "done" /\ q.kind = "json"
  BY <1>1, <1>2, <1>5, <1>10 DEF Become, Holds, Shape, Pumping
<1> QED
  BY <1>1, <1>7, <1>8, <1>9, <1>10 DEF Request

\* A request under its new number d, or none.
LEMMA OpenGood ==
  ASSUME StreamInv, NEW s \in Stream, NEW d \in Fd, Free(d), NEW q, Shape(q),
         streams[s].stage = "new", q.fd = d,
         q.stage = "generating" \/ (q.kind = "file" /\ q.stage = "reading"),
         streams' = [streams EXCEPT ![s] = q], fds' = [fds EXCEPT ![d] = s],
         UNCHANGED authorized
  PROVE  StreamInv'
<1>1. /\ q \in Request
      /\ streams' \in [Stream -> Request]
      /\ streams'[s] = q
      /\ \A t \in Stream \ {s} : streams'[t] = streams[t]
  BY DEF StreamInv, Shape
<1>2. \A t \in Stream : Shape(streams'[t])
  BY <1>1 DEF StreamInv
<1>3. /\ fds' \in [Fd -> Stream \cup {NoStream}]
      /\ fds'[d] = s /\ \A e \in Fd \ {d} : fds'[e] = fds[e]
  BY DEF StreamInv
<1>4. ~Holds(s) /\ Holds(s)'
  BY <1>1 DEF Holds
<1>5. \A t \in Stream \ {s} : Holds(t)' <=> Holds(t)
  BY <1>1 DEF Holds
<1>6. fds[d] \notin Stream
  BY NullAssumption DEF Free, NullAssumption
<1>7. ASSUME NEW t \in Stream, Holds(t)'
      PROVE  streams'[t].fd \in Fd /\ fds'[streams'[t].fd] = t
  <2>1. CASE t = s
    BY <1>1, <1>3, <2>1
  <2>2. CASE t # s
    <3>1. streams[t].fd \in Fd /\ fds[streams[t].fd] = t /\ streams'[t] = streams[t]
      BY <1>1, <1>5, <1>7, <2>2 DEF StreamInv, DescriptorsAreOwned
    <3> QED
      BY <1>3, <1>6, <3>1
  <2> QED
    BY <2>1, <2>2
<1>8. ASSUME NEW e \in Fd, fds'[e] # NoStream
      PROVE  (Holds(fds[e]) /\ streams[fds[e]].fd = e)'
  <2>1. CASE e = d
    BY <1>1, <1>3, <1>4, <2>1
  <2>2. CASE e # d
    <3>1. fds'[e] = fds[e] /\ fds[e] \in Stream /\ Holds(fds[e]) /\ streams[fds[e]].fd = e
      BY <1>3, <1>8, <2>2 DEF StreamInv, DescriptorsAreOwned
    <3> QED
      BY <1>1, <1>4, <1>5, <3>1
  <2> QED
    BY <2>1, <2>2
<1>9. DescriptorsAreOwned'
  BY <1>7, <1>8 DEF DescriptorsAreOwned
<1> QED
  BY <1>1, <1>2, <1>3, <1>9 DEF StreamInv

\* A request that was generating gives its number up, or one that holds none ends.
LEMMA CloseGood ==
  ASSUME StreamInv, NEW s \in Stream, streams[s].stage = "generating", NEW q, Shape(q),
         SameFile(streams[s], q), q.stage \in {"draining", "done"},
         streams' = [streams EXCEPT ![s] = q], fds' = Closed(fds, streams[s]),
         UNCHANGED authorized
  PROVE  StreamInv'
<1> DEFINE p == streams[s]
<1>1. /\ q \in Request /\ Shape(p) /\ p.kind = "json" /\ q.kind = "json"
      /\ streams' \in [Stream -> Request]
      /\ streams'[s] = q
      /\ \A t \in Stream \ {s} : streams'[t] = streams[t]
  BY DEF StreamInv, Shape, SameFile
<1>2. \A t \in Stream : Shape(streams'[t])
  BY <1>1 DEF StreamInv
<1>3. /\ Holds(s) /\ ~Holds(s)'
      /\ \A t \in Stream \ {s} : Holds(t)' <=> Holds(t)
  BY <1>1 DEF Holds
<1>4. p.fd \in Fd /\ fds[p.fd] = s /\ p.fd # NoFd
  BY <1>3, NullAssumption DEF StreamInv, DescriptorsAreOwned, NullAssumption
<1>5. fds' = [fds EXCEPT ![p.fd] = NoStream] /\ fds' \in [Fd -> Stream \cup {NoStream}]
  BY <1>4 DEF Closed, StreamInv
<1>6. ASSUME NEW t \in Stream, Holds(t)'
      PROVE  streams'[t].fd \in Fd /\ fds'[streams'[t].fd] = t
  <2>1. /\ t # s /\ streams'[t] = streams[t]
        /\ streams[t].fd \in Fd /\ fds[streams[t].fd] = t
    BY <1>1, <1>3, <1>6 DEF StreamInv, DescriptorsAreOwned
  <2>2. streams[t].fd # p.fd
    BY <1>4, <2>1
  <2> QED
    BY <1>5, <2>1, <2>2 DEF StreamInv
<1>7. ASSUME NEW d \in Fd, fds'[d] # NoStream
      PROVE  (Holds(fds[d]) /\ streams[fds[d]].fd = d)'
  <2>1. d # p.fd /\ fds'[d] = fds[d]
    BY <1>4, <1>5, <1>7 DEF StreamInv
  <2>2. fds[d] \in Stream /\ Holds(fds[d]) /\ streams[fds[d]].fd = d
    BY <1>7, <2>1 DEF StreamInv, DescriptorsAreOwned
  <2>3. fds[d] # s
    BY <2>1, <2>2
  <2> QED
    BY <1>1, <1>3, <2>1, <2>2, <2>3
<1>8. DescriptorsAreOwned'
  BY <1>6, <1>7 DEF DescriptorsAreOwned
<1> QED
  BY <1>1, <1>2, <1>5, <1>8 DEF StreamInv

\* A request that holds nothing becomes one that holds nothing.
LEMMA AsideGood ==
  ASSUME StreamInv, NEW s \in Stream, NEW q, Shape(q),
         streams[s].stage \in {"new", "done"}, q.stage \in {"new", "done"},
         streams' = [streams EXCEPT ![s] = q], UNCHANGED <<fds, authorized>>
  PROVE  StreamInv'
<1>1. /\ q \in Request
      /\ streams' \in [Stream -> Request]
      /\ streams'[s] = q
      /\ \A t \in Stream \ {s} : streams'[t] = streams[t]
  BY DEF StreamInv, Shape
<1>2. \A t \in Stream : Shape(streams'[t])
  BY <1>1 DEF StreamInv
<1>3. /\ ~Holds(s) /\ ~Holds(s)'
      /\ \A t \in Stream \ {s} : Holds(t)' <=> Holds(t)
  BY <1>1 DEF Holds
<1>4. DescriptorsAreOwned'
  BY <1>1, <1>3 DEF StreamInv, DescriptorsAreOwned
<1> QED
  BY <1>1, <1>2, <1>4 DEF StreamInv

-----------------------------------------------------------------------------
(* The actions.                                                             *)

LEMMA AskedFacts ==
  ASSUME NEW q \in Asked
  PROVE  Shape(q) /\ q.stage = "new"
<1>0. q \in {Fresh(k, n) : k \in Kinds, n \in 0..Chunks}
  BY DEF Asked
<1>1. PICK k \in Kinds, n \in 0..Chunks : q = Fresh(k, n)
  BY <1>0
<1>2. k \in {"file", "json"}
  BY KindAssumption DEF KindAssumption
<1>3. q \in Request
  BY <1>1, <1>2 DEF Fresh, Request
<1>4. /\ q.kind = k /\ q.stage = "new" /\ q.final = FALSE /\ q.timer = FALSE
      /\ q.stopped = FALSE
  BY <1>1 DEF Fresh
<1> QED
  BY <1>3, <1>4 DEF Shape

LEMMA InitGood == Init => StreamInv
<1> SUFFICES ASSUME Init PROVE StreamInv
  OBVIOUS
<1>1. streams \in [Stream -> Asked]
  BY DEF Init
<1>2. /\ streams \in [Stream -> Request]
      /\ \A s \in Stream : Shape(streams[s]) /\ streams[s].stage = "new"
  BY <1>1, AskedFacts DEF Shape
<1>3. \A d \in Fd : fds[d] = NoStream
  BY DEF Init
<1>4. DescriptorsAreOwned
  BY <1>2, <1>3 DEF DescriptorsAreOwned, Holds
<1> QED
  BY <1>2, <1>4 DEF Init, StreamInv

LEMMA DownloadGood ==
  ASSUME StreamInv, NEW s \in Stream, NEW d \in Fd, NEW ok \in BOOLEAN, Download(s, d, ok)
  PROVE  StreamInv' /\ streams'[s].left = streams[s].left
<1> DEFINE p == streams[s]
           q == [p EXCEPT !.fd = d]
           r == [q EXCEPT !.timer = TRUE]
<1>1. p \in Request /\ Shape(p) /\ p.stage = "new" /\ p.kind = "file" /\ Free(d)
  BY DEF Download, StreamInv
<1>2. /\ q \in Request /\ q.fd = d /\ q.stage = "new" /\ q.kind = "file"
      /\ q.left = p.left /\ q.final = p.final
  BY <1>1 DEF Request
<1>3. CASE ok /\ q.left > 0
  <2>1. /\ r \in Request /\ r.fd = d /\ r.kind = "file" /\ r.left = p.left
        /\ r.final = FALSE /\ r.left > 0 /\ ~r.stopped
    BY <1>1, <1>2, <1>3 DEF Request, Shape
  <2>2. /\ streams' = [streams EXCEPT ![s] = FileLoop(r, TRUE)]
        /\ fds' = [fds EXCEPT ![d] = s] /\ UNCHANGED authorized
    BY <1>3 DEF Download
  <2> HIDE DEF q, r
  <2>3. Moved(r, FileLoop(r, TRUE)) /\ FileLoop(r, TRUE).left = p.left
    BY <2>1, FileLoopMoves
  <2>4. FileLoop(r, TRUE).stage = "reading"
    BY <2>1, StageFacts DEF FileLoop
  <2>5. StreamInv'
    BY <1>1, <2>1, <2>2, <2>3, <2>4, OpenGood DEF Moved, SameFile
  <2> QED
    BY <2>2, <2>3, <2>5 DEF StreamInv
<1>4. CASE ~(ok /\ q.left > 0)
  <2>1. streams' = [streams EXCEPT ![s] = Ended(q)] /\ UNCHANGED <<fds, authorized>>
    BY <1>4 DEF Download
  <2> HIDE DEF q
  <2>2. Moved(q, Ended(q)) /\ Ended(q).left = p.left /\ Ended(q).stage = "done"
    BY <1>2, EndedFacts
  <2>3. StreamInv'
    BY <1>1, <2>1, <2>2, AsideGood DEF Moved
  <2> QED
    BY <2>1, <2>2, <2>3 DEF StreamInv
<1> QED
  BY <1>3, <1>4

LEMMA PreviewGood ==
  ASSUME StreamInv, NEW s \in Stream, NEW d \in Fd, NEW ok \in BOOLEAN, Preview(s, d, ok)
  PROVE  StreamInv' /\ streams'[s].left = streams[s].left
<1> DEFINE p == streams[s]
           q == [p EXCEPT !.fd = d]
           r == [q EXCEPT !.stage = "generating"]
<1>1. /\ p \in Request /\ Shape(p) /\ p.stage = "new" /\ p.kind = "json" /\ Free(d)
      /\ UNCHANGED authorized
  BY DEF Preview, StreamInv
<1>2. q \in Request /\ q.left = p.left /\ Shape(q)
  BY <1>1 DEF Request, Shape
<1>3. CASE ok
  <2>1. r.fd = d /\ r.stage = "generating" /\ r.left = p.left
    BY <1>1, <1>2 DEF Request
  <2>2. r \in Request
    BY <1>1, <1>2 DEF Request
  <2>3. r.final = q.final /\ r.timer = q.timer /\ r.kind = q.kind /\ r.stopped = q.stopped
    BY <1>1, <1>2 DEF Request
  <2>4. q.stage = "new" /\ q.kind = "json"
    BY <1>1 DEF Request
  <2>5. Shape(r)
    BY <1>2, <2>1, <2>2, <2>3, <2>4 DEF Shape
  <2>6. streams' = [streams EXCEPT ![s] = r] /\ fds' = [fds EXCEPT ![d] = s]
    BY <1>3 DEF Preview
  <2> HIDE DEF q, r
  <2>7. StreamInv'
    BY <1>1, <2>1, <2>5, <2>6, OpenGood
  <2> QED
    BY <2>1, <2>6, <2>7 DEF StreamInv
<1>4. CASE ~ok
  <2>1. streams' = [streams EXCEPT ![s] = Ended(q)] /\ UNCHANGED fds
    BY <1>4 DEF Preview
  <2> HIDE DEF q
  <2>2. Moved(q, Ended(q)) /\ Ended(q).left = p.left /\ Ended(q).stage = "done"
    BY <1>2, EndedFacts
  <2>3. StreamInv'
    BY <1>1, <2>1, <2>2, AsideGood DEF Moved
  <2> QED
    BY <2>1, <2>2, <2>3 DEF StreamInv
<1> QED
  BY <1>3, <1>4

LEMMA PreviewFailsGood ==
  ASSUME StreamInv, NEW s \in Stream, PreviewFails(s)
  PROVE  StreamInv' /\ streams'[s].left = streams[s].left
<1> DEFINE p == streams[s]
<1>1. /\ p \in Request /\ p.stage = "generating"
      /\ streams' = [streams EXCEPT ![s] = Ended(p)]
      /\ fds' = Closed(fds, p) /\ UNCHANGED authorized
  BY DEF PreviewFails, StreamInv
<1>2. Moved(p, Ended(p)) /\ Ended(p).left = p.left /\ Ended(p).stage = "done"
  BY <1>1, EndedFacts
<1>3. StreamInv'
  BY <1>1, <1>2, CloseGood DEF Moved
<1> QED
  BY <1>1, <1>2, <1>3 DEF StreamInv

LEMMA PreviewReadyGood ==
  ASSUME StreamInv, NEW s \in Stream, NEW n \in 0..Chunks, NEW then \in Outcome,
         PreviewReady(s, n, then)
  PROVE  /\ StreamInv'
         /\ streams'[s].left # streams[s].left => authorized[s] /\ ~streams[s].stopped
<1> DEFINE p == streams[s]
           q == [p EXCEPT !.timer = TRUE]
           r == BufferLoop(q, n, then)
<1>1. /\ p \in Request /\ Shape(p) /\ p.stage = "generating" /\ p.kind = "json"
      /\ streams' = [streams EXCEPT ![s] = r]
      /\ fds' = Closed(fds, p) /\ UNCHANGED authorized
      /\ authorized[s] /\ n \in 0..p.left
  BY DEF PreviewReady, StreamInv, Shape, Outcomes
<1>2. /\ q \in Request /\ q.kind = p.kind /\ q.fd = p.fd /\ q.left = p.left
      /\ q.stopped = p.stopped /\ ~q.final /\ ~q.stopped
  BY <1>1 DEF Request, Shape
<1>3. Moved(q, r)
  <2> HIDE DEF q
  <2> QED
    BY <1>1, <1>2, BufferLoopMoves
<1>4. Shape(r) /\ SameFile(p, r)
  BY <1>2, <1>3 DEF Moved, SameFile
<1>5. r.stage \in {"draining", "done"}
  <2> HIDE DEF q
  <2> QED
    BY <1>1, <1>2, BufferLoopMoves DEF Moved
<1> HIDE DEF r
<1>6. StreamInv'
  BY <1>1, <1>4, <1>5, CloseGood
<1> QED
  BY <1>1, <1>2, <1>6

\* Become, together with what it does to the length left.
LEMMA StepGood ==
  ASSUME StreamInv, NEW s \in Stream, NEW q, Shape(q), SameFile(streams[s], q),
         \/ q.stage = streams[s].stage
         \/ Pumping(streams[s]) /\ q.stage \in {"reading", "draining", "done"},
         Become(s, q), UNCHANGED authorized
  PROVE  StreamInv' /\ streams'[s].left = q.left
<1>1. StreamInv'
  BY BecomeGood
<1> QED
  BY <1>1 DEF Become, StreamInv

LEMMA ReadGood ==
  ASSUME StreamInv, NEW s \in Stream, NEW full \in BOOLEAN, NEW ok \in BOOLEAN, Read(s, full, ok)
  PROVE  /\ StreamInv'
         /\ streams'[s].left # streams[s].left => authorized[s] /\ ~streams[s].stopped
<1> DEFINE p == streams[s]
           w == Written(p, 1)
<1>1. /\ p \in Request /\ Shape(p) /\ p.stage = "reading" /\ Pumping(p) /\ ~p.final
      /\ p.left > 0 /\ (ok => authorized[s]) /\ UNCHANGED authorized
  BY DEF Read, StreamInv, Shape, Pumping, Answer
<1>2. 1 \in 0..p.left
  BY <1>1 DEF Request
<1>3. /\ w \in Request /\ w.kind = p.kind /\ w.fd = p.fd /\ w.stage = "reading"
      /\ w.final = p.final
  BY <1>1, <1>2, WrittenFacts
<1> HIDE DEF w
<1>4. CASE p.stopped \/ ~ok
  <2>1. /\ Terminated(p) \in Request /\ SameFile(p, Terminated(p))
        /\ Terminated(p).left = p.left
    BY <1>1, TerminatedFacts DEF SameFile
  <2>2. PICK q \in {Finished(p), Finished(Terminated(p))} : Become(s, q)
    BY <1>4 DEF Read
  <2>3. Moved(p, q) /\ q.left = p.left
    BY <1>1, <2>1, <2>2, FinishedFacts DEF Moved, SameFile
  <2>4. StreamInv' /\ streams'[s].left = q.left
    BY <1>1, <2>2, <2>3, StepGood DEF Moved
  <2> QED
    BY <2>3, <2>4
<1>5. CASE ~p.stopped /\ ok
  <2>1. PICK q \in {[w EXCEPT !.stage = "draining"], FileLoop(w, TRUE)} : Become(s, q)
    BY <1>5 DEF Read, w
  <2>2. Moved(w, [w EXCEPT !.stage = "draining"])
    BY <1>1, <1>3, StageFacts DEF Moved, Shape, SameFile
  <2>3. Moved(w, FileLoop(w, TRUE))
    BY <1>1, <1>3, FileLoopMoves
  <2>4. Moved(p, q)
    BY <1>3, <2>1, <2>2, <2>3 DEF Moved, SameFile
  <2>5. StreamInv'
    BY <1>1, <2>1, <2>4, StepGood DEF Moved
  <2> QED
    BY <1>1, <1>5, <2>5
<1> QED
  BY <1>4, <1>5

LEMMA ReadEndsGood ==
  ASSUME StreamInv, NEW s \in Stream, NEW failed \in BOOLEAN, ReadEnds(s, failed)
  PROVE  StreamInv' /\ streams'[s].left = streams[s].left
<1> DEFINE p == streams[s]
           x == [p EXCEPT !.stopped = TRUE, !.out = Gone(@)]
<1>1. p \in Request /\ Pumping(p) /\ UNCHANGED authorized
  BY DEF ReadEnds, StreamInv, Pumping
<1>2. Gone(p.out) \in {"destroyed", "closed"}
  BY DEF Gone
<1>3. x \in Request /\ SameFile(p, x) /\ x.left = p.left
  BY <1>1, <1>2 DEF Request, SameFile
<1>4. PICK q \in {Finished(x), Finished(p), Ended(p)} : Become(s, q)
  BY DEF ReadEnds
<1> HIDE DEF x
<1>5. Moved(p, q) /\ q.left = p.left
  BY <1>1, <1>3, <1>4, FinishedFacts, EndedFacts DEF Moved, SameFile
<1>6. StreamInv' /\ streams'[s].left = q.left
  BY <1>1, <1>4, <1>5, StepGood DEF Moved
<1> QED
  BY <1>5, <1>6

LEMMA DrainGood ==
  ASSUME StreamInv, NEW s \in Stream, NEW n \in 0..Chunks, NEW then \in Outcome,
         NEW ok \in BOOLEAN, Drain(s, n, then, ok)
  PROVE  /\ StreamInv'
         /\ streams'[s].left # streams[s].left => authorized[s] /\ ~streams[s].stopped
<1> DEFINE p == streams[s]
<1>1. /\ p \in Request /\ Shape(p) /\ Pumping(p) /\ ~p.final /\ UNCHANGED authorized
  BY DEF Drain, StreamInv, Shape, Pumping
<1>2. CASE Become(s, FileLoop(p, ok))
  <2>1. Moved(p, FileLoop(p, ok)) /\ FileLoop(p, ok).left = p.left
    BY <1>1, FileLoopMoves
  <2>2. StreamInv' /\ streams'[s].left = FileLoop(p, ok).left
    BY <1>1, <1>2, <2>1, StepGood DEF Moved
  <2> QED
    BY <2>1, <2>2
<1>3. CASE Outcomes(s, n, then) /\ Become(s, BufferLoop(p, n, then))
  <2>1. n \in 0..p.left /\ (n > 0 => authorized[s])
    BY <1>3 DEF Outcomes
  <2>2. /\ Moved(p, BufferLoop(p, n, then))
        /\ BufferLoop(p, n, then).left # p.left => ~p.stopped /\ n > 0
    BY <1>1, <2>1, BufferLoopMoves
  <2>3. StreamInv' /\ streams'[s].left = BufferLoop(p, n, then).left
    BY <1>1, <1>3, <2>2, StepGood DEF Moved
  <2> QED
    BY <2>1, <2>2, <2>3
<1> QED
  BY <1>2, <1>3 DEF Drain

LEMMA CloseEventGood ==
  ASSUME StreamInv, NEW s \in Stream, Disconnect(s) \/ Destroyed(s)
  PROVE  StreamInv' /\ streams'[s].left = streams[s].left
<1> DEFINE p == streams[s]
           q == CloseEvent(p)
<1>1. /\ p \in Request /\ Shape(p) /\ Become(s, q) /\ UNCHANGED authorized
  BY DEF Disconnect, Destroyed, StreamInv
<1>2. /\ Shape(q) /\ SameFile(p, q) /\ q.left = p.left
      /\ q.stage = p.stage \/ (p.stage = "draining" /\ q.stage = "done")
  BY <1>1, CloseEventFacts
<1> HIDE DEF q
<1>3. StreamInv' /\ streams'[s].left = q.left
  BY <1>1, <1>2, StepGood DEF Pumping
<1> QED
  BY <1>2, <1>3

LEMMA RecheckGood ==
  ASSUME StreamInv, NEW s \in Stream, NEW ok \in BOOLEAN, Recheck(s, ok)
  PROVE  StreamInv' /\ streams'[s].left = streams[s].left
<1> DEFINE p == streams[s]
<1>1. p \in Request /\ Shape(p) /\ Pumping(p) /\ UNCHANGED authorized
  BY DEF Recheck, StreamInv, Shape, Pumping
<1>2. PICK q \in {p, Terminated(p)} : Become(s, q)
  BY DEF Recheck
<1>3. Shape(q) /\ SameFile(p, q) /\ q.left = p.left /\ q.stage = p.stage
  BY <1>1, <1>2, TerminatedFacts DEF Shape, SameFile, Pumping
<1>4. StreamInv' /\ streams'[s].left = q.left
  BY <1>1, <1>2, <1>3, StepGood
<1> QED
  BY <1>3, <1>4

LEMMA AuthorizeGood ==
  ASSUME StreamInv, NEW s \in Stream, Authorize(s)
  PROVE  StreamInv'
<1>1. authorized' \in [Stream -> BOOLEAN] /\ UNCHANGED <<streams, fds>>
  BY DEF Authorize, StreamInv
<1> QED
  BY <1>1 DEF StreamInv, DescriptorsAreOwned, Holds

LEMMA AgainGood ==
  ASSUME StreamInv, NEW s \in Stream, NEW q \in Asked, Again(s, q)
  PROVE  StreamInv'
BY AskedFacts, AsideGood DEF Again

-----------------------------------------------------------------------------
\* What one step may disclose.
Disclosed ==
  \A s \in Stream :
    streams[s].stage # "done" /\ streams'[s].left < streams[s].left =>
      authorized[s] /\ ~streams[s].stopped

\* A step of request s that leaves the others alone.
Alone(s) == streams' = [streams EXCEPT ![s] = streams'[s]]

LEMMA AloneDiscloses ==
  ASSUME StreamInv, NEW s \in Stream, Alone(s),
         streams[s].stage # "done" /\ streams'[s].left # streams[s].left =>
           authorized[s] /\ ~streams[s].stopped
  PROVE  Disclosed
<1>1. \A t \in Stream \ {s} : streams'[t] = streams[t]
  BY DEF Alone, StreamInv
<1>2. \A t \in Stream : streams[t].left \in Nat
  BY ChunkAssumption DEF StreamInv, Request, ChunkAssumption
<1> QED
  BY <1>1, <1>2 DEF Disclosed

LEMMA NextGood ==
  ASSUME StreamInv, [Next]_vars
  PROVE  StreamInv' /\ Disclosed
<1>1. CASE UNCHANGED vars
  BY <1>1, ChunkAssumption
     DEF vars, StreamInv, DescriptorsAreOwned, Holds, Disclosed, Request, ChunkAssumption
<1>2. CASE Next
  <2> SUFFICES ASSUME NEW s \in Stream,
                      \/ Route(s) \/ Parsed(s) \/ ReadStep(s) \/ Network(s)
                      \/ Destroyed(s) \/ Authorize(s)
                      \/ \E ok \in BOOLEAN : Recheck(s, ok)
                      \/ \E q \in Asked : Again(s, q)
               PROVE  StreamInv' /\ Disclosed
    BY <1>2 DEF Next
  <2>1. CASE Route(s)
    <3>1. PICK d \in Fd, ok \in BOOLEAN : Download(s, d, ok) \/ Preview(s, d, ok)
      BY <2>1 DEF Route
    <3>2. Alone(s)
      BY <3>1 DEF Download, Preview, Alone, StreamInv
    <3> QED
      BY <3>1, <3>2, DownloadGood, PreviewGood, AloneDiscloses
  <2>2. CASE PreviewFails(s)
    <3>1. Alone(s)
      BY <2>2 DEF PreviewFails, Alone, StreamInv
    <3> QED
      BY <2>2, <3>1, PreviewFailsGood, AloneDiscloses
  <2>3. ASSUME NEW n \in 0..Chunks, NEW then \in Outcome, PreviewReady(s, n, then)
        PROVE  StreamInv' /\ Disclosed
    <3>1. Alone(s)
      BY <2>3 DEF PreviewReady, Alone, StreamInv
    <3> QED
      BY <2>3, <3>1, PreviewReadyGood, AloneDiscloses
  <2>4. CASE ReadStep(s)
    <3>1. PICK blocked \in BOOLEAN, ok \in BOOLEAN :
            Read(s, blocked, ok) \/ ReadEnds(s, blocked)
      BY <2>4 DEF ReadStep
    <3>2. Alone(s)
      BY <3>1 DEF Read, ReadEnds, Become, Alone, StreamInv
    <3> QED
      BY <3>1, <3>2, ReadGood, ReadEndsGood, AloneDiscloses
  <2>5. ASSUME NEW n \in 0..Chunks, NEW then \in Outcome, NEW ok \in BOOLEAN,
               Drain(s, n, then, ok)
        PROVE  StreamInv' /\ Disclosed
    <3>1. Alone(s)
      BY <2>5 DEF Drain, Become, Alone, StreamInv
    <3> QED
      BY <2>5, <3>1, DrainGood, AloneDiscloses
  <2>6. CASE Disconnect(s) \/ Destroyed(s)
    <3>1. Alone(s)
      BY <2>6 DEF Disconnect, Destroyed, Become, Alone, StreamInv
    <3> QED
      BY <2>6, <3>1, CloseEventGood, AloneDiscloses
  <2>7. ASSUME NEW ok \in BOOLEAN, Recheck(s, ok) PROVE StreamInv' /\ Disclosed
    <3>1. Alone(s)
      BY <2>7 DEF Recheck, Become, Alone, StreamInv
    <3> QED
      BY <2>7, <3>1, RecheckGood, AloneDiscloses
  <2>8. CASE Authorize(s)
    <3>1. Alone(s) /\ streams'[s] = streams[s]
      BY <2>8 DEF Authorize, Alone, StreamInv
    <3> QED
      BY <2>8, <3>1, AuthorizeGood, AloneDiscloses
  <2>9. ASSUME NEW q \in Asked, Again(s, q) PROVE StreamInv' /\ Disclosed
    <3>1. Alone(s) /\ streams[s].stage = "done"
      BY <2>9 DEF Again, Alone, StreamInv
    <3> QED
      BY <2>9, <3>1, AgainGood, AloneDiscloses
  <2>10. CASE Parsed(s)
    BY <2>2, <2>3, <2>10 DEF Parsed
  <2>11. CASE Network(s)
    BY <2>5, <2>6, <2>11 DEF Network
  <2> QED
    BY <2>1, <2>4, <2>6, <2>7, <2>8, <2>9, <2>10, <2>11
<1> QED
  BY <1>1, <1>2

LEMMA StreamsHold == Spec => []StreamInv
<1>1. StreamInv /\ [Next]_vars => StreamInv'
  BY NextGood
<1> QED
  BY InitGood, <1>1, PTL DEF Spec

-----------------------------------------------------------------------------
\* The streams alone, whatever else runs beside them.
LEMMA StreamsHoldInFiles == FilesSpec => []StreamInv
<1>1. FilesInit => StreamInv
  BY InitGood DEF FilesInit
<1>2. StreamInv /\ [FilesNext]_fileVars => StreamInv'
  <2>1. StreamInv /\ [Next]_vars => StreamInv'
    BY NextGood
  <2> QED BY <2>1 DEF FilesNext, fileVars
<1> QED BY <1>1, <1>2, PTL DEF FilesSpec

\* The types are kept, a stream is finalized exactly when its pump is done, and no
\* timer outlives its stream (finalize).
THEOREM TypeCorrect == Spec => []TypeOK
<1>1. StreamInv => TypeOK
  BY DEF StreamInv, Shape, TypeOK
<1> QED
  BY <1>1, StreamsHold, PTL

\* However many requests run over however few descriptor numbers, each number is
\* closed once, by the request that holds it, and after its last read.
THEOREM DescriptorsAreSafe == Spec => []DescriptorsAreOwned
<1>1. StreamInv => DescriptorsAreOwned
  BY DEF StreamInv
<1> QED
  BY <1>1, StreamsHold, PTL

\* No chunk of any stream leaves without an authorization of that moment.
THEOREM DisclosureIsSafe == Spec => DisclosureIsAuthorized
<1>1. StreamInv /\ [Next]_vars => [Disclosed]_vars
  BY NextGood
<1>2. [][Disclosed]_vars => DisclosureIsAuthorized
  <2>1. [Disclosed]_vars =>
          [\A s \in Stream :
             streams[s].stage # "done" /\ streams'[s].left < streams[s].left =>
               authorized[s] /\ ~streams[s].stopped]_vars
    BY DEF Disclosed
  <2> QED
    BY <2>1, PTL DEF DisclosureIsAuthorized
<1> QED
  BY <1>1, <1>2, StreamsHold, PTL DEF Spec

-----------------------------------------------------------------------------
(* The tables, the projection and the passes.                                *)

Partial(S, T) == UNION {[D -> T] : D \in SUBSET S}
FileRecord == [folder : {Root} \cup FolderRow, name : Name, blob : FileNode \cup {NoData}]
Mapping == [path : Path, node : FileNode \cup DirNode]
Tables ==
  [files : Partial(FileRow, FileRecord), folders : Partial(FolderRow, Name),
   maps : Partial(FileRow \cup FolderRow, Mapping)]

\* The rows: a file lies in a folder that is there, folders have different names.
RowsGood(d) ==
  /\ \A r \in DOMAIN d.files : d.files[r].folder \in {Root} \cup DOMAIN d.folders
  /\ \A r, s \in DOMAIN d.folders : d.folders[r] = d.folders[s] => r = s

\* The mappings: folders are at the top, and what is mapped below a directory has a
\* folder that is mapped to it.
MapsGood(d) ==
  /\ \A r \in DOMAIN d.maps :
       /\ d.maps[r].node \in IF r \in FileRow THEN FileNode ELSE DirNode
       /\ r \in FolderRow => d.maps[r].path[1] = Root
       /\ d.maps[r].path[1] # Root => ParentOf(d, d.maps[r].path) # {}
  /\ PathsUnique(d)

\* A file is mapped into the directory of its folder.
Placed(d) ==
  \A r \in DOMAIN d.maps \cap DOMAIN d.files :
    ParentOf(d, d.maps[r].path) = {d.files[r].folder}

TablesGood(d) == d \in Tables /\ RowsGood(d) /\ MapsGood(d) /\ Placed(d)

\* A projection: directories at the top only, files in directories that are there.
IsTree(f) ==
  \A p \in DOMAIN f :
    /\ p \in Path /\ f[p] \in FileNode \cup DirNode
    /\ p[1] # Root => /\ f[p] \in FileNode
                      /\ Top(p[1]) \in DOMAIN f /\ f[Top(p[1])] \in DirNode

LEMMA PartialIs ==
  ASSUME NEW S, NEW T, NEW f
  PROVE  f \in Partial(S, T) <=> /\ DOMAIN f \subseteq S /\ f = [x \in DOMAIN f |-> f[x]]
                                 /\ \A x \in DOMAIN f : f[x] \in T
<1>1. ASSUME f \in Partial(S, T)
      PROVE  /\ DOMAIN f \subseteq S /\ f = [x \in DOMAIN f |-> f[x]]
             /\ \A x \in DOMAIN f : f[x] \in T
  <2>1. PICK D \in SUBSET S : f \in [D -> T]
    BY <1>1 DEF Partial
  <2> QED BY <2>1
<1>2. ASSUME DOMAIN f \subseteq S, f = [x \in DOMAIN f |-> f[x]],
             \A x \in DOMAIN f : f[x] \in T
      PROVE  f \in Partial(S, T)
  <2>1. f \in [DOMAIN f -> T]
    BY <1>2
  <2> QED BY <1>2, <2>1 DEF Partial
<1> QED BY <1>1, <1>2

LEMMA WithoutIs ==
  ASSUME NEW f, NEW S
  PROVE  /\ DOMAIN Without(f, S) = DOMAIN f \ S
         /\ \A x \in DOMAIN f \ S : Without(f, S)[x] = f[x]
BY DEF Without, Restrict

LEMMA WithIs ==
  ASSUME NEW f, NEW x, NEW v
  PROVE  /\ DOMAIN With(f, x, v) = DOMAIN f \cup {x}
         /\ With(f, x, v)[x] = v
         /\ \A y \in DOMAIN f \ {x} : With(f, x, v)[y] = f[y]
BY DEF With

LEMMA PartialWithout ==
  ASSUME NEW S, NEW T, NEW f \in Partial(S, T), NEW R
  PROVE  Without(f, R) \in Partial(S, T)
<1>1. DOMAIN f \subseteq S /\ \A x \in DOMAIN f : f[x] \in T
  BY PartialIs
<1>2. Without(f, R) \in [DOMAIN f \ R -> T]
  BY <1>1 DEF Without, Restrict
<1> QED BY <1>1, <1>2 DEF Partial

LEMMA PartialWith ==
  ASSUME NEW S, NEW T, NEW f \in Partial(S, T), NEW x \in S, NEW v \in T
  PROVE  With(f, x, v) \in Partial(S, T)
<1>1. DOMAIN f \subseteq S /\ \A y \in DOMAIN f : f[y] \in T
  BY PartialIs
<1>2. With(f, x, v) \in [DOMAIN f \cup {x} -> T]
  BY <1>1 DEF With
<1> QED BY <1>1, <1>2 DEF Partial

LEMMA PartialMap ==
  ASSUME NEW S, NEW T, NEW f \in Partial(S, T), NEW g, DOMAIN g = DOMAIN f,
         g = [x \in DOMAIN f |-> g[x]], \A x \in DOMAIN f : g[x] \in T
  PROVE  g \in Partial(S, T)
<1>1. DOMAIN f \subseteq S
  BY PartialIs
<1> QED BY <1>1, PartialIs

LEMMA TablesFields ==
  ASSUME NEW d \in Tables
  PROVE  /\ d.files \in Partial(FileRow, FileRecord)
         /\ d.folders \in Partial(FolderRow, Name)
         /\ d.maps \in Partial(FileRow \cup FolderRow, Mapping)
         /\ DOMAIN d.files \subseteq FileRow /\ DOMAIN d.folders \subseteq FolderRow
         /\ DOMAIN d.maps \subseteq FileRow \cup FolderRow
         /\ \A r \in DOMAIN d.files : d.files[r] \in FileRecord
         /\ \A r \in DOMAIN d.folders : d.folders[r] \in Name
         /\ \A r \in DOMAIN d.maps : d.maps[r] \in Mapping
<1>1. /\ d.files \in Partial(FileRow, FileRecord)
      /\ d.folders \in Partial(FolderRow, Name)
      /\ d.maps \in Partial(FileRow \cup FolderRow, Mapping)
  BY DEF Tables
<1> QED BY <1>1, PartialIs

LEMMA SetFiles ==
  ASSUME NEW d \in Tables, NEW F \in Partial(FileRow, FileRecord)
  PROVE  LET e == [d EXCEPT !.files = F]
         IN  e \in Tables /\ e.files = F /\ e.folders = d.folders /\ e.maps = d.maps
BY DEF Tables

LEMMA SetMaps ==
  ASSUME NEW d \in Tables, NEW M \in Partial(FileRow \cup FolderRow, Mapping)
  PROVE  LET e == [d EXCEPT !.maps = M]
         IN  e \in Tables /\ e.files = d.files /\ e.folders = d.folders /\ e.maps = M
BY DEF Tables

LEMMA SetFolders ==
  ASSUME NEW d \in Tables, NEW D \in Partial(FolderRow, Name)
  PROVE  LET e == [d EXCEPT !.folders = D]
         IN  e \in Tables /\ e.files = d.files /\ e.folders = D /\ e.maps = d.maps
BY DEF Tables

-----------------------------------------------------------------------------
(* The tables.                                                               *)

LEMMA MappingFacts ==
  ASSUME NEW d, TablesGood(d), NEW r \in DOMAIN d.maps
  PROVE  /\ d.maps[r].path \in Path
         /\ d.maps[r].path[1] \in {Root} \cup Name /\ d.maps[r].path[2] \in Name
         /\ d.maps[r].path = <<d.maps[r].path[1], d.maps[r].path[2]>>
         /\ d.maps[r].node \in IF r \in FileRow THEN FileNode ELSE DirNode
         /\ r \in FolderRow => d.maps[r].path[1] = Root /\ r \notin FileRow
         /\ r \in FileRow \cup FolderRow
         /\ d.maps[r].path[1] # Root => ParentOf(d, d.maps[r].path) # {}
<1>1. d.maps[r] \in Mapping /\ r \in FileRow \cup FolderRow
  BY TablesFields DEF TablesGood
<1>2. d.maps[r].path \in Path
  BY <1>1 DEF Mapping
<1>3. /\ d.maps[r].path[1] \in {Root} \cup Name /\ d.maps[r].path[2] \in Name
      /\ d.maps[r].path = <<d.maps[r].path[1], d.maps[r].path[2]>>
  BY <1>2 DEF Path
<1> QED BY <1>1, <1>2, <1>3, SmbSyncAssumption DEF TablesGood, MapsGood

\* A path has at most one parent.
LEMMA OneParent ==
  ASSUME NEW d, TablesGood(d), NEW p, NEW x \in ParentOf(d, p)
  PROVE  /\ ParentOf(d, p) = {x}
         /\ p[1] = Root => x = Root
         /\ p[1] # Root => x \in FolderRow \cap DOMAIN d.maps /\ d.maps[x].path = Top(p[1])
<1>1. CASE p[1] = Root
  BY <1>1 DEF ParentOf
<1>2. CASE p[1] # Root
  BY <1>2 DEF ParentOf, MappedAt, TablesGood, MapsGood, PathsUnique
<1> QED BY <1>1, <1>2

\* Parents are the same where the folders are.
LEMMA SameParents ==
  ASSUME NEW d, NEW e, NEW p,
         \A r \in FolderRow : p[1] # Root =>
           (r \in DOMAIN e.maps /\ e.maps[r].path = Top(p[1])
              <=> r \in DOMAIN d.maps /\ d.maps[r].path = Top(p[1]))
  PROVE  ParentOf(e, p) = ParentOf(d, p)
BY DEF ParentOf, MappedAt

\* Rows and mappings go, and with a directory what is mapped below it.
LEMMA TablesShrink ==
  ASSUME NEW d, TablesGood(d), NEW e \in Tables,
         DOMAIN e.files \subseteq DOMAIN d.files,
         \A r \in DOMAIN e.files :
           /\ e.files[r].folder = d.files[r].folder
           /\ e.files[r].folder \in {Root} \cup DOMAIN e.folders,
         DOMAIN e.folders \subseteq DOMAIN d.folders,
         \A r \in DOMAIN e.folders : e.folders[r] = d.folders[r],
         DOMAIN e.maps \subseteq DOMAIN d.maps,
         \A r \in DOMAIN e.maps : e.maps[r] = d.maps[r],
         \A r \in DOMAIN d.maps \cap FolderRow, s \in DOMAIN e.maps :
           InDir(d.maps[s].path, d.maps[r].path) => r \in DOMAIN e.maps
  PROVE  TablesGood(e)
<1>1. RowsGood(e)
  BY DEF TablesGood, RowsGood
<1>2. ASSUME NEW s \in DOMAIN e.maps PROVE ParentOf(e, e.maps[s].path) = ParentOf(d, d.maps[s].path)
  <2> DEFINE p == d.maps[s].path
  <2>1. ASSUME NEW r \in FolderRow, p[1] # Root, r \in DOMAIN d.maps, d.maps[r].path = Top(p[1])
        PROVE  r \in DOMAIN e.maps
    BY <2>1 DEF InDir, Top
  <2>2. \A r \in FolderRow : p[1] # Root =>
           (r \in DOMAIN e.maps /\ e.maps[r].path = Top(p[1])
              <=> r \in DOMAIN d.maps /\ d.maps[r].path = Top(p[1]))
    BY <2>1
  <2>3. e.maps[s].path = p
    OBVIOUS
  <2> HIDE DEF p
  <2> QED BY <2>2, <2>3, SameParents DEF p
<1>3. MapsGood(e)
  BY <1>2 DEF TablesGood, MapsGood, PathsUnique
<1>4. Placed(e)
  BY <1>2 DEF TablesGood, Placed
<1> QED BY <1>1, <1>3, <1>4 DEF TablesGood

\* Rows and nodes change, paths stay.
LEMMA TablesRevise ==
  ASSUME NEW d, TablesGood(d), NEW e \in Tables,
         \A r \in DOMAIN e.files :
           /\ e.files[r].folder \in {Root} \cup DOMAIN e.folders
           /\ r \in DOMAIN d.maps => ParentOf(d, d.maps[r].path) = {e.files[r].folder},
         \A r, s \in DOMAIN e.folders : e.folders[r] = e.folders[s] => r = s,
         DOMAIN e.maps = DOMAIN d.maps,
         \A r \in DOMAIN e.maps :
           /\ e.maps[r].path = d.maps[r].path
           /\ e.maps[r].node \in IF r \in FileRow THEN FileNode ELSE DirNode
  PROVE  TablesGood(e)
<1>1. RowsGood(e)
  BY DEF RowsGood
<1>2. \A p : ParentOf(e, p) = ParentOf(d, p)
  BY SameParents
<1>3. MapsGood(e)
  BY <1>2 DEF TablesGood, MapsGood, PathsUnique
<1>4. Placed(e)
  BY <1>2 DEF Placed
<1> QED BY <1>1, <1>3, <1>4 DEF TablesGood

\* A mapping is made at a path that is free.
LEMMA TablesMap ==
  ASSUME NEW d, TablesGood(d), NEW e \in Tables, NEW r \in FileRow \cup FolderRow,
         NEW p \in Path, NEW node,
         r \notin DOMAIN d.maps, MappedAt(d, p) = {}, ParentOf(d, p) # {},
         node \in IF r \in FileRow THEN FileNode ELSE DirNode,
         r \in FolderRow => p[1] = Root,
         r \in DOMAIN e.files => ParentOf(d, p) = {e.files[r].folder},
         RowsGood(e),
         \A s \in DOMAIN e.files \cap DOMAIN d.maps :
           s \in DOMAIN d.files /\ e.files[s] = d.files[s],
         e.maps = With(d.maps, r, [path |-> p, node |-> node])
  PROVE  TablesGood(e)
<1>1. /\ DOMAIN e.maps = DOMAIN d.maps \cup {r}
      /\ e.maps[r].path = p /\ e.maps[r].node = node
      /\ \A s \in DOMAIN d.maps : e.maps[s] = d.maps[s]
  <2> DEFINE v == [path |-> p, node |-> node]
  <2>1. e.maps = With(d.maps, r, v) /\ v.path = p /\ v.node = node
    OBVIOUS
  <2> HIDE DEF v
  <2>2. /\ DOMAIN e.maps = DOMAIN d.maps \cup {r}
        /\ e.maps[r] = v
        /\ \A y \in DOMAIN d.maps \ {r} : e.maps[y] = d.maps[y]
    BY <2>1 DEF With
  <2> QED BY <2>1, <2>2
<1>2. ASSUME NEW q, ParentOf(d, q) # {} PROVE ParentOf(e, q) = ParentOf(d, q)
  <2>1. CASE q[1] = Root
    BY <2>1 DEF ParentOf
  <2>2. CASE q[1] # Root
    <3>1. PICK x : x \in MappedAt(d, Top(q[1])) \cap FolderRow
      BY <1>2, <2>2 DEF ParentOf
    <3>2. p # Top(q[1])
      BY <3>1
    <3>3. \A s \in FolderRow :
           (s \in DOMAIN e.maps /\ e.maps[s].path = Top(q[1])
              <=> s \in DOMAIN d.maps /\ d.maps[s].path = Top(q[1]))
      BY <1>1, <3>2
    <3> QED BY <3>3, SameParents
  <2> QED BY <2>1, <2>2
<1>3. \A s \in DOMAIN e.maps : e.maps[s].path[1] # Root => ParentOf(e, e.maps[s].path) # {}
  BY <1>1, <1>2 DEF TablesGood, MapsGood
<1>4. PathsUnique(e)
  BY <1>1 DEF TablesGood, MapsGood, PathsUnique, MappedAt
<1>5. MapsGood(e)
  BY <1>1, <1>3, <1>4 DEF TablesGood, MapsGood
<1>6. Placed(e)
  <2> SUFFICES ASSUME NEW s \in DOMAIN e.maps \cap DOMAIN e.files
               PROVE  ParentOf(e, e.maps[s].path) = {e.files[s].folder}
    BY DEF Placed
  <2>1. CASE s = r
    BY <2>1, <1>1, <1>2
  <2>2. CASE s # r
    <3>1. ParentOf(d, d.maps[s].path) = {d.files[s].folder} /\ s \in DOMAIN d.maps
      BY <2>2, <1>1 DEF TablesGood, Placed
    <3> QED BY <3>1, <1>1, <1>2
  <2> QED BY <2>1, <2>2
<1> QED BY <1>5, <1>6 DEF TablesGood

\* A file is mapped to another path, which is free, and its row says where it is.
LEMMA TablesMoveFile ==
  ASSUME NEW d, TablesGood(d), NEW e \in Tables, NEW r \in DOMAIN d.maps \cap FileRow,
         NEW p \in Path,
         MappedAt(d, p) \subseteq {r}, ParentOf(d, p) # {},
         r \in DOMAIN e.files => ParentOf(d, p) = {e.files[r].folder},
         RowsGood(e),
         \A s \in DOMAIN e.files \ {r} : s \in DOMAIN d.files /\ e.files[s] = d.files[s],
         DOMAIN e.maps = DOMAIN d.maps,
         \A s \in DOMAIN d.maps : e.maps[s].node = d.maps[s].node,
         \A s \in DOMAIN d.maps : e.maps[s].path = IF s = r THEN p ELSE d.maps[s].path
  PROVE  TablesGood(e)
<1>0. r \notin FolderRow
  BY SmbSyncAssumption
<1>1. \A q : ParentOf(e, q) = ParentOf(d, q)
  <2> TAKE q
  <2>1. \A s \in FolderRow :
           (s \in DOMAIN e.maps /\ e.maps[s].path = Top(q[1])
              <=> s \in DOMAIN d.maps /\ d.maps[s].path = Top(q[1]))
    BY <1>0
  <2> QED BY <2>1, SameParents
<1>2. PathsUnique(e)
  BY DEF TablesGood, MapsGood, PathsUnique, MappedAt
<1>3. \A s \in DOMAIN e.maps : e.maps[s].path[1] # Root => ParentOf(e, e.maps[s].path) # {}
  BY <1>1 DEF TablesGood, MapsGood
<1>4. MapsGood(e)
  BY <1>0, <1>2, <1>3 DEF TablesGood, MapsGood
<1>5. Placed(e)
  <2> SUFFICES ASSUME NEW s \in DOMAIN e.maps \cap DOMAIN e.files
               PROVE  ParentOf(e, e.maps[s].path) = {e.files[s].folder}
    BY DEF Placed
  <2>1. CASE s = r
    BY <2>1, <1>1
  <2>2. CASE s # r
    <3>1. ParentOf(d, d.maps[s].path) = {d.files[s].folder}
      BY <2>2 DEF TablesGood, Placed
    <3> QED BY <3>1, <2>2, <1>1
  <2> QED BY <2>1, <2>2
<1> QED BY <1>4, <1>5 DEF TablesGood

\* A folder is mapped to another name, which is free, and what lies below follows.
LEMMA TablesMoveFolder ==
  ASSUME NEW d, TablesGood(d), NEW e \in Tables, NEW r \in DOMAIN d.maps \cap FolderRow,
         NEW n \in Name,
         MappedAt(d, Top(n)) \subseteq {r},
         e.files = d.files,
         RowsGood(e),
         DOMAIN e.maps = DOMAIN d.maps,
         \A s \in DOMAIN d.maps : e.maps[s].node = d.maps[s].node,
         \A s \in DOMAIN d.maps :
           e.maps[s].path = IF s = r \/ InDir(d.maps[s].path, d.maps[r].path)
                            THEN Shifted(d.maps[s].path, d.maps[r].path, Top(n))
                            ELSE d.maps[s].path
  PROVE  TablesGood(e)
<1> DEFINE m == d.maps[r].path[2]
           Below(s) == d.maps[s].path[1] = m
<1>0. /\ r \notin FileRow /\ Root \notin Name /\ m \in Name
      /\ d.maps[r].path = Top(m) /\ d.maps[r].path[1] = Root
  BY MappingFacts, SmbSyncAssumption DEF Top
<1>1. ASSUME NEW s \in DOMAIN d.maps
      PROVE  /\ s = r => e.maps[s].path = Top(n)
             /\ s # r /\ Below(s) => e.maps[s].path = <<n, d.maps[s].path[2]>>
             /\ s # r /\ ~Below(s) => e.maps[s].path = d.maps[s].path
  <2>1. CASE s = r
    BY <2>1 DEF Shifted
  <2>2. CASE s # r /\ Below(s)
    <3>1. InDir(d.maps[s].path, d.maps[r].path) /\ d.maps[s].path # d.maps[r].path
      BY <2>2, <1>0 DEF InDir, Top
    <3> QED BY <3>1, <2>2 DEF Shifted, Top
  <2>3. CASE s # r /\ ~Below(s)
    BY <2>3, <1>0 DEF InDir
  <2> QED BY <2>1, <2>2, <2>3
<1>2. \A s \in DOMAIN d.maps : Below(s) => s \in FileRow /\ s # r
  BY <1>0, MappingFacts
<1>3. \A s \in DOMAIN d.maps \cap FolderRow : s # r => e.maps[s].path = d.maps[s].path
  BY <1>1, <1>2, SmbSyncAssumption
\* Nothing is mapped below the new name, unless it is the old one.
<1>4. \A s \in DOMAIN d.maps : d.maps[s].path[1] = n => n = m
  <2> SUFFICES ASSUME NEW s \in DOMAIN d.maps, d.maps[s].path[1] = n PROVE n = m
    OBVIOUS
  <2>1. ParentOf(d, d.maps[s].path) # {}
    BY <1>0, MappingFacts
  <2>2. PICK x : x \in MappedAt(d, Top(n))
    BY <2>1, <1>0 DEF ParentOf
  <2>3. d.maps[r].path = Top(n)
    BY <2>2 DEF MappedAt
  <2> QED BY <2>3, <1>0 DEF Top
<1>5. \A s \in DOMAIN d.maps : d.maps[s].path = Top(n) => s = r
  BY DEF MappedAt
<1>6. PathsUnique(e)
  <2> SUFFICES ASSUME NEW s \in DOMAIN d.maps, NEW t \in DOMAIN d.maps, s # t,
                      e.maps[s].path = e.maps[t].path
               PROVE  FALSE
    BY DEF PathsUnique
  <2> DEFINE p == d.maps[s].path
             q == d.maps[t].path
  <2>1. p # q
    BY DEF TablesGood, MapsGood, PathsUnique
  <2>2. p = <<p[1], p[2]>> /\ q = <<q[1], q[2]>>
    BY MappingFacts
  <2>3. p[1] = n => n = m
    BY <1>4
  <2>4. q[1] = n => n = m
    BY <1>4
  <2>5. (p = Top(n) => s = r) /\ (q = Top(n) => t = r)
    BY <1>5
  <2>6. n # Root
    BY <1>0
  <2> DEFINE p2 == e.maps[s].path
             q2 == e.maps[t].path
  <2>7. /\ s = r => p2 = Top(n)
        /\ s # r /\ p[1] = m => p2 = <<n, p[2]>>
        /\ s # r /\ p[1] # m => p2 = p
    BY <1>1
  <2>8. /\ t = r => q2 = Top(n)
        /\ t # r /\ q[1] = m => q2 = <<n, q[2]>>
        /\ t # r /\ q[1] # m => q2 = q
    BY <1>1
  <2>9. p2 = q2
    OBVIOUS
  <2> HIDE DEF p, q, p2, q2, m
  <2>10. CASE s = r
    <3>1. CASE q[1] = m
      BY <2>6, <2>7, <2>8, <2>9, <2>10, <3>1 DEF Top
    <3>2. CASE q[1] # m
      BY <2>5, <2>7, <2>8, <2>9, <2>10, <3>2
    <3> QED BY <3>1, <3>2
  <2>11. CASE t = r
    <3>1. CASE p[1] = m
      BY <2>6, <2>7, <2>8, <2>9, <2>11, <3>1 DEF Top
    <3>2. CASE p[1] # m
      BY <2>5, <2>7, <2>8, <2>9, <2>11, <3>2
    <3> QED BY <3>1, <3>2
  <2>12. CASE s # r /\ t # r
    <3>1. CASE p[1] = m /\ q[1] = m
      BY <2>1, <2>2, <2>7, <2>8, <2>9, <2>12, <3>1
    <3>2. CASE p[1] = m /\ q[1] # m
      BY <2>2, <2>4, <2>7, <2>8, <2>9, <2>12, <3>2
    <3>3. CASE p[1] # m /\ q[1] = m
      BY <2>2, <2>3, <2>7, <2>8, <2>9, <2>12, <3>3
    <3>4. CASE p[1] # m /\ q[1] # m
      BY <2>1, <2>7, <2>8, <2>9, <2>12, <3>4
    <3> QED BY <3>1, <3>2, <3>3, <3>4
  <2> QED BY <2>10, <2>11, <2>12
\* The folder of a path is that of the path before.
<1>7. \A s \in DOMAIN d.maps : ParentOf(e, e.maps[s].path) = ParentOf(d, d.maps[s].path)
  <2> TAKE s \in DOMAIN d.maps
  <2>1. CASE d.maps[s].path[1] = Root
    <3>1. s = r \/ (s # r /\ ~Below(s))
      BY <2>1, <1>0
    <3>2. e.maps[s].path[1] = Root
      BY <2>1, <3>1, <1>1 DEF Top
    <3> QED BY <2>1, <3>2 DEF ParentOf
  <2>2. CASE Below(s)
    <3>1. s # r /\ e.maps[s].path = <<n, d.maps[s].path[2]>>
      BY <2>2, <1>1, <1>2
    <3>2. MappedAt(e, Top(n)) \cap FolderRow = {r}
      BY <1>1, <1>3, <1>5 DEF MappedAt
    <3>3. MappedAt(d, Top(m)) \cap FolderRow = {r}
      BY <1>0 DEF MappedAt, TablesGood, MapsGood, PathsUnique
    <3>4. /\ d.maps[s].path[1] = m /\ d.maps[s].path[1] # Root
          /\ e.maps[s].path[1] = n /\ n # Root
      BY <2>2, <3>1, <1>0
    <3>5. ParentOf(d, d.maps[s].path) = {r}
      BY <3>3, <3>4 DEF ParentOf
    <3>6. ParentOf(e, e.maps[s].path) = {r}
      BY <3>2, <3>4 DEF ParentOf
    <3> QED BY <3>5, <3>6
  <2>3. CASE d.maps[s].path[1] # Root /\ ~Below(s)
    <3> DEFINE q == d.maps[s].path
    <3>1. s # r /\ e.maps[s].path = q
      BY <2>3, <1>0, <1>1
    <3>2. q[1] # m /\ (q[1] = n => n = m)
      BY <2>3, <1>4
    <3>3. \A t \in FolderRow : t \in DOMAIN d.maps =>
            (e.maps[t].path = Top(q[1]) <=> d.maps[t].path = Top(q[1]))
      <4> SUFFICES ASSUME NEW t \in FolderRow \cap DOMAIN d.maps
                   PROVE  e.maps[t].path = Top(q[1]) <=> d.maps[t].path = Top(q[1])
        OBVIOUS
      <4>1. CASE t = r
        <5>1. e.maps[t].path = Top(n) /\ d.maps[t].path = Top(m)
          BY <4>1, <1>0, <1>1
        <5> HIDE DEF q, m
        <5> QED BY <5>1, <3>2 DEF Top
      <4>2. CASE t # r
        BY <4>2, <1>3
      <4> QED BY <4>1, <4>2
    <3> HIDE DEF q
    <3>4. ParentOf(e, q) = ParentOf(d, q)
      BY <3>3, SameParents
    <3> QED BY <3>1, <3>4 DEF q
  <2> QED BY <2>1, <2>2, <2>3
<1>8. \A s \in DOMAIN e.maps : e.maps[s].path[1] # Root => ParentOf(e, e.maps[s].path) # {}
  <2> SUFFICES ASSUME NEW s \in DOMAIN d.maps, ParentOf(e, e.maps[s].path) = {}
               PROVE  e.maps[s].path[1] = Root
    OBVIOUS
  <2>1. d.maps[s].path[1] = Root
    BY <1>7, MappingFacts
  <2>2. s = r \/ ~Below(s)
    BY <2>1, <1>0
  <2> QED BY <2>1, <2>2, <1>1 DEF Top
<1>9. MapsGood(e)
  <2>1. \A s \in DOMAIN e.maps :
          /\ e.maps[s].node \in IF s \in FileRow THEN FileNode ELSE DirNode
          /\ s \in FolderRow => e.maps[s].path[1] = Root
    <3> TAKE s \in DOMAIN e.maps
    <3>1. e.maps[s].node \in IF s \in FileRow THEN FileNode ELSE DirNode
      BY MappingFacts
    <3>2. ASSUME s \in FolderRow PROVE e.maps[s].path[1] = Root
      <4>1. CASE s = r
        BY <4>1, <1>1 DEF Top
      <4>2. CASE s # r
        BY <4>2, <3>2, <1>3, MappingFacts
      <4> QED BY <4>1, <4>2
    <3> QED BY <3>1, <3>2
  <2> QED BY <2>1, <1>6, <1>8 DEF MapsGood
<1>10. Placed(e)
  BY <1>7 DEF TablesGood, Placed
<1> QED BY <1>9, <1>10 DEF TablesGood

-----------------------------------------------------------------------------
(* The projection.                                                           *)

LEMMA EntryFacts ==
  ASSUME NEW f, IsTree(f), NEW p \in DOMAIN f
  PROVE  /\ p \in Path /\ p = <<p[1], p[2]>> /\ p[1] \in {Root} \cup Name /\ p[2] \in Name
         /\ p[2] # Root /\ f[p] \in FileNode \cup DirNode
         /\ p[1] # Root => /\ f[p] \in FileNode
                           /\ Top(p[1]) \in DOMAIN f /\ f[Top(p[1])] \in DirNode
         /\ f[p] \in FileNode <=> f[p] \notin DirNode
         /\ f[p] \in DirNode => p[1] = Root
<1>1. p \in Path /\ f[p] \in FileNode \cup DirNode
      /\ (p[1] # Root => /\ f[p] \in FileNode
                         /\ Top(p[1]) \in DOMAIN f /\ f[Top(p[1])] \in DirNode)
  BY DEF IsTree
<1>2. p = <<p[1], p[2]>> /\ p[1] \in {Root} \cup Name /\ p[2] \in Name
  BY <1>1 DEF Path
<1> QED BY <1>1, <1>2, SmbSyncAssumption

LEMMA TreeWithout ==
  ASSUME NEW f, IsTree(f), NEW S,
         \A p \in S \cap DOMAIN f, q \in DOMAIN f : InDir(q, p) => q \in S
  PROVE  IsTree(Without(f, S))
<1> DEFINE g == Without(f, S)
<1>1. DOMAIN g = DOMAIN f \ S /\ \A q \in DOMAIN g : g[q] = f[q]
  BY DEF Without, Restrict
<1>2. SUFFICES ASSUME NEW q \in DOMAIN g, q[1] # Root
               PROVE  Top(q[1]) \in DOMAIN g
  BY <1>1 DEF IsTree
<1>3. Top(q[1]) \in DOMAIN f /\ InDir(q, Top(q[1]))
  BY <1>1, <1>2 DEF IsTree, InDir, Top
<1> QED BY <1>1, <1>2, <1>3

\* A file has nothing below it.
LEMMA TreeWithoutFile ==
  ASSUME NEW f, IsTree(f), NEW p, p \in DOMAIN f => f[p] \notin DirNode
  PROVE  IsTree(Without(f, {p}))
<1>1. \A q \in DOMAIN f : ~(p \in DOMAIN f /\ InDir(q, p))
  <2> SUFFICES ASSUME NEW q \in DOMAIN f, p \in DOMAIN f, InDir(q, p) PROVE FALSE
    OBVIOUS
  <2>1. q[1] # Root /\ Top(q[1]) = p
    BY EntryFacts DEF InDir, Top
  <2> QED BY <2>1, EntryFacts
<1> QED BY <1>1, TreeWithout

LEMMA TreeWithoutUnder ==
  ASSUME NEW f, IsTree(f), NEW p, p \in DOMAIN f
  PROVE  IsTree(Without(f, Under(f, p)))
<1>1. ASSUME NEW q \in Under(f, p), NEW t \in DOMAIN f, InDir(t, q) PROVE t \in Under(f, p)
  <2>1. q[2] # Root /\ t[1] = q[2] /\ q[1] = Root /\ p[2] # Root
    BY <1>1, EntryFacts DEF Under, InDir
  <2>2. q = p
    BY <2>1 DEF Under, InDir
  <2> QED BY <1>1, <2>2 DEF Under
<1> QED BY <1>1, TreeWithout

LEMMA TreeWith ==
  ASSUME NEW f, IsTree(f), NEW p \in Path, NEW n,
         p \in DOMAIN f => f[p] \notin DirNode,
         IF p[1] = Root THEN n \in FileNode \cup DirNode
         ELSE n \in FileNode /\ Top(p[1]) \in DOMAIN f /\ f[Top(p[1])] \in DirNode
  PROVE  IsTree(With(f, p, n))
<1> DEFINE g == With(f, p, n)
<1>1. /\ DOMAIN g = DOMAIN f \cup {p} /\ g[p] = n
      /\ \A q \in DOMAIN f \ {p} : g[q] = f[q]
  BY DEF With
<1> HIDE DEF g
<1>2. SUFFICES ASSUME NEW q \in DOMAIN g
               PROVE  /\ q \in Path /\ g[q] \in FileNode \cup DirNode
                      /\ q[1] # Root => /\ g[q] \in FileNode
                                        /\ Top(q[1]) \in DOMAIN g /\ g[Top(q[1])] \in DirNode
  BY DEF IsTree, g
<1>3. CASE q = p
  BY <1>1, <1>3
<1>4. CASE q # p
  BY <1>1, <1>4, EntryFacts
<1> QED BY <1>3, <1>4

\* Where the entries of a renamed projection come from.
LEMMA RenamedIs ==
  ASSUME NEW f, NEW from, NEW to
  PROVE  LET g == Renamed(f, from, to) IN
         /\ DOMAIN g = (DOMAIN f \ Under(f, from)) \cup {Shifted(p, from, to) : p \in Under(f, from)}
         /\ \A q \in DOMAIN g :
              \/ \E p \in Under(f, from) : q = Shifted(p, from, to) /\ g[q] = f[p]
              \/ /\ q \in DOMAIN f \ Under(f, from) /\ g[q] = f[q]
                 /\ \A p \in Under(f, from) : q # Shifted(p, from, to)
<1> DEFINE g == Renamed(f, from, to)
           D == (DOMAIN f \ Under(f, from)) \cup {Shifted(p, from, to) : p \in Under(f, from)}
<1>1. /\ DOMAIN g = D
      /\ \A q \in D : g[q] = IF \E p \in Under(f, from) : Shifted(p, from, to) = q
                             THEN f[CHOOSE p \in Under(f, from) : Shifted(p, from, to) = q]
                             ELSE f[q]
  BY DEF Renamed
<1> HIDE DEF g
<1>2. ASSUME NEW q \in D
      PROVE  \/ \E p \in Under(f, from) : q = Shifted(p, from, to) /\ g[q] = f[p]
             \/ /\ q \in DOMAIN f \ Under(f, from) /\ g[q] = f[q]
                /\ \A p \in Under(f, from) : q # Shifted(p, from, to)
  <2>1. CASE \E p \in Under(f, from) : Shifted(p, from, to) = q
    <3> DEFINE c == CHOOSE p \in Under(f, from) : Shifted(p, from, to) = q
    <3>1. c \in Under(f, from) /\ Shifted(c, from, to) = q
      BY <2>1
    <3>2. g[q] = f[c]
      BY <1>1, <2>1
    <3> QED BY <3>1, <3>2
  <2>2. CASE ~\E p \in Under(f, from) : Shifted(p, from, to) = q
    BY <1>1, <2>2
  <2> QED BY <2>1, <2>2
<1> QED BY <1>1, <1>2 DEF g

LEMMA TreeRenamed ==
  ASSUME NEW f, IsTree(f), NEW from \in DOMAIN f, NEW to \in Path,
         to \in DOMAIN f => to = from,
         f[from] \in DirNode => to[1] = Root,
         to[1] # Root => Top(to[1]) \in DOMAIN f /\ f[Top(to[1])] \in DirNode
  PROVE  IsTree(Renamed(f, from, to))
<1> DEFINE g == Renamed(f, from, to)
           U == Under(f, from)
           Sh(p) == Shifted(p, from, to)
<1>1. /\ DOMAIN g = (DOMAIN f \ U) \cup {Sh(p) : p \in U}
      /\ \A q \in DOMAIN g :
           \/ \E p \in U : q = Sh(p) /\ g[q] = f[p]
           \/ q \in DOMAIN f \ U /\ g[q] = f[q] /\ \A p \in U : q # Sh(p)
  BY RenamedIs
<1>2. /\ to = <<to[1], to[2]>> /\ to[1] \in {Root} \cup Name /\ to[2] \in Name /\ to[2] # Root
      /\ Root \notin Name
  BY SmbSyncAssumption DEF Path
<1>3. /\ from = <<from[1], from[2]>> /\ from[2] \in Name /\ from[2] # Root
      /\ f[from] \in FileNode <=> f[from] \notin DirNode
      /\ f[from] \in FileNode \cup DirNode
  BY EntryFacts
<1>4. from \in U /\ Sh(from) = to
  BY DEF Under, Shifted
<1>5. ASSUME NEW p \in U, p # from
      PROVE  /\ p \in DOMAIN f /\ p[1] = from[2] /\ from[1] = Root /\ Sh(p) = <<to[2], p[2]>>
             /\ f[p] \in FileNode /\ f[from] \in DirNode /\ p[2] \in Name
  <2>1. p \in DOMAIN f /\ InDir(p, from)
    BY <1>5 DEF Under
  <2>2. p[1] # Root /\ Top(p[1]) = from
    BY <2>1, <1>3 DEF InDir, Top
  <2> QED BY <1>5, <2>1, <2>2, EntryFacts DEF Shifted, InDir
<1> HIDE DEF g, U, Sh
\* Directories elsewhere stay where they are.
<1>6. ASSUME NEW t \in DOMAIN f, t # from, t[1] = Root, f[t] \in DirNode
      PROVE  t \in DOMAIN g /\ g[t] = f[t]
  <2>1. t \notin U
    BY <1>5, <1>6, <1>3
  <2>2. \A p \in U : t # Sh(p)
    <3> SUFFICES ASSUME NEW p \in U, t = Sh(p) PROVE FALSE
      OBVIOUS
    <3>1. CASE p = from
      BY <3>1, <1>4, <1>6
    <3>2. CASE p # from
      BY <3>2, <1>2, <1>5, <1>6
    <3> QED BY <3>1, <3>2
  <2> QED BY <1>1, <2>1, <2>2
<1>7. to \in DOMAIN g /\ g[to] = f[from]
  <2>1. to \in DOMAIN g
    BY <1>1, <1>4
  <2>2. \A p \in U : to = Sh(p) => p = from
    BY <1>2, <1>5
  <2> QED BY <2>1, <2>2, <1>1, <1>4
<1>8. SUFFICES ASSUME NEW q \in DOMAIN g
               PROVE  /\ q \in Path /\ g[q] \in FileNode \cup DirNode
                      /\ q[1] # Root => /\ g[q] \in FileNode
                                        /\ Top(q[1]) \in DOMAIN g /\ g[Top(q[1])] \in DirNode
  BY DEF IsTree, g
<1>9. CASE q = to
  <2>1. q \in Path /\ g[q] \in FileNode \cup DirNode
    BY <1>3, <1>7, <1>9
  <2>2. ASSUME q[1] # Root
        PROVE  g[q] \in FileNode /\ Top(q[1]) \in DOMAIN g /\ g[Top(q[1])] \in DirNode
    <3>1. f[from] \in FileNode /\ f[from] \notin DirNode
      BY <1>3, <1>9, <2>2
    <3>2. Top(to[1]) \in DOMAIN f /\ Top(to[1]) # from /\ f[Top(to[1])] \in DirNode
      BY <3>1, <1>9, <2>2
    <3>3. Top(to[1])[1] = Root
      BY DEF Top
    <3> QED BY <1>6, <1>7, <1>9, <3>1, <3>2, <3>3
  <2> QED BY <2>1, <2>2
<1>10. ASSUME q # to, NEW p \in U, q = Sh(p), g[q] = f[p]
       PROVE  /\ q \in Path /\ g[q] \in FileNode
              /\ Top(q[1]) \in DOMAIN g /\ g[Top(q[1])] \in DirNode
  <2>1. p # from
    BY <1>4, <1>10
  <2>2. q = <<to[2], p[2]>> /\ f[p] \in FileNode /\ f[from] \in DirNode /\ p[2] \in Name
    BY <1>5, <1>10, <2>1
  <2>3. Top(q[1]) = to
    BY <1>2, <2>2 DEF Top
  <2> QED BY <1>2, <1>7, <1>10, <2>2, <2>3 DEF Path
<1>11. ASSUME q \in DOMAIN f \ U, g[q] = f[q]
       PROVE  /\ q \in Path /\ g[q] \in FileNode \cup DirNode
              /\ q[1] # Root => /\ g[q] \in FileNode
                                /\ Top(q[1]) \in DOMAIN g /\ g[Top(q[1])] \in DirNode
  <2>1. q \in Path /\ f[q] \in FileNode \cup DirNode
    BY <1>11, EntryFacts
  <2>2. ASSUME q[1] # Root
        PROVE  f[q] \in FileNode /\ Top(q[1]) \in DOMAIN g /\ g[Top(q[1])] \in DirNode
    <3>1. f[q] \in FileNode /\ Top(q[1]) \in DOMAIN f /\ f[Top(q[1])] \in DirNode
      BY <1>11, <2>2, EntryFacts
    <3>2. Top(q[1]) # from
      BY <1>11 DEF U, Under, InDir, Top
    <3>3. Top(q[1])[1] = Root
      BY DEF Top
    <3> QED BY <1>6, <3>1, <3>2, <3>3
  <2> QED BY <1>11, <2>1, <2>2
<1> QED BY <1>1, <1>9, <1>10, <1>11

-----------------------------------------------------------------------------
(* The invariant.                                                            *)

IsPass(x) ==
  \E at, scan, todo, seen, stable, calm :
    x = [at |-> at, scan |-> scan, todo |-> todo, seen |-> seen, stable |-> stable, calm |-> calm]

\* Stages after the one in which the entries of deleted rows go.
Synchronizing ==
  {"apply", "movefolders", "folders", "movefiles", "files", "deletefiles", "deletefolders",
   "project"}

\* What a stage has still to do is of the kind it is for.
PassGood ==
  /\ IsPass(pass) /\ IsTree(pass.scan)
  /\ pass.at \in Synchronizing => MappedFolders(db) \subseteq DOMAIN db.folders
  /\ At("apply") => pass.todo \subseteq FileRow \cup FolderRow /\ Orphans = {}
  /\ pass.at \in {"movefolders", "folders"} => pass.todo \subseteq Dirs(pass.scan)
  /\ pass.at \in {"movefiles", "files"} => pass.todo \subseteq Leaves(pass.scan)
  /\ At("deletefolders") => pass.todo \subseteq MappedFolders(db)
  /\ At("project") => pass.todo \subseteq Rows(db) \ DOMAIN db.maps

SmbInv == TablesGood(db) /\ IsTree(proj) /\ PassGood

\* What the updates of a pass leave alone.
LEMMA PassGoes ==
  ASSUME IsPass(pass), NEW at, NEW todo, Goes(at, todo)
  PROVE  /\ IsPass(pass') /\ pass'.at = at /\ pass'.todo = todo
         /\ pass'.scan = pass.scan /\ pass'.seen = pass.seen /\ pass'.stable = pass.stable
         /\ pass'.calm = pass.calm
<1>1. PICK at0, scan0, todo0, seen0, stable0, calm0 :
        pass = [at |-> at0, scan |-> scan0, todo |-> todo0, seen |-> seen0, stable |-> stable0,
                calm |-> calm0]
  BY DEF IsPass
<1>2. pass' = [at |-> at, scan |-> scan0, todo |-> todo, seen |-> seen0, stable |-> stable0, calm |-> calm0]
  BY <1>1 DEF Goes
<1> QED BY <1>1, <1>2 DEF IsPass

LEMMA PassDid ==
  ASSUME IsPass(pass), NEW e, Did(e)
  PROVE  /\ IsPass(pass') /\ pass'.todo = pass.todo \ {e}
         /\ pass'.at = pass.at /\ pass'.scan = pass.scan /\ pass'.seen = pass.seen
         /\ pass'.stable = pass.stable /\ pass'.calm = pass.calm
<1>1. PICK at0, scan0, todo0, seen0, stable0, calm0 :
        pass = [at |-> at0, scan |-> scan0, todo |-> todo0, seen |-> seen0, stable |-> stable0,
                calm |-> calm0]
  BY DEF IsPass
<1>2. pass' = [at |-> at0, scan |-> scan0, todo |-> todo0 \ {e}, seen |-> seen0, stable |-> stable0, calm |-> calm0]
  BY <1>1 DEF Did
<1> QED BY <1>1, <1>2 DEF IsPass

LEMMA PassSaw ==
  ASSUME IsPass(pass), NEW e, NEW r, Saw(e, r)
  PROVE  /\ IsPass(pass') /\ pass'.todo = pass.todo \ {e} /\ pass'.seen = pass.seen \cup {r}
         /\ pass'.at = pass.at /\ pass'.scan = pass.scan /\ pass'.stable = pass.stable
         /\ pass'.calm = pass.calm
<1>1. PICK at0, scan0, todo0, seen0, stable0, calm0 :
        pass = [at |-> at0, scan |-> scan0, todo |-> todo0, seen |-> seen0, stable |-> stable0,
                calm |-> calm0]
  BY DEF IsPass
<1>2. pass' = [at |-> at0, scan |-> scan0, todo |-> todo0 \ {e}, seen |-> seen0 \cup {r}, stable |-> stable0, calm |-> calm0]
  BY <1>1 DEF Saw
<1> QED BY <1>1, <1>2 DEF IsPass

\* The updates of ApplyEntry, BeginMoves and ApplyDuringSave.
Settles(todo, stable) == pass' = [pass EXCEPT !.todo = todo, !.stable = stable]
Moves(at, todo, stable) == pass' = [pass EXCEPT !.at = at, !.todo = todo, !.stable = stable]
Disturbs(todo) == pass' = [pass EXCEPT !.todo = todo, !.calm = FALSE]

LEMMA PassSettles ==
  ASSUME IsPass(pass), NEW todo, NEW stable, Settles(todo, stable)
  PROVE  /\ IsPass(pass') /\ pass'.todo = todo /\ pass'.stable = stable
         /\ pass'.at = pass.at /\ pass'.scan = pass.scan /\ pass'.seen = pass.seen
         /\ pass'.calm = pass.calm
<1>1. PICK at0, scan0, todo0, seen0, stable0, calm0 :
        pass = [at |-> at0, scan |-> scan0, todo |-> todo0, seen |-> seen0, stable |-> stable0,
                calm |-> calm0]
  BY DEF IsPass
<1>2. pass' = [at |-> at0, scan |-> scan0, todo |-> todo, seen |-> seen0, stable |-> stable, calm |-> calm0]
  BY <1>1 DEF Settles
<1> QED BY <1>1, <1>2 DEF IsPass

LEMMA PassMoves ==
  ASSUME IsPass(pass), NEW at, NEW todo, NEW stable, Moves(at, todo, stable)
  PROVE  /\ IsPass(pass') /\ pass'.at = at /\ pass'.todo = todo /\ pass'.stable = stable
         /\ pass'.scan = pass.scan /\ pass'.seen = pass.seen /\ pass'.calm = pass.calm
<1>1. PICK at0, scan0, todo0, seen0, stable0, calm0 :
        pass = [at |-> at0, scan |-> scan0, todo |-> todo0, seen |-> seen0, stable |-> stable0,
                calm |-> calm0]
  BY DEF IsPass
<1>2. pass' = [at |-> at, scan |-> scan0, todo |-> todo, seen |-> seen0, stable |-> stable, calm |-> calm0]
  BY <1>1 DEF Moves
<1> QED BY <1>1, <1>2 DEF IsPass

LEMMA PassSaved ==
  ASSUME IsPass(pass), NEW todo, Disturbs(todo)
  PROVE  /\ IsPass(pass') /\ pass'.todo = todo /\ ~pass'.calm
         /\ pass'.at = pass.at /\ pass'.scan = pass.scan /\ pass'.seen = pass.seen
         /\ pass'.stable = pass.stable
<1>1. PICK at0, scan0, todo0, seen0, stable0, calm0 :
        pass = [at |-> at0, scan |-> scan0, todo |-> todo0, seen |-> seen0, stable |-> stable0,
                calm |-> calm0]
  BY DEF IsPass
<1>2. pass' = [at |-> at0, scan |-> scan0, todo |-> todo, seen |-> seen0, stable |-> stable0, calm |-> FALSE]
  BY <1>1 DEF Disturbs
<1> QED BY <1>1, <1>2 DEF IsPass

LEMMA PassDisturbed ==
  ASSUME NEW x, IsPass(x), NEW calm, NEW y,
         y = [x EXCEPT !.calm = calm]
  PROVE  /\ IsPass(y) /\ y.calm = calm
         /\ y.at = x.at /\ y.scan = x.scan /\ y.todo = x.todo
         /\ y.seen = x.seen /\ y.stable = x.stable
<1>1. PICK at0, scan0, todo0, seen0, stable0, calm0 :
        x = [at |-> at0, scan |-> scan0, todo |-> todo0, seen |-> seen0, stable |-> stable0,
             calm |-> calm0]
  BY DEF IsPass
<1>2. y = [at |-> at0, scan |-> scan0, todo |-> todo0, seen |-> seen0, stable |-> stable0, calm |-> calm]
  BY <1>1
<1> QED BY <1>1, <1>2 DEF IsPass

LEMMA RestIs ==
  ASSUME NEW at, NEW calm
  PROVE  /\ IsPass(Rest(at, calm)) /\ IsTree(Rest(at, calm).scan)
         /\ Rest(at, calm).at = at /\ Rest(at, calm).todo = {} /\ Rest(at, calm).calm = calm
         /\ Rest(at, calm).scan = Nothing
BY DEF Rest, IsPass, IsTree, Nothing

LEMMA TreeNothing == IsTree(Nothing)
BY DEF IsTree, Nothing

\* No pass, or one that has not looked at the projection yet.
LEMMA EarlyPass ==
  ASSUME TablesGood(db'), IsTree(proj'), IsPass(pass'), IsTree(pass'.scan),
         pass'.at \notin Synchronizing
  PROVE  SmbInv'
BY DEF SmbInv, PassGood, At, Synchronizing

LEMMA PassEnds ==
  ASSUME TablesGood(db'), IsTree(proj'), Fails \/ EndsWithin
  PROVE  SmbInv'
<1>1. PICK c : pass' = Rest("failed", c)
  BY DEF Fails, EndsWithin
<1> QED BY <1>1, RestIs, EarlyPass DEF Synchronizing

-----------------------------------------------------------------------------
(* Users and routes.                                                         *)

LEMMA ChangeTree ==
  ASSUME IsTree(proj), SmbChange
  PROVE  IsTree(proj')
<1>0. /\ \A p \in Path : FileAt(p) => p \in DOMAIN proj /\ proj[p] \notin DirNode
      /\ \A p \in Path : (Vacant(p) \/ FileAt(p)) /\ p[1] # Root =>
           Top(p[1]) \in DOMAIN proj /\ proj[Top(p[1])] \in DirNode
      /\ \A p \in Path : Vacant(p) => p \notin DOMAIN proj
  BY EntryFacts, SmbSyncAssumption DEF FileAt, Vacant
<1>1. ASSUME NEW p \in Path, NEW n \in FileNode, SmbWrite(p, n) PROVE IsTree(proj')
  <2>1. /\ p \in DOMAIN proj => proj[p] \notin DirNode
        /\ p[1] # Root => Top(p[1]) \in DOMAIN proj /\ proj[Top(p[1])] \in DirNode
        /\ proj' = With(proj, p, n)
    BY <1>0, <1>1 DEF SmbWrite
  <2> QED BY <2>1, TreeWith
<1>2. ASSUME NEW p \in Path, SmbUnlink(p) PROVE IsTree(proj')
  BY <1>0, <1>2, TreeWithoutFile DEF SmbUnlink
<1>3. ASSUME NEW p \in Path, NEW q \in Path, SmbRename(p, q) PROVE IsTree(proj')
  <2> DEFINE g == Without(proj, {p})
  <2>1. /\ FileAt(p) /\ (Vacant(q) \/ FileAt(q)) /\ p # q
        /\ proj' = With(g, q, proj[p])
    BY <1>3 DEF SmbRename
  <2>2. IsTree(g)
    BY <1>0, <2>1, TreeWithoutFile
  <2>3. DOMAIN g = DOMAIN proj \ {p} /\ \A t \in DOMAIN g : g[t] = proj[t]
    BY DEF Without, Restrict
  <2> HIDE DEF g
  <2>4. /\ q \in DOMAIN g => g[q] \notin DirNode
        /\ q[1] # Root => Top(q[1]) \in DOMAIN g /\ g[Top(q[1])] \in DirNode
    BY <1>0, <2>1, <2>3
  <2>5. proj[p] \in FileNode
    BY <2>1 DEF FileAt
  <2> QED BY <2>1, <2>2, <2>4, <2>5, TreeWith
<1>4. ASSUME NEW n \in Name, NEW node \in DirNode, SmbMkdir(n, node) PROVE IsTree(proj')
  <2>1. Top(n) \in Path /\ Top(n)[1] = Root /\ Top(n) \notin DOMAIN proj
        /\ proj' = With(proj, Top(n), node)
    BY <1>4 DEF SmbMkdir, Vacant, Top, Path
  <2> QED BY <2>1, TreeWith
<1>5. ASSUME NEW n \in Name, SmbRmdir(n) PROVE IsTree(proj')
  <2>1. Under(proj, Top(n)) = {Top(n)} /\ proj' = Without(proj, {Top(n)})
    BY <1>5 DEF SmbRmdir
  <2>2. Top(n) \in DOMAIN proj
    BY <2>1 DEF Under
  <2> QED BY <2>1, <2>2, TreeWithoutUnder
<1>6. ASSUME NEW n \in Name, NEW m \in Name, SmbRenameDir(n, m) PROVE IsTree(proj')
  <2>1. /\ Top(n) \in DOMAIN proj /\ Top(m) \notin DOMAIN proj /\ Top(m) \in Path
        /\ Top(m)[1] = Root /\ proj' = Renamed(proj, Top(n), Top(m))
    BY <1>6 DEF SmbRenameDir, Vacant, Top, Path
  <2> QED BY <2>1, TreeRenamed
<1> QED BY <1>1, <1>2, <1>3, <1>4, <1>5, <1>6 DEF SmbChange

\* The pass is where it was, and what it reads has not moved.
LEMMA PassStays ==
  ASSUME SmbInv, IsTree(proj'), TablesGood(db'), IsPass(pass'),
         pass'.at = pass.at, pass'.scan = pass.scan, pass'.todo \subseteq pass.todo,
         DOMAIN db'.maps = DOMAIN db.maps, Rows(db) \subseteq Rows(db'),
         DOMAIN db.folders \subseteq DOMAIN db'.folders
  PROVE  SmbInv'
BY DEF SmbInv, PassGood, At, MappedFolders, Orphans, Rows

LEMMA SmbUserStep ==
  ASSUME SmbInv, SmbUser
  PROVE  SmbInv'
<1>1. IsTree(proj') /\ UNCHANGED db
  BY ChangeTree DEF SmbUser, SmbInv
<1>2. /\ IsPass(pass') /\ pass'.at = pass.at /\ pass'.scan = pass.scan
      /\ pass'.todo = pass.todo
  <2>1. pass' = [pass EXCEPT !.calm = FALSE] /\ IsPass(pass)
    BY DEF SmbUser, Disturbed, SmbInv, PassGood
  <2> QED BY <2>1, PassDisturbed
<1> QED BY <1>1, <1>2, PassStays DEF SmbInv

LEMMA DisturbedRest ==
  ASSUME SmbInv, TablesGood(db'), IsTree(proj'), Resting, Disturbed
  PROVE  SmbInv'
<1>1. /\ IsPass(pass') /\ pass'.at = pass.at /\ pass'.scan = pass.scan
  BY PassDisturbed DEF Disturbed, SmbInv, PassGood
<1> QED BY <1>1, EarlyPass DEF Resting, Synchronizing, SmbInv, PassGood

\* A row for an upload: no mapping yet.
LEMMA TablesUpload ==
  ASSUME NEW d, TablesGood(d), NEW r \in FileRow, r \notin DOMAIN d.files \cup DOMAIN d.maps,
         NEW row \in FileRecord, row.folder \in {Root} \cup DOMAIN d.folders
  PROVE  LET e == [d EXCEPT !.files = With(@, r, row)]
         IN  TablesGood(e) /\ e.maps = d.maps /\ e.folders = d.folders
             /\ DOMAIN e.files = DOMAIN d.files \cup {r}
<1> DEFINE F == With(d.files, r, row)
           e == [d EXCEPT !.files = F]
<1>1. F \in Partial(FileRow, FileRecord)
  BY TablesFields, PartialWith DEF TablesGood
<1>2. /\ DOMAIN F = DOMAIN d.files \cup {r} /\ F[r] = row
      /\ \A s \in DOMAIN d.files : F[s] = d.files[s]
  BY DEF With
<1> HIDE DEF F
<1>3. e \in Tables /\ e.files = F /\ e.folders = d.folders /\ e.maps = d.maps
  BY <1>1, SetFiles DEF TablesGood
<1> HIDE DEF e
<1>4. TablesGood(e)
  <2>1. RowsGood(d) /\ MapsGood(d) /\ Placed(d)
    BY DEF TablesGood
  <2>2. \A s \in DOMAIN e.files :
          /\ e.files[s].folder \in {Root} \cup DOMAIN e.folders
          /\ s \in DOMAIN d.maps => ParentOf(d, d.maps[s].path) = {e.files[s].folder}
    BY <1>2, <1>3, <2>1 DEF RowsGood, Placed
  <2>3. /\ \A s, t \in DOMAIN e.folders : e.folders[s] = e.folders[t] => s = t
        /\ e \in Tables
    BY <1>3, <2>1 DEF RowsGood
  <2>4. /\ DOMAIN e.maps = DOMAIN d.maps
        /\ \A s \in DOMAIN e.maps :
             /\ e.maps[s].path = d.maps[s].path
             /\ e.maps[s].node \in IF s \in FileRow THEN FileNode ELSE DirNode
    BY <1>3, <2>1 DEF MapsGood
  <2> QED BY <2>2, <2>3, <2>4, TablesRevise
<1> QED BY <1>2, <1>3, <1>4 DEF e, F

LEMMA FileDeletedGood ==
  ASSUME NEW d, TablesGood(d), NEW r \in FileRow
  PROVE  LET e == FileDeleted(d, r)
         IN  /\ TablesGood(e) /\ e.folders = d.folders
             /\ e.files = Without(d.files, {r}) /\ e.maps = Without(d.maps, {r})
<1> DEFINE F == Without(d.files, {r})
           M == Without(d.maps, {r})
           e == FileDeleted(d, r)
<1>1. F \in Partial(FileRow, FileRecord) /\ M \in Partial(FileRow \cup FolderRow, Mapping)
      /\ d \in Tables
  BY TablesFields, PartialWithout DEF TablesGood
<1>2. /\ DOMAIN F = DOMAIN d.files \ {r} /\ \A s \in DOMAIN F : F[s] = d.files[s]
      /\ DOMAIN M = DOMAIN d.maps \ {r} /\ \A s \in DOMAIN M : M[s] = d.maps[s]
  BY DEF Without, Restrict
<1>3. e = [d EXCEPT !.files = F, !.maps = M]
  BY DEF FileDeleted
<1> HIDE DEF F, M
<1>4. e \in Tables /\ e.files = F /\ e.folders = d.folders /\ e.maps = M
  BY <1>1, <1>3 DEF Tables
<1> HIDE DEF e
<1>5. r \notin FolderRow
  BY SmbSyncAssumption
<1>6. TablesGood(e)
  <2>1. RowsGood(d)
    BY DEF TablesGood
  <2>2. \A s \in DOMAIN e.files :
           /\ e.files[s].folder = d.files[s].folder
           /\ e.files[s].folder \in {Root} \cup DOMAIN e.folders
    BY <1>2, <1>4, <2>1 DEF RowsGood
  <2> QED BY <1>2, <1>4, <1>5, <2>2, TablesShrink
<1> QED BY <1>4, <1>6 DEF e, F, M

LEMMA FolderDeletedGood ==
  ASSUME NEW d, TablesGood(d), NEW r \in DOMAIN d.maps \cap FolderRow
  PROVE  LET e == FolderDeleted(d, r)
             p == d.maps[r].path
         IN  /\ TablesGood(e)
             /\ e.files = Without(d.files, FilesOf(d, r)) /\ e.folders = Without(d.folders, {r})
             /\ DOMAIN e.maps =
                  {s \in DOMAIN d.maps : d.maps[s].path # p /\ ~InDir(d.maps[s].path, p)}
             /\ \A s \in DOMAIN e.maps : e.maps[s] = d.maps[s]
             /\ MappedFolders(e) = MappedFolders(d) \ {r}
<1> DEFINE p == d.maps[r].path
           gone == {s \in DOMAIN d.maps : d.maps[s].path = p \/ InDir(d.maps[s].path, p)}
           F == Without(d.files, FilesOf(d, r))
           D == Without(d.folders, {r})
           M == Without(d.maps, gone)
           e == FolderDeleted(d, r)
<1>1. /\ F \in Partial(FileRow, FileRecord) /\ M \in Partial(FileRow \cup FolderRow, Mapping)
      /\ D \in Partial(FolderRow, Name)
  BY TablesFields, PartialWithout DEF TablesGood
<1>2. /\ DOMAIN F = DOMAIN d.files \ FilesOf(d, r) /\ \A s \in DOMAIN F : F[s] = d.files[s]
      /\ DOMAIN M = DOMAIN d.maps \ gone /\ \A s \in DOMAIN M : M[s] = d.maps[s]
      /\ DOMAIN D = DOMAIN d.folders \ {r} /\ \A s \in DOMAIN D : D[s] = d.folders[s]
  BY DEF Without, Restrict
<1>3. e = [files |-> F, folders |-> D, maps |-> M]
  BY DEF FolderDeleted
<1> HIDE DEF F, M, D
<1>4. e \in Tables /\ e.files = F /\ e.folders = D /\ e.maps = M
  BY <1>1, <1>3 DEF Tables
<1> HIDE DEF e
<1>5. ASSUME NEW s \in DOMAIN d.maps \cap FolderRow PROVE s \in gone <=> s = r
  <2>1. d.maps[s].path[1] = Root /\ p[2] \in Name /\ Root \notin Name
    BY MappingFacts, SmbSyncAssumption
  <2>2. d.maps[s].path = p => s = r
    BY DEF TablesGood, MapsGood, PathsUnique
  <2> QED BY <2>1, <2>2 DEF InDir
<1>6. TablesGood(e)
  <2>1. RowsGood(d)
    BY DEF TablesGood
  <2>2. \A s \in DOMAIN e.files :
           /\ e.files[s].folder = d.files[s].folder
           /\ e.files[s].folder \in {Root} \cup DOMAIN e.folders
    BY <1>2, <1>4, <2>1 DEF RowsGood, FilesOf
  <2>3. \A q \in DOMAIN d.maps \cap FolderRow, s \in DOMAIN e.maps :
           InDir(d.maps[s].path, d.maps[q].path) => q \in DOMAIN e.maps
    <3> SUFFICES ASSUME NEW q \in DOMAIN d.maps \cap FolderRow, NEW s \in DOMAIN d.maps,
                        s \notin gone, InDir(d.maps[s].path, d.maps[q].path)
                 PROVE  q \notin gone
      BY <1>2, <1>4
    <3> QED BY <1>5
  <2> QED BY <1>2, <1>4, <2>2, <2>3, TablesShrink
<1>7. MappedFolders(e) = MappedFolders(d) \ {r}
  BY <1>2, <1>4, <1>5 DEF MappedFolders
<1>8. DOMAIN M = {s \in DOMAIN d.maps : d.maps[s].path # p /\ ~InDir(d.maps[s].path, p)}
  BY <1>2
<1> QED BY <1>2, <1>4, <1>6, <1>7, <1>8 DEF F, D, e

LEMMA DataLostGood ==
  ASSUME NEW d, TablesGood(d), NEW S
  PROVE  LET e == DataLost(d, S)
         IN  /\ TablesGood(e) /\ e.folders = d.folders /\ e.maps = d.maps
             /\ DOMAIN e.files = DOMAIN d.files
             /\ \A r \in DOMAIN d.files :
                  e.files[r] = IF r \in S THEN [d.files[r] EXCEPT !.blob = NoData] ELSE d.files[r]
<1> DEFINE F == [r \in DOMAIN d.files |->
                   IF r \in S THEN [d.files[r] EXCEPT !.blob = NoData] ELSE d.files[r]]
           e == DataLost(d, S)
<1>1. \A r \in DOMAIN d.files : F[r] \in FileRecord /\ F[r].folder = d.files[r].folder
  BY TablesFields DEF TablesGood, FileRecord
<1>2. F \in Partial(FileRow, FileRecord) /\ DOMAIN F = DOMAIN d.files
  <2>1. F \in [DOMAIN d.files -> FileRecord] /\ DOMAIN d.files \subseteq FileRow
    BY <1>1, TablesFields DEF TablesGood
  <2> QED BY <2>1 DEF Partial
<1>3. e = [d EXCEPT !.files = F]
  BY DEF DataLost
<1>4. \A r \in DOMAIN d.files :
        F[r] = IF r \in S THEN [d.files[r] EXCEPT !.blob = NoData] ELSE d.files[r]
  OBVIOUS
<1> HIDE DEF F
<1>5. e \in Tables /\ e.files = F /\ e.folders = d.folders /\ e.maps = d.maps
  BY <1>2, <1>3, SetFiles DEF TablesGood
<1> HIDE DEF e
<1>6. TablesGood(e)
  <2>1. RowsGood(d)
    BY DEF TablesGood
  <2>2. \A r \in DOMAIN e.files :
           /\ e.files[r].folder = d.files[r].folder
           /\ e.files[r].folder \in {Root} \cup DOMAIN e.folders
    BY <1>1, <1>2, <1>5, <2>1 DEF RowsGood
  <2> QED BY <1>2, <1>5, <2>2, TablesShrink
<1> QED BY <1>2, <1>4, <1>5, <1>6 DEF e

LEMMA WebUploadStep ==
  ASSUME SmbInv, NEW r \in FileRow, NEW folder \in {Root} \cup FolderRow, NEW name \in Name,
         NEW n \in FileNode, WebUpload(r, folder, name, n)
  PROVE  SmbInv'
<1> DEFINE row == [folder |-> folder, name |-> name, blob |-> n]
<1>1. /\ r \notin DOMAIN db.files \cup DOMAIN db.maps /\ row.folder \in {Root} \cup DOMAIN db.folders
      /\ db' = [db EXCEPT !.files = With(@, r, row)]
      /\ Resting /\ Disturbed /\ UNCHANGED proj
  BY DEF WebUpload, Rows
<1>2. row \in FileRecord
  BY DEF FileRecord
<1> HIDE DEF row
<1>3. TablesGood(db')
  BY <1>1, <1>2, TablesUpload DEF SmbInv
<1> QED BY <1>1, <1>3, DisturbedRest DEF SmbInv

LEMMA WebDeleteFileStep ==
  ASSUME SmbInv, NEW r \in FileRow, WebDeleteFile(r)
  PROVE  SmbInv'
<1> DEFINE F == Without(db.files, {r})
<1>1. db' = [db EXCEPT !.files = F] /\ Resting /\ Disturbed /\ UNCHANGED proj /\ TablesGood(db)
  BY DEF WebDeleteFile, SmbInv
<1>2. F \in Partial(FileRow, FileRecord) /\ db \in Tables
  BY <1>1, TablesFields, PartialWithout DEF TablesGood
<1>3. DOMAIN F \subseteq DOMAIN db.files /\ \A s \in DOMAIN F : F[s] = db.files[s]
  BY DEF Without, Restrict
<1> HIDE DEF F
<1>4. db' \in Tables /\ db'.files = F /\ db'.folders = db.folders /\ db'.maps = db.maps
  BY <1>1, <1>2, SetFiles
<1>5. TablesGood(db')
  <2>1. \A s \in DOMAIN db'.files :
           /\ db'.files[s].folder = db.files[s].folder
           /\ db'.files[s].folder \in {Root} \cup DOMAIN db'.folders
    BY <1>1, <1>3, <1>4 DEF TablesGood, RowsGood
  <2> QED BY <1>1, <1>3, <1>4, <2>1, TablesShrink
<1> QED BY <1>1, <1>5, DisturbedRest DEF SmbInv

LEMMA WebDeleteFolderStep ==
  ASSUME SmbInv, NEW r \in FolderRow, WebDeleteFolder(r)
  PROVE  SmbInv'
<1> DEFINE F == Without(db.files, FilesOf(db, r))
           D == Without(db.folders, {r})
<1>1. /\ db' = [db EXCEPT !.files = F, !.folders = D]
      /\ Resting /\ Disturbed /\ UNCHANGED proj /\ TablesGood(db)
  BY DEF WebDeleteFolder, SmbInv
<1>2. F \in Partial(FileRow, FileRecord) /\ D \in Partial(FolderRow, Name) /\ db \in Tables
  BY <1>1, TablesFields, PartialWithout DEF TablesGood
<1>3. /\ DOMAIN F = DOMAIN db.files \ FilesOf(db, r) /\ \A s \in DOMAIN F : F[s] = db.files[s]
      /\ DOMAIN D = DOMAIN db.folders \ {r} /\ \A s \in DOMAIN D : D[s] = db.folders[s]
  BY DEF Without, Restrict
<1> HIDE DEF F, D
<1>4. db' \in Tables /\ db'.files = F /\ db'.folders = D /\ db'.maps = db.maps
  BY <1>1, <1>2 DEF Tables
<1>5. TablesGood(db')
  <2>1. \A s \in DOMAIN db'.files :
           /\ db'.files[s].folder = db.files[s].folder
           /\ db'.files[s].folder \in {Root} \cup DOMAIN db'.folders
    BY <1>1, <1>3, <1>4 DEF TablesGood, RowsGood, FilesOf
  <2>2. /\ DOMAIN db'.files \subseteq DOMAIN db.files
        /\ DOMAIN db'.folders \subseteq DOMAIN db.folders
        /\ \A s \in DOMAIN db'.folders : db'.folders[s] = db.folders[s]
        /\ db'.maps = db.maps /\ db' \in Tables
    BY <1>3, <1>4
  <2> QED BY <1>1, <2>1, <2>2, TablesShrink
<1> QED BY <1>1, <1>5, DisturbedRest DEF SmbInv

\* The mappings may all go at any moment.
LEMMA UnmappedGood ==
  ASSUME NEW d, TablesGood(d)
  PROVE  LET e == [d EXCEPT !.maps = Nothing]
         IN  TablesGood(e) /\ e.files = d.files /\ e.folders = d.folders /\ e.maps = Nothing
<1> DEFINE e == [d EXCEPT !.maps = Nothing]
<1>1. DOMAIN Nothing = {}
  BY DEF Nothing
<1>2. Nothing \in Partial(FileRow \cup FolderRow, Mapping)
  <2>1. Nothing \in [{} -> Mapping]
    BY DEF Nothing
  <2> QED BY <2>1 DEF Partial
<1>3. e \in Tables /\ e.files = d.files /\ e.folders = d.folders /\ e.maps = Nothing
  BY <1>2, SetMaps DEF TablesGood
<1> HIDE DEF e
<1>4. TablesGood(e)
  <2>1. RowsGood(d)
    BY DEF TablesGood
  <2>2. \A s \in DOMAIN e.files : e.files[s].folder \in {Root} \cup DOMAIN e.folders
    BY <1>3, <2>1 DEF RowsGood
  <2> QED BY <1>1, <1>3, <2>2, TablesShrink
<1> QED BY <1>3, <1>4 DEF e

LEMMA LoseProjectionStep ==
  ASSUME SmbInv, LoseProjection
  PROVE  SmbInv'
<1>1. TablesGood(db')
  BY UnmappedGood DEF LoseProjection, SmbInv
<1> QED BY <1>1, TreeNothing, DisturbedRest DEF LoseProjection

-----------------------------------------------------------------------------
(* The marker, and entries of deleted rows.                                  *)

LEMMA BeginPassStep ==
  ASSUME SmbInv, BeginPass
  PROVE  SmbInv'
<1> DEFINE at == IF marker THEN "web" ELSE "wipe"
<1>1. UNCHANGED <<db, proj>> /\ pass' = Rest(at, TRUE) /\ at \in {"web", "wipe"}
  BY DEF BeginPass
<1> HIDE DEF at
<1>2. IsPass(pass') /\ IsTree(pass'.scan) /\ pass'.at \in {"web", "wipe"}
  BY <1>1, RestIs
<1> QED BY <1>1, <1>2, EarlyPass DEF Synchronizing, SmbInv

LEMMA WipeSteps ==
  ASSUME SmbInv, Wipe \/ Unmap \/ Mark
  PROVE  SmbInv'
<1>1. PICK at \in {"unmap", "mark", "web"} : Goes(at, {})
  BY DEF Wipe, Unmap, Mark
<1>2. IsPass(pass') /\ pass'.at = at /\ pass'.scan = pass.scan
  BY <1>1, PassGoes DEF SmbInv, PassGood
<1>3. IsTree(proj')
  BY TreeNothing DEF Wipe, Unmap, Mark, SmbInv
<1>4. TablesGood(db')
  BY UnmappedGood DEF Wipe, Unmap, Mark, SmbInv
<1> QED BY <1>2, <1>3, <1>4, EarlyPass DEF Synchronizing, SmbInv, PassGood

\* A directory whose folder is deleted has lost its rows before.
LEMMA OrphansBelow ==
  ASSUME TablesGood(db), NEW r \in Orphans \cap FolderRow, NEW s \in DOMAIN db.maps,
         InDir(db.maps[s].path, db.maps[r].path)
  PROVE  s \in Orphans
<1>1. SUFFICES ASSUME s \in Rows(db) PROVE FALSE
  BY DEF Orphans
<1>2. r \in DOMAIN db.maps /\ r \notin DOMAIN db.folders /\ r # Root
  BY SmbSyncAssumption DEF Orphans, Rows
<1>3. /\ db.maps[s].path[1] # Root
      /\ db.maps[r].path = Top(db.maps[s].path[1])
      /\ s \notin FolderRow
  <2>1. db.maps[r].path = <<Root, db.maps[r].path[2]>> /\ db.maps[r].path[2] # Root
    BY <1>2, MappingFacts, SmbSyncAssumption
  <2> QED BY <2>1, MappingFacts DEF InDir, Top
<1>4. s \in DOMAIN db.files
  BY <1>1, <1>3, TablesFields DEF Rows, TablesGood
<1>5. r \in ParentOf(db, db.maps[s].path)
  BY <1>2, <1>3 DEF ParentOf, MappedAt
<1>6. db.files[s].folder = r
  BY <1>4, <1>5 DEF TablesGood, Placed
<1> QED BY <1>2, <1>4, <1>6 DEF TablesGood, RowsGood

LEMMA RemoveWebDeletedStep ==
  ASSUME SmbInv, NEW r \in FileRow \cup FolderRow, RemoveWebDeleted(r)
  PROVE  SmbInv'
<1>0. /\ TablesGood(db) /\ IsTree(proj) /\ r \in Orphans /\ r \in DOMAIN db.maps /\ At("web")
      /\ r \in FolderRow => \A s \in Orphans : ~InDir(db.maps[s].path, db.maps[r].path)
      /\ IsPass(pass) /\ IsTree(pass.scan)
  BY DEF RemoveWebDeleted, SmbInv, PassGood, Orphans
<1>1. IsTree(proj')
  <2>1. \/ InPlace(r) /\ proj' = Without(proj, Under(proj, db.maps[r].path))
        \/ proj' = Without(proj, {})
    BY DEF RemoveWebDeleted
  <2>2. InPlace(r) => db.maps[r].path \in DOMAIN proj
    BY DEF InPlace
  <2>3. IsTree(Without(proj, {}))
    BY <1>0, TreeWithout
  <2> QED BY <1>0, <2>1, <2>2, <2>3, TreeWithoutUnder
<1>2. CASE db' = [db EXCEPT !.maps = Without(@, {r})] /\ UNCHANGED pass
  <2> DEFINE M == Without(db.maps, {r})
  <2>1. /\ DOMAIN M = DOMAIN db.maps \ {r} /\ \A s \in DOMAIN M : M[s] = db.maps[s]
    BY DEF Without, Restrict
  <2>2. M \in Partial(FileRow \cup FolderRow, Mapping) /\ db \in Tables
    BY <1>0, TablesFields, PartialWithout DEF TablesGood
  <2>3. db' = [db EXCEPT !.maps = M]
    BY <1>2
  <2> HIDE DEF M
  <2>4. db' \in Tables /\ db'.files = db.files /\ db'.folders = db.folders /\ db'.maps = M
    BY <2>2, <2>3, SetMaps
  <2>5. \A q \in DOMAIN db.maps \cap FolderRow, s \in DOMAIN M :
          InDir(db.maps[s].path, db.maps[q].path) => q \in DOMAIN M
    <3> SUFFICES ASSUME NEW q \in DOMAIN db.maps \cap FolderRow, NEW s \in DOMAIN db.maps,
                        InDir(db.maps[s].path, db.maps[q].path), q = r
                 PROVE  FALSE
      BY <2>1
    <3> QED BY <1>0, OrphansBelow
  <2>6. TablesGood(db')
    <3>1. \A s \in DOMAIN db'.files : db'.files[s].folder \in {Root} \cup DOMAIN db'.folders
      BY <1>0, <2>4 DEF TablesGood, RowsGood
    <3> QED BY <1>0, <2>1, <2>4, <2>5, <3>1, TablesShrink
  <2> QED BY <1>0, <1>1, <1>2, <2>6, EarlyPass DEF At, Synchronizing
<1>3. CASE EndsWithin /\ UNCHANGED db
  BY <1>0, <1>1, <1>3, PassEnds
<1> QED BY <1>2, <1>3 DEF RemoveWebDeleted

-----------------------------------------------------------------------------
(* Names as the database has them.                                           *)

LEMMA BeginApplyStep ==
  ASSUME SmbInv, BeginApply
  PROVE  SmbInv'
<1>1. /\ TablesGood(db) /\ IsTree(proj) /\ IsPass(pass) /\ IsTree(pass.scan)
      /\ Orphans = {} /\ UNCHANGED <<db, proj>>
      /\ Goes("apply", DOMAIN db.maps)
  BY DEF BeginApply, SmbInv, PassGood
<1>2. IsPass(pass') /\ pass'.at = "apply" /\ pass'.todo = DOMAIN db.maps /\ pass'.scan = pass.scan
  BY <1>1, PassGoes
<1>3. DOMAIN db.maps \subseteq FileRow \cup FolderRow
  BY <1>1, TablesFields DEF TablesGood
<1>4. MappedFolders(db) \subseteq DOMAIN db.folders
  <2>1. DOMAIN db.files \subseteq FileRow
    BY <1>1, TablesFields DEF TablesGood
  <2> QED BY <1>1, <2>1, SmbSyncAssumption DEF MappedFolders, Orphans, Rows
<1> QED BY <1>1, <1>2, <1>3, <1>4 DEF SmbInv, PassGood, At, Orphans, Rows, MappedFolders

LEMMA AllocatedFacts ==
  ASSUME NEW dir \in {Root} \cup Name, NEW n \in Name, NEW own, NEW p \in Allocated(dir, n, own)
  PROVE  /\ p = <<dir, p[2]>> /\ p \in Path /\ p[1] = dir /\ p[2] \in Name
         /\ NoConflict(p, own)
         /\ dir # Root => Top(dir) \in DOMAIN proj /\ proj[Top(dir)] \in DirNode
<1>1. p \in {dir} \X Name /\ NoConflict(p, own)
  BY DEF Allocated
<1>2. dir # Root => Top(dir) \in DOMAIN proj /\ proj[Top(dir)] \in DirNode
  BY DEF Allocated
<1> QED BY <1>1, <1>2 DEF Path

LEMMA ShiftedPath ==
  ASSUME NEW p \in Path, NEW from, NEW to \in Path
  PROVE  Shifted(p, from, to) \in Path
BY DEF Shifted, Path

LEMMA RemappedIs ==
  ASSUME NEW d, TablesGood(d), NEW r \in DOMAIN d.maps, NEW to \in Path
  PROVE  LET e == Remapped(d, r, to)
         IN  /\ e \in Tables /\ e.files = d.files /\ e.folders = d.folders
             /\ DOMAIN e.maps = DOMAIN d.maps
             /\ \A s \in DOMAIN d.maps :
                  /\ e.maps[s].node = d.maps[s].node
                  /\ e.maps[s].path =
                       IF s = r \/ (r \in FolderRow /\ InDir(d.maps[s].path, d.maps[r].path))
                       THEN Shifted(d.maps[s].path, d.maps[r].path, to)
                       ELSE d.maps[s].path
<1> DEFINE from == d.maps[r].path
           moved == IF r \in FolderRow THEN {s \in DOMAIN d.maps : InDir(d.maps[s].path, from)}
                    ELSE {}
           Move(m) == [m EXCEPT !.path = Shifted(m.path, from, to)]
           M == [s \in DOMAIN d.maps |->
                   IF s \in moved \cup {r} THEN Move(d.maps[s]) ELSE d.maps[s]]
           e == Remapped(d, r, to)
<1>1. e = [d EXCEPT !.maps = M]
  BY DEF Remapped
<1>2. ASSUME NEW m \in Mapping
      PROVE  Move(m) \in Mapping /\ Move(m).node = m.node /\ Move(m).path = Shifted(m.path, from, to)
  BY ShiftedPath DEF Mapping
<1>3. DOMAIN M = DOMAIN d.maps
      /\ \A s \in DOMAIN d.maps : M[s] = IF s \in moved \cup {r} THEN Move(d.maps[s]) ELSE d.maps[s]
  OBVIOUS
<1>4. \A s \in DOMAIN d.maps : d.maps[s] \in Mapping
  BY TablesFields DEF TablesGood
<1>5. M \in Partial(FileRow \cup FolderRow, Mapping)
  <2>1. M \in [DOMAIN d.maps -> Mapping]
    <3> HIDE DEF Move, moved
    <3> QED BY <1>2, <1>4
  <2>2. DOMAIN d.maps \subseteq FileRow \cup FolderRow
    BY TablesFields DEF TablesGood
  <2> QED BY <2>1, <2>2 DEF Partial
<1> HIDE DEF M, e, Move
<1>6. e \in Tables /\ e.files = d.files /\ e.folders = d.folders /\ e.maps = M
  BY <1>1, <1>5, SetMaps DEF TablesGood
<1>7. ASSUME NEW s \in DOMAIN d.maps
      PROVE  /\ M[s].node = d.maps[s].node
             /\ M[s].path = IF s = r \/ (r \in FolderRow /\ InDir(d.maps[s].path, d.maps[r].path))
                            THEN Shifted(d.maps[s].path, d.maps[r].path, to)
                            ELSE d.maps[s].path
  <2>1. CASE s \in moved \cup {r}
    <3>1. M[s] = Move(d.maps[s])
      BY <1>3, <2>1
    <3>2. s = r \/ (r \in FolderRow /\ InDir(d.maps[s].path, d.maps[r].path))
      BY <2>1
    <3> QED BY <1>2, <1>4, <3>1, <3>2
  <2>2. CASE s \notin moved \cup {r}
    BY <1>3, <2>2
  <2> QED BY <2>1, <2>2
<1> QED BY <1>3, <1>6, <1>7 DEF e

LEMMA RemappedFile ==
  ASSUME NEW d, TablesGood(d), NEW r \in DOMAIN d.maps \cap FileRow, NEW p \in Path,
         MappedAt(d, p) \subseteq {r}, ParentOf(d, p) # {},
         r \in DOMAIN d.files => ParentOf(d, p) = {d.files[r].folder}
  PROVE  TablesGood(Remapped(d, r, p))
<1> DEFINE e == Remapped(d, r, p)
<1>0. r \notin FolderRow
  BY SmbSyncAssumption
<1>1. /\ e \in Tables /\ e.files = d.files /\ e.folders = d.folders
      /\ DOMAIN e.maps = DOMAIN d.maps
      /\ \A s \in DOMAIN d.maps :
           /\ e.maps[s].node = d.maps[s].node
           /\ e.maps[s].path = IF s = r THEN Shifted(d.maps[s].path, d.maps[r].path, p)
                               ELSE d.maps[s].path
  BY <1>0, RemappedIs
<1>2. Shifted(d.maps[r].path, d.maps[r].path, p) = p
  BY DEF Shifted
<1> HIDE DEF e
<1>3. RowsGood(e)
  BY <1>1 DEF TablesGood, RowsGood
<1>4. \A s \in DOMAIN d.maps : e.maps[s].path = IF s = r THEN p ELSE d.maps[s].path
  BY <1>1, <1>2
<1>5. TablesGood(e)
  BY <1>1, <1>3, <1>4, TablesMoveFile
<1> QED BY <1>5 DEF e

LEMMA RemappedFolder ==
  ASSUME NEW d, TablesGood(d), NEW r \in DOMAIN d.maps \cap FolderRow, NEW n \in Name,
         MappedAt(d, Top(n)) \subseteq {r}
  PROVE  TablesGood(Remapped(d, r, Top(n)))
<1> DEFINE e == Remapped(d, r, Top(n))
<1>0. Top(n) \in Path
  BY DEF Top, Path
<1>1. /\ e \in Tables /\ e.files = d.files /\ e.folders = d.folders
      /\ DOMAIN e.maps = DOMAIN d.maps
      /\ \A s \in DOMAIN d.maps :
           /\ e.maps[s].node = d.maps[s].node
           /\ e.maps[s].path = IF s = r \/ InDir(d.maps[s].path, d.maps[r].path)
                               THEN Shifted(d.maps[s].path, d.maps[r].path, Top(n))
                               ELSE d.maps[s].path
  BY <1>0, RemappedIs
<1> HIDE DEF e
<1>3. RowsGood(e)
  BY <1>1 DEF TablesGood, RowsGood
<1>5. TablesGood(e)
  BY <1>1, <1>3, TablesMoveFolder
<1> QED BY <1>5 DEF e

\* The directory a row belongs into, and the folder of what lies there.
LEMMA DirOfFacts ==
  ASSUME NEW d, TablesGood(d), NEW folder, NEW dir \in DirOf(d, folder), NEW p, p[1] = dir,
         folder \in {Root} \cup FolderRow
  PROVE  /\ dir \in {Root} \cup Name
         /\ folder = Root <=> dir = Root
         /\ ParentOf(d, p) = {folder}
<1>0. Root \notin Name /\ Root \notin FolderRow
  BY SmbSyncAssumption
<1>1. CASE folder = Root
  BY <1>1 DEF DirOf, ParentOf
<1>2. CASE folder # Root
  <2>1. folder \in DOMAIN d.maps /\ dir = d.maps[folder].path[2] /\ folder \in FolderRow
    BY <1>2 DEF DirOf
  <2>2. dir \in Name /\ d.maps[folder].path = Top(dir) /\ dir # Root
    BY <2>1, <1>0, MappingFacts DEF Top
  <2>3. folder \in ParentOf(d, p)
    BY <2>1, <2>2 DEF ParentOf, MappedAt
  <2> QED BY <1>2, <2>2, <2>3, OneParent
<1> QED BY <1>1, <1>2

LEMMA ApplyStep ==
  ASSUME SmbInv, NEW r \in FileRow \cup FolderRow, At("apply"), r \in pass.todo,
         Applicable(r), Apply(r)
  PROVE  SmbInv'
<1>0. /\ TablesGood(db) /\ IsTree(proj) /\ IsPass(pass) /\ Orphans = {} /\ r \in DOMAIN db.maps
      /\ db \in Tables /\ RowsGood(db)
  BY DEF SmbInv, PassGood, TablesGood, Applicable
<1>1. /\ r \in FolderRow => r \in DOMAIN db.folders /\ NameOf(r) \in Name /\ FolderOf(r) = Root
      /\ r \in FileRow => /\ r \in DOMAIN db.files /\ NameOf(r) \in Name
                          /\ FolderOf(r) = db.files[r].folder
                          /\ FolderOf(r) \in {Root} \cup FolderRow
  <2>1. DOMAIN db.files \subseteq FileRow /\ DOMAIN db.folders \subseteq FolderRow
        /\ r \in DOMAIN db.files \cup DOMAIN db.folders
    BY <1>0, TablesFields DEF Orphans, Rows
  <2>2. CASE r \in FolderRow
    BY <1>0, <2>1, <2>2, TablesFields, SmbSyncAssumption DEF NameOf, FolderOf
  <2>3. CASE r \in FileRow
    <3>1. r \in DOMAIN db.files /\ r \notin FolderRow
      BY <2>1, <2>3, SmbSyncAssumption
    <3>2. db.files[r] \in FileRecord
      BY <1>0, <3>1, TablesFields
    <3> QED BY <3>1, <3>2 DEF NameOf, FolderOf, FileRecord
  <2> QED BY <2>2, <2>3
<1>2. PICK dir \in DirOf(db, FolderOf(r)) :
        LET paths == Allocated(dir, NameOf(r), {r}) IN
        IF paths = {} THEN Fails /\ UNCHANGED <<db, proj, events>>
        ELSE \E p \in paths :
          /\ proj' = Renamed(proj, db.maps[r].path, p)
          /\ \/ /\ db' = Remapped(db, r, p)
                /\ pass' = [pass EXCEPT !.todo = @ \ {r},
                     !.stable = IF r \in FolderRow THEN @ \cup {r} ELSE @]
                /\ UNCHANGED events
             \/ p # db.maps[r].path /\ EndsWithin /\ UNCHANGED db
  BY DEF Apply
<1>3. CASE Fails /\ UNCHANGED <<db, proj, events>>
  BY <1>0, <1>3, PassEnds
<1>4. ASSUME NEW p \in Allocated(dir, NameOf(r), {r}),
             proj' = Renamed(proj, db.maps[r].path, p),
             \/ /\ db' = Remapped(db, r, p)
                /\ pass' = [pass EXCEPT !.todo = @ \ {r},
                     !.stable = IF r \in FolderRow THEN @ \cup {r} ELSE @]
             \/ EndsWithin /\ UNCHANGED db
      PROVE  SmbInv'
  <2>1. dir \in {Root} \cup Name /\ (FolderOf(r) = Root <=> dir = Root)
    <3> DEFINE q == <<dir, dir>>
    <3>1. q[1] = dir
      OBVIOUS
    <3> HIDE DEF q
    <3> QED BY <3>1, <1>0, <1>1, DirOfFacts
  <2>2. /\ p = <<dir, p[2]>> /\ p \in Path /\ p[1] = dir /\ p[2] \in Name
        /\ NoConflict(p, {r})
        /\ dir # Root => Top(dir) \in DOMAIN proj /\ proj[Top(dir)] \in DirNode
    BY <1>1, <2>1, AllocatedFacts
  <2>3. ParentOf(db, p) = {FolderOf(r)}
    BY <1>0, <1>1, <2>2, DirOfFacts
  <2>4. /\ MappedAt(db, p) \subseteq {r}
        /\ p \in DOMAIN proj => p = db.maps[r].path
    BY <2>2 DEF NoConflict
  <2>5. /\ db.maps[r].path \in DOMAIN proj
        /\ proj[db.maps[r].path] \in DirNode => p[1] = Root
    BY <1>1, <2>1, <2>2 DEF Applicable, InPlace
  <2>6. IsTree(proj')
    BY <1>0, <1>4, <2>2, <2>4, <2>5, TreeRenamed
  <2>7. TablesGood(Remapped(db, r, p))
    <3>1. CASE r \in FileRow
      BY <1>0, <1>1, <2>2, <2>3, <2>4, <3>1, RemappedFile
    <3>2. CASE r \in FolderRow
      <4>1. p = Top(p[2])
        BY <1>1, <2>1, <2>2, <3>2 DEF Top
      <4>2. TablesGood(Remapped(db, r, Top(p[2])))
        BY <1>0, <2>2, <2>4, <3>2, <4>1, RemappedFolder
      <4> QED BY <4>1, <4>2
    <3> QED BY <3>1, <3>2
  <2>8. CASE EndsWithin /\ UNCHANGED db
    BY <1>0, <2>6, <2>8, PassEnds
  <2>9. CASE /\ db' = Remapped(db, r, p)
             /\ pass' = [pass EXCEPT !.todo = @ \ {r},
                  !.stable = IF r \in FolderRow THEN @ \cup {r} ELSE @]
    <3> DEFINE todo == pass.todo \ {r}
               stable == IF r \in FolderRow THEN pass.stable \cup {r} ELSE pass.stable
    <3>1. Settles(todo, stable) /\ todo \subseteq pass.todo
      BY <2>9 DEF Settles
    <3> HIDE DEF todo, stable
    <3>2. /\ IsPass(pass') /\ pass'.todo = todo /\ pass'.at = pass.at /\ pass'.scan = pass.scan
      BY <1>0, <3>1, PassSettles
    <3>3. /\ db'.files = db.files /\ db'.folders = db.folders
          /\ DOMAIN db'.maps = DOMAIN db.maps
      BY <1>0, <2>2, <2>9, RemappedIs
    <3> QED BY <2>6, <2>7, <2>9, <3>1, <3>2, <3>3, PassStays DEF Rows
  <2> QED BY <1>4, <2>8, <2>9
<1> QED BY <1>2, <1>3, <1>4

LEMMA ApplyEntryStep ==
  ASSUME SmbInv, NEW r \in FileRow \cup FolderRow, ApplyEntry(r)
  PROVE  SmbInv'
<1>0. TablesGood(db) /\ IsTree(proj) /\ IsPass(pass) /\ At("apply") /\ r \in pass.todo
  BY DEF SmbInv, PassGood, ApplyEntry
<1>1. CASE Did(r) /\ UNCHANGED <<db, proj>>
  <2>1. IsPass(pass') /\ pass'.at = pass.at /\ pass'.scan = pass.scan /\ pass'.todo \subseteq pass.todo
    BY <1>0, <1>1, PassDid
  <2> QED BY <1>0, <1>1, <2>1, PassStays
<1>2. CASE Fails /\ UNCHANGED <<db, proj>>
  BY <1>0, <1>2, PassEnds
<1>3. CASE Applicable(r) /\ Apply(r)
  BY <1>0, <1>3, ApplyStep
<1> QED BY <1>1, <1>2, <1>3 DEF ApplyEntry

\* A file's entry is linked to another inode.
\* Other inodes in the mappings change nothing about where things are.
LEMMA NodesRevise ==
  ASSUME NEW d, TablesGood(d), NEW e \in Tables, e.files = d.files, e.folders = d.folders,
         DOMAIN e.maps = DOMAIN d.maps,
         \A s \in DOMAIN e.maps :
           /\ e.maps[s].path = d.maps[s].path
           /\ e.maps[s].node \in IF s \in FileRow THEN FileNode ELSE DirNode
  PROVE  TablesGood(e)
<1>1. RowsGood(d) /\ Placed(d)
  BY DEF TablesGood
<1>2. /\ \A s, t \in DOMAIN d.folders : d.folders[s] = d.folders[t] => s = t
      /\ \A s \in DOMAIN d.files : d.files[s].folder \in {Root} \cup DOMAIN d.folders
  BY <1>1 DEF RowsGood
<1>3. \A s \in DOMAIN d.files :
        s \in DOMAIN d.maps => ParentOf(d, d.maps[s].path) = {d.files[s].folder}
  BY <1>1 DEF Placed
<1>4. \A s \in DOMAIN e.files :
        /\ e.files[s].folder \in {Root} \cup DOMAIN e.folders
        /\ s \in DOMAIN d.maps => ParentOf(d, d.maps[s].path) = {e.files[s].folder}
  BY <1>2, <1>3
<1>5. \A s, t \in DOMAIN e.folders : e.folders[s] = e.folders[t] => s = t
  BY <1>2
<1> QED BY <1>4, <1>5, TablesRevise

LEMMA NodeSet ==
  ASSUME NEW d, TablesGood(d), NEW r \in DOMAIN d.maps \cap FileRow, NEW n \in FileNode, NEW e,
         e = [d EXCEPT !.maps[r].node = n]
  PROVE  /\ TablesGood(e) /\ e.files = d.files /\ e.folders = d.folders
         /\ DOMAIN e.maps = DOMAIN d.maps
         /\ \A s \in DOMAIN d.maps : e.maps[s].path = d.maps[s].path
<1> DEFINE v == [d.maps[r] EXCEPT !.node = n]
           M == [d.maps EXCEPT ![r] = v]
<1>1. e = [d EXCEPT !.maps = M]
  OBVIOUS
<1>2. d.maps[r] \in Mapping /\ d \in Tables /\ d.maps \in Partial(FileRow \cup FolderRow, Mapping)
  BY TablesFields DEF TablesGood
<1>3. v \in Mapping /\ v.path = d.maps[r].path /\ v.node = n
  BY <1>2 DEF Mapping
<1> HIDE DEF v
<1>4. /\ DOMAIN M = DOMAIN d.maps /\ M[r] = v
      /\ \A s \in DOMAIN d.maps \ {r} : M[s] = d.maps[s]
  OBVIOUS
<1>5. M \in Partial(FileRow \cup FolderRow, Mapping)
  <2>1. \A s \in DOMAIN d.maps : M[s] \in Mapping
    BY <1>2, <1>3, <1>4, PartialIs
  <2> QED BY <1>2, <1>4, <2>1, PartialMap
<1> HIDE DEF M
<1>6. e \in Tables /\ e.files = d.files /\ e.folders = d.folders /\ e.maps = M
  <2>1. d \in Tables
    BY <1>2
  <2> QED BY <1>1, <1>5, <2>1 DEF Tables
<1>7. /\ DOMAIN e.maps = DOMAIN d.maps
      /\ \A s \in DOMAIN d.maps :
           /\ e.maps[s].path = d.maps[s].path
           /\ e.maps[s].node \in IF s \in FileRow THEN FileNode ELSE DirNode
  BY <1>3, <1>4, <1>6, MappingFacts
<1>8. TablesGood(e)
  <2> DEFINE x == e
  <2>1. /\ x \in Tables /\ x.files = d.files /\ x.folders = d.folders
        /\ DOMAIN x.maps = DOMAIN d.maps
        /\ \A s \in DOMAIN x.maps :
             /\ x.maps[s].path = d.maps[s].path
             /\ x.maps[s].node \in IF s \in FileRow THEN FileNode ELSE DirNode
    BY <1>6, <1>7
  <2> HIDE DEF x
  <2>2. TablesGood(x)
    BY <2>1, NodesRevise
  <2> QED BY <2>2 DEF x
<1> QED BY <1>6, <1>7, <1>8

LEMMA TreeLinked ==
  ASSUME NEW f, IsTree(f), NEW p \in DOMAIN f, f[p] \notin DirNode, NEW n \in FileNode
  PROVE  IsTree([f EXCEPT ![p] = n])
<1> DEFINE g == [f EXCEPT ![p] = n]
<1>1. DOMAIN g = DOMAIN f /\ g[p] = n /\ \A q \in DOMAIN f \ {p} : g[q] = f[q]
  OBVIOUS
<1> HIDE DEF g
<1>2. SUFFICES ASSUME NEW q \in DOMAIN f
               PROVE  /\ q \in Path /\ g[q] \in FileNode \cup DirNode
                      /\ q[1] # Root => /\ g[q] \in FileNode
                                        /\ Top(q[1]) \in DOMAIN g /\ g[Top(q[1])] \in DirNode
  BY <1>1 DEF IsTree, g
<1> QED BY <1>1, EntryFacts

\* What applies to a file is a file, in the tables and in the projection.
LEMMA ApplicableFile ==
  ASSUME SmbInv, NEW r \in FileRow, At("apply"), Applicable(r)
  PROVE  /\ TablesGood(db) /\ IsTree(proj) /\ IsPass(pass) /\ r \in DOMAIN db.maps \cap FileRow
         /\ r \in DOMAIN db.files /\ db.files[r].blob \in FileNode \cup {NoData}
         /\ db.maps[r].path \in DOMAIN proj /\ proj[db.maps[r].path] \notin DirNode
         /\ db.maps[r].path \in Path
<1>1. /\ TablesGood(db) /\ IsTree(proj) /\ IsPass(pass) /\ Orphans = {} /\ r \in DOMAIN db.maps
      /\ db \in Tables
  BY DEF SmbInv, PassGood, TablesGood, Applicable
<1>2. r \notin FolderRow
  BY SmbSyncAssumption
<1>3. r \in DOMAIN db.files
  BY <1>1, <1>2, TablesFields DEF Orphans, Rows
<1>4. db.files[r] \in FileRecord
  BY <1>1, <1>3, TablesFields
<1>5. db.maps[r].path \in DOMAIN proj /\ proj[db.maps[r].path] \notin DirNode
  BY <1>2 DEF Applicable, InPlace
<1> QED BY <1>1, <1>3, <1>4, <1>5, MappingFacts DEF FileRecord

LEMMA RelinkStep ==
  ASSUME SmbInv, NEW r \in FileRow, Relink(r)
  PROVE  SmbInv'
<1> DEFINE p == db.maps[r].path
           n == db.files[r].blob
<1>0. At("apply") /\ r \in pass.todo /\ Applicable(r) /\ n # NoData
  BY DEF Relink
<1>1. /\ TablesGood(db) /\ IsTree(proj) /\ IsPass(pass) /\ r \in DOMAIN db.maps \cap FileRow
      /\ n \in FileNode /\ p \in DOMAIN proj /\ proj[p] \notin DirNode
  BY <1>0, ApplicableFile
<1>2. \/ /\ proj' = [proj EXCEPT ![p] = n]
         /\ db' = [db EXCEPT !.maps[r].node = n]
         /\ Did(r)
      \/ EndsWithin /\ proj' = Without(proj, {p}) /\ UNCHANGED db
  BY DEF Relink
<1> HIDE DEF p, n
<1>3. CASE EndsWithin /\ proj' = Without(proj, {p}) /\ UNCHANGED db
  <2>1. IsTree(proj')
    BY <1>1, <1>3, TreeWithoutFile
  <2> QED BY <1>1, <1>3, <2>1, PassEnds
<1>4. CASE /\ proj' = [proj EXCEPT ![p] = n]
           /\ db' = [db EXCEPT !.maps[r].node = n]
           /\ Did(r)
  <2>1. IsTree(proj')
    BY <1>1, <1>4, TreeLinked
  <2>2. /\ TablesGood(db') /\ db'.files = db.files /\ db'.folders = db.folders
        /\ DOMAIN db'.maps = DOMAIN db.maps
    BY <1>1, <1>4, NodeSet
  <2>3. IsPass(pass') /\ pass'.at = pass.at /\ pass'.scan = pass.scan /\ pass'.todo \subseteq pass.todo
    BY <1>1, <1>4, PassDid
  <2> QED BY <2>1, <2>2, <2>3, PassStays DEF Rows
<1> QED BY <1>2, <1>3, <1>4

LEMMA ApplyDuringSaveStep ==
  ASSUME SmbInv, NEW r \in FileRow, NEW n \in FileNode, ApplyDuringSave(r, n)
  PROVE  SmbInv'
<1>0. At("apply") /\ Applicable(r) /\ SmbWrite(db.maps[r].path, n)
      /\ db' = [db EXCEPT !.maps[r].node = n]
  BY DEF ApplyDuringSave
<1>1. /\ TablesGood(db) /\ IsTree(proj) /\ IsPass(pass) /\ r \in DOMAIN db.maps \cap FileRow
      /\ db.maps[r].path \in Path
  BY <1>0, ApplicableFile
<1>2. IsTree(proj')
  <2>1. SmbChange
    BY <1>0, <1>1 DEF SmbChange
  <2> QED BY <1>1, <2>1, ChangeTree
<1>3. /\ TablesGood(db') /\ db'.files = db.files /\ db'.folders = db.folders
      /\ DOMAIN db'.maps = DOMAIN db.maps
  BY <1>0, <1>1, NodeSet
<1>4. IsPass(pass') /\ pass'.at = pass.at /\ pass'.scan = pass.scan /\ pass'.todo \subseteq pass.todo
  <2> DEFINE todo == pass.todo \ {r}
  <2>1. Disturbs(todo) /\ todo \subseteq pass.todo
    BY DEF ApplyDuringSave, Disturbs
  <2> HIDE DEF todo
  <2> QED BY <1>1, <2>1, PassSaved
<1> QED BY <1>2, <1>3, <1>4, PassStays DEF Rows

-----------------------------------------------------------------------------
(* The scan.                                                                 *)

LEMMA ScannedGood ==
  ASSUME SmbInv, At("apply"), NEW scan, IsTree(scan), NEW calm, Scanned(scan, calm),
         UNCHANGED db, IsTree(proj')
  PROVE  SmbInv'
<1>0. TablesGood(db') /\ MappedFolders(db) \subseteq DOMAIN db.folders
  BY DEF SmbInv, PassGood, At, Synchronizing
<1>1. CASE pass' = Rest("failed", calm)
  BY <1>0, <1>1, RestIs, EarlyPass DEF Synchronizing
<1>2. CASE Within(scan)
  <2> DEFINE todo == Dirs(scan)
             stable == StableRows(db, scan)
  <2>1. pass' = [Rest("movefolders", calm) EXCEPT !.scan = scan, !.todo = todo, !.stable = stable]
    BY <1>2 DEF Scanned
  <2>2. todo \subseteq Dirs(scan)
    OBVIOUS
  <2> HIDE DEF todo, stable
  <2>3. pass' = [at |-> "movefolders", scan |-> scan, todo |-> todo, seen |-> {},
                 stable |-> stable, calm |-> calm]
    BY <2>1 DEF Rest
  <2>4. IsPass(pass') /\ pass'.at = "movefolders" /\ pass'.scan = scan /\ pass'.todo = todo
    BY <2>3 DEF IsPass
  <2> QED BY <1>0, <2>2, <2>4 DEF SmbInv, PassGood, At
<1> QED BY <1>1, <1>2 DEF Scanned

LEMMA SightedTree ==
  ASSUME NEW f, IsTree(f), NEW g, IsTree(g), NEW scan \in Scans(f, g)
  PROVE  IsTree(scan)
<1>1. Sighted(f, g, scan)
  BY DEF Scans
<1>2. SUFFICES ASSUME NEW p \in DOMAIN scan
               PROVE  /\ p \in Path /\ scan[p] \in FileNode \cup DirNode
                      /\ p[1] # Root => /\ scan[p] \in FileNode
                                        /\ Top(p[1]) \in DOMAIN scan /\ scan[Top(p[1])] \in DirNode
  BY DEF IsTree
<1>3. PICK h \in {f, g} : p \in DOMAIN h /\ scan[p] = h[p]
  BY <1>1 DEF Sighted
<1>4. /\ p \in Path /\ scan[p] \in FileNode \cup DirNode
      /\ p[1] # Root => scan[p] \in FileNode
  BY <1>3, EntryFacts
<1> QED BY <1>1, <1>4 DEF Sighted

LEMMA ScanSteps ==
  ASSUME SmbInv, Scan \/ ScanDuringChange
  PROVE  SmbInv'
<1>0. At("apply") /\ IsTree(proj) /\ UNCHANGED db
  BY DEF Scan, ScanDuringChange, SmbInv
<1>1. CASE Scan
  <2>1. Scanned(proj, pass.calm) /\ proj' = proj
    BY <1>1 DEF Scan
  <2> QED BY <1>0, <2>1, ScannedGood
<1>2. CASE ScanDuringChange
  <2>1. IsTree(proj')
    BY <1>0, <1>2, ChangeTree DEF ScanDuringChange
  <2>2. PICK scan \in Scans(proj, proj') : Scanned(scan, FALSE)
    BY <1>2 DEF ScanDuringChange
  <2>3. IsTree(scan)
    BY <1>0, <2>1, SightedTree
  <2> QED BY <1>0, <2>1, <2>2, <2>3, ScannedGood
<1> QED BY <1>1, <1>2

LEMMA CrashDuringPassStep ==
  ASSUME SmbInv, CrashDuringPass
  PROVE  SmbInv'
<1>1. TablesGood(db') /\ IsTree(proj') /\ EndsWithin
  BY DEF CrashDuringPass, EndsWithin, SmbInv
<1> QED BY <1>1, PassEnds

-----------------------------------------------------------------------------
(* Folders.                                                                  *)

\* Stages that work through the scan.
LEMMA PassReads ==
  ASSUME SmbInv, pass.at \in {"movefolders", "folders", "movefiles", "files"},
         IsTree(proj'), TablesGood(db'), IsPass(pass'),
         pass'.at = pass.at, pass'.scan = pass.scan, pass'.todo \subseteq pass.todo,
         MappedFolders(db') \subseteq DOMAIN db'.folders
  PROVE  SmbInv'
BY DEF SmbInv, PassGood, At

\* The data of some rows goes and the process ends.
LEMMA TornStep ==
  ASSUME SmbInv, NEW S, TornDeletion(S), UNCHANGED proj
  PROVE  SmbInv'
<1>1. PICK T \in SUBSET S : db' = DataLost(db, T) /\ EndsWithin
  BY DEF TornDeletion
<1>2. TablesGood(db')
  BY <1>1, DataLostGood DEF SmbInv
<1>3. IsTree(proj')
  BY DEF SmbInv
<1> QED BY <1>1, <1>2, <1>3, PassEnds

LEMMA FolderNameFacts ==
  ASSUME NEW d, NEW m \in Name, NEW own, NEW n \in FolderName(d, m, own)
  PROVE  n \in Name /\ \A s \in DOMAIN d.folders \ own : d.folders[s] # n
BY DEF FolderName

LEMMA FolderRenamed ==
  ASSUME NEW d, TablesGood(d), NEW r \in DOMAIN d.folders, NEW n \in Name,
         \A s \in DOMAIN d.folders \ {r} : d.folders[s] # n,
         NEW e, e = [d EXCEPT !.folders[r] = n]
  PROVE  /\ TablesGood(e) /\ e.files = d.files /\ e.maps = d.maps
         /\ DOMAIN e.folders = DOMAIN d.folders
<1> DEFINE D == [d.folders EXCEPT ![r] = n]
<1>1. e = [d EXCEPT !.folders = D]
  OBVIOUS
<1>2. d \in Tables /\ d.folders \in Partial(FolderRow, Name)
  BY TablesFields DEF TablesGood
<1>3. /\ DOMAIN D = DOMAIN d.folders /\ D[r] = n
      /\ \A s \in DOMAIN d.folders \ {r} : D[s] = d.folders[s]
  OBVIOUS
<1>4. D \in Partial(FolderRow, Name)
  <2>1. \A s \in DOMAIN d.folders : D[s] \in Name
    BY <1>2, <1>3, PartialIs
  <2> QED BY <1>2, <1>3, <2>1, PartialMap
<1> HIDE DEF D
<1>5. e \in Tables /\ e.files = d.files /\ e.folders = D /\ e.maps = d.maps
  <2>1. d \in Tables
    BY <1>2
  <2> QED BY <1>1, <1>4, <2>1 DEF Tables
<1>6. TablesGood(e)
  <2>1. RowsGood(d) /\ MapsGood(d) /\ Placed(d)
    BY DEF TablesGood
  <2>2. \A s \in DOMAIN e.files :
          /\ e.files[s].folder \in {Root} \cup DOMAIN e.folders
          /\ s \in DOMAIN d.maps => ParentOf(d, d.maps[s].path) = {e.files[s].folder}
    BY <1>3, <1>5, <2>1 DEF RowsGood, Placed
  <2>3. \A s, t \in DOMAIN e.folders : e.folders[s] = e.folders[t] => s = t
    BY <1>3, <1>5, <2>1 DEF RowsGood
  <2>4. /\ DOMAIN e.maps = DOMAIN d.maps
        /\ \A s \in DOMAIN e.maps :
             /\ e.maps[s].path = d.maps[s].path
             /\ e.maps[s].node \in IF s \in FileRow THEN FileNode ELSE DirNode
    BY <1>5, <2>1 DEF MapsGood
  <2>5. e \in Tables
    BY <1>5
  <2> QED BY <2>2, <2>3, <2>4, <2>5, TablesRevise
<1> QED BY <1>3, <1>5, <1>6

\* The directories of a scan are at the top.
LEMMA ScannedDir ==
  ASSUME SmbInv, NEW p \in Dirs(pass.scan)
  PROVE  p \in Path /\ p[1] = Root /\ p[2] \in Name /\ p = Top(p[2]) /\ pass.scan[p] \in DirNode
<1>1. IsTree(pass.scan) /\ p \in DOMAIN pass.scan /\ pass.scan[p] \in DirNode
  BY DEF Dirs, SmbInv, PassGood
<1> QED BY <1>1, EntryFacts DEF Top

LEMMA MoveFolderStep ==
  ASSUME SmbInv, NEW p \in Path, MoveFolder(p)
  PROVE  SmbInv'
<1>0. /\ TablesGood(db) /\ IsTree(proj) /\ UNCHANGED proj /\ IsPass(pass)
      /\ At("movefolders") /\ p \in Dirs(pass.scan)
      /\ MappedFolders(db) \subseteq DOMAIN db.folders
  BY DEF MoveFolder, SmbInv, PassGood, At, Synchronizing
<1>1. p[1] = Root /\ p[2] \in Name /\ p = Top(p[2])
  BY <1>0, ScannedDir
<1>2. CASE Fails /\ UNCHANGED db
  BY <1>0, <1>2, PassEnds
<1>3. CASE Did(p) /\ UNCHANGED db
  <2>1. IsPass(pass') /\ pass'.at = pass.at /\ pass'.scan = pass.scan /\ pass'.todo \subseteq pass.todo
    BY <1>0, <1>3, PassDid
  <2> QED BY <1>0, <1>3, <2>1, PassReads DEF At
<1>4. ASSUME NEW r \in MovedRows(FolderRow, p), NEW n \in FolderName(db, p[2], {r}),
             PathsUnique([Remapped(db, r, p) EXCEPT !.folders[r] = n]), Did(p),
             db' = [Remapped(db, r, p) EXCEPT !.folders[r] = n]
      PROVE  SmbInv'
  <2> DEFINE e == Remapped(db, r, p)
  <2>1. r \in DOMAIN db.maps \cap FolderRow /\ r \in DOMAIN db.folders
    BY <1>0 DEF MovedRows, Owners, MappedFolders
  <2>2. /\ e \in Tables /\ e.files = db.files /\ e.folders = db.folders
        /\ DOMAIN e.maps = DOMAIN db.maps
        /\ \A s \in DOMAIN db.maps :
             e.maps[s].path = IF s = r \/ InDir(db.maps[s].path, db.maps[r].path)
                              THEN Shifted(db.maps[s].path, db.maps[r].path, p)
                              ELSE db.maps[s].path
    BY <1>0, <2>1, RemappedIs
  <2> HIDE DEF e
  <2>3. db' = [e EXCEPT !.folders[r] = n]
    BY <1>4 DEF e
  <2>4. db'.maps = e.maps
    BY <2>2, <2>3 DEF Tables
  <2>5. MappedAt(db, p) \subseteq {r}
    <3> SUFFICES ASSUME NEW s \in MappedAt(db, p) PROVE s = r
      OBVIOUS
    <3>1. s \in DOMAIN db.maps /\ db.maps[s].path = p
      BY DEF MappedAt
    <3>2. db.maps[r].path[2] \in Name /\ Root \notin Name
      BY <1>0, <2>1, MappingFacts, SmbSyncAssumption
    <3>3. ~InDir(p, db.maps[r].path)
      BY <1>1, <3>2 DEF InDir
    <3>4. s # r => e.maps[s].path = p
      BY <2>2, <3>1, <3>3
    <3>5. e.maps[r].path = p
      BY <2>1, <2>2 DEF Shifted
    <3>6. PathsUnique(db')
      BY <1>4
    <3> QED BY <2>1, <2>2, <2>4, <3>1, <3>4, <3>5, <3>6 DEF PathsUnique
  <2>6. TablesGood(e)
    BY <1>0, <1>1, <2>1, <2>5, RemappedFolder DEF e
  <2>7. n \in Name /\ \A s \in DOMAIN e.folders \ {r} : e.folders[s] # n
    BY <1>1, <2>2, FolderNameFacts
  <2>8. TablesGood(db') /\ DOMAIN db'.folders = DOMAIN e.folders
    BY <2>1, <2>2, <2>3, <2>6, <2>7, FolderRenamed
  <2>9. MappedFolders(db') \subseteq DOMAIN db'.folders
    BY <1>0, <2>2, <2>4, <2>8 DEF MappedFolders
  <2>10. IsPass(pass') /\ pass'.at = pass.at /\ pass'.scan = pass.scan /\ pass'.todo \subseteq pass.todo
    BY <1>0, <1>4, PassDid
  <2> QED BY <1>0, <2>8, <2>9, <2>10, PassReads DEF At
<1> QED BY <1>2, <1>3, <1>4 DEF MoveFolder

LEMMA ClearedGood ==
  ASSUME NEW p, TablesGood(db), MappedFolders(db) \subseteq DOMAIN db.folders, NEW d,
         d = Cleared(db, MappedAt(db, p))
  PROVE  /\ TablesGood(d) /\ MappedAt(d, p) = {}
         /\ MappedFolders(d) \subseteq DOMAIN d.folders
<1> DEFINE here == MappedAt(db, p)
<1>1. CASE here = {}
  BY <1>1 DEF Cleared
<1>2. CASE here # {}
  <2> DEFINE r == CHOOSE x \in here : TRUE
  <2>1. r \in here
    BY <1>2
  <2>2. d = IF r \in FolderRow THEN FolderDeleted(db, r) ELSE FileDeleted(db, r)
    BY <1>2 DEF Cleared
  <2> HIDE DEF r
  <2>3. r \in DOMAIN db.maps /\ db.maps[r].path = p
    BY <2>1 DEF MappedAt
  <2>4. \A s \in DOMAIN db.maps : db.maps[s].path = p => s = r
    BY <2>3 DEF TablesGood, MapsGood, PathsUnique
  <2>5. CASE r \in FolderRow
    <3>1. d = FolderDeleted(db, r)
      BY <2>2, <2>5
    <3>2. /\ TablesGood(d)
          /\ d.folders = Without(db.folders, {r})
          /\ DOMAIN d.maps = {s \in DOMAIN db.maps : db.maps[s].path # p /\ ~InDir(db.maps[s].path, p)}
          /\ \A s \in DOMAIN d.maps : d.maps[s] = db.maps[s]
          /\ MappedFolders(d) = MappedFolders(db) \ {r}
      BY <2>3, <2>5, <3>1, FolderDeletedGood
    <3>3. DOMAIN d.folders = DOMAIN db.folders \ {r}
      BY <3>2, WithoutIs
    <3> QED BY <3>2, <3>3 DEF MappedAt
  <2>6. CASE r \notin FolderRow
    <3>1. d = FileDeleted(db, r) /\ r \in FileRow
      BY <2>2, <2>3, <2>6, MappingFacts
    <3>2. /\ TablesGood(d) /\ d.folders = db.folders
          /\ d.maps = Without(db.maps, {r})
      BY <3>1, FileDeletedGood
    <3>3. DOMAIN d.maps = DOMAIN db.maps \ {r} /\ \A s \in DOMAIN d.maps : d.maps[s] = db.maps[s]
      <4>1. d.maps = Without(db.maps, {r})
        BY <3>2
      <4> QED BY <4>1 DEF Without, Restrict
    <3>4. MappedAt(d, p) = {}
      BY <2>4, <3>3 DEF MappedAt
    <3>5. MappedFolders(d) \subseteq DOMAIN d.folders
      BY <3>2, <3>3 DEF MappedFolders
    <3> QED BY <3>2, <3>4, <3>5
  <2> QED BY <2>5, <2>6
<1> QED BY <1>1, <1>2

\* A folder's row and mapping are made together.
FolderMade(d, e, r, n, p, node) ==
  e = [d EXCEPT !.folders = With(@, r, n), !.maps = With(@, r, [path |-> p, node |-> node])]

LEMMA FolderCreated ==
  ASSUME NEW d, TablesGood(d), NEW r \in FolderRow \ (DOMAIN d.folders \cup DOMAIN d.maps),
         NEW n \in Name, \A s \in DOMAIN d.folders : d.folders[s] # n,
         NEW p \in Path, p[1] = Root, MappedAt(d, p) = {}, NEW node \in DirNode,
         NEW e, FolderMade(d, e, r, n, p, node)
  PROVE  /\ TablesGood(e) /\ e.files = d.files
         /\ DOMAIN e.folders = DOMAIN d.folders \cup {r} /\ DOMAIN e.maps = DOMAIN d.maps \cup {r}
<1> DEFINE v == [path |-> p, node |-> node]
           D == With(d.folders, r, n)
           M == With(d.maps, r, v)
<1>1. e = [d EXCEPT !.folders = D, !.maps = M] /\ v \in Mapping
  BY DEF Mapping, FolderMade
<1>2. /\ d \in Tables /\ d.folders \in Partial(FolderRow, Name)
      /\ d.maps \in Partial(FileRow \cup FolderRow, Mapping)
      /\ DOMAIN d.files \subseteq FileRow
  BY TablesFields DEF TablesGood
<1>3. M = With(d.maps, r, [path |-> p, node |-> node])
  OBVIOUS
<1> HIDE DEF v
<1>4. D \in Partial(FolderRow, Name) /\ M \in Partial(FileRow \cup FolderRow, Mapping)
  BY <1>1, <1>2, PartialWith
<1>5. /\ DOMAIN D = DOMAIN d.folders \cup {r} /\ D[r] = n
      /\ \A s \in DOMAIN d.folders : D[s] = d.folders[s]
      /\ DOMAIN M = DOMAIN d.maps \cup {r}
  BY DEF With
<1> HIDE DEF D, M
<1>6. e \in Tables /\ e.files = d.files /\ e.folders = D /\ e.maps = M
  <2>1. d \in Tables
    BY <1>2
  <2> QED BY <1>1, <1>4, <2>1 DEF Tables
<1>7. RowsGood(e)
  <2>1. RowsGood(d)
    BY DEF TablesGood
  <2> QED BY <1>5, <1>6, <2>1 DEF RowsGood
<1>8. r \notin FileRow /\ r \notin DOMAIN e.files
  BY <1>2, <1>6, SmbSyncAssumption
<1>9. ParentOf(d, p) = {Root}
  BY DEF ParentOf
<1>10. e.maps = With(d.maps, r, [path |-> p, node |-> node])
  BY <1>3, <1>6
<1>11. e \in Tables /\ e.files = d.files
  BY <1>6
<1>12. TablesGood(e)
  BY <1>7, <1>8, <1>9, <1>10, <1>11, TablesMap
<1> QED BY <1>5, <1>6, <1>12

LEMMA CreateFolderStep ==
  ASSUME SmbInv, At("folders"), NEW p \in Dirs(pass.scan), NEW d,
         d = Cleared(db, MappedAt(db, p)), CreateFolder(d, p)
  PROVE  SmbInv'
<1>0. /\ TablesGood(db) /\ IsTree(proj) /\ IsPass(pass)
      /\ MappedFolders(db) \subseteq DOMAIN db.folders
  BY DEF SmbInv, PassGood, At, Synchronizing
<1>1. /\ p \in Path /\ p[1] = Root /\ p[2] \in Name /\ pass.scan[p] \in DirNode
  BY ScannedDir
<1>2. TablesGood(d) /\ MappedAt(d, p) = {} /\ MappedFolders(d) \subseteq DOMAIN d.folders
  BY <1>0, ClearedGood
<1>3. ASSUME db' = d, Did(p),
             proj' = Without(proj, IF p \in DOMAIN proj THEN Under(proj, p) ELSE {})
      PROVE  SmbInv'
  <2>1. IsTree(proj')
    <3>1. CASE p \in DOMAIN proj
      BY <1>0, <1>3, <3>1, TreeWithoutUnder
    <3>2. CASE p \notin DOMAIN proj
      <4>1. proj' = Without(proj, {})
        BY <1>3, <3>2
      <4> QED BY <1>0, <4>1, TreeWithout
    <3> QED BY <3>1, <3>2
  <2>2. IsPass(pass') /\ pass'.at = pass.at /\ pass'.scan = pass.scan /\ pass'.todo \subseteq pass.todo
    BY <1>0, <1>3, PassDid
  <2> QED BY <1>2, <1>3, <2>1, <2>2, PassReads DEF At
<1>4. ASSUME NEW r \in FolderRow \ (DOMAIN d.folders \cup DOMAIN d.maps),
             NEW n \in FolderName(d, p[2], {}),
             db' = [d EXCEPT !.folders = With(@, r, n),
                             !.maps = With(@, r, [path |-> p, node |-> pass.scan[p]])],
             Saw(p, r), UNCHANGED proj
      PROVE  SmbInv'
  <2>1. n \in Name /\ \A s \in DOMAIN d.folders : d.folders[s] # n
    <3>1. n \in Name /\ \A s \in DOMAIN d.folders \ {} : d.folders[s] # n
      BY <1>1, FolderNameFacts
    <3> QED BY <3>1
  <2>2. /\ TablesGood(db') /\ DOMAIN db'.folders = DOMAIN d.folders \cup {r}
        /\ DOMAIN db'.maps = DOMAIN d.maps \cup {r}
    <3> DEFINE node == pass.scan[p]
    <3>1. node \in DirNode /\ FolderMade(d, db', r, n, p, node)
      BY <1>1, <1>4 DEF FolderMade
    <3> HIDE DEF node
    <3> QED BY <1>1, <1>2, <2>1, <3>1, FolderCreated
  <2>3. MappedFolders(db') \subseteq DOMAIN db'.folders
    BY <1>2, <2>2 DEF MappedFolders
  <2>4. IsPass(pass') /\ pass'.at = pass.at /\ pass'.scan = pass.scan /\ pass'.todo \subseteq pass.todo
    BY <1>0, <1>4, PassSaw
  <2>5. IsTree(proj')
    BY <1>0, <1>4
  <2> QED BY <2>2, <2>3, <2>4, <2>5, PassReads DEF At
<1> QED BY <1>3, <1>4 DEF CreateFolder

LEMMA EnterFolderStep ==
  ASSUME SmbInv, NEW p \in Path, EnterFolder(p)
  PROVE  SmbInv'
<1> DEFINE here == MappedAt(db, p)
           same == {r \in here \cap FolderRow : db.maps[r].node = pass.scan[p]}
<1>0. /\ TablesGood(db) /\ IsTree(proj) /\ IsPass(pass)
      /\ At("folders") /\ p \in Dirs(pass.scan)
      /\ MappedFolders(db) \subseteq DOMAIN db.folders
  BY DEF EnterFolder, SmbInv, PassGood, At, Synchronizing
<1>1. p[2] \in Name
  BY <1>0, ScannedDir
<1>2. ASSUME NEW r \in same, NEW n \in FolderName(db, p[2], {r}),
             db' = [db EXCEPT !.folders[r] = n], Saw(p, r), UNCHANGED proj
      PROVE  SmbInv'
  <2>1. r \in DOMAIN db.folders
    BY <1>0 DEF MappedAt, MappedFolders
  <2>2. n \in Name /\ \A s \in DOMAIN db.folders \ {r} : db.folders[s] # n
    BY <1>1, FolderNameFacts
  <2>3. TablesGood(db') /\ db'.maps = db.maps /\ DOMAIN db'.folders = DOMAIN db.folders
    BY <1>0, <1>2, <2>1, <2>2, FolderRenamed
  <2>4. MappedFolders(db') \subseteq DOMAIN db'.folders
    BY <1>0, <2>3 DEF MappedFolders
  <2>5. IsPass(pass') /\ pass'.at = pass.at /\ pass'.scan = pass.scan /\ pass'.todo \subseteq pass.todo
    BY <1>0, <1>2, PassSaw
  <2>6. IsTree(proj')
    BY <1>0, <1>2
  <2> QED BY <1>0, <2>3, <2>4, <2>5, <2>6, PassReads DEF At
<1>3. CASE CreateFolder(Cleared(db, here), p)
  BY <1>0, <1>3, CreateFolderStep
<1>4. CASE TornDeletion(DataOf(db, here)) /\ UNCHANGED proj
  BY <1>4, TornStep
<1> QED BY <1>2, <1>3, <1>4 DEF EnterFolder

-----------------------------------------------------------------------------
(* From one stage to the next.                                               *)

LEMMA BeginFoldersStep ==
  ASSUME SmbInv, BeginFolders
  PROVE  SmbInv'
<1>1. /\ TablesGood(db) /\ IsTree(proj) /\ IsPass(pass) /\ UNCHANGED <<db, proj>>
      /\ MappedFolders(db) \subseteq DOMAIN db.folders /\ IsTree(pass.scan)
      /\ Goes("folders", Dirs(pass.scan))
  BY DEF BeginFolders, SmbInv, PassGood, At, Synchronizing
<1>2. IsPass(pass') /\ pass'.at = "folders" /\ pass'.todo = Dirs(pass.scan) /\ pass'.scan = pass.scan
  BY <1>1, PassGoes
<1> QED BY <1>1, <1>2 DEF SmbInv, PassGood, At

LEMMA BeginMovesStep ==
  ASSUME SmbInv, BeginMoves
  PROVE  SmbInv'
<1> DEFINE todo == Leaves(pass.scan)
           stable == StableRows(db, pass.scan)
<1>1. /\ TablesGood(db) /\ IsTree(proj) /\ IsPass(pass) /\ UNCHANGED <<db, proj>>
      /\ MappedFolders(db) \subseteq DOMAIN db.folders /\ IsTree(pass.scan)
      /\ Moves("movefiles", todo, stable) /\ todo = Leaves(pass.scan)
  BY DEF BeginMoves, Moves, SmbInv, PassGood, At, Synchronizing
<1> HIDE DEF todo, stable
<1>2. IsPass(pass') /\ pass'.at = "movefiles" /\ pass'.todo = todo /\ pass'.scan = pass.scan
  BY <1>1, PassMoves
<1> QED BY <1>1, <1>2 DEF SmbInv, PassGood, At

LEMMA BeginFilesStep ==
  ASSUME SmbInv, BeginFiles
  PROVE  SmbInv'
<1>1. /\ TablesGood(db) /\ IsTree(proj) /\ IsPass(pass) /\ UNCHANGED <<db, proj>>
      /\ MappedFolders(db) \subseteq DOMAIN db.folders /\ IsTree(pass.scan)
      /\ Goes("files", Leaves(pass.scan))
  BY DEF BeginFiles, SmbInv, PassGood, At, Synchronizing
<1>2. IsPass(pass') /\ pass'.at = "files" /\ pass'.todo = Leaves(pass.scan) /\ pass'.scan = pass.scan
  BY <1>1, PassGoes
<1> QED BY <1>1, <1>2 DEF SmbInv, PassGood, At

LEMMA BeginDeletionsStep ==
  ASSUME SmbInv, BeginDeletions
  PROVE  SmbInv'
<1> DEFINE todo == MappedFiles(db) \ pass.seen
<1>1. /\ TablesGood(db) /\ IsTree(proj) /\ IsPass(pass) /\ UNCHANGED <<db, proj>>
      /\ MappedFolders(db) \subseteq DOMAIN db.folders /\ IsTree(pass.scan)
      /\ Goes("deletefiles", todo)
  BY DEF BeginDeletions, SmbInv, PassGood, At, Synchronizing
<1> HIDE DEF todo
<1>2. IsPass(pass') /\ pass'.at = "deletefiles" /\ pass'.scan = pass.scan
  BY <1>1, PassGoes
<1> QED BY <1>1, <1>2 DEF SmbInv, PassGood, At

LEMMA BeginFolderDeletionsStep ==
  ASSUME SmbInv, BeginFolderDeletions
  PROVE  SmbInv'
<1> DEFINE todo == MappedFolders(db) \ pass.seen
<1>1. /\ TablesGood(db) /\ IsTree(proj) /\ IsPass(pass) /\ UNCHANGED <<db, proj>>
      /\ MappedFolders(db) \subseteq DOMAIN db.folders /\ IsTree(pass.scan)
      /\ Goes("deletefolders", todo) /\ todo \subseteq MappedFolders(db)
  BY DEF BeginFolderDeletions, SmbInv, PassGood, At, Synchronizing
<1> HIDE DEF todo
<1>2. IsPass(pass') /\ pass'.at = "deletefolders" /\ pass'.todo = todo /\ pass'.scan = pass.scan
  BY <1>1, PassGoes
<1> QED BY <1>1, <1>2 DEF SmbInv, PassGood, At

LEMMA BeginProjectStep ==
  ASSUME SmbInv, BeginProject
  PROVE  SmbInv'
<1> DEFINE todo == Rows(db) \ DOMAIN db.maps
<1>1. /\ TablesGood(db) /\ IsTree(proj) /\ IsPass(pass) /\ UNCHANGED <<db, proj>>
      /\ MappedFolders(db) \subseteq DOMAIN db.folders /\ IsTree(pass.scan)
      /\ Goes("project", todo) /\ todo = Rows(db) \ DOMAIN db.maps
  BY DEF BeginProject, SmbInv, PassGood, At, Synchronizing
<1> HIDE DEF todo
<1>2. IsPass(pass') /\ pass'.at = "project" /\ pass'.todo = todo /\ pass'.scan = pass.scan
  BY <1>1, PassGoes
<1> QED BY <1>1, <1>2 DEF SmbInv, PassGood, At

LEMMA EndPassStep ==
  ASSUME SmbInv, EndPass
  PROVE  SmbInv'
<1> DEFINE calm == pass.calm
<1>1. TablesGood(db') /\ IsTree(proj') /\ pass' = Rest("done", calm)
  BY DEF EndPass, SmbInv
<1> HIDE DEF calm
<1> QED BY <1>1, RestIs, EarlyPass DEF Synchronizing

-----------------------------------------------------------------------------
(* Files.                                                                    *)

LEMMA RenamingIs ==
  ASSUME NEW d, TablesGood(d), NEW r \in DOMAIN d.maps \cap DOMAIN d.files, NEW p \in Path,
         NEW parent \in {Root} \cup FolderRow, NEW e, e = Renaming(d, r, p, parent)
  PROVE  /\ e \in Tables /\ e.folders = d.folders
         /\ DOMAIN e.files = DOMAIN d.files /\ e.files[r].folder = parent
         /\ e.files[r].blob = d.files[r].blob
         /\ \A s \in DOMAIN d.files \ {r} : e.files[s] = d.files[s]
         /\ DOMAIN e.maps = DOMAIN d.maps
         /\ \A s \in DOMAIN d.maps :
              /\ e.maps[s].node = d.maps[s].node
              /\ e.maps[s].path = IF s = r THEN p ELSE d.maps[s].path
<1> DEFINE u == [d.files[r] EXCEPT !.folder = parent, !.name = p[2]]
           v == [d.maps[r] EXCEPT !.path = p]
           F == [d.files EXCEPT ![r] = u]
           M == [d.maps EXCEPT ![r] = v]
<1>1. e = [d EXCEPT !.files = F, !.maps = M]
  BY DEF Renaming
<1>2. /\ d \in Tables /\ d.files \in Partial(FileRow, FileRecord)
      /\ d.maps \in Partial(FileRow \cup FolderRow, Mapping)
      /\ d.files[r] \in FileRecord /\ d.maps[r] \in Mapping /\ p[2] \in Name
  BY TablesFields DEF TablesGood, Path
<1>3. u \in FileRecord /\ u.folder = parent /\ u.blob = d.files[r].blob
  BY <1>2 DEF FileRecord
<1>4. v \in Mapping /\ v.path = p /\ v.node = d.maps[r].node
  BY <1>2 DEF Mapping
<1> HIDE DEF u, v
<1>5. /\ DOMAIN F = DOMAIN d.files /\ F[r] = u /\ \A s \in DOMAIN d.files \ {r} : F[s] = d.files[s]
      /\ DOMAIN M = DOMAIN d.maps /\ M[r] = v /\ \A s \in DOMAIN d.maps \ {r} : M[s] = d.maps[s]
  OBVIOUS
<1>6. F \in Partial(FileRow, FileRecord)
  <2>1. \A s \in DOMAIN d.files : F[s] \in FileRecord
    BY <1>2, <1>3, <1>5, PartialIs
  <2> QED BY <1>2, <1>5, <2>1, PartialMap
<1>7. M \in Partial(FileRow \cup FolderRow, Mapping)
  <2>1. \A s \in DOMAIN d.maps : M[s] \in Mapping
    BY <1>2, <1>4, <1>5, PartialIs
  <2> QED BY <1>2, <1>5, <2>1, PartialMap
<1> HIDE DEF F, M
<1>8. e \in Tables /\ e.files = F /\ e.folders = d.folders /\ e.maps = M
  <2>1. d \in Tables
    BY <1>2
  <2> QED BY <1>1, <1>6, <1>7, <2>1 DEF Tables
<1> QED BY <1>3, <1>4, <1>5, <1>8

LEMMA RenamingGood ==
  ASSUME NEW d, TablesGood(d), NEW r \in DOMAIN d.maps \cap DOMAIN d.files, NEW p \in Path,
         NEW parent, ParentOf(d, p) = {parent}, MappedFolders(d) \subseteq DOMAIN d.folders,
         MappedAt(d, p) \subseteq {r}, NEW e, e = Renaming(d, r, p, parent)
  PROVE  /\ TablesGood(e) /\ e.folders = d.folders
         /\ DOMAIN e.files = DOMAIN d.files /\ DOMAIN e.maps = DOMAIN d.maps
<1>1. parent \in {Root} \cup DOMAIN d.folders /\ parent \in {Root} \cup FolderRow
  BY OneParent DEF MappedFolders
<1>2. /\ e \in Tables /\ e.folders = d.folders
      /\ DOMAIN e.files = DOMAIN d.files /\ e.files[r].folder = parent
      /\ \A s \in DOMAIN d.files \ {r} : e.files[s] = d.files[s]
      /\ DOMAIN e.maps = DOMAIN d.maps
      /\ \A s \in DOMAIN d.maps : e.maps[s].node = d.maps[s].node
      /\ \A s \in DOMAIN d.maps : e.maps[s].path = IF s = r THEN p ELSE d.maps[s].path
  BY <1>1, RenamingIs
<1>3. RowsGood(e)
  <2>1. RowsGood(d)
    BY DEF TablesGood
  <2> QED BY <1>1, <1>2, <2>1 DEF RowsGood
<1>4. r \in DOMAIN d.maps \cap FileRow
  BY TablesFields DEF TablesGood
<1>5. TablesGood(e)
  <2>1. ParentOf(d, p) # {} /\ (r \in DOMAIN e.files => ParentOf(d, p) = {e.files[r].folder})
    BY <1>2
  <2>2. \A s \in DOMAIN e.files \ {r} : s \in DOMAIN d.files /\ e.files[s] = d.files[s]
    BY <1>2
  <2> QED BY <1>2, <1>3, <1>4, <2>1, <2>2, TablesMoveFile
<1> QED BY <1>2, <1>5

LEMMA MoveFileStep ==
  ASSUME SmbInv, NEW p \in Path, MoveFile(p)
  PROVE  SmbInv'
<1>0. /\ TablesGood(db) /\ IsTree(proj) /\ UNCHANGED proj /\ IsPass(pass) /\ At("movefiles")
      /\ MappedFolders(db) \subseteq DOMAIN db.folders
  BY DEF MoveFile, SmbInv, PassGood, At, Synchronizing
<1>1. CASE Did(p) /\ UNCHANGED db
  <2>1. IsPass(pass') /\ pass'.at = pass.at /\ pass'.scan = pass.scan /\ pass'.todo \subseteq pass.todo
    BY <1>0, <1>1, PassDid
  <2> QED BY <1>0, <1>1, <2>1, PassReads DEF At
<1>2. CASE Fails /\ UNCHANGED db
  BY <1>0, <1>2, PassEnds
<1>3. ASSUME NEW r \in MovedRows(FileRow, p), r \in DOMAIN db.files,
             NEW parent \in ParentOf(db, p), PathsUnique(Renaming(db, r, p, parent)), Did(p),
             db' = Renaming(db, r, p, parent)
      PROVE  SmbInv'
  <2>1. r \in DOMAIN db.maps \cap DOMAIN db.files
    BY <1>3 DEF MovedRows, Owners
  <2>2. ParentOf(db, p) = {parent} /\ parent \in {Root} \cup FolderRow
    BY <1>0, OneParent
  <2>3. /\ DOMAIN db'.maps = DOMAIN db.maps
        /\ \A s \in DOMAIN db.maps : db'.maps[s].path = IF s = r THEN p ELSE db.maps[s].path
    BY <1>0, <1>3, <2>1, <2>2, RenamingIs
  <2>4. PathsUnique(db')
    BY <1>3
  <2>5. MappedAt(db, p) \subseteq {r}
    BY <2>1, <2>3, <2>4 DEF MappedAt, PathsUnique
  <2>6. /\ TablesGood(db') /\ db'.folders = db.folders /\ DOMAIN db'.maps = DOMAIN db.maps
    BY <1>0, <1>3, <2>1, <2>2, <2>5, RenamingGood
  <2>7. MappedFolders(db') \subseteq DOMAIN db'.folders
    BY <1>0, <2>6 DEF MappedFolders
  <2>8. IsPass(pass') /\ pass'.at = pass.at /\ pass'.scan = pass.scan /\ pass'.todo \subseteq pass.todo
    BY <1>0, <1>3, PassDid
  <2> QED BY <1>0, <2>6, <2>7, <2>8, PassReads DEF At
<1> QED BY <1>1, <1>2, <1>3 DEF MoveFile

\* The leaves of a scan.
LEMMA ScannedLeaf ==
  ASSUME SmbInv, NEW p \in Leaves(pass.scan)
  PROVE  p \in Path /\ p[2] \in Name /\ pass.scan[p] \in FileNode
<1>1. IsTree(pass.scan) /\ p \in DOMAIN pass.scan /\ pass.scan[p] \in FileNode
  BY DEF Leaves, SmbInv, PassGood
<1> QED BY <1>1, EntryFacts

\* The entry of a file can go, or another one take its place.
LEMMA EntryChanges ==
  ASSUME IsTree(proj), NEW p \in Path, p \in DOMAIN proj => FileAt(p)
  PROVE  /\ IsTree(Without(proj, {p}))
         /\ \A n \in FileNode : Vacant(p) \/ p \in DOMAIN proj => IsTree(With(proj, p, n))
<1>1. p \in DOMAIN proj => proj[p] \notin DirNode
  BY SmbSyncAssumption DEF FileAt
<1>2. ASSUME NEW n \in FileNode, Vacant(p) \/ p \in DOMAIN proj
      PROVE  IsTree(With(proj, p, n))
  <2>1. p[1] # Root => Top(p[1]) \in DOMAIN proj /\ proj[Top(p[1])] \in DirNode
    BY <1>2, EntryFacts DEF Vacant
  <2> QED BY <1>1, <2>1, TreeWith
<1> QED BY <1>1, <1>2, TreeWithoutFile

\* A file's row and mapping are made together.
FileMade(d, e, r, row, p, node) ==
  e = [d EXCEPT !.files = With(@, r, row), !.maps = With(@, r, [path |-> p, node |-> node])]

LEMMA FileCreated ==
  ASSUME NEW d, TablesGood(d), NEW r \in FileRow \ (DOMAIN d.files \cup DOMAIN d.maps),
         MappedFolders(d) \subseteq DOMAIN d.folders,
         NEW row \in FileRecord, NEW p \in Path, ParentOf(d, p) = {row.folder},
         MappedAt(d, p) = {}, NEW node \in FileNode, NEW e, FileMade(d, e, r, row, p, node)
  PROVE  /\ TablesGood(e) /\ e.folders = d.folders
         /\ DOMAIN e.files = DOMAIN d.files \cup {r} /\ DOMAIN e.maps = DOMAIN d.maps \cup {r}
         /\ e.files[r] = row /\ \A s \in DOMAIN d.files : e.files[s] = d.files[s]
         /\ e.maps[r].path = p /\ e.maps[r].node = node
         /\ \A s \in DOMAIN d.maps : e.maps[s] = d.maps[s]
<1> DEFINE v == [path |-> p, node |-> node]
           F == With(d.files, r, row)
           M == With(d.maps, r, v)
<1>1. e = [d EXCEPT !.files = F, !.maps = M] /\ v \in Mapping /\ v.path = p /\ v.node = node
  BY DEF Mapping, FileMade
<1>2. /\ d \in Tables /\ d.files \in Partial(FileRow, FileRecord)
      /\ d.maps \in Partial(FileRow \cup FolderRow, Mapping)
  BY TablesFields DEF TablesGood
<1>3. M = With(d.maps, r, [path |-> p, node |-> node])
  OBVIOUS
<1> HIDE DEF v
<1>4. F \in Partial(FileRow, FileRecord) /\ M \in Partial(FileRow \cup FolderRow, Mapping)
  BY <1>1, <1>2, PartialWith
<1>5. /\ DOMAIN F = DOMAIN d.files \cup {r} /\ F[r] = row
      /\ \A s \in DOMAIN d.files : F[s] = d.files[s]
      /\ DOMAIN M = DOMAIN d.maps \cup {r} /\ M[r] = v
      /\ \A s \in DOMAIN d.maps : M[s] = d.maps[s]
  BY DEF With
<1> HIDE DEF F, M
<1>6. e \in Tables /\ e.files = F /\ e.folders = d.folders /\ e.maps = M
  <2>1. d \in Tables
    BY <1>2
  <2> QED BY <1>1, <1>4, <2>1 DEF Tables
<1>7. row.folder \in {Root} \cup DOMAIN d.folders
  BY OneParent DEF MappedFolders
<1>8. RowsGood(e)
  <2>1. RowsGood(d)
    BY DEF TablesGood
  <2> QED BY <1>5, <1>6, <1>7, <2>1 DEF RowsGood
<1>9. /\ e \in Tables /\ r \notin FolderRow
      /\ e.maps = With(d.maps, r, [path |-> p, node |-> node])
      /\ r \in DOMAIN e.files => ParentOf(d, p) = {e.files[r].folder}
      /\ \A s \in DOMAIN e.files \cap DOMAIN d.maps : s \in DOMAIN d.files /\ e.files[s] = d.files[s]
  BY <1>3, <1>5, <1>6, SmbSyncAssumption
<1>10. TablesGood(e)
  BY <1>8, <1>9, TablesMap
<1> QED BY <1>1, <1>5, <1>6, <1>10

LEMMA ImportStep ==
  ASSUME SmbInv, At("files"), NEW p \in Leaves(pass.scan), MappedAt(db, p) = {}, Import(db, p)
  PROVE  SmbInv'
<1>0. /\ TablesGood(db) /\ IsTree(proj) /\ IsPass(pass)
      /\ MappedFolders(db) \subseteq DOMAIN db.folders
  BY DEF SmbInv, PassGood, At, Synchronizing
<1>1. p \in Path /\ p[2] \in Name /\ pass.scan[p] \in FileNode
  BY ScannedLeaf
<1>2. CASE Did(p) /\ db' = db /\ IsTree(proj')
  <2>1. IsPass(pass') /\ pass'.at = pass.at /\ pass'.scan = pass.scan /\ pass'.todo \subseteq pass.todo
    BY <1>0, <1>2, PassDid
  <2> QED BY <1>0, <1>2, <2>1, PassReads DEF At
<1>3. CASE Fails /\ db' = db /\ UNCHANGED proj
  BY <1>0, <1>3, PassEnds
<1>4. CASE (p \in DOMAIN proj => FileAt(p)) /\ proj' = Without(proj, {p}) /\ db' = db /\ Did(p)
  BY <1>0, <1>1, <1>2, <1>4, EntryChanges
<1>5. ASSUME FileAt(p), NEW r \in FileRow \ (DOMAIN db.files \cup DOMAIN db.maps),
             NEW parent \in ParentOf(db, p),
             db' = [db EXCEPT
               !.files = With(@, r, [folder |-> parent, name |-> p[2], blob |-> proj[p]]),
               !.maps = With(@, r, [path |-> p, node |-> pass.scan[p]])],
             Saw(p, r), UNCHANGED proj
      PROVE  SmbInv'
  <2> DEFINE row == [folder |-> parent, name |-> p[2], blob |-> proj[p]]
             node == pass.scan[p]
  <2>1. ParentOf(db, p) = {parent} /\ parent \in {Root} \cup FolderRow
    BY <1>0, OneParent
  <2>2. row \in FileRecord /\ row.folder = parent /\ node \in FileNode
    BY <1>1, <1>5, <2>1 DEF FileRecord, FileAt
  <2>3. FileMade(db, db', r, row, p, node)
    BY <1>5 DEF FileMade
  <2> HIDE DEF row, node
  <2>4. /\ TablesGood(db') /\ db'.folders = db.folders /\ DOMAIN db'.maps = DOMAIN db.maps \cup {r}
    BY <1>0, <1>1, <2>1, <2>2, <2>3, FileCreated
  <2>5. MappedFolders(db') \subseteq DOMAIN db'.folders
    BY <1>0, <2>4, SmbSyncAssumption DEF MappedFolders
  <2>6. IsPass(pass') /\ pass'.at = pass.at /\ pass'.scan = pass.scan /\ pass'.todo \subseteq pass.todo
    BY <1>0, <1>5, PassSaw
  <2>7. IsTree(proj')
    BY <1>0, <1>5
  <2> QED BY <2>4, <2>5, <2>6, <2>7, PassReads DEF At
<1> QED BY <1>0, <1>2, <1>3, <1>4, <1>5 DEF Import

\* A mapped file takes the content and the identity of its entry.
Replaced(d, e, r, blob, node) == e = [d EXCEPT !.files[r].blob = blob, !.maps[r].node = node]

LEMMA ReplacedGood ==
  ASSUME NEW d, TablesGood(d), NEW r \in DOMAIN d.maps \cap DOMAIN d.files,
         NEW blob \in FileNode, NEW node \in FileNode, NEW e, Replaced(d, e, r, blob, node)
  PROVE  /\ TablesGood(e) /\ e.folders = d.folders
         /\ DOMAIN e.files = DOMAIN d.files /\ DOMAIN e.maps = DOMAIN d.maps
         /\ e.files[r].blob = blob /\ \A s \in DOMAIN d.files \ {r} : e.files[s] = d.files[s]
         /\ e.maps[r].node = node /\ e.maps[r].path = d.maps[r].path
         /\ \A s \in DOMAIN d.maps \ {r} : e.maps[s] = d.maps[s]
<1> DEFINE u == [d.files[r] EXCEPT !.blob = blob]
           v == [d.maps[r] EXCEPT !.node = node]
           F == [d.files EXCEPT ![r] = u]
           M == [d.maps EXCEPT ![r] = v]
<1>1. e = [d EXCEPT !.files = F, !.maps = M]
  BY DEF Replaced
<1>2. /\ d \in Tables /\ d.files \in Partial(FileRow, FileRecord)
      /\ d.maps \in Partial(FileRow \cup FolderRow, Mapping)
      /\ d.files[r] \in FileRecord /\ d.maps[r] \in Mapping /\ r \in FileRow
  BY TablesFields DEF TablesGood
<1>3. u \in FileRecord /\ u.folder = d.files[r].folder /\ u.blob = blob
  BY <1>2 DEF FileRecord
<1>4. v \in Mapping /\ v.path = d.maps[r].path /\ v.node = node
  BY <1>2 DEF Mapping
<1> HIDE DEF u, v
<1>5. /\ DOMAIN F = DOMAIN d.files /\ F[r] = u /\ \A s \in DOMAIN d.files \ {r} : F[s] = d.files[s]
      /\ DOMAIN M = DOMAIN d.maps /\ M[r] = v /\ \A s \in DOMAIN d.maps \ {r} : M[s] = d.maps[s]
  OBVIOUS
<1>6. F \in Partial(FileRow, FileRecord)
  <2>1. \A s \in DOMAIN d.files : F[s] \in FileRecord
    BY <1>2, <1>3, <1>5, PartialIs
  <2> QED BY <1>2, <1>5, <2>1, PartialMap
<1>7. M \in Partial(FileRow \cup FolderRow, Mapping)
  <2>1. \A s \in DOMAIN d.maps : M[s] \in Mapping
    BY <1>2, <1>4, <1>5, PartialIs
  <2> QED BY <1>2, <1>5, <2>1, PartialMap
<1> HIDE DEF F, M
<1>8. e \in Tables /\ e.files = F /\ e.folders = d.folders /\ e.maps = M
  <2>1. d \in Tables
    BY <1>2
  <2> QED BY <1>1, <1>6, <1>7, <2>1 DEF Tables
<1>9. TablesGood(e)
  <2>1. RowsGood(d) /\ MapsGood(d) /\ Placed(d)
    BY DEF TablesGood
  <2>2. \A s \in DOMAIN d.files : F[s].folder = d.files[s].folder
    BY <1>3, <1>5
  <2>3. \A s \in DOMAIN e.files :
          /\ e.files[s].folder \in {Root} \cup DOMAIN e.folders
          /\ s \in DOMAIN d.maps => ParentOf(d, d.maps[s].path) = {e.files[s].folder}
    BY <1>5, <1>8, <2>1, <2>2 DEF RowsGood, Placed
  <2>4. \A s, t \in DOMAIN e.folders : e.folders[s] = e.folders[t] => s = t
    BY <1>8, <2>1 DEF RowsGood
  <2>5. /\ DOMAIN e.maps = DOMAIN d.maps
        /\ \A s \in DOMAIN e.maps :
             /\ e.maps[s].path = d.maps[s].path
             /\ e.maps[s].node \in IF s \in FileRow THEN FileNode ELSE DirNode
    BY <1>2, <1>4, <1>5, <1>8, <2>1 DEF MapsGood
  <2>6. e \in Tables
    BY <1>8
  <2> QED BY <2>3, <2>4, <2>5, <2>6, TablesRevise
<1> QED BY <1>3, <1>4, <1>5, <1>8, <1>9

\* A row that is mapped to a path has its folder there.
LEMMA MappedHere ==
  ASSUME NEW d, TablesGood(d), NEW p, NEW r \in MappedAt(d, p), NEW parent \in ParentOrRoot(d, p)
  PROVE  /\ r \in DOMAIN d.maps /\ d.maps[r].path = p
         /\ MappedAt(d, p) = {r} /\ ParentOf(d, p) = {parent}
         /\ parent \in {Root} \cup FolderRow
<1>1. r \in DOMAIN d.maps /\ d.maps[r].path = p
  BY DEF MappedAt
<1>2. MappedAt(d, p) = {r}
  BY <1>1 DEF MappedAt, TablesGood, MapsGood, PathsUnique
<1>3. ParentOf(d, p) # {}
  BY <1>1, MappingFacts DEF ParentOf
<1>4. parent \in ParentOf(d, p)
  BY <1>3 DEF ParentOrRoot
<1> QED BY <1>1, <1>2, <1>4, OneParent

LEMMA ReplaceStep ==
  ASSUME SmbInv, At("files"), NEW p \in Leaves(pass.scan), NEW r \in MappedAt(db, p) \cap FileRow,
         r \in DOMAIN db.files, Replace(r, p)
  PROVE  SmbInv'
<1>0. /\ TablesGood(db) /\ IsTree(proj) /\ IsPass(pass)
      /\ MappedFolders(db) \subseteq DOMAIN db.folders
  BY DEF SmbInv, PassGood, At, Synchronizing
<1>1. p \in Path /\ p[2] \in Name /\ pass.scan[p] \in FileNode
  BY ScannedLeaf
<1>2. r \in DOMAIN db.maps \cap FileRow /\ r \in DOMAIN db.maps \cap DOMAIN db.files
  BY DEF MappedAt
<1>3. ASSUME FileAt(p), NEW parent \in ParentOrRoot(db, p),
             db' = [Renaming(db, r, p, parent) EXCEPT
                      !.files[r].blob = proj[p], !.maps[r].node = pass.scan[p]],
             Saw(p, r), UNCHANGED proj
      PROVE  SmbInv'
  <2> DEFINE e == Renaming(db, r, p, parent)
             blob == proj[p]
             node == pass.scan[p]
  <2>1. ParentOf(db, p) = {parent} /\ MappedAt(db, p) = {r}
    BY <1>0, MappedHere
  <2>2. /\ TablesGood(e) /\ e.folders = db.folders
        /\ DOMAIN e.files = DOMAIN db.files /\ DOMAIN e.maps = DOMAIN db.maps
    BY <1>0, <1>1, <1>2, <2>1, RenamingGood
  <2>3. Replaced(e, db', r, blob, node) /\ blob \in FileNode /\ node \in FileNode
    BY <1>1, <1>3 DEF Replaced, FileAt
  <2> HIDE DEF e, blob, node
  <2>4. TablesGood(db') /\ db'.folders = e.folders /\ DOMAIN db'.maps = DOMAIN e.maps
    BY <1>2, <2>2, <2>3, ReplacedGood
  <2>5. MappedFolders(db') \subseteq DOMAIN db'.folders
    BY <1>0, <2>2, <2>4 DEF MappedFolders
  <2>6. IsPass(pass') /\ pass'.at = pass.at /\ pass'.scan = pass.scan /\ pass'.todo \subseteq pass.todo
    BY <1>0, <1>3, PassSaw
  <2>7. IsTree(proj')
    BY <1>0, <1>3
  <2> QED BY <2>4, <2>5, <2>6, <2>7, PassReads DEF At
<1>4. CASE Fails /\ UNCHANGED <<db, proj>>
  BY <1>0, <1>4, PassEnds
<1>5. ASSUME p \in DOMAIN proj => FileAt(p), db.files[r].blob # NoData,
             Vacant(p) \/ p \in DOMAIN proj, proj' = With(proj, p, db.files[r].blob),
             db' = [db EXCEPT !.maps[r].node = db.files[r].blob], Saw(p, r)
      PROVE  SmbInv'
  <2> DEFINE n == db.files[r].blob
  <2>1. n \in FileNode
    <3>1. db.files[r] \in FileRecord
      BY <1>0, TablesFields DEF TablesGood
    <3> QED BY <1>5, <3>1 DEF FileRecord
  <2>2. proj' = With(proj, p, n) /\ db' = [db EXCEPT !.maps[r].node = n]
    BY <1>5
  <2> HIDE DEF n
  <2>3. IsTree(proj')
    <3>1. /\ IsTree(proj) /\ p \in Path /\ (p \in DOMAIN proj => FileAt(p))
          /\ Vacant(p) \/ p \in DOMAIN proj
      BY <1>0, <1>1, <1>5
    <3>2. IsTree(With(proj, p, n))
      BY <2>1, <3>1, EntryChanges
    <3> QED BY <2>2, <3>2
  <2>4. /\ TablesGood(db') /\ db'.folders = db.folders /\ DOMAIN db'.maps = DOMAIN db.maps
    BY <1>0, <1>2, <2>1, <2>2, NodeSet
  <2>5. MappedFolders(db') \subseteq DOMAIN db'.folders
    BY <1>0, <2>4 DEF MappedFolders
  <2>6. IsPass(pass') /\ pass'.at = pass.at /\ pass'.scan = pass.scan /\ pass'.todo \subseteq pass.todo
    BY <1>0, <1>5, PassSaw
  <2> QED BY <2>3, <2>4, <2>5, <2>6, PassReads DEF At
<1>6. CASE /\ p \in DOMAIN proj => FileAt(p)
           /\ proj' = Without(proj, {p}) /\ (Fails \/ EndsWithin) /\ UNCHANGED db
  <2>1. IsTree(proj')
    BY <1>0, <1>1, <1>6, EntryChanges
  <2> QED BY <1>0, <1>6, <2>1, PassEnds
<1> QED BY <1>3, <1>4, <1>5, <1>6 DEF Replace

\* A folder's rows and mappings go while the pass reads its scan.
LEMMA FolderGone ==
  ASSUME SmbInv, At("files"), NEW r \in DOMAIN db.maps \cap FolderRow,
         db' = FolderDeleted(db, r), UNCHANGED <<proj, pass>>
  PROVE  SmbInv'
<1>0. /\ TablesGood(db) /\ IsTree(proj') /\ IsPass(pass')
      /\ MappedFolders(db) \subseteq DOMAIN db.folders
  BY DEF SmbInv, PassGood, At, Synchronizing
<1>1. /\ TablesGood(db') /\ db'.folders = Without(db.folders, {r})
      /\ MappedFolders(db') = MappedFolders(db) \ {r}
  BY <1>0, FolderDeletedGood
<1>2. DOMAIN db'.folders = DOMAIN db.folders \ {r}
  BY <1>1, WithoutIs
<1>3. MappedFolders(db') \subseteq DOMAIN db'.folders
  BY <1>0, <1>1, <1>2
<1> QED BY <1>0, <1>1, <1>3, PassReads DEF At

LEMMA EnterFileStep ==
  ASSUME SmbInv, NEW p \in Path, EnterFile(p)
  PROVE  SmbInv'
<1> DEFINE files == MappedAt(db, p) \cap FileRow
           folders == MappedAt(db, p) \cap FolderRow
<1>0. /\ TablesGood(db) /\ IsTree(proj) /\ IsPass(pass)
      /\ At("files") /\ p \in Leaves(pass.scan)
      /\ MappedFolders(db) \subseteq DOMAIN db.folders
      /\ DOMAIN db.maps \subseteq FileRow \cup FolderRow
  BY TablesFields DEF EnterFile, SmbInv, PassGood, At, Synchronizing, TablesGood
<1>1. CASE Did(p) /\ UNCHANGED <<db, proj>>
  <2>1. IsPass(pass') /\ pass'.at = pass.at /\ pass'.scan = pass.scan /\ pass'.todo \subseteq pass.todo
    BY <1>0, <1>1, PassDid
  <2> QED BY <1>0, <1>1, <2>1, PassReads DEF At
<1>2. ASSUME NEW r \in files, r \in DOMAIN db.files, Replace(r, p) PROVE SmbInv'
  BY <1>0, <1>2, ReplaceStep
<1>3. ASSUME NEW r \in files, r \in DOMAIN db.files, NEW parent \in ParentOrRoot(db, p),
             db' = Renaming(db, r, p, parent), Saw(p, r), UNCHANGED proj
      PROVE  SmbInv'
  <2>1. ParentOf(db, p) = {parent} /\ MappedAt(db, p) = {r} /\ r \in DOMAIN db.maps \cap DOMAIN db.files
    BY <1>0, <1>3, MappedHere
  <2>2. /\ TablesGood(db') /\ db'.folders = db.folders /\ DOMAIN db'.maps = DOMAIN db.maps
    BY <1>0, <1>3, <2>1, RenamingGood
  <2>3. MappedFolders(db') \subseteq DOMAIN db'.folders
    BY <1>0, <2>2 DEF MappedFolders
  <2>4. IsPass(pass') /\ pass'.at = pass.at /\ pass'.scan = pass.scan /\ pass'.todo \subseteq pass.todo
    BY <1>0, <1>3, PassSaw
  <2>5. IsTree(proj') /\ pass.at = "files"
    BY <1>0, <1>3 DEF At
  <2> QED BY <2>2, <2>3, <2>4, <2>5, PassReads
<1>4. CASE files = {} /\ folders = {} /\ Import(db, p)
  <2>1. MappedAt(db, p) = {}
    BY <1>0, <1>4 DEF MappedAt
  <2> QED BY <1>0, <1>4, <2>1, ImportStep
<1>5. ASSUME NEW r \in folders, db' = FolderDeleted(db, r), UNCHANGED <<proj, pass>>
      PROVE  SmbInv'
  <2>1. r \in DOMAIN db.maps \cap FolderRow
    BY DEF MappedAt
  <2> QED BY <1>0, <1>5, <2>1, FolderGone
<1>6. ASSUME NEW r \in folders, TornDeletion(FilesOf(db, r)), UNCHANGED proj
      PROVE  SmbInv'
  BY <1>6, TornStep
<1> QED BY <1>1, <1>2, <1>3, <1>4, <1>5, <1>6 DEF EnterFile

-----------------------------------------------------------------------------
(* What was not seen.                                                        *)

\* The row of a file goes, its mapping stays.
LEMMA RowGone ==
  ASSUME NEW d, TablesGood(d), NEW r, NEW e, e = [d EXCEPT !.files = Without(@, {r})]
  PROVE  TablesGood(e)
<1> DEFINE F == Without(d.files, {r})
<1>1. F \in Partial(FileRow, FileRecord) /\ d \in Tables /\ RowsGood(d)
  BY TablesFields, PartialWithout DEF TablesGood
<1>2. DOMAIN F \subseteq DOMAIN d.files /\ \A s \in DOMAIN F : F[s] = d.files[s]
  BY DEF Without, Restrict
<1>3. e = [d EXCEPT !.files = F]
  OBVIOUS
<1> HIDE DEF F
<1>4. e \in Tables /\ e.files = F /\ e.folders = d.folders /\ e.maps = d.maps
  <2>1. d \in Tables
    BY <1>1
  <2> QED BY <1>1, <1>3, <2>1 DEF Tables
<1>5. \A s \in DOMAIN e.files :
        /\ e.files[s].folder = d.files[s].folder
        /\ e.files[s].folder \in {Root} \cup DOMAIN e.folders
  BY <1>1, <1>2, <1>4 DEF RowsGood
<1> QED BY <1>2, <1>4, <1>5, TablesShrink

LEMMA DeleteUnseenFileStep ==
  ASSUME SmbInv, NEW r \in FileRow, DeleteUnseenFile(r)
  PROVE  SmbInv'
<1>0. /\ TablesGood(db) /\ IsTree(proj) /\ IsPass(pass) /\ At("deletefiles") /\ UNCHANGED proj
      /\ MappedFolders(db) \subseteq DOMAIN db.folders /\ IsTree(pass.scan)
  BY DEF DeleteUnseenFile, SmbInv, PassGood, At, Synchronizing
<1>1. CASE db' = FileDeleted(db, r) /\ Did(r)
  <2>1. /\ TablesGood(db') /\ db'.folders = db.folders /\ db'.maps = Without(db.maps, {r})
    BY <1>0, <1>1, FileDeletedGood
  <2>2. DOMAIN db'.maps = DOMAIN db.maps \ {r}
    BY <2>1, WithoutIs
  <2>3. MappedFolders(db') \subseteq DOMAIN db'.folders
    BY <1>0, <2>1, <2>2 DEF MappedFolders
  <2>4. IsPass(pass') /\ pass'.at = pass.at /\ pass'.scan = pass.scan
    BY <1>0, <1>1, PassDid
  <2> QED BY <1>0, <2>1, <2>3, <2>4 DEF SmbInv, PassGood, At
<1>2. CASE db' = DataLost(db, {r}) /\ EndsWithin
  <2>1. TablesGood(db')
    BY <1>0, <1>2, DataLostGood
  <2> QED BY <1>0, <1>2, <2>1, PassEnds
<1>3. CASE db' = [db EXCEPT !.files = Without(@, {r})] /\ EndsWithin
  <2>1. TablesGood(db')
    BY <1>0, <1>3, RowGone
  <2> QED BY <1>0, <1>3, <2>1, PassEnds
<1> QED BY <1>1, <1>2, <1>3 DEF DeleteUnseenFile

LEMMA DeleteUnseenFolderStep ==
  ASSUME SmbInv, NEW r \in FolderRow, DeleteUnseenFolder(r)
  PROVE  SmbInv'
<1>0. /\ TablesGood(db) /\ IsTree(proj) /\ IsPass(pass) /\ At("deletefolders") /\ UNCHANGED proj
      /\ MappedFolders(db) \subseteq DOMAIN db.folders /\ IsTree(pass.scan)
      /\ r \in pass.todo /\ pass.todo \subseteq MappedFolders(db)
  BY DEF DeleteUnseenFolder, SmbInv, PassGood, At, Synchronizing
<1>1. CASE db' = FolderDeleted(db, r) /\ Did(r)
  <2>1. r \in DOMAIN db.maps \cap FolderRow
    BY <1>0 DEF MappedFolders
  <2>2. /\ TablesGood(db') /\ db'.folders = Without(db.folders, {r})
        /\ MappedFolders(db') = MappedFolders(db) \ {r}
    BY <1>0, <1>1, <2>1, FolderDeletedGood
  <2>3. DOMAIN db'.folders = DOMAIN db.folders \ {r}
    BY <2>2, WithoutIs
  <2>4. IsPass(pass') /\ pass'.at = pass.at /\ pass'.scan = pass.scan /\ pass'.todo = pass.todo \ {r}
    BY <1>0, <1>1, PassDid
  <2>5. MappedFolders(db') \subseteq DOMAIN db'.folders /\ pass'.todo \subseteq MappedFolders(db')
    BY <1>0, <2>2, <2>3, <2>4
  <2> QED BY <1>0, <2>2, <2>4, <2>5 DEF SmbInv, PassGood, At
<1>2. CASE TornDeletion(FilesOf(db, r))
  BY <1>0, <1>2, TornStep
<1> QED BY <1>1, <1>2 DEF DeleteUnseenFolder

-----------------------------------------------------------------------------
(* Rows that are not projected yet.                                          *)

\* A row's mapping is made.
Mapped(d, e, r, p, node) == e = [d EXCEPT !.maps = With(@, r, [path |-> p, node |-> node])]

LEMMA MappedGood ==
  ASSUME NEW d, TablesGood(d), NEW r \in (FileRow \cup FolderRow) \ DOMAIN d.maps,
         NEW p \in Path, NEW node, node \in IF r \in FileRow THEN FileNode ELSE DirNode,
         r \in FolderRow => p[1] = Root, MappedAt(d, p) = {}, ParentOf(d, p) # {},
         r \in DOMAIN d.files => ParentOf(d, p) = {d.files[r].folder},
         NEW e, Mapped(d, e, r, p, node)
  PROVE  /\ TablesGood(e) /\ e.files = d.files /\ e.folders = d.folders
         /\ DOMAIN e.maps = DOMAIN d.maps \cup {r} /\ e.maps[r].path = p /\ e.maps[r].node = node
         /\ \A s \in DOMAIN d.maps : e.maps[s] = d.maps[s]
<1> DEFINE v == [path |-> p, node |-> node]
           M == With(d.maps, r, v)
<1>1. e = [d EXCEPT !.maps = M] /\ v \in Mapping /\ v.path = p /\ v.node = node
  BY DEF Mapping, Mapped
<1>2. d \in Tables /\ d.maps \in Partial(FileRow \cup FolderRow, Mapping) /\ RowsGood(d)
  BY TablesFields DEF TablesGood
<1>3. M = With(d.maps, r, [path |-> p, node |-> node])
  OBVIOUS
<1> HIDE DEF v
<1>4. M \in Partial(FileRow \cup FolderRow, Mapping)
  BY <1>1, <1>2, PartialWith
<1>5. DOMAIN M = DOMAIN d.maps \cup {r} /\ M[r] = v /\ \A s \in DOMAIN d.maps : M[s] = d.maps[s]
  BY DEF With
<1> HIDE DEF M
<1>6. e \in Tables /\ e.files = d.files /\ e.folders = d.folders /\ e.maps = M
  <2>1. d \in Tables
    BY <1>2
  <2> QED BY <1>1, <1>4, <2>1 DEF Tables
<1>7. RowsGood(e)
  BY <1>2, <1>6 DEF RowsGood
<1>8. e \in Tables /\ e.files = d.files /\ e.maps = With(d.maps, r, [path |-> p, node |-> node])
  BY <1>3, <1>6
<1>9. TablesGood(e)
  BY <1>7, <1>8, TablesMap
<1> QED BY <1>1, <1>5, <1>6, <1>9

LEMMA ProjectGood ==
  ASSUME SmbInv, At("project"), NEW r \in pass.todo, NEW dir \in DirOf(db, FolderOf(r)), NEW node,
         node \in IF r \in FileRow THEN FileNode ELSE DirNode, Project(r, dir, node)
  PROVE  SmbInv'
<1>0. /\ TablesGood(db) /\ IsTree(proj) /\ IsPass(pass) /\ IsTree(pass.scan)
      /\ MappedFolders(db) \subseteq DOMAIN db.folders /\ r \in Rows(db) \ DOMAIN db.maps
      /\ pass.todo \subseteq Rows(db) \ DOMAIN db.maps
      /\ DOMAIN db.files \subseteq FileRow /\ DOMAIN db.folders \subseteq FolderRow
      /\ db \in Tables
  BY TablesFields DEF SmbInv, PassGood, At, Synchronizing, TablesGood
<1>1. /\ r \in FileRow \cup FolderRow
      /\ r \in FolderRow => r \in DOMAIN db.folders /\ NameOf(r) \in Name /\ FolderOf(r) = Root
      /\ r \notin FolderRow => /\ r \in FileRow /\ r \in DOMAIN db.files /\ NameOf(r) \in Name
                               /\ FolderOf(r) = db.files[r].folder
                               /\ FolderOf(r) \in {Root} \cup FolderRow
      /\ r \in FolderRow => r \notin DOMAIN db.files /\ r \notin FileRow
  <2>1. CASE r \in FolderRow
    <3>1. r \in DOMAIN db.folders /\ r \notin FileRow
      BY <1>0, <2>1, SmbSyncAssumption DEF Rows
    <3> QED BY <1>0, <2>1, <3>1, TablesFields DEF NameOf, FolderOf
  <2>2. CASE r \notin FolderRow
    <3>1. r \in DOMAIN db.files
      BY <1>0, <2>2 DEF Rows
    <3>2. db.files[r] \in FileRecord
      BY <1>0, <3>1, TablesFields
    <3> QED BY <1>0, <2>2, <3>1, <3>2 DEF NameOf, FolderOf, FileRecord
  <2> QED BY <2>1, <2>2
<1>2. dir \in {Root} \cup Name /\ (FolderOf(r) = Root <=> dir = Root)
  <2> DEFINE q == <<dir, dir>>
  <2>1. q[1] = dir
    OBVIOUS
  <2> HIDE DEF q
  <2> QED BY <2>1, <1>0, <1>1, DirOfFacts
<1>3. CASE Fails /\ UNCHANGED <<db, proj>>
  BY <1>0, <1>3, PassEnds
<1>4. ASSUME NEW p \in Allocated(dir, NameOf(r), {}), proj' = With(proj, p, node),
             \/ /\ db' = [db EXCEPT !.maps = With(@, r, [path |-> p, node |-> node])]
                /\ Did(r)
             \/ EndsWithin /\ UNCHANGED db
      PROVE  SmbInv'
  <2>1. /\ p = <<dir, p[2]>> /\ p \in Path /\ p[1] = dir /\ p[2] \in Name
        /\ NoConflict(p, {})
        /\ dir # Root => Top(dir) \in DOMAIN proj /\ proj[Top(dir)] \in DirNode
    BY <1>1, <1>2, AllocatedFacts
  <2>2. ParentOf(db, p) = {FolderOf(r)}
    BY <1>0, <1>1, <2>1, DirOfFacts
  <2>3. MappedAt(db, p) = {} /\ p \notin DOMAIN proj
    BY <2>1 DEF NoConflict
  <2>4. IsTree(proj')
    <3>1. IF p[1] = Root THEN node \in FileNode \cup DirNode
          ELSE node \in FileNode /\ Top(p[1]) \in DOMAIN proj /\ proj[Top(p[1])] \in DirNode
      BY <1>1, <1>2, <2>1
    <3> QED BY <1>0, <1>4, <2>1, <2>3, <3>1, TreeWith
  <2>5. CASE EndsWithin /\ UNCHANGED db
    BY <1>0, <2>4, <2>5, PassEnds
  <2>6. CASE /\ db' = [db EXCEPT !.maps = With(@, r, [path |-> p, node |-> node])]
             /\ Did(r)
    <3>1. Mapped(db, db', r, p, node)
      BY <2>6 DEF Mapped
    <3>2. /\ r \in (FileRow \cup FolderRow) \ DOMAIN db.maps
          /\ r \in FolderRow => p[1] = Root
          /\ ParentOf(db, p) # {}
          /\ r \in DOMAIN db.files => ParentOf(db, p) = {db.files[r].folder}
      BY <1>0, <1>1, <1>2, <2>1, <2>2
    <3>3. /\ TablesGood(db') /\ db'.files = db.files /\ db'.folders = db.folders
          /\ DOMAIN db'.maps = DOMAIN db.maps \cup {r}
      BY <1>0, <2>1, <2>3, <3>1, <3>2, MappedGood
    <3>4. IsPass(pass') /\ pass'.at = pass.at /\ pass'.scan = pass.scan /\ pass'.todo = pass.todo \ {r}
      BY <1>0, <2>6, PassDid
    <3>5. /\ MappedFolders(db') \subseteq DOMAIN db'.folders
          /\ pass'.todo \subseteq Rows(db') \ DOMAIN db'.maps
      BY <1>0, <1>1, <3>3, <3>4 DEF MappedFolders, Rows
    <3> QED BY <1>0, <2>4, <3>3, <3>4, <3>5 DEF SmbInv, PassGood, At
  <2> QED BY <1>4, <2>5, <2>6
<1> QED BY <1>3, <1>4 DEF Project

LEMMA ProjectSteps ==
  ASSUME SmbInv
  PROVE  /\ \A r \in FolderRow, node \in DirNode : ProjectFolder(r, node) => SmbInv'
         /\ \A r \in FileRow : ProjectFile(r) => SmbInv'
<1>1. ASSUME NEW r \in FolderRow, NEW node \in DirNode, ProjectFolder(r, node) PROVE SmbInv'
  <2>1. r \notin FileRow
    BY SmbSyncAssumption
  <2>2. Root \in DirOf(db, FolderOf(r))
    BY DEF FolderOf, DirOf
  <2>3. At("project") /\ r \in pass.todo /\ Project(r, Root, node)
    BY <1>1 DEF ProjectFolder
  <2> QED BY <2>1, <2>2, <2>3, ProjectGood
<1>2. ASSUME NEW r \in FileRow, ProjectFile(r) PROVE SmbInv'
  <2>0. /\ TablesGood(db) /\ IsTree(proj) /\ At("project") /\ r \in pass.todo
        /\ pass.todo \subseteq Rows(db) \ DOMAIN db.maps /\ db \in Tables
    BY <1>2 DEF ProjectFile, SmbInv, PassGood, At, TablesGood
  <2>1. r \in DOMAIN db.files
    BY <2>0, TablesFields, SmbSyncAssumption DEF Rows
  <2>2. db.files[r].blob \in FileNode \cup {NoData}
    <3>1. db.files[r] \in FileRecord
      BY <2>0, <2>1, TablesFields
    <3> QED BY <3>1 DEF FileRecord
  <2>3. PICK dir \in DirOf(db, FolderOf(r)) :
          IF db.files[r].blob = NoData THEN Fails /\ UNCHANGED <<db, proj, events>>
          ELSE Project(r, dir, db.files[r].blob)
    BY <1>2 DEF ProjectFile
  <2>4. CASE db.files[r].blob = NoData
    BY <2>0, <2>3, <2>4, PassEnds
  <2>5. CASE db.files[r].blob # NoData
    BY <2>0, <2>2, <2>3, <2>5, ProjectGood
  <2> QED BY <2>4, <2>5
<1> QED BY <1>1, <1>2

-----------------------------------------------------------------------------
(* The synchronization.                                                      *)

LEMMA SmbStarts == SmbInit => SmbInv
<1> SUFFICES ASSUME SmbInit PROVE SmbInv
  OBVIOUS
<1>1. PICK s \in Shared : db = [files |-> s.files, folders |-> s.folders, maps |-> Nothing]
  BY DEF SmbInit
<1>2. PICK R \in SUBSET FileRow :
        s.files \in [R -> [folder : {Root} \cup DOMAIN s.folders, name : Name, blob : FileNode]]
  BY SmbSyncAssumption
<1>3. PICK Q \in SUBSET FolderRow : s.folders \in [Q -> Name]
  BY SmbSyncAssumption
<1>4. \A r, t \in DOMAIN s.folders : s.folders[r] = s.folders[t] => r = t
  BY SmbSyncAssumption
<1>5. s.folders \in Partial(FolderRow, Name) /\ DOMAIN s.folders \subseteq FolderRow
  BY <1>3 DEF Partial
<1>6. s.files \in Partial(FileRow, FileRecord)
      /\ \A r \in DOMAIN s.files : s.files[r].folder \in {Root} \cup DOMAIN s.folders
  <2>1. s.files \in [R -> FileRecord]
    BY <1>2, <1>5 DEF FileRecord
  <2>2. \A r \in DOMAIN s.files : s.files[r].folder \in {Root} \cup DOMAIN s.folders
    BY <1>2
  <2> QED BY <2>1, <2>2 DEF Partial
<1>7. Nothing \in Partial(FileRow \cup FolderRow, Mapping) /\ DOMAIN Nothing = {}
  <2>1. Nothing \in [{} -> Mapping] /\ DOMAIN Nothing = {}
    BY DEF Nothing
  <2> QED BY <2>1 DEF Partial
<1>8. /\ db \in Tables /\ db.files = s.files /\ db.folders = s.folders /\ DOMAIN db.maps = {}
  BY <1>1, <1>5, <1>6, <1>7 DEF Tables
<1>9. TablesGood(db)
  BY <1>4, <1>6, <1>8 DEF TablesGood, RowsGood, MapsGood, PathsUnique, Placed
<1>10. IsTree(proj) /\ pass = Rest("idle", FALSE)
  BY TreeNothing DEF SmbInit
<1>11. IsPass(pass) /\ IsTree(pass.scan) /\ pass.at = "idle"
  BY <1>10, RestIs
<1> QED BY <1>9, <1>10, <1>11 DEF SmbInv, PassGood, At, Synchronizing

LEMMA SmbStep == SmbInv /\ SmbNext => SmbInv'
BY SmbUserStep, WebUploadStep, WebDeleteFileStep, WebDeleteFolderStep, LoseProjectionStep,
   CrashDuringPassStep, BeginPassStep, WipeSteps, RemoveWebDeletedStep, ApplyEntryStep,
   RelinkStep, ApplyDuringSaveStep, BeginApplyStep, ScanSteps, MoveFolderStep, EnterFolderStep,
   MoveFileStep, EnterFileStep, BeginFoldersStep, BeginMovesStep, BeginFilesStep,
   BeginDeletionsStep, BeginFolderDeletionsStep, DeleteUnseenFileStep, DeleteUnseenFolderStep,
   BeginProjectStep, EndPassStep, ProjectSteps
   DEF SmbNext, SmbAction

LEMMA SmbStutters == SmbInv /\ UNCHANGED smbVars => SmbInv'
BY DEF smbVars, SmbInv, PassGood, At, Orphans

LEMMA SmbTypes == SmbInv => SmbTypeOK
<1> SUFFICES ASSUME SmbInv PROVE SmbTypeOK
  OBVIOUS
<1>0. TablesGood(db) /\ IsTree(proj) /\ db \in Tables /\ RowsGood(db) /\ PathsUnique(db)
  BY DEF SmbInv, TablesGood, MapsGood
<1>1. DOMAIN db.files \subseteq FileRow /\ DOMAIN db.folders \subseteq FolderRow
  BY <1>0, TablesFields
<1>2. \A r \in DOMAIN db.files :
        db.files[r] \in [folder : {Root} \cup DOMAIN db.folders, name : Name,
                         blob : FileNode \cup {NoData}]
  <2> TAKE r \in DOMAIN db.files
  <2>1. db.files[r] \in FileRecord /\ db.files[r].folder \in {Root} \cup DOMAIN db.folders
    BY <1>0, TablesFields DEF RowsGood
  <2> QED BY <2>1 DEF FileRecord
<1>3. \A r, s \in DOMAIN db.folders :
        db.folders[r] \in Name /\ (db.folders[r] = db.folders[s] => r = s)
  BY <1>0, TablesFields DEF RowsGood
<1>4. \A r \in DOMAIN db.maps :
        db.maps[r] \in [path : Path, node : IF r \in FileRow THEN FileNode ELSE DirNode]
  <2> TAKE r \in DOMAIN db.maps
  <2>1. db.maps[r] \in Mapping /\ db.maps[r].node \in IF r \in FileRow THEN FileNode ELSE DirNode
    BY <1>0, TablesFields, MappingFacts
  <2> DEFINE N == IF r \in FileRow THEN FileNode ELSE DirNode
  <2>2. db.maps[r].node \in N
    BY <2>1
  <2> HIDE DEF N
  <2>3. db.maps[r] \in [path : Path, node : N]
    BY <2>1, <2>2 DEF Mapping
  <2> QED BY <2>3 DEF N
<1>5. DOMAIN proj \subseteq Path /\ Range(proj) \subseteq FileNode \cup DirNode
  BY <1>0 DEF IsTree, Range
<1>6. \A p \in DOMAIN proj :
        p[1] # Root => Top(p[1]) \in DOMAIN proj /\ proj[Top(p[1])] \in DirNode
  BY <1>0 DEF IsTree
<1> QED BY <1>0, <1>1, <1>2, <1>3, <1>4, <1>5, <1>6 DEF SmbTypeOK

LEMMA SmbHolds == FilesSpec => []SmbInv
<1>1. FilesInit => SmbInv
  BY SmbStarts DEF FilesInit
<1>2. SmbInv /\ [FilesNext]_fileVars => SmbInv'
  BY SmbStep, SmbStutters DEF FilesNext, fileVars
<1> QED BY <1>1, <1>2, PTL DEF FilesSpec

-----------------------------------------------------------------------------
\* The tables, the projection, the storage roots and the streams keep their types, whatever
\* users, failures and passes do: rows and mappings refer to what there is, folders of one
\* name do not exist, no path is mapped twice (smb-schema.js:24-37), and what lies in a
\* directory of the projection lies in one that is there.
THEOREM FilesTypeCorrect == FilesSpec => []FilesTypeOK
<1>1. RelocationInv => StorageTypeOK
  <2> SUFFICES ASSUME StorageTypes, InodesFound PROVE StorageTypeOK
    BY DEF RelocationInv
  <2>1. uploadRoot \in StorageRoot /\ uploadRoot = Saved
    BY StorageAssumption DEF StorageTypes, Saved
  <2>2. \A r \in StorageRoot : disk[r] \in {Nowhere} \cup [Blob -> {"none", "part", "whole"}]
    BY DEF StorageTypes, DiskTyped, Tree, MarkOf
  <2>3. \A x \in InFlight : uploads[x].inode = Nowhere \/ Has(uploads[x].inode, x)
    BY DEF StorageTypes, Upload, InodesFound
  <2> QED BY <2>1, <2>2, <2>3 DEF StorageTypes, StorageTypeOK
<1>2. StreamInv => TypeOK
  BY DEF StreamInv, Shape, TypeOK
<1>3. SmbInv => SmbTypeOK
  BY SmbTypes
<1> QED BY <1>1, <1>2, <1>3, SmbHolds, RelocationHolds, StreamsHoldInFiles, PTL DEF FilesTypeOK

-----------------------------------------------------------------------------
(* The contents.                                                             *)
Lost == removed \cup raced

Comparing ==
  {"movefolders", "folders", "movefiles", "files", "deletefiles", "deletefolders"}

\* A pass works with the mappings once the marker vouches for them.
StageGood ==
  /\ pass.at \in {"wipe", "unmap", "mark"} => ~marker
  /\ At("mark") => DOMAIN db.maps = {}
  /\ pass.at \in {"web", "apply", "project"} \cup Comparing => marker
  /\ At("deletefiles") => pass.todo \subseteq MappedFiles(db)

\* What is stored for a mapped file is what the mapping names.
SameData(r) ==
  \/ db.files[r].blob \in {db.maps[r].node, NoData}
  \/ {db.files[r].blob, db.maps[r].node} \subseteq Lost

NodeHeld(r) == db.maps[r].node \in Range(proj) \cup Lost

FilesKept ==
  /\ made \subseteq FileNode
  /\ ContentKept
  /\ \A r \in MappedFiles(db) \cap DOMAIN db.files : SameData(r)
  /\ marker => \A r \in MappedFiles(db) : NodeHeld(r)

\* What a scan saw at a path that files are still to be compared at.
EntryAt(f, p) == {f[q] : q \in {p} \cap DOMAIN f}
Agrees(p) ==
  \/ EntryAt(proj, p) = {pass.scan[p]}
  \/ ({pass.scan[p]} \cup EntryAt(proj, p)) \cap FileNode \subseteq Lost
Compared ==
  IF pass.at \in {"movefolders", "folders", "movefiles"} THEN Leaves(pass.scan)
  ELSE IF At("files") THEN pass.todo ELSE {}
ScanAgrees == \A p \in Compared : Agrees(p)

\* What a step may do to the rows and the mappings of files.
RowKept(r) == r \in DOMAIN db'.files /\ db'.files[r].blob = db.files[r].blob
RowDropped(r) == \/ marker /\ r \in DOMAIN db.maps
                 \/ db.files[r].blob \in Lost' \cup {NoData}
MapKept(r) ==
  /\ r \in DOMAIN db.maps /\ db'.maps[r].node = db.maps[r].node
  /\ r \in DOMAIN db'.files =>
       r \in DOMAIN db.files /\ db'.files[r].blob \in {db.files[r].blob, NoData}
MapMade(r) == NodeHeld(r)' /\ (r \in DOMAIN db'.files => SameData(r)')
NodesStay == \A n \in FileNode : n \in Range(proj) => n \in Range(proj') \cup Lost'
HistoryGrows == removed \subseteq removed' /\ raced \subseteq raced' /\ made \subseteq made'
Blobs(d) == {d.files[r].blob : r \in DOMAIN d.files}

LEMMA LostGrows ==
  ASSUME HistoryGrows
  PROVE  Lost \subseteq Lost'
BY DEF HistoryGrows, Lost

\* A mapped row may go: what it stores is in the projection too.
LEMMA MappedRowHeld ==
  ASSUME TablesGood(db), FilesKept, marker, NEW r \in DOMAIN db.files, r \in DOMAIN db.maps
  PROVE  db.files[r].blob \in {NoData} \cup Range(proj) \cup Lost
BY TablesFields DEF TablesGood, FilesKept, SameData, NodeHeld, MappedFiles

LEMMA FilesStep ==
  ASSUME TablesGood(db), FilesKept, HistoryGrows, made' \subseteq FileNode, NodesStay,
         made' \subseteq made \cup Range(proj') \cup Blobs(db'),
         \A r \in DOMAIN db.files : RowKept(r) \/ RowDropped(r),
         \A r \in MappedFiles(db') : MapKept(r) \/ MapMade(r),
         marker' => marker
  PROVE  FilesKept'
<1>1. Lost \subseteq Lost'
  BY LostGrows
<1>2. ContentKept'
  <2> SUFFICES ASSUME NEW n \in made' \ Lost'
               PROVE  n \in Range(proj') \cup Blobs(db')
    BY DEF ContentKept, Kept, Blobs, Lost
  <2>1. n \in FileNode /\ n # NoData
    BY SmbSyncAssumption
  <2>2. CASE n \in made
    <3>1. n \in Range(proj) \/ n \in Blobs(db)
      BY <1>1, <2>2 DEF FilesKept, ContentKept, Kept, Blobs, Lost
    <3>2. n \in Range(proj) => n \in Range(proj')
      BY <2>1 DEF NodesStay
    <3>3. ASSUME NEW r \in DOMAIN db.files, n = db.files[r].blob
          PROVE  n \in Range(proj') \cup Blobs(db')
      <4>1. CASE RowKept(r)
        BY <3>3, <4>1 DEF RowKept, Blobs
      <4>2. CASE marker /\ r \in DOMAIN db.maps
        <5>1. n \in {NoData} \cup Range(proj) \cup Lost
          BY <3>3, <4>2, MappedRowHeld
        <5> QED BY <5>1, <1>1, <2>1, <3>2
      <4>3. CASE db.files[r].blob \in Lost' \cup {NoData}
        BY <3>3, <4>3, <2>1
      <4> QED BY <4>1, <4>2, <4>3 DEF RowDropped
    <3> QED BY <3>1, <3>2, <3>3 DEF Blobs
  <2>3. CASE n \notin made
    BY <2>3
  <2> QED BY <2>2, <2>3
<1>3. ASSUME NEW r \in MappedFiles(db') \cap DOMAIN db'.files
      PROVE  SameData(r)'
  <2>1. CASE MapMade(r)
    BY <2>1 DEF MapMade
  <2>2. CASE MapKept(r)
    <3>1. /\ r \in DOMAIN db.maps /\ r \in DOMAIN db.files /\ r \in FileRow
          /\ db'.maps[r].node = db.maps[r].node
          /\ db'.files[r].blob \in {db.files[r].blob, NoData}
      BY <2>2 DEF MapKept, MappedFiles
    <3>2. SameData(r)
      BY <3>1 DEF FilesKept, MappedFiles
    <3> QED BY <1>1, <3>1, <3>2 DEF SameData
  <2> QED BY <2>1, <2>2
<1>4. ASSUME marker', NEW r \in MappedFiles(db')
      PROVE  NodeHeld(r)'
  <2>1. CASE MapMade(r)
    BY <2>1 DEF MapMade
  <2>2. CASE MapKept(r)
    <3>1. r \in MappedFiles(db) /\ db'.maps[r].node = db.maps[r].node
      BY <2>2 DEF MapKept, MappedFiles
    <3>2. db.maps[r].node \in Range(proj) \cup Lost
      BY <1>4, <3>1 DEF FilesKept, NodeHeld
    <3>3. db.maps[r].node \in FileNode
      BY <3>1, MappingFacts DEF MappedFiles
    <3> QED BY <1>1, <3>3, <3>1, <3>2 DEF NodeHeld, NodesStay
  <2> QED BY <2>1, <2>2
<1> QED BY <1>2, <1>3, <1>4 DEF FilesKept

\* What a step may do to the entry of a path that is to be compared.
EntryStays(p) ==
  \/ EntryAt(proj', p) = EntryAt(proj, p)
  \/ (EntryAt(proj, p) \cup EntryAt(proj', p)) \cap FileNode \subseteq Lost'

LEMMA ScanStep ==
  ASSUME SmbInv, ScanAgrees, HistoryGrows, pass'.scan = pass.scan, Compared' \subseteq Compared,
         \A p \in Compared' : EntryStays(p)
  PROVE  ScanAgrees'
<1>1. Lost \subseteq Lost'
  BY LostGrows
<1> SUFFICES ASSUME NEW p \in Compared' PROVE Agrees(p)'
  BY DEF ScanAgrees
<1>2. Agrees(p) /\ EntryStays(p)
  BY DEF ScanAgrees
<1>3. CASE EntryAt(proj', p) = EntryAt(proj, p)
  BY <1>1, <1>2, <1>3 DEF Agrees
<1>4. CASE (EntryAt(proj, p) \cup EntryAt(proj', p)) \cap FileNode \subseteq Lost'
  BY <1>1, <1>2, <1>4 DEF Agrees
<1> QED BY <1>2, <1>3, <1>4 DEF EntryStays

\* The pass is at the same stage, or no longer compares.
LEMMA ComparedShrinks ==
  ASSUME SmbInv, pass'.scan = pass.scan, pass'.at = pass.at, pass'.todo \subseteq pass.todo
  PROVE  Compared' \subseteq Compared
BY DEF Compared, At

LEMMA NothingCompared ==
  ASSUME pass'.at \notin {"movefolders", "folders", "movefiles", "files"}
  PROVE  ScanAgrees'
BY DEF ScanAgrees, Compared, At

LEMMA SameProjection ==
  ASSUME UNCHANGED proj
  PROVE  NodesStay /\ \A p : EntryStays(p)
BY DEF NodesStay, EntryStays

LEMMA EntriesRemoved ==
  ASSUME NEW S, proj' = Without(proj, S), NodesOf(proj, S \cap DOMAIN proj) \subseteq removed'
  PROVE  NodesStay /\ \A p : EntryStays(p)
<1>1. DOMAIN proj' = DOMAIN proj \ S /\ \A p \in DOMAIN proj' : proj'[p] = proj[p]
  BY DEF Without, Restrict
<1>2. ASSUME NEW n \in FileNode, n \in Range(proj)
      PROVE  n \in Range(proj') \cup Lost'
  <2>1. PICK p \in DOMAIN proj : proj[p] = n
    BY <1>2 DEF Range
  <2>2. CASE p \in S
    BY <1>2, <2>1, <2>2 DEF NodesOf, Lost
  <2>3. CASE p \notin S
    BY <1>1, <2>1, <2>3 DEF Range
  <2> QED BY <2>2, <2>3
<1>3. ASSUME NEW p PROVE EntryStays(p)
  <2>1. CASE p \in S
    BY <1>1, <2>1 DEF EntryStays, EntryAt, NodesOf, Lost
  <2>2. CASE p \notin S
    BY <1>1, <2>2 DEF EntryStays, EntryAt
  <2> QED BY <2>1, <2>2
<1> QED BY <1>2, <1>3 DEF NodesStay

LEMMA EntryWritten ==
  ASSUME NEW p, NEW n, proj' = With(proj, p, n), NodesOf(proj, {p} \cap DOMAIN proj) \subseteq Lost'
  PROVE  /\ NodesStay /\ \A q : q # p => EntryStays(q)
         /\ n \in Range(proj')
<1>1. /\ DOMAIN proj' = DOMAIN proj \cup {p} /\ proj'[p] = n
      /\ \A q \in DOMAIN proj \ {p} : proj'[q] = proj[q]
  BY DEF With
<1>2. ASSUME NEW x \in FileNode, x \in Range(proj) PROVE x \in Range(proj') \cup Lost'
  <2>1. PICK q \in DOMAIN proj : proj[q] = x
    BY <1>2 DEF Range
  <2>2. CASE q = p
    BY <1>2, <2>1, <2>2 DEF NodesOf
  <2>3. CASE q # p
    BY <1>1, <2>1, <2>3 DEF Range
  <2> QED BY <2>2, <2>3
<1>3. ASSUME NEW q, q # p PROVE EntryStays(q)
  <2>1. {q} \cap DOMAIN proj' = {q} \cap DOMAIN proj
    BY <1>1, <1>3
  <2>2. \A x \in {q} \cap DOMAIN proj : proj'[x] = proj[x]
    BY <1>1, <1>3
  <2> QED BY <2>1, <2>2 DEF EntryStays, EntryAt
<1> QED BY <1>1, <1>2, <1>3 DEF NodesStay, Range

\* Every entry of a renamed projection comes from one of before, and none is lost.
LEMMA RenamedRange ==
  ASSUME NEW f, IsTree(f), NEW from \in DOMAIN f, NEW to \in Path,
         to \in DOMAIN f => to = from,
         f[from] \in DirNode => to[1] = Root
  PROVE  Range(Renamed(f, from, to)) = Range(f)
<1> DEFINE g == Renamed(f, from, to)
           U == Under(f, from)
           Sh(p) == Shifted(p, from, to)
<1>1. /\ DOMAIN g = (DOMAIN f \ U) \cup {Sh(p) : p \in U}
      /\ \A q \in DOMAIN g :
           \/ \E p \in U : q = Sh(p) /\ g[q] = f[p]
           \/ q \in DOMAIN f \ U /\ g[q] = f[q] /\ \A p \in U : q # Sh(p)
  BY RenamedIs
<1>2. /\ to = <<to[1], to[2]>> /\ to[1] \in {Root} \cup Name /\ to[2] \in Name /\ to[2] # Root
  BY SmbSyncAssumption DEF Path
<1>3. from = <<from[1], from[2]>> /\ from[2] # Root
  BY EntryFacts
<1>4. from \in U /\ Sh(from) = to
  BY DEF Under, Shifted
<1>5. ASSUME NEW p \in U, p # from
      PROVE  /\ p \in DOMAIN f /\ p[1] = from[2] /\ from[1] = Root /\ Sh(p) = <<to[2], p[2]>>
             /\ f[from] \in DirNode /\ p = <<from[2], p[2]>>
  <2>1. p \in DOMAIN f /\ InDir(p, from)
    BY <1>5 DEF Under
  <2>2. p[1] # Root /\ Top(p[1]) = from
    BY <2>1, <1>3 DEF InDir, Top
  <2> QED BY <1>5, <2>1, <2>2, EntryFacts DEF Shifted, InDir
<1>6. U \subseteq DOMAIN f
  BY DEF Under
<1>7. ASSUME NEW p \in U, NEW o \in U, Sh(p) = Sh(o) PROVE p = o
  <2>1. CASE p = from /\ o = from
    BY <2>1
  <2>2. CASE p = from /\ o # from
    <3>1. to = <<to[2], o[2]>> /\ to[1] = Root
      BY <1>4, <1>5, <1>7, <2>2
    <3> QED BY <3>1, <1>2
  <2>3. CASE p # from /\ o = from
    <3>1. to = <<to[2], p[2]>> /\ to[1] = Root
      BY <1>4, <1>5, <1>7, <2>3
    <3> QED BY <3>1, <1>2
  <2>4. CASE p # from /\ o # from
    <3>1. <<to[2], p[2]>> = <<to[2], o[2]>>
      BY <1>5, <1>7, <2>4
    <3> QED BY <3>1, <1>5, <2>4
  <2> QED BY <2>1, <2>2, <2>3, <2>4
<1>8. ASSUME NEW p \in DOMAIN f \ U, NEW o \in U, p = Sh(o) PROVE FALSE
  <2>1. CASE o = from
    BY <1>4, <1>8, <2>1
  <2>2. CASE o # from
    <3>1. p = <<to[2], o[2]>> /\ to[1] = Root /\ from[1] = Root
      BY <1>5, <1>8, <2>2
    <3>2. p[1] # Root /\ Top(p[1]) = to
      BY <3>1, <1>2 DEF Top
    <3>3. to = from
      BY <3>2, EntryFacts
    <3>4. InDir(p, from)
      BY <3>1, <3>3 DEF InDir
    <3> QED BY <3>4 DEF Under
  <2> QED BY <2>1, <2>2
<1> HIDE DEF g, U, Sh
<1>9. ASSUME NEW p \in DOMAIN f PROVE f[p] \in Range(g)
  <2>1. CASE p \in U
    <3>1. Sh(p) \in DOMAIN g
      BY <1>1, <2>1
    <3>2. g[Sh(p)] = f[p]
      BY <1>1, <1>7, <2>1, <3>1
    <3> QED BY <3>1, <3>2 DEF Range
  <2>2. CASE p \notin U
    <3>1. p \in DOMAIN g /\ g[p] = f[p]
      BY <1>1, <1>8, <2>2
    <3> QED BY <3>1 DEF Range
  <2> QED BY <2>1, <2>2
<1>10. ASSUME NEW q \in DOMAIN g PROVE g[q] \in Range(f)
  BY <1>1, <1>6 DEF Range
<1> QED BY <1>9, <1>10 DEF Range, g

\* The contents there are, and those of the tables and the projection.
MadeStay ==
  /\ removed \subseteq removed' /\ made \subseteq made' /\ made' \subseteq made \cup Range(proj')
  /\ made \subseteq FileNode => made' \subseteq FileNode

LEMMA ChangeFiles ==
  ASSUME IsTree(proj), SmbChange
  PROVE  MadeStay /\ NodesStay
<1>1. ASSUME NEW p \in Path, NEW n \in FileNode, SmbWrite(p, n) PROVE MadeStay /\ NodesStay
  <2>1. NodesOf(proj, {p} \cap DOMAIN proj) \subseteq Lost'
    BY <1>1 DEF SmbWrite, Lost
  <2>2. NodesStay /\ n \in Range(proj')
    BY <1>1, <2>1, EntryWritten DEF SmbWrite
  <2> QED BY <1>1, <2>2 DEF MadeStay, SmbWrite, NewNode
<1>2. ASSUME NEW p \in Path, SmbUnlink(p) PROVE MadeStay /\ NodesStay
  <2>1. NodesOf(proj, {p} \cap DOMAIN proj) \subseteq removed' /\ proj' = Without(proj, {p})
    BY <1>2 DEF SmbUnlink, NodesOf
  <2>2. NodesStay
    BY <2>1, EntriesRemoved
  <2> QED BY <1>2, <2>2 DEF MadeStay, SmbUnlink
<1>3. ASSUME NEW p \in Path, NEW q \in Path, SmbRename(p, q) PROVE MadeStay /\ NodesStay
  <2> DEFINE g == Without(proj, {p})
  <2>1. proj' = With(g, q, proj[p]) /\ p \in DOMAIN proj /\ p # q
    BY <1>3 DEF SmbRename, FileAt
  <2>2. /\ DOMAIN g = DOMAIN proj \ {p} /\ \A t \in DOMAIN g : g[t] = proj[t]
    BY DEF Without, Restrict
  <2> HIDE DEF g
  <2>3. /\ DOMAIN proj' = DOMAIN g \cup {q} /\ proj'[q] = proj[p]
        /\ \A t \in DOMAIN g \ {q} : proj'[t] = g[t]
    BY <2>1 DEF With
  <2>4. NodesOf(proj, {q} \cap DOMAIN proj) \ {proj[p]} \subseteq removed'
    BY <1>3 DEF SmbRename
  <2>5. ASSUME NEW n \in FileNode, NEW t \in DOMAIN proj, proj[t] = n
        PROVE  n \in Range(proj') \cup Lost'
    <3>1. CASE t = p
      BY <2>3, <2>5, <3>1 DEF Range
    <3>2. CASE t = q
      <4>1. n \in NodesOf(proj, {q} \cap DOMAIN proj)
        BY <2>5, <3>2 DEF NodesOf
      <4> QED BY <2>3, <2>4, <4>1 DEF Range, Lost
    <3>3. CASE t # p /\ t # q
      BY <2>2, <2>3, <2>5, <3>3 DEF Range
    <3> QED BY <3>1, <3>2, <3>3
  <2>6. NodesStay
    BY <2>5 DEF NodesStay, Range
  <2> QED BY <1>3, <2>6 DEF MadeStay, SmbRename
<1>4. ASSUME NEW n \in Name, NEW node \in DirNode, SmbMkdir(n, node) PROVE MadeStay /\ NodesStay
  <2>1. NodesOf(proj, {Top(n)} \cap DOMAIN proj) \subseteq Lost' /\ proj' = With(proj, Top(n), node)
    BY <1>4 DEF SmbMkdir, Vacant, NodesOf
  <2>2. NodesStay
    BY <2>1, EntryWritten
  <2> QED BY <1>4, <2>2 DEF MadeStay, SmbMkdir
<1>5. ASSUME NEW n \in Name, SmbRmdir(n) PROVE MadeStay /\ NodesStay
  <2>1. NodesOf(proj, {Top(n)} \cap DOMAIN proj) \subseteq removed' /\ proj' = Without(proj, {Top(n)})
    BY <1>5, SmbSyncAssumption DEF SmbRmdir, NodesOf
  <2>2. NodesStay
    BY <2>1, EntriesRemoved
  <2> QED BY <1>5, <2>2 DEF MadeStay, SmbRmdir
<1>6. ASSUME NEW n \in Name, NEW m \in Name, SmbRenameDir(n, m) PROVE MadeStay /\ NodesStay
  <2>1. /\ Top(n) \in DOMAIN proj /\ Top(m) \notin DOMAIN proj /\ Top(m) \in Path
        /\ Top(m)[1] = Root /\ proj' = Renamed(proj, Top(n), Top(m))
    BY <1>6 DEF SmbRenameDir, Vacant, Top, Path
  <2>2. Range(proj') = Range(proj)
    BY <2>1, RenamedRange
  <2> QED BY <1>6, <2>2 DEF MadeStay, NodesStay, SmbRenameDir
<1> QED BY <1>1, <1>2, <1>3, <1>4, <1>5, <1>6 DEF SmbChange

\* An entry that changes during a pass is of a content that raced with it.
LEMMA RacesAgree ==
  ASSUME RacesWithPass
  PROVE  raced \subseteq raced' /\ \A p : EntryStays(p)
<1> DEFINE same == {p \in DOMAIN proj \cap DOMAIN proj' : proj[p] = proj'[p]}
<1>1. /\ NodesOf(proj, DOMAIN proj \ same) \subseteq Lost'
      /\ NodesOf(proj', DOMAIN proj' \ same) \subseteq Lost'
      /\ raced \subseteq raced'
  BY DEF RacesWithPass, Differing, Lost
<1>2. ASSUME NEW p PROVE EntryStays(p)
  <2>1. CASE p \in same
    BY <2>1 DEF EntryStays, EntryAt
  <2>2. CASE p \notin same
    <3>1. EntryAt(proj, p) \cap FileNode \subseteq Lost'
      BY <1>1, <2>2 DEF EntryAt, NodesOf
    <3>2. EntryAt(proj', p) \cap FileNode \subseteq Lost'
      BY <1>1, <2>2 DEF EntryAt, NodesOf
    <3> QED BY <3>1, <3>2 DEF EntryStays
  <2> QED BY <2>1, <2>2
<1> QED BY <1>1, <1>2

\* The tables stay as they are.
LEMMA SameTables ==
  ASSUME UNCHANGED db
  PROVE  /\ \A r \in DOMAIN db.files : RowKept(r)
         /\ \A r \in MappedFiles(db') : MapKept(r)
BY DEF RowKept, MapKept, MappedFiles

LEMMA SmbUserFiles ==
  ASSUME SmbInv, FilesKept, ScanAgrees, SmbUser
  PROVE  FilesKept' /\ ScanAgrees'
<1>1. MadeStay /\ NodesStay
  BY ChangeFiles DEF SmbUser, SmbInv
<1>2. UNCHANGED db /\ UNCHANGED marker
  BY DEF SmbUser
<1>3. pass'.at = pass.at /\ pass'.scan = pass.scan /\ pass'.todo = pass.todo
  BY PassDisturbed DEF SmbUser, Disturbed, SmbInv, PassGood
<1>4. raced \subseteq raced' /\ (~Resting => \A p : EntryStays(p))
  BY RacesAgree DEF SmbUser
<1>5. HistoryGrows
  BY <1>1, <1>4 DEF HistoryGrows, MadeStay
<1>6. FilesKept'
  <2>1. made' \subseteq FileNode /\ made' \subseteq made \cup Range(proj') \cup Blobs(db')
    BY <1>1 DEF MadeStay, FilesKept
  <2> QED BY <1>1, <1>2, <1>5, <2>1, SameTables, FilesStep DEF SmbInv
<1>7. ScanAgrees'
  <2>1. CASE Resting
    BY <1>3, <2>1, NothingCompared DEF Resting
  <2>2. CASE ~Resting
    BY <1>3, <1>4, <1>5, <2>2, ComparedShrinks, ScanStep
  <2> QED BY <2>1, <2>2
<1> QED BY <1>6, <1>7

-----------------------------------------------------------------------------
(* The folders.                                                              *)

DirsOnce(f) == \A p, q \in DOMAIN f : f[p] \in DirNode /\ f[p] = f[q] => p = q

\* No user has changed the entry of a folder.
Calm(r) == r \in MappedFolders(db) /\ db.maps[r].node \notin touched

FoldersKept ==
  /\ DirsOnce(proj)
  /\ \A r, s \in MappedFolders(db) : Calm(r) /\ db.maps[r].node = db.maps[s].node => r = s
  /\ marker => \A r \in MappedFolders(db) \cap DOMAIN db.folders :
                 Calm(r) => db.maps[r].node \in Range(proj)

Sees(r) ==
  db.maps[r].path \in DOMAIN pass.scan /\ pass.scan[db.maps[r].path] = db.maps[r].node
DirThere(p) == (p \in DOMAIN proj /\ proj[p] = pass.scan[p]) \/ pass.scan[p] \in touched

\* What a pass has found of a folder whose directory nobody changed.
Found(r) ==
  /\ At("movefolders") =>
       Sees(r) \/ (r \notin pass.stable /\ \E p \in pass.todo : pass.scan[p] = db.maps[r].node)
  /\ pass.at \in Comparing \ {"movefolders"} => Sees(r)
  /\ At("folders") => InPlace(r) /\ (db.maps[r].path \in pass.todo \/ r \in pass.seen)
  /\ pass.at \in {"movefiles", "files", "deletefiles"} => r \in pass.seen
  /\ At("deletefolders") => r \notin pass.todo

ScanKept ==
  /\ pass.at \in Comparing =>
       \A p, q \in Dirs(pass.scan) : pass.scan[p] = pass.scan[q] => p = q \/ pass.scan[p] \in touched
  /\ At("movefolders") => \A p \in Dirs(pass.scan) : DirThere(p)
  /\ At("folders") => \A p \in pass.todo : DirThere(p)
  /\ \A r \in FolderRow : Calm(r) => Found(r)

\* What a step may do to directories and to the mappings of folders.
DirsStay ==
  \A p \in DOMAIN proj : proj[p] \in DirNode =>
    (p \in DOMAIN proj' /\ proj'[p] = proj[p]) \/ proj[p] \in touched'
DirsHeld == \A n \in DirNode : n \in Range(proj) => n \in Range(proj') \cup touched'
TouchedStay ==
  \A n \in touched :
    n \in Range(proj) \cup Range(pass.scan) \cup {db.maps[r].node : r \in DOMAIN db.maps} => n \in touched'
FolderKept(r) ==
  /\ r \in MappedFolders(db) /\ db'.maps[r].node = db.maps[r].node
  /\ r \in DOMAIN db'.folders => r \in DOMAIN db.folders

LEMMA StaysHeld ==
  ASSUME DirsStay
  PROVE  DirsHeld
<1> SUFFICES ASSUME NEW n \in DirNode, n \in Range(proj) PROVE n \in Range(proj') \cup touched'
  BY DEF DirsHeld
<1>1. PICK p \in DOMAIN proj : proj[p] = n
  BY DEF Range
<1> QED BY <1>1 DEF DirsStay, Range

LEMMA TouchedGrows ==
  ASSUME touched \subseteq touched'
  PROVE  TouchedStay
BY DEF TouchedStay

LEMMA CalmStays ==
  ASSUME TouchedStay, NEW r, FolderKept(r), Calm(r)'
  PROVE  Calm(r)
<1>1. r \in DOMAIN db.maps /\ db'.maps[r].node = db.maps[r].node
  BY DEF FolderKept, MappedFolders
<1> QED BY <1>1 DEF Calm, TouchedStay, FolderKept

LEMMA FoldersStep ==
  ASSUME TablesGood(db), FoldersKept, DirsOnce(proj'), DirsHeld, TouchedStay, marker' => marker,
         \A r \in MappedFolders(db') : FolderKept(r)
  PROVE  FoldersKept'
<1>1. ASSUME NEW r \in MappedFolders(db'), NEW s \in MappedFolders(db'), Calm(r)',
             db'.maps[r].node = db'.maps[s].node
      PROVE  r = s
  <2>1. FolderKept(r) /\ FolderKept(s) /\ Calm(r)
    BY <1>1, CalmStays
  <2> QED BY <1>1, <2>1 DEF FolderKept, FoldersKept
<1>2. ASSUME marker', NEW r \in MappedFolders(db') \cap DOMAIN db'.folders, Calm(r)'
      PROVE  db'.maps[r].node \in Range(proj')
  <2>1. FolderKept(r) /\ Calm(r)
    BY <1>2, CalmStays
  <2>2. db.maps[r].node \in Range(proj) /\ db.maps[r].node = db'.maps[r].node
    BY <1>2, <2>1 DEF FolderKept, FoldersKept
  <2>3. db.maps[r].node \in DirNode
    <3>1. r \in DOMAIN db.maps /\ r \in FolderRow
      BY <2>1 DEF FolderKept, MappedFolders
    <3> QED BY <3>1, MappingFacts
  <2>4. db'.maps[r].node \notin touched'
    BY <1>2 DEF Calm
  <2> QED BY <2>2, <2>3, <2>4 DEF DirsHeld
<1> QED BY <1>1, <1>2 DEF FoldersKept

LEMMA NoScanKept ==
  ASSUME pass'.at \notin Comparing
  PROVE  ScanKept'
BY DEF ScanKept, Found, At, Comparing

\* The pass is where it was, and folders are mapped where they were.
LEMMA ScanQuiet ==
  ASSUME SmbInv, ScanKept, DirsStay, TouchedStay,
         pass'.at = pass.at, pass'.scan = pass.scan, pass'.stable = pass.stable,
         pass'.todo \subseteq pass.todo, pass.seen \subseteq pass'.seen,
         pass.at \in {"movefolders", "folders"} => pass'.todo = pass.todo,
         \A r \in MappedFolders(db') : FolderKept(r) /\ db'.maps[r].path = db.maps[r].path
  PROVE  ScanKept'
<1>1. \A p \in DOMAIN pass.scan : pass.scan[p] \in touched => pass.scan[p] \in touched'
  BY DEF TouchedStay, Range
<1>2. ASSUME NEW p \in Dirs(pass.scan), DirThere(p) PROVE DirThere(p)'
  <2>1. p \in DOMAIN pass.scan /\ pass.scan[p] \in DirNode
    BY <1>2 DEF Dirs
  <2>2. CASE pass.scan[p] \in touched
    BY <1>1, <2>1, <2>2 DEF DirThere
  <2>3. CASE p \in DOMAIN proj /\ proj[p] = pass.scan[p]
    BY <2>1, <2>3 DEF DirThere, DirsStay
  <2> QED BY <1>2, <2>2, <2>3 DEF DirThere
<1>3. ASSUME NEW r \in FolderRow, Calm(r)' PROVE Found(r)'
  <2>1. /\ FolderKept(r) /\ db'.maps[r].path = db.maps[r].path
        /\ db'.maps[r].node = db.maps[r].node /\ r \in DOMAIN db.maps
    BY <1>3 DEF Calm, FolderKept, MappedFolders
  <2>2. Calm(r) /\ Found(r) /\ db.maps[r].node \notin touched'
    BY <1>3, <2>1, CalmStays DEF ScanKept, Calm
  <2>3. Sees(r) => Sees(r)'
    BY <2>1 DEF Sees
  <2>4. InPlace(r) => InPlace(r)'
    <3>1. db.maps[r].node \in DirNode
      BY <2>1, MappingFacts DEF SmbInv
    <3> QED BY <2>1, <2>2, <3>1 DEF InPlace, DirsStay
  <2> QED BY <2>1, <2>2, <2>3, <2>4 DEF Found, At
<1>4. pass.at = "folders" => pass.todo \subseteq Dirs(pass.scan)
  BY DEF SmbInv, PassGood, At
<1>5. Dirs(pass'.scan) = Dirs(pass.scan)
  OBVIOUS
<1>6. pass.at \in Comparing =>
       \A p, q \in Dirs(pass.scan) : pass.scan[p] = pass.scan[q] => p = q \/ pass.scan[p] \in touched'
  BY <1>1 DEF ScanKept, Dirs
<1> QED BY <1>2, <1>3, <1>4, <1>5, <1>6 DEF ScanKept, At, Comparing

LEMMA DirsWithout ==
  ASSUME NEW f, DirsOnce(f), NEW S
  PROVE  DirsOnce(Without(f, S))
BY DEF DirsOnce, Without, Restrict

LEMMA DirsWith ==
  ASSUME NEW f, DirsOnce(f), NEW p, NEW n, n \in DirNode => n \notin Range(f)
  PROVE  DirsOnce(With(f, p, n))
<1> DEFINE g == With(f, p, n)
<1>1. /\ DOMAIN g = DOMAIN f \cup {p} /\ g[p] = n
      /\ \A q \in DOMAIN f \ {p} : g[q] = f[q]
  BY DEF With
<1> HIDE DEF g
<1>2. ASSUME NEW q \in DOMAIN g, NEW t \in DOMAIN g, g[q] \in DirNode, g[q] = g[t] PROVE q = t
  <2>1. CASE q = p /\ t # p
    BY <1>1, <1>2, <2>1 DEF Range
  <2>2. CASE q # p /\ t = p
    BY <1>1, <1>2, <2>2 DEF Range
  <2>3. CASE q # p /\ t # p
    BY <1>1, <1>2, <2>3 DEF DirsOnce
  <2> QED BY <2>1, <2>2, <2>3
<1> QED BY <1>2 DEF DirsOnce, g

LEMMA DirsRenamed ==
  ASSUME NEW f, DirsOnce(f), NEW from, NEW to
  PROVE  DirsOnce(Renamed(f, from, to))
<1> DEFINE g == Renamed(f, from, to)
           U == Under(f, from)
           Sh(p) == Shifted(p, from, to)
<1>1. \A q \in DOMAIN g :
           \/ \E p \in U : q = Sh(p) /\ g[q] = f[p]
           \/ q \in DOMAIN f \ U /\ g[q] = f[q] /\ \A p \in U : q # Sh(p)
  BY RenamedIs
<1>2. U \subseteq DOMAIN f
  BY DEF Under
<1> HIDE DEF g, U, Sh
<1>3. ASSUME NEW q \in DOMAIN g, NEW t \in DOMAIN g, g[q] \in DirNode, g[q] = g[t] PROVE q = t
  <2>1. \/ \E p \in U : q = Sh(p) /\ g[q] = f[p]
        \/ q \in DOMAIN f \ U /\ g[q] = f[q]
    BY <1>1
  <2>2. \/ \E p \in U : t = Sh(p) /\ g[t] = f[p]
        \/ t \in DOMAIN f \ U /\ g[t] = f[t]
    BY <1>1
  <2>3. PICK o \in DOMAIN f : g[q] = f[o] /\ q = IF o \in U THEN Sh(o) ELSE o
    BY <1>2, <2>1
  <2>4. PICK u \in DOMAIN f : g[t] = f[u] /\ t = IF u \in U THEN Sh(u) ELSE u
    BY <1>2, <2>2
  <2>5. o = u
    BY <1>3, <2>3, <2>4 DEF DirsOnce
  <2> QED BY <2>3, <2>4, <2>5
<1> QED BY <1>3 DEF DirsOnce, g

LEMMA SameDirs ==
  ASSUME UNCHANGED proj
  PROVE  DirsStay
BY DEF DirsStay

LEMMA DirsNotRemoved ==
  ASSUME NEW S, proj' = Without(proj, S),
         \A p \in S \cap DOMAIN proj : proj[p] \in DirNode => proj[p] \in touched'
  PROVE  DirsStay
<1>1. DOMAIN proj' = DOMAIN proj \ S /\ \A p \in DOMAIN proj' : proj'[p] = proj[p]
  BY DEF Without, Restrict
<1> QED BY <1>1 DEF DirsStay

LEMMA DirsNotWritten ==
  ASSUME NEW p, NEW n, proj' = With(proj, p, n), p \in DOMAIN proj => proj[p] \notin DirNode
  PROVE  DirsStay
<1>1. /\ DOMAIN proj' = DOMAIN proj \cup {p}
      /\ \A q \in DOMAIN proj \ {p} : proj'[q] = proj[q]
  BY DEF With
<1> QED BY <1>1 DEF DirsStay

\* A user's change of a directory is one of its inode, and an inode is used again for
\* none that is there, mapped, or seen by the scan under way.
LEMMA ChangeDirs ==
  ASSUME IsTree(proj), DirsOnce(proj), SmbChange
  PROVE  DirsOnce(proj') /\ DirsStay /\ TouchedStay
<1>0. /\ \A p \in Path : FileAt(p) => p \in DOMAIN proj /\ proj[p] \notin DirNode /\ proj[p] \in FileNode
      /\ \A p \in Path : Vacant(p) => p \notin DOMAIN proj
      /\ \A n \in FileNode : n \notin DirNode
  BY SmbSyncAssumption DEF FileAt, Vacant
<1>1. ASSUME NEW p \in Path, NEW n \in FileNode, SmbWrite(p, n)
      PROVE  DirsOnce(proj') /\ DirsStay /\ TouchedStay
  <2>1. /\ proj' = With(proj, p, n) /\ touched \subseteq touched'
        /\ p \in DOMAIN proj => proj[p] \notin DirNode
    BY <1>0, <1>1 DEF SmbWrite
  <2> QED BY <1>0, <2>1, DirsWith, DirsNotWritten, TouchedGrows
<1>2. ASSUME NEW p \in Path, SmbUnlink(p) PROVE DirsOnce(proj') /\ DirsStay /\ TouchedStay
  <2>1. /\ proj' = Without(proj, {p}) /\ touched \subseteq touched' /\ proj[p] \notin DirNode
    BY <1>0, <1>2 DEF SmbUnlink
  <2> QED BY <2>1, DirsWithout, DirsNotRemoved, TouchedGrows
<1>3. ASSUME NEW p \in Path, NEW q \in Path, SmbRename(p, q)
      PROVE  DirsOnce(proj') /\ DirsStay /\ TouchedStay
  <2> DEFINE g == Without(proj, {p})
             n == proj[p]
  <2>1. /\ proj' = With(g, q, n) /\ touched \subseteq touched' /\ p # q
        /\ proj[p] \notin DirNode
        /\ q \in DOMAIN proj => proj[q] \notin DirNode
        /\ n \notin DirNode
    BY <1>0, <1>3 DEF SmbRename
  <2>2. /\ DOMAIN g = DOMAIN proj \ {p} /\ \A t \in DOMAIN g : g[t] = proj[t]
    BY DEF Without, Restrict
  <2>3. DirsOnce(g)
    BY DirsWithout
  <2> HIDE DEF g, n
  <2>4. /\ DOMAIN proj' = DOMAIN g \cup {q}
        /\ \A t \in DOMAIN g \ {q} : proj'[t] = g[t]
    BY <2>1 DEF With
  <2>5. DirsStay
    BY <2>1, <2>2, <2>4 DEF DirsStay
  <2>6. DirsOnce(With(g, q, n))
    BY <2>1, <2>3, DirsWith
  <2>7. DirsOnce(proj') /\ touched \subseteq touched'
    BY <2>1, <2>6
  <2> QED BY <2>5, <2>7, TouchedGrows
<1>4. ASSUME NEW n \in Name, NEW node \in DirNode, SmbMkdir(n, node)
      PROVE  DirsOnce(proj') /\ DirsStay /\ TouchedStay
  <2>1. /\ proj' = With(proj, Top(n), node) /\ Top(n) \notin DOMAIN proj
        /\ node \notin Range(proj) \cup {db.maps[r].node : r \in DOMAIN db.maps}
        /\ touched' = touched \ ({node} \ Range(pass.scan))
    BY <1>4 DEF SmbMkdir, Vacant
  <2>2. TouchedStay
    BY <2>1 DEF TouchedStay
  <2> QED BY <2>1, <2>2, DirsWith, DirsNotWritten
<1>5. ASSUME NEW n \in Name, SmbRmdir(n) PROVE DirsOnce(proj') /\ DirsStay /\ TouchedStay
  <2>1. proj' = Without(proj, {Top(n)}) /\ touched' = touched \cup {proj[Top(n)]}
    BY <1>5 DEF SmbRmdir
  <2> QED BY <2>1, DirsWithout, DirsNotRemoved, TouchedGrows
<1>6. ASSUME NEW n \in Name, NEW m \in Name, SmbRenameDir(n, m)
      PROVE  DirsOnce(proj') /\ DirsStay /\ TouchedStay
  <2> DEFINE from == Top(n)
             to == Top(m)
             U == Under(proj, from)
  <2>1. /\ from \in DOMAIN proj /\ to \notin DOMAIN proj /\ proj' = Renamed(proj, from, to)
        /\ touched' = touched \cup {proj[p] : p \in U}
    BY <1>6 DEF SmbRenameDir, Vacant
  <2>2. ASSUME NEW p \in DOMAIN proj, proj[p] \in DirNode, p \notin U
        PROVE  p \in DOMAIN proj' /\ proj'[p] = proj[p]
    <3>1. p[1] = Root
      BY <2>2, EntryFacts
    <3>2. ASSUME NEW o \in U, p = Shifted(o, from, to) PROVE FALSE
      <4>1. CASE o = from
        BY <2>1, <3>2, <4>1 DEF Shifted
      <4>2. CASE o # from
        <5>1. Shifted(o, from, to) = <<to[2], o[2]>> /\ to[2] = m
          BY <4>2 DEF Shifted, U, Under, Top
        <5> QED BY <3>1, <3>2, <5>1, SmbSyncAssumption
      <4> QED BY <4>1, <4>2
    <3>3. p \in (DOMAIN proj \ U) \cup {Shifted(o, from, to) : o \in U}
      BY <2>2
    <3> DEFINE g == Renamed(proj, from, to)
    <3>4. /\ DOMAIN g = (DOMAIN proj \ U) \cup {Shifted(o, from, to) : o \in U}
          /\ \A q \in DOMAIN g :
               \/ \E o \in U : q = Shifted(o, from, to) /\ g[q] = proj[o]
               \/ /\ q \in DOMAIN proj \ U /\ g[q] = proj[q]
                  /\ \A o \in U : q # Shifted(o, from, to)
      BY RenamedIs
    <3>5. proj' = g
      BY <2>1
    <3> HIDE DEF g, U, from, to
    <3>6. p \in DOMAIN g /\ g[p] = proj[p]
      BY <3>2, <3>3, <3>4
    <3> QED BY <3>5, <3>6
  <2>3. DirsStay
    BY <2>1, <2>2 DEF DirsStay
  <2> QED BY <2>1, <2>3, DirsRenamed, TouchedGrows
<1> QED BY <1>1, <1>2, <1>3, <1>4, <1>5, <1>6 DEF SmbChange

\* The tables are as they were.
LEMMA SameFolders ==
  ASSUME UNCHANGED db
  PROVE  \A r \in MappedFolders(db') : FolderKept(r) /\ db'.maps[r].path = db.maps[r].path
BY DEF FolderKept, MappedFolders

LEMMA SmbUserFolders ==
  ASSUME SmbInv, FoldersKept, ScanKept, SmbUser
  PROVE  FoldersKept' /\ ScanKept'
<1>1. DirsOnce(proj') /\ DirsStay /\ TouchedStay
  BY ChangeDirs DEF SmbUser, SmbInv, FoldersKept
<1>2. UNCHANGED <<db, marker>>
  BY DEF SmbUser
<1>3. /\ pass'.at = pass.at /\ pass'.scan = pass.scan /\ pass'.todo = pass.todo
      /\ pass'.stable = pass.stable /\ pass'.seen = pass.seen
  BY PassDisturbed DEF SmbUser, Disturbed, SmbInv, PassGood
<1>4. FoldersKept'
  BY <1>1, <1>2, StaysHeld, SameFolders, FoldersStep DEF SmbInv
<1>5. ScanKept'
  BY <1>1, <1>2, <1>3, SameFolders, ScanQuiet
<1> QED BY <1>4, <1>5

ContentInv == StageGood /\ FilesKept /\ ScanAgrees /\ FoldersKept /\ ScanKept

LEMMA SmbKinds ==
  ASSUME SmbInv
  PROVE  /\ TablesGood(db) /\ IsTree(proj) /\ IsPass(pass) /\ IsTree(pass.scan)
         /\ db \in Tables /\ DOMAIN db.files \subseteq FileRow
         /\ DOMAIN db.folders \subseteq FolderRow
         /\ DOMAIN db.maps \subseteq FileRow \cup FolderRow
<1>1. TablesGood(db) /\ IsTree(proj) /\ IsPass(pass) /\ IsTree(pass.scan) /\ db \in Tables
  BY DEF SmbInv, PassGood, TablesGood
<1> QED BY <1>1, TablesFields

\* No pass, or one that compares nothing.
LEMMA EarlyKept ==
  ASSUME FilesKept', FoldersKept', StageGood', pass'.at \notin Comparing
  PROVE  ContentInv'
BY NothingCompared, NoScanKept DEF ContentInv, Comparing

LEMMA EndKept ==
  ASSUME FilesKept', FoldersKept', pass'.at \in {"idle", "done", "failed"}
  PROVE  ContentInv'
BY EarlyKept DEF StageGood, At, Comparing

\* The folders are as they were, or fewer.
LEMMA FoldersQuiet ==
  ASSUME SmbInv, FoldersKept, UNCHANGED <<proj, touched>>, marker' => marker,
         \A r \in MappedFolders(db') : FolderKept(r)
  PROVE  FoldersKept'
BY SameDirs, StaysHeld, TouchedGrows, FoldersStep DEF FoldersKept, SmbInv

-----------------------------------------------------------------------------
(* The routes.                                                               *)

LEMMA RouteKeeps ==
  ASSUME SmbInv, ContentInv, Resting, Disturbed, UNCHANGED <<proj, marker, touched>>,
         db'.maps = db.maps, DOMAIN db'.folders \subseteq DOMAIN db.folders, FilesKept'
  PROVE  ContentInv'
<1>1. pass'.at = pass.at
  BY SmbKinds, PassDisturbed DEF Disturbed
<1>2. \A r \in MappedFolders(db') : FolderKept(r)
  BY DEF FolderKept, MappedFolders
<1> QED BY <1>1, <1>2, FoldersQuiet, EndKept DEF Resting, ContentInv

LEMMA WebUploadKeeps ==
  ASSUME SmbInv, ContentInv, NEW r \in FileRow, NEW folder \in {Root} \cup FolderRow,
         NEW name \in Name, NEW n \in FileNode, WebUpload(r, folder, name, n)
  PROVE  ContentInv'
<1> DEFINE row == [folder |-> folder, name |-> name, blob |-> n]
           F == With(db.files, r, row)
<1>1. /\ r \notin DOMAIN db.files \cup DOMAIN db.maps
      /\ db' = [db EXCEPT !.files = F] /\ made' = made \cup {n}
      /\ Resting /\ Disturbed /\ UNCHANGED <<proj, marker, removed, touched, raced>>
  BY DEF WebUpload, NewNode, Rows
<1>2. row \in FileRecord /\ row.blob = n
  BY DEF FileRecord
<1>3. F \in Partial(FileRow, FileRecord)
  BY <1>2, SmbKinds, TablesFields, PartialWith
<1>4. /\ DOMAIN F = DOMAIN db.files \cup {r} /\ F[r] = row
      /\ \A s \in DOMAIN db.files : F[s] = db.files[s]
  BY <1>1 DEF With
<1> HIDE DEF row, F
<1>5. db'.files = F /\ db'.folders = db.folders /\ db'.maps = db.maps
  BY <1>1, <1>3, SmbKinds, SetFiles
<1>6. \A s \in DOMAIN db.files : RowKept(s)
  BY <1>4, <1>5 DEF RowKept
<1>7. \A s \in MappedFiles(db') : MapKept(s)
  BY <1>1, <1>4, <1>5 DEF MapKept, MappedFiles
<1>8. /\ made \subseteq made' /\ made' \subseteq FileNode
      /\ made' \subseteq made \cup Range(proj') \cup Blobs(db')
  BY <1>1, <1>2, <1>4, <1>5 DEF Blobs, ContentInv, FilesKept
<1>9. FilesKept'
  BY <1>1, <1>6, <1>7, <1>8, SmbKinds, SameProjection, FilesStep DEF HistoryGrows, ContentInv
<1> QED BY <1>1, <1>5, <1>9, RouteKeeps

\* The stored files of deleted rows are deleted.
LEMMA RowsDeleted ==
  ASSUME SmbInv, FilesKept, NEW S, NEW F, F = Without(db.files, S), db'.files = F,
         db'.maps = db.maps, UNCHANGED <<proj, marker, made, raced>>,
         removed' = removed \cup ({db.files[f].blob : f \in S \cap DOMAIN db.files} \cap FileNode)
  PROVE  FilesKept'
<1>1. /\ DOMAIN db'.files = DOMAIN db.files \ S
      /\ \A s \in DOMAIN db'.files : db'.files[s] = db.files[s]
  BY DEF Without, Restrict
<1>2. ASSUME NEW s \in DOMAIN db.files PROVE RowKept(s) \/ RowDropped(s)
  <2>1. CASE s \in S
    <3>1. db.files[s].blob \in FileNode \cup {NoData}
      <4>1. db.files[s] \in FileRecord
        BY SmbKinds, TablesFields
      <4> QED BY <4>1 DEF FileRecord
    <3> QED BY <2>1, <3>1 DEF RowDropped, Lost
  <2>2. CASE s \notin S
    BY <1>1, <2>2 DEF RowKept
  <2> QED BY <2>1, <2>2
<1>3. \A s \in MappedFiles(db') : MapKept(s)
  BY <1>1 DEF MapKept, MappedFiles
<1>4. HistoryGrows /\ made' \subseteq FileNode /\ made' \subseteq made \cup Range(proj') \cup Blobs(db')
  BY DEF HistoryGrows, FilesKept
<1> QED BY <1>2, <1>3, <1>4, SmbKinds, SameProjection, FilesStep

LEMMA WebDeleteFileKeeps ==
  ASSUME SmbInv, ContentInv, NEW r \in FileRow, WebDeleteFile(r)
  PROVE  ContentInv'
<1> DEFINE F == Without(db.files, {r})
<1>1. /\ db' = [db EXCEPT !.files = F] /\ Resting /\ Disturbed
      /\ UNCHANGED <<proj, marker, made, touched, raced>>
      /\ removed' = removed \cup ({db.files[r].blob} \cap FileNode) /\ r \in DOMAIN db.files
  BY DEF WebDeleteFile
<1>2. F \in Partial(FileRow, FileRecord)
  BY SmbKinds, TablesFields, PartialWithout
<1> DEFINE G == F
<1>3. G = Without(db.files, {r})
  OBVIOUS
<1> HIDE DEF F, G
<1>4. db'.files = F /\ db'.folders = db.folders /\ db'.maps = db.maps
  BY <1>1, <1>2, SmbKinds, SetFiles
<1>5. {db.files[f].blob : f \in {r} \cap DOMAIN db.files} = {db.files[r].blob}
  BY <1>1
<1>6. FilesKept'
  BY <1>1, <1>3, <1>4, <1>5, RowsDeleted DEF ContentInv, G
<1> QED BY <1>1, <1>4, <1>6, RouteKeeps

LEMMA WebDeleteFolderKeeps ==
  ASSUME SmbInv, ContentInv, NEW r \in FolderRow, WebDeleteFolder(r)
  PROVE  ContentInv'
<1> DEFINE S == FilesOf(db, r)
           F == Without(db.files, S)
           D == Without(db.folders, {r})
<1>1. /\ db' = [db EXCEPT !.files = F, !.folders = D] /\ Resting /\ Disturbed
      /\ UNCHANGED <<proj, marker, made, touched, raced>>
      /\ removed' = removed \cup ({db.files[f].blob : f \in S} \cap FileNode)
  BY DEF WebDeleteFolder
<1>2. DOMAIN D \subseteq DOMAIN db.folders /\ S \cap DOMAIN db.files = S
  BY DEF Without, Restrict, FilesOf
<1>3. F = Without(db.files, S)
  OBVIOUS
<1> HIDE DEF F, S, D
<1>4. db'.files = F /\ db'.folders = D /\ db'.maps = db.maps
  BY <1>1, SmbKinds DEF Tables
<1>5. FilesKept'
  BY <1>1, <1>2, <1>3, <1>4, RowsDeleted DEF ContentInv
<1> QED BY <1>1, <1>2, <1>4, <1>5, RouteKeeps

\* The projection is lost: what only it had goes with it.
LEMMA ProjectionLost ==
  ASSUME SmbInv, FilesKept, FoldersKept, proj' = Nothing, ~marker',
         db' \in {db, [db EXCEPT !.maps = Nothing]}, removed' = removed \cup Unrecorded,
         UNCHANGED <<made, touched, raced>>
  PROVE  FilesKept' /\ FoldersKept'
<1>1. /\ db'.files = db.files /\ db'.folders = db.folders
      /\ db'.maps = db.maps \/ db'.maps = Nothing
  BY SmbKinds, UnmappedGood
<1>2. DOMAIN Nothing = {}
  BY DEF Nothing
<1>3. /\ DOMAIN db'.maps \subseteq DOMAIN db.maps
      /\ \A s \in DOMAIN db'.maps : db'.maps[s] = db.maps[s]
  BY <1>1, <1>2
<1>4. HistoryGrows
  BY DEF HistoryGrows
<1>5. Lost \subseteq Lost'
  BY <1>4, LostGrows
<1>6. ContentKept'
  <2> SUFFICES ASSUME NEW n \in made' \ Lost' PROVE Kept(n)'
    BY DEF ContentKept, Lost
  <2>1. n \in FileNode /\ n \notin Lost /\ Kept(n)
    BY <1>5 DEF FilesKept, ContentKept, Lost
  <2>2. n \notin Unrecorded
    BY DEF Lost
  <2>3. n \in {db.files[r].blob : r \in DOMAIN db.files}
    BY <2>1, <2>2 DEF Kept, Unrecorded, NodesOf, Range
  <2> QED BY <1>1, <2>3 DEF Kept
<1>7. ASSUME NEW r \in MappedFiles(db') \cap DOMAIN db'.files PROVE SameData(r)'
  <2>1. SameData(r)
    BY <1>1, <1>3 DEF MappedFiles, FilesKept
  <2> QED BY <1>1, <1>3, <1>5, <2>1 DEF SameData, MappedFiles
<1>8. FilesKept'
  BY <1>6, <1>7 DEF FilesKept
<1>9. FoldersKept'
  <2>1. DirsOnce(proj')
    BY <1>2 DEF DirsOnce
  <2> QED BY <1>3, <2>1 DEF FoldersKept, Calm, MappedFolders
<1> QED BY <1>8, <1>9

LEMMA LoseProjectionKeeps ==
  ASSUME SmbInv, ContentInv, LoseProjection
  PROVE  ContentInv'
<1>1. pass'.at = pass.at /\ Resting
  BY SmbKinds, PassDisturbed DEF LoseProjection, Disturbed
<1>2. FilesKept' /\ FoldersKept'
  BY ProjectionLost DEF LoseProjection, ContentInv
<1> QED BY <1>1, <1>2, EndKept DEF Resting

-----------------------------------------------------------------------------
(* The pass: the marker, and entries of deleted rows.                        *)

\* The tables, the projection and the history are as they were.
LEMMA SameKept ==
  ASSUME FilesKept, FoldersKept, UNCHANGED <<db, proj, marker, made, removed, touched, raced>>
  PROVE  FilesKept' /\ FoldersKept'
BY DEF FilesKept, ContentKept, Kept, SameData, NodeHeld, Lost, FoldersKept, Calm

LEMMA EndWithinKept ==
  ASSUME FilesKept', FoldersKept', Fails \/ EndsWithin
  PROVE  ContentInv'
<1>1. PICK c : pass' = Rest("failed", c)
  BY DEF Fails, EndsWithin
<1>2. pass'.at = "failed"
  BY <1>1, RestIs
<1> QED BY <1>2, EndKept

LEMMA BeginPassKeeps ==
  ASSUME SmbInv, ContentInv, BeginPass
  PROVE  ContentInv'
<1> DEFINE at == IF marker THEN "web" ELSE "wipe"
<1>1. UNCHANGED <<db, proj, marker, made, removed, touched, raced>> /\ pass' = Rest(at, TRUE)
      /\ (at = "web" => marker) /\ (at = "wipe" => ~marker) /\ at \in {"web", "wipe"}
  BY DEF BeginPass
<1> HIDE DEF at
<1>2. pass'.at = at
  BY <1>1, RestIs
<1>3. FilesKept' /\ FoldersKept'
  BY <1>1, SameKept DEF ContentInv
<1>4. StageGood'
  BY <1>1, <1>2 DEF StageGood, At, Comparing
<1> QED BY <1>1, <1>2, <1>3, <1>4, EarlyKept DEF Comparing

LEMMA WipeKeeps ==
  ASSUME SmbInv, ContentInv, Wipe
  PROVE  ContentInv'
<1>1. pass'.at = "unmap"
  BY SmbKinds, PassGoes DEF Wipe
<1>2. ~marker' /\ UNCHANGED db
  BY DEF Wipe, ContentInv, StageGood, At
<1>3. FilesKept' /\ FoldersKept'
  BY <1>2, ProjectionLost DEF Wipe, KeepsHistory, ContentInv
<1>4. StageGood'
  BY <1>1, <1>2 DEF StageGood, At, Comparing
<1> QED BY <1>1, <1>3, <1>4, EarlyKept DEF Comparing

LEMMA UnmapKeeps ==
  ASSUME SmbInv, ContentInv, Unmap
  PROVE  ContentInv'
<1>1. pass'.at = "mark"
  BY SmbKinds, PassGoes DEF Unmap
<1>2. ~marker /\ UNCHANGED <<proj, marker, made, removed, touched, raced>>
      /\ db' = [db EXCEPT !.maps = Nothing]
  BY DEF Unmap, KeepsHistory, ContentInv, StageGood, At
<1>3. db'.files = db.files /\ db'.folders = db.folders /\ DOMAIN db'.maps = {}
  <2>1. DOMAIN Nothing = {}
    BY DEF Nothing
  <2> QED BY <1>2, <2>1, SmbKinds, UnmappedGood
<1>4. FilesKept'
  <2>1. \A r \in DOMAIN db.files : RowKept(r)
    BY <1>3 DEF RowKept
  <2>2. MappedFiles(db') = {}
    BY <1>3 DEF MappedFiles
  <2>3. HistoryGrows /\ made' \subseteq FileNode /\ made' \subseteq made \cup Range(proj') \cup Blobs(db')
    BY <1>2 DEF HistoryGrows, FilesKept, ContentInv
  <2>4. \A r \in MappedFiles(db') : MapKept(r)
    BY <2>2
  <2> QED BY <1>2, <2>1, <2>3, <2>4, SmbKinds, SameProjection, FilesStep DEF ContentInv
<1>5. FoldersKept'
  <2>1. \A r \in MappedFolders(db') : FolderKept(r)
    BY <1>3 DEF MappedFolders
  <2> QED BY <1>2, <2>1, FoldersQuiet DEF ContentInv
<1>6. StageGood'
  BY <1>1, <1>2, <1>3 DEF StageGood, At, Comparing
<1> QED BY <1>1, <1>4, <1>5, <1>6, EarlyKept DEF Comparing

LEMMA MarkKeeps ==
  ASSUME SmbInv, ContentInv, Mark
  PROVE  ContentInv'
<1>1. pass'.at = "web"
  BY SmbKinds, PassGoes DEF Mark
<1>2. DOMAIN db.maps = {} /\ marker' /\ UNCHANGED <<db, proj, made, removed, touched, raced>>
  BY DEF Mark, KeepsHistory, ContentInv, StageGood
<1>3. FilesKept'
  BY <1>2 DEF ContentInv, FilesKept, ContentKept, Kept, MappedFiles
<1>4. FoldersKept'
  BY <1>2 DEF ContentInv, FoldersKept, Calm, MappedFolders
<1>5. StageGood'
  BY <1>1, <1>2 DEF StageGood, At, Comparing
<1> QED BY <1>1, <1>3, <1>4, <1>5, EarlyKept DEF Comparing

LEMMA CrashDuringPassKeeps ==
  ASSUME SmbInv, ContentInv, CrashDuringPass
  PROVE  ContentInv'
<1>1. FilesKept' /\ FoldersKept'
  BY SameKept DEF CrashDuringPass, ContentInv
<1> QED BY <1>1, EndWithinKept DEF CrashDuringPass, EndsWithin

\* What is left of the files when mappings go.
LEMMA MapsGone ==
  ASSUME SmbInv, FilesKept, HistoryGrows, UNCHANGED <<made, marker>>, NodesStay,
         db'.files = db.files, MappedFiles(db') \subseteq MappedFiles(db),
         \A r \in MappedFiles(db') : db'.maps[r].node = db.maps[r].node
  PROVE  FilesKept'
<1>1. \A r \in DOMAIN db.files : RowKept(r)
  BY DEF RowKept
<1>2. \A r \in MappedFiles(db') : MapKept(r)
  BY DEF MapKept, MappedFiles
<1>3. made' \subseteq FileNode /\ made' \subseteq made \cup Range(proj') \cup Blobs(db')
  BY DEF FilesKept
<1> QED BY <1>1, <1>2, <1>3, SmbKinds, FilesStep

LEMMA RemoveWebDeletedKeeps ==
  ASSUME SmbInv, ContentInv, NEW r \in FileRow \cup FolderRow, RemoveWebDeleted(r)
  PROVE  ContentInv'
<1> DEFINE p == db.maps[r].path
           gone == IF InPlace(r) THEN Under(proj, p) ELSE {}
           M == Without(db.maps, {r})
<1>1. /\ At("web") /\ r \in Orphans /\ r \in DOMAIN db.maps
      /\ proj' = Without(proj, gone) /\ removed' = removed \cup NodesOf(proj, gone)
      /\ UNCHANGED <<made, touched, raced, marker>>
      /\ \/ db' = [db EXCEPT !.maps = M] /\ UNCHANGED pass
         \/ EndsWithin /\ UNCHANGED db
  BY DEF RemoveWebDeleted, KeepsHistory, Orphans
<1>2. HistoryGrows
  BY <1>1 DEF HistoryGrows
<1>3. NodesStay
  <2>1. NodesOf(proj, gone \cap DOMAIN proj) \subseteq removed'
    BY <1>1 DEF NodesOf
  <2> HIDE DEF gone
  <2> QED BY <1>1, <2>1, EntriesRemoved
<1>4. /\ DOMAIN M = DOMAIN db.maps \ {r} /\ \A s \in DOMAIN M : M[s] = db.maps[s]
  BY DEF Without, Restrict
<1>5. /\ db'.files = db.files /\ db'.folders = db.folders
      /\ DOMAIN db'.maps \subseteq DOMAIN db.maps
      /\ \A s \in DOMAIN db'.maps : db'.maps[s] = db.maps[s]
  <2>1. M \in Partial(FileRow \cup FolderRow, Mapping)
    BY SmbKinds, TablesFields, PartialWithout
  <2> HIDE DEF M
  <2>2. CASE db' = [db EXCEPT !.maps = M]
    BY <1>4, <2>1, <2>2, SmbKinds, SetMaps
  <2>3. CASE UNCHANGED db
    BY <2>3
  <2> QED BY <1>1, <2>2, <2>3
<1>6. FilesKept'
  <2>1. MappedFiles(db') \subseteq MappedFiles(db)
        /\ \A s \in MappedFiles(db') : db'.maps[s].node = db.maps[s].node
    BY <1>5 DEF MappedFiles
  <2> QED BY <1>1, <1>2, <1>3, <1>5, <2>1, MapsGone DEF ContentInv
\* The directory that goes is that of the row, and of no other.
<1>7. ASSUME NEW q \in gone, proj[q] \in DirNode PROVE InPlace(r) /\ proj[q] = db.maps[r].node
  <2>1. InPlace(r) /\ q \in DOMAIN proj /\ (q = p \/ InDir(q, p))
    BY <1>7 DEF Under
  <2>2. ~InDir(q, p)
    <3>1. q[1] = Root
      BY <1>7, <2>1, SmbKinds, EntryFacts
    <3>2. p[2] # Root
      BY <1>1, SmbKinds, MappingFacts, SmbSyncAssumption
    <3> QED BY <3>1, <3>2 DEF InDir
  <2> QED BY <2>1, <2>2 DEF InPlace
<1>8. \A s \in DOMAIN db.folders : s # r
  BY <1>1 DEF Orphans, Rows
<1>9. DOMAIN proj' = DOMAIN proj \ gone /\ \A q \in DOMAIN proj' : proj'[q] = proj[q]
  <2> HIDE DEF gone
  <2> QED BY <1>1 DEF Without, Restrict
<1>10. FoldersKept'
  <2>1. DirsOnce(proj')
    <3> HIDE DEF gone
    <3> QED BY <1>1, DirsWithout DEF ContentInv, FoldersKept
  <2>2. \A s, t \in MappedFolders(db') : Calm(s)' /\ db'.maps[s].node = db'.maps[t].node => s = t
    BY <1>1, <1>5 DEF ContentInv, FoldersKept, MappedFolders, Calm
  <2>3. ASSUME marker', NEW s \in MappedFolders(db') \cap DOMAIN db'.folders, Calm(s)'
        PROVE  db'.maps[s].node \in Range(proj')
    <3>1. s \in MappedFolders(db) /\ s \in DOMAIN db.folders /\ Calm(s) /\ marker
          /\ db'.maps[s].node = db.maps[s].node /\ s \in DOMAIN db.maps /\ s \in FolderRow
      BY <1>1, <1>5, <2>3 DEF MappedFolders, Calm
    <3>2. db.maps[s].node \in Range(proj) /\ db.maps[s].node \in DirNode
      BY <3>1, SmbKinds, MappingFacts DEF ContentInv, FoldersKept
    <3>3. PICK q \in DOMAIN proj : proj[q] = db.maps[s].node
      BY <3>2 DEF Range
    <3>4. ASSUME q \in gone PROVE FALSE
      <4>1. db.maps[r].node = db.maps[s].node /\ db.maps[r].node \in DirNode
        BY <1>7, <3>2, <3>3, <3>4
      <4>2. r \in MappedFolders(db)
        <5>1. r \notin FileRow
          BY <1>1, <4>1, SmbKinds, MappingFacts, SmbSyncAssumption
        <5> QED BY <1>1, <5>1 DEF MappedFolders
      <4>3. s = r
        BY <3>1, <4>1, <4>2 DEF ContentInv, FoldersKept
      <4> QED BY <1>8, <3>1, <4>3
    <3> QED BY <1>9, <3>1, <3>3, <3>4 DEF Range
  <2> QED BY <2>1, <2>2, <2>3 DEF FoldersKept
<1>11. CASE EndsWithin
  BY <1>6, <1>10, <1>11, EndWithinKept
<1>12. CASE UNCHANGED pass
  <2>1. StageGood' /\ pass'.at \notin Comparing
    BY <1>1, <1>12 DEF StageGood, At, ContentInv, Comparing
  <2> QED BY <1>6, <1>10, <2>1, EarlyKept
<1> QED BY <1>1, <1>11, <1>12

-----------------------------------------------------------------------------
(* Names as the database has them.                                           *)

LEMMA BeginApplyKeeps ==
  ASSUME SmbInv, ContentInv, BeginApply
  PROVE  ContentInv'
<1>1. pass'.at = "apply" /\ At("web")
      /\ UNCHANGED <<db, proj, marker, made, removed, touched, raced>>
  BY SmbKinds, PassGoes DEF BeginApply, KeepsHistory
<1>2. FilesKept' /\ FoldersKept'
  BY <1>1, SameKept DEF ContentInv
<1>3. StageGood'
  BY <1>1 DEF ContentInv, StageGood, At, Comparing
<1> QED BY <1>1, <1>2, <1>3, EarlyKept DEF Comparing

\* Still at the stage in which names are applied.
LEMMA ApplyingKept ==
  ASSUME At("apply"), StageGood, FilesKept', FoldersKept', UNCHANGED marker, pass'.at = pass.at
  PROVE  ContentInv'
<1>1. StageGood' /\ pass'.at \notin Comparing
  BY DEF StageGood, At, Comparing
<1> QED BY <1>1, EarlyKept

LEMMA ApplyKeeps ==
  ASSUME SmbInv, ContentInv, NEW r \in FileRow \cup FolderRow, At("apply"), r \in pass.todo,
         Applicable(r), Apply(r), KeepsHistory, UNCHANGED <<marker, removed>>
  PROVE  ContentInv'
<1>0. /\ TablesGood(db) /\ IsTree(proj) /\ IsPass(pass) /\ Orphans = {} /\ r \in DOMAIN db.maps
      /\ db \in Tables /\ RowsGood(db)
  BY DEF SmbInv, PassGood, TablesGood, Applicable
<1>1. /\ NameOf(r) \in Name /\ FolderOf(r) \in {Root} \cup FolderRow
      /\ r \in FolderRow => FolderOf(r) = Root
  <2>1. r \in DOMAIN db.files \cup DOMAIN db.folders
    BY <1>0 DEF Orphans, Rows
  <2>2. CASE r \in FolderRow
    BY <2>1, <2>2, SmbKinds, TablesFields, SmbSyncAssumption DEF NameOf, FolderOf
  <2>3. CASE r \in FileRow
    <3>1. r \in DOMAIN db.files /\ r \notin FolderRow
      BY <2>1, <2>3, SmbKinds, SmbSyncAssumption
    <3>2. db.files[r] \in FileRecord
      BY <3>1, SmbKinds, TablesFields
    <3> QED BY <3>1, <3>2 DEF NameOf, FolderOf, FileRecord
  <2> QED BY <2>2, <2>3
<1>2. PICK dir \in DirOf(db, FolderOf(r)) :
        LET paths == Allocated(dir, NameOf(r), {r}) IN
        IF paths = {} THEN Fails /\ UNCHANGED <<db, proj, events>>
        ELSE \E p \in paths :
          /\ proj' = Renamed(proj, db.maps[r].path, p)
          /\ \/ /\ db' = Remapped(db, r, p)
                /\ pass' = [pass EXCEPT !.todo = @ \ {r},
                     !.stable = IF r \in FolderRow THEN @ \cup {r} ELSE @]
                /\ UNCHANGED events
             \/ p # db.maps[r].path /\ EndsWithin /\ UNCHANGED db
  BY DEF Apply
<1>h. UNCHANGED <<made, removed, touched, raced, marker>>
  BY DEF KeepsHistory
<1>3. CASE Fails /\ UNCHANGED <<db, proj, events>>
  <2>1. FilesKept' /\ FoldersKept'
    BY <1>h, <1>3, SameKept DEF ContentInv
  <2> QED BY <1>3, <2>1, EndWithinKept
<1>4. ASSUME NEW p \in Allocated(dir, NameOf(r), {r}),
             proj' = Renamed(proj, db.maps[r].path, p),
             \/ /\ db' = Remapped(db, r, p)
                /\ pass' = [pass EXCEPT !.todo = @ \ {r},
                     !.stable = IF r \in FolderRow THEN @ \cup {r} ELSE @]
             \/ EndsWithin /\ UNCHANGED db
      PROVE  ContentInv'
  <2> DEFINE from == db.maps[r].path
  <2>1. dir \in {Root} \cup Name /\ (FolderOf(r) = Root <=> dir = Root)
    <3> DEFINE q == <<dir, dir>>
    <3>1. q[1] = dir
      OBVIOUS
    <3> HIDE DEF q
    <3> QED BY <3>1, <1>0, <1>1, DirOfFacts
  <2>2. p \in Path /\ p[1] = dir /\ NoConflict(p, {r})
    BY <1>1, <2>1, AllocatedFacts
  <2>3. p \in DOMAIN proj => p = from
    BY <2>2 DEF NoConflict
  <2>4. from \in DOMAIN proj /\ proj[from] = db.maps[r].node
    BY DEF Applicable, InPlace
  <2>5. proj[from] \in DirNode => p[1] = Root
    BY <1>1, <2>1, <2>2, <2>4 DEF Applicable
  <2>6. Range(proj') = Range(proj)
    BY <1>0, <1>4, <2>2, <2>3, <2>4, <2>5, RenamedRange
  <2>7. DirsOnce(proj')
    BY <1>4, DirsRenamed DEF ContentInv, FoldersKept
  <2>8. /\ db'.files = db.files /\ db'.folders = db.folders /\ DOMAIN db'.maps = DOMAIN db.maps
        /\ \A s \in DOMAIN db.maps : db'.maps[s].node = db.maps[s].node
    BY <1>0, <1>4, <2>2, RemappedIs
  <2>9. FilesKept'
    <3>1. MappedFiles(db') \subseteq MappedFiles(db)
          /\ \A s \in MappedFiles(db') : db'.maps[s].node = db.maps[s].node
      BY <2>8 DEF MappedFiles
    <3>2. HistoryGrows /\ NodesStay
      BY <1>h, <2>6 DEF HistoryGrows, NodesStay
    <3> QED BY <1>h, <2>8, <3>1, <3>2, MapsGone DEF ContentInv
  <2>10. FoldersKept'
    <3>1. DirsHeld /\ TouchedStay
      BY <1>h, <2>6, TouchedGrows DEF DirsHeld
    <3>2. \A s \in MappedFolders(db') : FolderKept(s)
      BY <2>8 DEF FolderKept, MappedFolders
    <3> QED BY <1>0, <1>h, <2>7, <3>1, <3>2, FoldersStep DEF ContentInv
  <2>11. CASE EndsWithin /\ UNCHANGED db
    BY <2>9, <2>10, <2>11, EndWithinKept
  <2>12. CASE pass' = [pass EXCEPT !.todo = @ \ {r},
                        !.stable = IF r \in FolderRow THEN @ \cup {r} ELSE @]
    <3> DEFINE todo == pass.todo \ {r}
               stable == IF r \in FolderRow THEN pass.stable \cup {r} ELSE pass.stable
    <3>1. Settles(todo, stable)
      BY <2>12 DEF Settles
    <3> HIDE DEF todo, stable
    <3>2. pass'.at = pass.at
      BY <1>0, <3>1, PassSettles
    <3> QED BY <1>h, <2>9, <2>10, <3>2, ApplyingKept DEF ContentInv
  <2> QED BY <1>4, <2>11, <2>12
<1> QED BY <1>2, <1>3, <1>4

LEMMA ApplyEntryKeeps ==
  ASSUME SmbInv, ContentInv, NEW r \in FileRow \cup FolderRow, ApplyEntry(r)
  PROVE  ContentInv'
<1>0. At("apply") /\ r \in pass.todo /\ KeepsHistory /\ UNCHANGED <<marker, removed>>
      /\ IsPass(pass)
  BY SmbKinds DEF ApplyEntry
<1>1. CASE UNCHANGED <<db, proj>>
  <2>1. FilesKept' /\ FoldersKept'
    BY <1>0, <1>1, SameKept DEF KeepsHistory, ContentInv
  <2>2. CASE Did(r)
    <3>1. pass'.at = pass.at
      BY <1>0, <2>2, PassDid
    <3> QED BY <1>0, <2>1, <3>1, ApplyingKept DEF ContentInv
  <2>3. CASE Fails
    BY <2>1, <2>3, EndWithinKept
  <2>4. CASE Applicable(r) /\ Apply(r)
    BY <1>0, <2>4, ApplyKeeps
  <2> QED BY <2>2, <2>3, <2>4 DEF ApplyEntry
<1>2. CASE Applicable(r) /\ Apply(r)
  BY <1>0, <1>2, ApplyKeeps
<1> QED BY <1>1, <1>2 DEF ApplyEntry

\* Mappings of files change their nodes, those of folders are as they were.
LEMMA NodeSetIs ==
  ASSUME NEW d, TablesGood(d), NEW r \in DOMAIN d.maps \cap FileRow, NEW n \in FileNode, NEW e,
         e = [d EXCEPT !.maps[r].node = n]
  PROVE  /\ e.files = d.files /\ e.folders = d.folders /\ DOMAIN e.maps = DOMAIN d.maps
         /\ e.maps[r].node = n /\ \A s \in DOMAIN d.maps \ {r} : e.maps[s] = d.maps[s]
<1> DEFINE v == [d.maps[r] EXCEPT !.node = n]
           M == [d.maps EXCEPT ![r] = v]
<1>1. e = [d EXCEPT !.maps = M]
  OBVIOUS
<1>2. d.maps[r] \in Mapping
  BY TablesFields DEF TablesGood
<1>3. v.node = n
  BY <1>2 DEF Mapping
<1> HIDE DEF v
<1>4. /\ DOMAIN M = DOMAIN d.maps /\ M[r] = v
      /\ \A s \in DOMAIN d.maps \ {r} : M[s] = d.maps[s]
  OBVIOUS
<1> HIDE DEF M
<1>5. e.maps = M
  BY <1>1 DEF TablesGood, Tables
<1> QED BY <1>3, <1>4, <1>5, NodeSet

\* The mapping of one file is set, or made.
FileMappingSet(r) ==
  /\ db'.folders = db.folders /\ DOMAIN db.maps \subseteq DOMAIN db'.maps
  /\ DOMAIN db'.maps \subseteq DOMAIN db.maps \cup {r}
  /\ \A s \in DOMAIN db.maps \ {r} : db'.maps[s] = db.maps[s]

LEMMA OtherFolders ==
  ASSUME NEW r \in FileRow, FileMappingSet(r)
  PROVE  \A s \in MappedFolders(db') : FolderKept(s) /\ db'.maps[s].path = db.maps[s].path
<1> SUFFICES ASSUME NEW s \in MappedFolders(db')
             PROVE  FolderKept(s) /\ db'.maps[s].path = db.maps[s].path
  OBVIOUS
<1>1. s # r /\ s \in DOMAIN db'.maps /\ s \in FolderRow
  BY SmbSyncAssumption DEF MappedFolders
<1> QED BY <1>1 DEF FileMappingSet, FolderKept, MappedFolders

LEMMA RelinkKeeps ==
  ASSUME SmbInv, ContentInv, NEW r \in FileRow, Relink(r)
  PROVE  ContentInv'
<1> DEFINE p == db.maps[r].path
           n == db.files[r].blob
           was == db.maps[r].node
<1>0. /\ At("apply") /\ Applicable(r) /\ n \notin {NoData, was}
      /\ UNCHANGED <<made, removed, touched, raced, marker>>
  BY DEF Relink, KeepsHistory
<1>1. /\ TablesGood(db) /\ IsPass(pass) /\ r \in DOMAIN db.maps \cap FileRow /\ r \in DOMAIN db.files
      /\ n \in FileNode /\ p \in DOMAIN proj /\ proj[p] \notin DirNode /\ proj[p] = was
  BY <1>0, ApplicableFile DEF Applicable, InPlace
<1>2. {n, was} \subseteq Lost
  BY <1>0, <1>1 DEF ContentInv, FilesKept, SameData, MappedFiles
<1>3. \/ /\ proj' = [proj EXCEPT ![p] = n]
         /\ db' = [db EXCEPT !.maps[r].node = n]
         /\ Did(r)
      \/ EndsWithin /\ proj' = Without(proj, {p}) /\ UNCHANGED db
  BY DEF Relink
<1>4. HistoryGrows /\ Lost' = Lost /\ TouchedStay
  BY <1>0, TouchedGrows DEF HistoryGrows, Lost
<1> HIDE DEF p, n, was
<1>5. /\ DOMAIN proj' \subseteq DOMAIN proj /\ DOMAIN proj \ {p} \subseteq DOMAIN proj'
      /\ \A q \in DOMAIN proj \ {p} : proj'[q] = proj[q]
      /\ p \in DOMAIN proj' => proj'[p] = n
  BY <1>3 DEF Without, Restrict
<1>6. NodesStay
  <2> SUFFICES ASSUME NEW x \in FileNode, NEW q \in DOMAIN proj, proj[q] = x
               PROVE  x \in Range(proj') \cup Lost'
    BY DEF NodesStay, Range
  <2>1. CASE q = p
    BY <1>1, <1>2, <1>4, <2>1
  <2>2. CASE q # p
    BY <1>5, <2>2 DEF Range
  <2> QED BY <2>1, <2>2
<1>7. DirsStay
  BY <1>1, <1>5 DEF DirsStay
<1>8. DirsOnce(proj')
  <2>1. n \notin DirNode
    BY <1>1, SmbSyncAssumption
  <2>2. ASSUME NEW q \in DOMAIN proj', proj'[q] \in DirNode PROVE q \in DOMAIN proj /\ q # p
    BY <1>5, <2>1, <2>2
  <2> QED BY <1>5, <2>2 DEF ContentInv, FoldersKept, DirsOnce
<1>9. CASE EndsWithin /\ UNCHANGED db
  <2>1. FilesKept'
    BY <1>0, <1>4, <1>6, <1>9, MapsGone DEF ContentInv
  <2>2. FoldersKept'
    BY <1>0, <1>1, <1>4, <1>7, <1>8, <1>9, StaysHeld, SameFolders, FoldersStep DEF ContentInv
  <2> QED BY <1>9, <2>1, <2>2, EndWithinKept
<1>10. CASE /\ proj' = [proj EXCEPT ![p] = n]
            /\ db' = [db EXCEPT !.maps[r].node = n]
            /\ Did(r)
  <2>1. /\ db'.files = db.files /\ db'.folders = db.folders /\ DOMAIN db'.maps = DOMAIN db.maps
        /\ db'.maps[r].node = n /\ \A s \in DOMAIN db.maps \ {r} : db'.maps[s] = db.maps[s]
    BY <1>1, <1>10, NodeSetIs
  <2>2. FilesKept'
    <3>1. n \in Range(proj')
      BY <1>1, <1>10 DEF Range
    <3>2. \A s \in DOMAIN db.files : RowKept(s)
      BY <2>1 DEF RowKept
    <3>3. \A s \in MappedFiles(db') : MapKept(s) \/ MapMade(s)
      <4> TAKE s \in MappedFiles(db')
      <4>1. CASE s = r
        <5>1. n = db.files[r].blob
          BY DEF n
        <5> QED BY <1>0, <2>1, <3>1, <4>1, <5>1 DEF MapMade, NodeHeld, SameData
      <4>2. CASE s # r
        BY <2>1, <4>2 DEF MapKept, MappedFiles
      <4> QED BY <4>1, <4>2
    <3>4. made' \subseteq FileNode /\ made' \subseteq made \cup Range(proj') \cup Blobs(db')
      BY <1>0 DEF ContentInv, FilesKept
    <3> QED BY <1>0, <1>1, <1>4, <1>6, <3>2, <3>3, <3>4, FilesStep DEF ContentInv
  <2>3. FoldersKept'
    <3>1. \A s \in MappedFolders(db') : FolderKept(s)
      BY <2>1, OtherFolders DEF FileMappingSet
    <3> QED BY <1>0, <1>1, <1>4, <1>7, <1>8, <3>1, StaysHeld, FoldersStep DEF ContentInv
  <2>4. pass'.at = pass.at
    BY <1>1, <1>10, PassDid
  <2> QED BY <1>0, <2>2, <2>3, <2>4, ApplyingKept DEF ContentInv
<1> QED BY <1>3, <1>9, <1>10

LEMMA ApplyDuringSaveKeeps ==
  ASSUME SmbInv, ContentInv, NEW r \in FileRow, NEW n \in FileNode, ApplyDuringSave(r, n)
  PROVE  ContentInv'
<1> DEFINE p == db.maps[r].path
<1>0. /\ At("apply") /\ Applicable(r) /\ SmbWrite(p, n) /\ db.files[r].blob = db.maps[r].node
      /\ db' = [db EXCEPT !.maps[r].node = n] /\ RacesWithPass /\ UNCHANGED marker
  BY DEF ApplyDuringSave
<1>1. /\ TablesGood(db) /\ IsTree(proj) /\ IsPass(pass) /\ r \in DOMAIN db.maps \cap FileRow
      /\ r \in DOMAIN db.files /\ p \in Path /\ p \in DOMAIN proj
      /\ proj[p] = db.files[r].blob /\ proj[p] \notin DirNode
  BY <1>0, ApplicableFile DEF Applicable, InPlace
<1>2. SmbChange
  BY <1>0, <1>1 DEF SmbChange
<1>3. MadeStay /\ NodesStay
  BY <1>1, <1>2, ChangeFiles
<1>4. DirsOnce(proj') /\ DirsStay /\ TouchedStay
  BY <1>1, <1>2, ChangeDirs DEF ContentInv, FoldersKept
<1>5. /\ db'.files = db.files /\ db'.folders = db.folders /\ DOMAIN db'.maps = DOMAIN db.maps
      /\ db'.maps[r].node = n /\ \A s \in DOMAIN db.maps \ {r} : db'.maps[s] = db.maps[s]
  BY <1>0, <1>1, NodeSetIs
<1>6. HistoryGrows
  BY <1>0, <1>3, RacesAgree DEF HistoryGrows, MadeStay
<1>7. proj' = With(proj, p, n) /\ n \in Range(proj')
  <2>1. proj' = With(proj, p, n)
    BY <1>0 DEF SmbWrite
  <2> QED BY <2>1 DEF With, Range
\* What was there is overwritten, and what is there now raced with the pass.
<1>8. {proj[p], n} \subseteq Lost'
  <2>1. proj[p] \in FileNode
    BY <1>1, EntryFacts
  <2>2. proj[p] \in removed'
    BY <1>0, <1>1, <2>1 DEF SmbWrite, NodesOf
  <2>3. CASE n # proj[p]
    <3>1. p \in DOMAIN proj' /\ proj'[p] = n
      BY <1>7 DEF With
    <3>2. EntryAt(proj, p) = {proj[p]} /\ EntryAt(proj', p) = {n}
      BY <1>1, <3>1 DEF EntryAt
    <3>3. EntryStays(p)
      BY <1>0, RacesAgree
    <3> QED BY <2>1, <2>3, <3>2, <3>3 DEF EntryStays
  <2> QED BY <2>2, <2>3 DEF Lost
<1> HIDE DEF p
<1>9. FilesKept'
  <2>1. \A s \in DOMAIN db.files : RowKept(s)
    BY <1>5 DEF RowKept
  <2>2. \A s \in MappedFiles(db') : MapKept(s) \/ MapMade(s)
    <3> TAKE s \in MappedFiles(db')
    <3>1. CASE s = r
      BY <1>1, <1>5, <1>7, <1>8, <3>1 DEF MapMade, NodeHeld, SameData
    <3>2. CASE s # r
      BY <1>5, <3>2 DEF MapKept, MappedFiles
    <3> QED BY <3>1, <3>2
  <2>3. made' \subseteq FileNode /\ made' \subseteq made \cup Range(proj') \cup Blobs(db')
    BY <1>3 DEF MadeStay, ContentInv, FilesKept
  <2> QED BY <1>0, <1>1, <1>3, <1>6, <2>1, <2>2, <2>3, FilesStep DEF ContentInv
<1>10. FoldersKept'
  <2>1. \A s \in MappedFolders(db') : FolderKept(s)
    BY <1>5, OtherFolders DEF FileMappingSet
  <2> QED BY <1>0, <1>1, <1>4, <2>1, StaysHeld, FoldersStep DEF ContentInv
<1>11. pass'.at = pass.at
  <2> DEFINE todo == pass.todo \ {r}
  <2>1. Disturbs(todo)
    BY DEF ApplyDuringSave, Disturbs
  <2> HIDE DEF todo
  <2> QED BY <1>1, <2>1, PassSaved
<1> QED BY <1>0, <1>9, <1>10, <1>11, ApplyingKept DEF ContentInv

-----------------------------------------------------------------------------
(* The scan.                                                                 *)

\* What a scan knows of the projection that it leaves behind.
ScanFaithful(scan) ==
  /\ \A p, q \in Dirs(scan) : scan[p] = scan[q] => p = q \/ scan[p] \in touched'
  /\ \A p \in Dirs(scan) : (p \in DOMAIN proj' /\ proj'[p] = scan[p]) \/ scan[p] \in touched'
  /\ \A n \in DirNode \ touched' : n \in Range(proj) => \E p \in Dirs(scan) : scan[p] = n
  /\ \A p \in Leaves(scan) : \/ EntryAt(proj', p) = {scan[p]}
                             \/ ({scan[p]} \cup EntryAt(proj', p)) \cap FileNode \subseteq Lost'

LEMMA ScannedKeeps ==
  ASSUME SmbInv, ContentInv, FilesKept', FoldersKept', UNCHANGED <<db, marker>>, At("apply"),
         TouchedStay, NEW scan, NEW calm, Scanned(scan, calm), ScanFaithful(scan)
  PROVE  ContentInv'
<1>1. CASE pass' = Rest("failed", calm)
  <2>1. pass'.at = "failed"
    BY <1>1, RestIs
  <2> QED BY <2>1, EndKept
<1>2. CASE Within(scan)
  <2> DEFINE todo == Dirs(scan)
             stable == StableRows(db, scan)
  <2>1. pass' = [Rest("movefolders", calm) EXCEPT !.scan = scan, !.todo = todo, !.stable = stable]
    BY <1>2 DEF Scanned
  <2>a. todo = Dirs(scan) /\ stable = StableRows(db, scan)
    OBVIOUS
  <2> HIDE DEF todo, stable
  <2>2. pass' = [at |-> "movefolders", scan |-> scan, todo |-> todo, seen |-> {},
                 stable |-> stable, calm |-> calm]
    BY <2>1 DEF Rest
  <2>3. /\ pass'.at = "movefolders" /\ pass'.scan = scan /\ pass'.todo = todo
        /\ pass'.stable = stable
    BY <2>2
  <2>4. StageGood'
    BY <2>3 DEF ContentInv, StageGood, At, Comparing
  <2>5. ScanAgrees'
    BY <2>3 DEF ScanAgrees, Compared, Agrees, ScanFaithful, At, Leaves
  <2>6. ASSUME NEW r \in FolderRow, Calm(r)' PROVE Found(r)'
    <3>1. r \in DOMAIN db.maps /\ r \in MappedFolders(db)
          /\ db.maps[r].node \in DirNode \ touched'
      BY <2>6, SmbKinds, MappingFacts DEF Calm, MappedFolders
    <3>2. db.maps[r].node \in Range(proj)
      <4>1. r \in DOMAIN db.folders
        BY <3>1 DEF SmbInv, PassGood, At, Synchronizing
      <4>2. marker /\ Calm(r)
        BY <3>1 DEF ContentInv, StageGood, At, Calm, TouchedStay
      <4> QED BY <3>1, <4>1, <4>2 DEF ContentInv, FoldersKept
    <3>3. PICK p \in Dirs(scan) : scan[p] = db.maps[r].node
      BY <3>1, <3>2 DEF ScanFaithful
    <3>4. CASE r \in stable
      <4>1. Sees(r)'
        BY <2>3, <2>a, <3>4 DEF Sees, StableRows
      <4> QED BY <2>3, <4>1 DEF Found, At, Comparing
    <3>5. CASE r \notin stable
      BY <2>3, <2>a, <3>3, <3>5 DEF Found, At, Comparing
    <3> QED BY <3>4, <3>5
  <2>7. ScanKept'
    BY <2>3, <2>6 DEF ScanKept, DirThere, ScanFaithful, At, Dirs
  <2> QED BY <2>4, <2>5, <2>7 DEF ContentInv
<1> QED BY <1>1, <1>2 DEF Scanned

LEMMA ScanKeeps ==
  ASSUME SmbInv, ContentInv, Scan
  PROVE  ContentInv'
<1>1. /\ At("apply") /\ Scanned(proj, pass.calm)
      /\ UNCHANGED <<db, proj, marker, made, removed, touched, raced>>
  BY DEF Scan, KeepsHistory
<1>2. FilesKept' /\ FoldersKept'
  BY <1>1, SameKept DEF ContentInv
<1>3. ScanFaithful(proj)
  <2>1. \A n \in DirNode : n \in Range(proj) => \E p \in Dirs(proj) : proj[p] = n
    BY DEF Range, Dirs
  <2>2. \A p \in Leaves(proj) : EntryAt(proj', p) = {proj[p]}
    BY <1>1 DEF EntryAt, Leaves
  <2>3. \A p, q \in Dirs(proj) : proj[p] = proj[q] => p = q
    BY DEF ContentInv, FoldersKept, DirsOnce, Dirs
  <2> QED BY <1>1, <2>1, <2>2, <2>3 DEF ScanFaithful, Dirs
<1> QED BY <1>1, <1>2, <1>3, TouchedGrows, ScannedKeeps

LEMMA ScanDuringChangeKeeps ==
  ASSUME SmbInv, ContentInv, ScanDuringChange
  PROVE  ContentInv'
<1>1. At("apply") /\ SmbChange /\ RacesWithPass /\ UNCHANGED <<db, marker>>
  BY DEF ScanDuringChange
<1>2. PICK scan \in Scans(proj, proj') : Scanned(scan, FALSE)
  BY DEF ScanDuringChange
<1>3. MadeStay /\ NodesStay /\ IsTree(proj) /\ IsTree(proj')
  BY <1>1, SmbKinds, ChangeFiles, ChangeTree
<1>4. DirsOnce(proj) /\ DirsOnce(proj') /\ DirsStay /\ TouchedStay
  BY <1>1, <1>3, ChangeDirs DEF ContentInv, FoldersKept
<1>5. HistoryGrows
  BY <1>1, <1>3, RacesAgree DEF HistoryGrows, MadeStay
<1>6. FilesKept'
  <2>1. made' \subseteq FileNode /\ made' \subseteq made \cup Range(proj') \cup Blobs(db')
    BY <1>3 DEF MadeStay, ContentInv, FilesKept
  <2> QED BY <1>1, <1>3, <1>5, <2>1, SmbKinds, SameTables, FilesStep DEF ContentInv
<1>7. FoldersKept'
  BY <1>1, <1>4, SmbKinds, StaysHeld, SameFolders, FoldersStep DEF ContentInv
<1>8. Sighted(proj, proj', scan)
  BY DEF Scans
<1>9. ASSUME NEW p \in DOMAIN scan
      PROVE  \/ p \in DOMAIN proj /\ scan[p] = proj[p]
             \/ p \in DOMAIN proj' /\ scan[p] = proj'[p]
  BY <1>8 DEF Sighted
<1>10. ScanFaithful(scan)
  <2>1. ASSUME NEW p \in Dirs(scan)
        PROVE  (p \in DOMAIN proj' /\ proj'[p] = scan[p]) \/ scan[p] \in touched'
    BY <1>4, <1>9 DEF DirsStay, Dirs
  <2>2. \A p, q \in Dirs(scan) : scan[p] = scan[q] => p = q \/ scan[p] \in touched'
    BY <1>4, <2>1 DEF DirsOnce, Dirs
  <2>3. ASSUME NEW n \in DirNode \ touched', n \in Range(proj)
        PROVE  \E p \in Dirs(scan) : scan[p] = n
    <3>1. PICK p \in DOMAIN proj : proj[p] = n
      BY <2>3 DEF Range
    <3>2. p \in DOMAIN proj' /\ proj'[p] = n /\ p[1] = Root
      BY <1>3, <1>4, <3>1, EntryFacts DEF DirsStay
    <3>3. p \in DOMAIN scan
      BY <1>8, <3>1, <3>2 DEF Sighted
    <3> QED BY <1>9, <3>1, <3>2, <3>3 DEF Dirs
  <2>4. ASSUME NEW p \in Leaves(scan)
        PROVE  \/ EntryAt(proj', p) = {scan[p]}
               \/ ({scan[p]} \cup EntryAt(proj', p)) \cap FileNode \subseteq Lost'
    <3>1. p \in DOMAIN scan
      BY DEF Leaves
    <3>2. CASE p \in DOMAIN proj' /\ scan[p] = proj'[p]
      BY <3>2 DEF EntryAt
    <3>3. CASE p \in DOMAIN proj /\ scan[p] = proj[p]
      <4>1. EntryAt(proj, p) = {scan[p]} /\ EntryStays(p)
        BY <1>1, <3>3, RacesAgree DEF EntryAt
      <4> QED BY <4>1 DEF EntryStays
    <3> QED BY <1>9, <3>1, <3>2, <3>3
  <2> QED BY <2>1, <2>2, <2>3, <2>4 DEF ScanFaithful
<1> QED BY <1>1, <1>2, <1>4, <1>6, <1>7, <1>10, ScannedKeeps

\* The pass stays at its stage.
LEMMA StageStays ==
  ASSUME StageGood, pass'.at = pass.at, UNCHANGED marker,
         At("mark") => DOMAIN db'.maps = {},
         At("deletefiles") => pass'.todo \subseteq MappedFiles(db')
  PROVE  StageGood'
BY DEF StageGood, At, Comparing

LEMMA SmbUserKeeps ==
  ASSUME SmbInv, ContentInv, SmbUser
  PROVE  ContentInv'
<1>1. FilesKept' /\ ScanAgrees' /\ FoldersKept' /\ ScanKept'
  BY SmbUserFiles, SmbUserFolders DEF ContentInv
<1>2. UNCHANGED <<db, marker>> /\ pass'.at = pass.at /\ pass'.todo = pass.todo
  BY PassDisturbed DEF SmbUser, Disturbed, SmbInv, PassGood
<1>3. StageGood'
  BY <1>2 DEF ContentInv, StageGood, At, Comparing
<1> QED BY <1>1, <1>3 DEF ContentInv

-----------------------------------------------------------------------------
(* From one stage to the next.                                               *)

LEMMA StageBegins ==
  ASSUME SmbInv, ContentInv, UNCHANGED <<db, proj, marker, made, removed, touched, raced>>,
         pass'.scan = pass.scan, pass.at \in Comparing, pass'.at \in Comparing \ {"movefolders"},
         Compared' \subseteq Compared,
         pass'.at = "deletefiles" => pass'.todo \subseteq MappedFiles(db),
         pass'.at = "folders" => \A p \in pass'.todo : DirThere(p),
         \A r \in FolderRow : Calm(r) => Found(r)'
  PROVE  ContentInv'
<1>1. FilesKept' /\ FoldersKept'
  BY SameKept DEF ContentInv
<1>2. StageGood'
  BY DEF ContentInv, StageGood, At, Comparing
<1>3. ScanAgrees'
  BY SameProjection, ScanStep DEF ContentInv, HistoryGrows
<1>4. ScanKept'
  <2>1. \A p, q \in Dirs(pass.scan) :
          pass.scan[p] = pass.scan[q] => p = q \/ pass.scan[p] \in touched
    BY DEF ContentInv, ScanKept
  <2>2. pass'.at = "folders" => \A p \in pass'.todo : DirThere(p)'
    BY DEF DirThere
  <2>3. \A r \in FolderRow : Calm(r)' => Calm(r)
    BY DEF Calm
  <2> QED BY <2>1, <2>2, <2>3 DEF ScanKept, At, Dirs, Comparing
<1> QED BY <1>1, <1>2, <1>3, <1>4 DEF ContentInv

LEMMA BeginFoldersKeeps ==
  ASSUME SmbInv, ContentInv, BeginFolders
  PROVE  ContentInv'
<1>1. /\ At("movefolders") /\ pass.todo = {}
      /\ UNCHANGED <<db, proj, marker, made, removed, touched, raced>>
      /\ pass'.at = "folders" /\ pass'.todo = Dirs(pass.scan) /\ pass'.scan = pass.scan
  BY SmbKinds, PassGoes DEF BeginFolders, KeepsHistory
<1>2. \A p \in Dirs(pass.scan) : DirThere(p)
  BY <1>1 DEF ContentInv, ScanKept
<1>3. ASSUME NEW r \in FolderRow, Calm(r) PROVE Found(r)'
  <2>1. Sees(r)
    BY <1>1, <1>3 DEF ContentInv, ScanKept, Found
  <2>2. db.maps[r].node \in DirNode \ touched
    BY <1>3, SmbKinds, MappingFacts DEF Calm, MappedFolders
  <2>3. db.maps[r].path \in Dirs(pass.scan)
    BY <2>1, <2>2 DEF Sees, Dirs
  <2>4. InPlace(r)
    BY <1>2, <2>1, <2>2, <2>3 DEF Sees, DirThere, InPlace
  <2>5. Sees(r)' /\ InPlace(r)'
    BY <1>1, <2>1, <2>4 DEF Sees, InPlace
  <2> QED BY <1>1, <2>3, <2>5 DEF Found, At
<1>4. Compared' \subseteq Compared
  BY <1>1 DEF Compared, At, Leaves
<1>5. pass.at \in Comparing /\ pass'.at \in Comparing \ {"movefolders"}
  BY <1>1 DEF At, Comparing
<1> QED BY <1>1, <1>2, <1>3, <1>4, <1>5, StageBegins

LEMMA BeginMovesKeeps ==
  ASSUME SmbInv, ContentInv, BeginMoves
  PROVE  ContentInv'
<1> DEFINE todo == Leaves(pass.scan)
           stable == StableRows(db, pass.scan)
<1>1. /\ At("folders") /\ pass.todo = {} /\ Moves("movefiles", todo, stable)
      /\ UNCHANGED <<db, proj, marker, made, removed, touched, raced>>
  BY DEF BeginMoves, KeepsHistory, Moves
<1> HIDE DEF todo, stable
<1>2. pass'.at = "movefiles" /\ pass'.scan = pass.scan /\ pass'.seen = pass.seen
  BY <1>1, SmbKinds, PassMoves
<1>3. ASSUME NEW r \in FolderRow, Calm(r) PROVE Found(r)'
  <2>1. Sees(r) /\ r \in pass.seen
    BY <1>1, <1>3 DEF ContentInv, ScanKept, Found, At, Comparing
  <2> QED BY <1>1, <1>2, <2>1 DEF Found, At, Sees
<1>4. Compared' \subseteq Compared
  BY <1>1, <1>2 DEF Compared, At, Leaves
<1>5. pass.at \in Comparing /\ pass'.at \in Comparing \ {"movefolders"}
  BY <1>1, <1>2 DEF At, Comparing
<1> QED BY <1>1, <1>2, <1>3, <1>4, <1>5, StageBegins

LEMMA BeginFilesKeeps ==
  ASSUME SmbInv, ContentInv, BeginFiles
  PROVE  ContentInv'
<1>1. /\ At("movefiles") /\ UNCHANGED <<db, proj, marker, made, removed, touched, raced>>
      /\ pass'.at = "files" /\ pass'.todo = Leaves(pass.scan) /\ pass'.scan = pass.scan
      /\ pass'.seen = pass.seen
  BY SmbKinds, PassGoes DEF BeginFiles, KeepsHistory
<1>2. ASSUME NEW r \in FolderRow, Calm(r) PROVE Found(r)'
  <2>1. Sees(r) /\ r \in pass.seen
    BY <1>1, <1>2 DEF ContentInv, ScanKept, Found, At, Comparing
  <2> QED BY <1>1, <2>1 DEF Found, At, Sees
<1>3. Compared' \subseteq Compared
  BY <1>1 DEF Compared, At
<1>4. pass.at \in Comparing /\ pass'.at \in Comparing \ {"movefolders"}
  BY <1>1 DEF At, Comparing
<1> QED BY <1>1, <1>2, <1>3, <1>4, StageBegins

LEMMA BeginDeletionsKeeps ==
  ASSUME SmbInv, ContentInv, BeginDeletions
  PROVE  ContentInv'
<1> DEFINE todo == MappedFiles(db) \ pass.seen
<1>1. /\ At("files") /\ UNCHANGED <<db, proj, marker, made, removed, touched, raced>>
      /\ Goes("deletefiles", todo) /\ todo \subseteq MappedFiles(db)
  BY DEF BeginDeletions, KeepsHistory
<1> HIDE DEF todo
<1>2. /\ pass'.at = "deletefiles" /\ pass'.todo = todo /\ pass'.scan = pass.scan
      /\ pass'.seen = pass.seen
  BY <1>1, SmbKinds, PassGoes
<1>3. ASSUME NEW r \in FolderRow, Calm(r) PROVE Found(r)'
  <2>1. Sees(r) /\ r \in pass.seen
    BY <1>1, <1>3 DEF ContentInv, ScanKept, Found, At, Comparing
  <2> QED BY <1>1, <1>2, <2>1 DEF Found, At, Sees
<1>4. Compared' \subseteq Compared
  BY <1>2 DEF Compared, At
<1>5. pass.at \in Comparing /\ pass'.at \in Comparing \ {"movefolders"}
  BY <1>1, <1>2 DEF At, Comparing
<1> QED BY <1>1, <1>2, <1>3, <1>4, <1>5, StageBegins

LEMMA BeginFolderDeletionsKeeps ==
  ASSUME SmbInv, ContentInv, BeginFolderDeletions
  PROVE  ContentInv'
<1> DEFINE todo == MappedFolders(db) \ pass.seen
<1>1. /\ At("deletefiles") /\ UNCHANGED <<db, proj, marker, made, removed, touched, raced>>
      /\ Goes("deletefolders", todo) /\ \A r \in pass.seen : r \notin todo
  BY DEF BeginFolderDeletions, KeepsHistory
<1> HIDE DEF todo
<1>2. /\ pass'.at = "deletefolders" /\ pass'.todo = todo /\ pass'.scan = pass.scan
  BY <1>1, SmbKinds, PassGoes
<1>3. ASSUME NEW r \in FolderRow, Calm(r) PROVE Found(r)'
  <2>1. Sees(r) /\ r \in pass.seen
    BY <1>1, <1>3 DEF ContentInv, ScanKept, Found, At, Comparing
  <2> QED BY <1>1, <1>2, <2>1 DEF Found, At, Sees
<1>4. Compared' \subseteq Compared
  BY <1>2 DEF Compared, At
<1>5. pass.at \in Comparing /\ pass'.at \in Comparing \ {"movefolders"}
  BY <1>1, <1>2 DEF At, Comparing
<1> QED BY <1>1, <1>2, <1>3, <1>4, <1>5, StageBegins

LEMMA BeginProjectKeeps ==
  ASSUME SmbInv, ContentInv, BeginProject
  PROVE  ContentInv'
<1> DEFINE todo == Rows(db) \ DOMAIN db.maps
<1>1. /\ At("deletefolders") /\ UNCHANGED <<db, proj, marker, made, removed, touched, raced>>
      /\ Goes("project", todo)
  BY DEF BeginProject, KeepsHistory
<1> HIDE DEF todo
<1>2. pass'.at = "project"
  BY <1>1, SmbKinds, PassGoes
<1>3. FilesKept' /\ FoldersKept'
  BY <1>1, SameKept DEF ContentInv
<1>4. StageGood'
  BY <1>1, <1>2 DEF ContentInv, StageGood, At, Comparing
<1> QED BY <1>2, <1>3, <1>4, EarlyKept DEF Comparing

LEMMA EndPassKeeps ==
  ASSUME SmbInv, ContentInv, EndPass
  PROVE  ContentInv'
<1> DEFINE calm == pass.calm
<1>1. /\ UNCHANGED <<db, proj, marker, made, removed, touched, raced>>
      /\ pass' = Rest("done", calm)
  BY DEF EndPass, KeepsHistory
<1> HIDE DEF calm
<1>2. pass'.at = "done"
  BY <1>1, RestIs
<1>3. FilesKept' /\ FoldersKept'
  BY <1>1, SameKept DEF ContentInv
<1> QED BY <1>2, <1>3, EndKept

-----------------------------------------------------------------------------
(* Moved folders.                                                            *)

LEMMA MoveFolderKeeps ==
  ASSUME SmbInv, ContentInv, NEW p \in Path, MoveFolder(p)
  PROVE  ContentInv'
<1>0. /\ TablesGood(db) /\ At("movefolders") /\ p \in Dirs(pass.scan) /\ p \in pass.todo
      /\ UNCHANGED <<proj, marker, made, removed, touched, raced>> /\ IsPass(pass)
  BY SmbKinds DEF MoveFolder, SmbInv, PassGood, At, KeepsHistory
<1>1. HistoryGrows /\ NodesStay
  BY <1>0, SameProjection DEF HistoryGrows
<1>2. CASE Fails /\ UNCHANGED db
  <2>1. FilesKept' /\ FoldersKept'
    BY <1>0, <1>2, SameKept DEF ContentInv
  <2> QED BY <1>2, <2>1, EndWithinKept
<1>3. ASSUME Did(p), FilesKept', FoldersKept', \A r \in FolderRow : Calm(r)' => Found(r)'
      PROVE  ContentInv'
  <2>1. pass'.at = pass.at /\ pass'.scan = pass.scan /\ pass'.todo = pass.todo \ {p}
    BY <1>0, <1>3, PassDid
  <2>2. StageGood'
    BY <1>0, <2>1, StageStays DEF ContentInv, At
  <2>3. ScanAgrees'
    BY <1>0, <1>1, <2>1, SameProjection, ComparedShrinks, ScanStep DEF ContentInv
  <2>4. ScanKept'
    <3>1. \A q \in Dirs(pass.scan) : DirThere(q)'
      BY <1>0, <2>1 DEF ContentInv, ScanKept, DirThere
    <3>2. \A q, t \in Dirs(pass.scan) :
            pass.scan[q] = pass.scan[t] => q = t \/ pass.scan[q] \in touched
      BY <1>0 DEF ContentInv, ScanKept, At, Comparing
    <3> QED BY <1>0, <1>3, <2>1, <3>1, <3>2 DEF ScanKept, At, Dirs
  <2> QED BY <1>3, <2>2, <2>3, <2>4 DEF ContentInv
<1>4. CASE /\ Did(p) /\ UNCHANGED db
           /\ MovedRows(FolderRow, p) # Owners(FolderRow, p) \/ Owners(FolderRow, p) = {}
  <2>1. pass'.at = pass.at /\ pass'.scan = pass.scan /\ pass'.todo = pass.todo \ {p}
        /\ pass'.stable = pass.stable
    BY <1>0, <1>4, PassDid
  <2>2. ASSUME NEW r \in FolderRow, Calm(r)' PROVE Found(r)'
    <3>1. Calm(r) /\ r \in DOMAIN db.maps
      BY <1>0, <1>4, <2>2 DEF Calm, MappedFolders
    <3>2. Sees(r) \/ (r \notin pass.stable /\ \E q \in pass.todo : pass.scan[q] = db.maps[r].node)
      BY <1>0, <3>1 DEF ContentInv, ScanKept, Found
    <3>3. CASE Sees(r)
      BY <1>0, <1>4, <2>1, <3>3 DEF Found, Sees, At
    <3>4. ASSUME ~Sees(r), r \notin pass.stable, NEW q \in pass.todo,
                 pass.scan[q] = db.maps[r].node
          PROVE  Found(r)'
      <4>1. q # p
        <5> SUFFICES ASSUME q = p PROVE FALSE
          OBVIOUS
        <5>1. r \in MovedRows(FolderRow, p) /\ r \in Owners(FolderRow, p)
          BY <1>0, <3>1, <3>4 DEF MovedRows, Owners, Sees, Dirs
        <5>2. PICK s \in Owners(FolderRow, p) : s # r
          BY <1>4, <5>1 DEF MovedRows
        <5>3. s \in MappedFolders(db) /\ r \in MappedFolders(db) /\ db.maps[s].node = db.maps[r].node
          BY <5>1, <5>2 DEF Owners, MappedFolders
        <5> QED BY <3>1, <5>2, <5>3 DEF ContentInv, FoldersKept
      <4> QED BY <1>0, <1>4, <2>1, <3>4, <4>1 DEF Found, At
    <3> QED BY <3>2, <3>3, <3>4
  <2>3. FilesKept' /\ FoldersKept'
    BY <1>0, <1>4, SameKept DEF ContentInv
  <2> QED BY <1>3, <1>4, <2>2, <2>3
<1>5. ASSUME NEW r \in MovedRows(FolderRow, p), NEW n \in FolderName(db, p[2], {r}), Did(p),
             db' = [Remapped(db, r, p) EXCEPT !.folders[r] = n]
      PROVE  ContentInv'
  <2> DEFINE e == Remapped(db, r, p)
  <2>1. r \in DOMAIN db.maps \cap FolderRow /\ db.maps[r].node = pass.scan[p]
    BY DEF MovedRows, Owners
  <2>2. /\ e \in Tables /\ e.files = db.files /\ e.folders = db.folders
        /\ DOMAIN e.maps = DOMAIN db.maps
        /\ \A s \in DOMAIN db.maps :
             /\ e.maps[s].node = db.maps[s].node
             /\ e.maps[s].path = IF s = r \/ InDir(db.maps[s].path, db.maps[r].path)
                                 THEN Shifted(db.maps[s].path, db.maps[r].path, p)
                                 ELSE db.maps[s].path
    BY <1>0, <2>1, RemappedIs
  <2> HIDE DEF e
  <2>3. db' = [e EXCEPT !.folders[r] = n]
    BY <1>5 DEF e
  <2>4. db'.maps = e.maps /\ db'.files = e.files /\ DOMAIN db'.folders = DOMAIN e.folders
    BY <2>2, <2>3 DEF Tables
  <2>5. FilesKept'
    <3>1. /\ MappedFiles(db') \subseteq MappedFiles(db)
          /\ \A s \in MappedFiles(db') : db'.maps[s].node = db.maps[s].node
      BY <2>2, <2>4 DEF MappedFiles
    <3> QED BY <1>0, <1>1, <2>2, <2>4, <3>1, MapsGone DEF ContentInv
  <2>6. \A s \in MappedFolders(db') : FolderKept(s)
    BY <2>2, <2>4 DEF FolderKept, MappedFolders
  <2>7. FoldersKept'
    BY <1>0, <2>6, FoldersQuiet DEF ContentInv
  <2>8. /\ pass'.at = pass.at /\ pass'.scan = pass.scan /\ pass'.todo = pass.todo \ {p}
        /\ pass'.stable = pass.stable
    BY <1>0, <1>5, PassDid
  <2>9. ASSUME NEW s \in FolderRow, Calm(s)' PROVE Found(s)'
    <3>1. Calm(s) /\ s \in DOMAIN db.maps /\ s \in MappedFolders(db)
      <4>1. s \in MappedFolders(db')
        BY <2>9 DEF Calm
      <4>2. FolderKept(s) /\ TouchedStay
        BY <1>0, <2>6, <4>1, TouchedGrows
      <4>3. Calm(s)
        BY <2>9, <4>2, CalmStays
      <4> QED BY <4>3 DEF Calm, MappedFolders
    <3>2. db'.maps[s].node = db.maps[s].node
      BY <2>2, <2>4, <3>1
    <3>3. CASE s = r
      <4>1. db'.maps[s].path = p
        BY <2>1, <2>2, <2>4, <3>3 DEF Shifted
      <4>2. Sees(s)'
        BY <1>0, <2>1, <2>8, <3>2, <3>3, <4>1 DEF Sees, Dirs
      <4> QED BY <1>0, <2>8, <4>2 DEF Found, At
    <3>4. CASE s # r
      <4>1. ~InDir(db.maps[s].path, db.maps[r].path)
        <5>1. db.maps[s].path[1] = Root /\ db.maps[r].path[2] \in Name
          BY <1>0, <2>1, <3>1, MappingFacts
        <5> QED BY <5>1, SmbSyncAssumption DEF InDir
      <4>2. db'.maps[s].path = db.maps[s].path
        BY <2>2, <2>4, <3>1, <3>4, <4>1
      <4>3. Sees(s) \/ (s \notin pass.stable /\ \E q \in pass.todo : pass.scan[q] = db.maps[s].node)
        BY <1>0, <3>1 DEF ContentInv, ScanKept, Found
      <4>4. CASE Sees(s)
        BY <1>0, <2>8, <3>2, <4>2, <4>4 DEF Found, Sees, At
      <4>5. ASSUME s \notin pass.stable, NEW q \in pass.todo, pass.scan[q] = db.maps[s].node
            PROVE  Found(s)'
        <5>1. q # p
          <6>1. r \in MappedFolders(db)
            BY <2>1 DEF MappedFolders
          <6> QED BY <2>1, <3>1, <3>4, <4>5, <6>1 DEF ContentInv, FoldersKept
        <5> QED BY <1>0, <2>8, <3>2, <4>5, <5>1 DEF Found, At
      <4> QED BY <4>3, <4>4, <4>5
    <3> QED BY <3>3, <3>4
  <2> QED BY <1>3, <1>5, <2>5, <2>7, <2>9
<1> QED BY <1>2, <1>4, <1>5 DEF MoveFolder

-----------------------------------------------------------------------------
(* Rows that go with their data.                                             *)

\* The files of a folder that an SMB user changed are the user's loss.
LEMMA FolderDataDropped ==
  ASSUME SmbInv, NEW h \in DOMAIN db.maps \cap FolderRow, ~Calm(h), LostWith(db, h) \subseteq removed'
  PROVE  \A r \in FilesOf(db, h) : RowDropped(r)
<1> SUFFICES ASSUME NEW r \in FilesOf(db, h) PROVE db.files[r].blob \in removed' \cup {NoData}
  BY DEF RowDropped, Lost
<1>1. db.maps[h].node \in touched
  BY DEF Calm, MappedFolders
<1>2. r \in DOMAIN db.files
  BY DEF FilesOf
<1>3. db.files[r].blob \in FileNode \cup {NoData}
  <2>1. db.files[r] \in FileRecord
    BY <1>2, SmbKinds, TablesFields
  <2> QED BY <2>1 DEF FileRecord
<1>4. {db.files[f].blob : f \in FilesOf(db, h)} \cap FileNode \subseteq removed'
  BY <1>1 DEF LostWith
<1> QED BY <1>3, <1>4

LEMMA TornKept ==
  ASSUME SmbInv, ContentInv, NEW S, TornDeletion(S), UNCHANGED <<proj, marker, made, touched>>,
         HistoryGrows, \A r \in S \cap DOMAIN db.files : RowDropped(r)
  PROVE  ContentInv'
<1>1. PICK T \in SUBSET S : db' = DataLost(db, T) /\ EndsWithin
  BY DEF TornDeletion
<1>2. /\ TablesGood(db) /\ db'.folders = db.folders /\ db'.maps = db.maps
      /\ DOMAIN db'.files = DOMAIN db.files
      /\ \A r \in DOMAIN db.files :
           db'.files[r] = IF r \in T THEN [db.files[r] EXCEPT !.blob = NoData] ELSE db.files[r]
  BY <1>1, SmbKinds, DataLostGood
<1>3. \A r \in DOMAIN db.files : db'.files[r].blob \in {db.files[r].blob, NoData}
  <2> TAKE r \in DOMAIN db.files
  <2>1. db.files[r] \in FileRecord
    BY SmbKinds, TablesFields
  <2> QED BY <1>2, <2>1 DEF FileRecord
<1>4. \A r \in DOMAIN db.files : RowKept(r) \/ RowDropped(r)
  BY <1>2 DEF RowKept
<1>5. \A r \in MappedFiles(db') : MapKept(r)
  BY <1>2, <1>3 DEF MapKept, MappedFiles
<1>6. FilesKept'
  <2>1. made' \subseteq FileNode /\ made' \subseteq made \cup Range(proj') \cup Blobs(db')
    BY DEF ContentInv, FilesKept
  <2>2. FilesKept
    BY DEF ContentInv
  <2> QED BY <1>2, <1>4, <1>5, <2>1, <2>2, SameProjection, FilesStep
<1>7. FoldersKept'
  <2>1. \A r \in MappedFolders(db') : FolderKept(r)
    BY <1>2 DEF FolderKept, MappedFolders
  <2> QED BY <2>1, FoldersQuiet DEF ContentInv
<1> QED BY <1>1, <1>6, <1>7, EndWithinKept

-----------------------------------------------------------------------------
(* Folders that are entered.                                                 *)

LEMMA ClearedIs ==
  ASSUME TablesGood(db), NEW p, NEW d, d = Cleared(db, MappedAt(db, p))
  PROVE  /\ DOMAIN d.files = DOMAIN db.files \ DataOf(db, MappedAt(db, p))
         /\ \A s \in DOMAIN d.files : d.files[s] = db.files[s]
         /\ DOMAIN d.folders \subseteq DOMAIN db.folders
         /\ DOMAIN d.maps \subseteq DOMAIN db.maps
         /\ \A s \in DOMAIN d.maps : d.maps[s] = db.maps[s]
<1> DEFINE here == MappedAt(db, p)
<1>1. CASE here = {}
  BY <1>1 DEF Cleared, DataOf
<1>2. CASE here # {}
  <2> DEFINE r == CHOOSE x \in here : TRUE
  <2>1. r \in here
    BY <1>2
  <2>2. d = IF r \in FolderRow THEN FolderDeleted(db, r) ELSE FileDeleted(db, r)
    BY <1>2 DEF Cleared
  <2> HIDE DEF r
  <2>3. r \in DOMAIN db.maps /\ db.maps[r].path = p
    BY <2>1 DEF MappedAt
  <2>4. here = {r}
    BY <2>1, <2>3 DEF TablesGood, MapsGood, PathsUnique, MappedAt
  <2>5. CASE r \in FolderRow
    <3>1. d = FolderDeleted(db, r) /\ r \in DOMAIN db.maps \cap FolderRow
      BY <2>2, <2>3, <2>5
    <3>2. /\ d.files = Without(db.files, FilesOf(db, r))
          /\ d.folders = Without(db.folders, {r})
          /\ DOMAIN d.maps \subseteq DOMAIN db.maps
          /\ \A s \in DOMAIN d.maps : d.maps[s] = db.maps[s]
      BY <3>1, FolderDeletedGood
    <3>3. DataOf(db, here) = FilesOf(db, r)
      BY <2>4, <2>5 DEF DataOf
    <3>4. DOMAIN d.files = DOMAIN db.files \ FilesOf(db, r)
          /\ \A s \in DOMAIN d.files : d.files[s] = db.files[s]
      BY <3>2 DEF Without, Restrict
    <3>5. DOMAIN d.folders \subseteq DOMAIN db.folders
      BY <3>2 DEF Without, Restrict
    <3> QED BY <3>2, <3>3, <3>4, <3>5
  <2>6. CASE r \notin FolderRow
    <3>1. d = FileDeleted(db, r) /\ r \in FileRow
      BY <2>2, <2>3, <2>6, MappingFacts
    <3>2. /\ d.folders = db.folders /\ d.files = Without(db.files, {r})
          /\ d.maps = Without(db.maps, {r})
      BY <3>1, FileDeletedGood
    <3>3. DataOf(db, here) = {r} \cap DOMAIN db.files
      BY <2>4, <2>6 DEF DataOf
    <3>4. DOMAIN d.files = DOMAIN db.files \ {r}
          /\ \A s \in DOMAIN d.files : d.files[s] = db.files[s]
      BY <3>2 DEF Without, Restrict
    <3>5. DOMAIN d.maps = DOMAIN db.maps \ {r}
          /\ \A s \in DOMAIN d.maps : d.maps[s] = db.maps[s]
      BY <3>2 DEF Without, Restrict
    <3> QED BY <3>2, <3>3, <3>4, <3>5
  <2> QED BY <2>5, <2>6
<1> QED BY <1>1, <1>2

\* A directory of another identity: the folder that was mapped there is a changed one.
LEMMA ClearedDropped ==
  ASSUME SmbInv, ContentInv, At("folders"), NEW p, LostBy(MappedAt(db, p)) \subseteq removed',
         \A r \in MappedAt(db, p) \cap FolderRow : db.maps[r].node # pass.scan[p]
  PROVE  \A r \in DataOf(db, MappedAt(db, p)) : RowDropped(r)
<1> SUFFICES ASSUME NEW h \in MappedAt(db, p),
                    NEW r \in IF h \in FolderRow THEN FilesOf(db, h) ELSE {h} \cap DOMAIN db.files
             PROVE  RowDropped(r)
  BY DEF DataOf
<1>1. h \in DOMAIN db.maps /\ db.maps[h].path = p
  BY DEF MappedAt
<1>2. CASE h \in FolderRow
  <2>1. ~Calm(h)
    <3> SUFFICES ASSUME Calm(h) PROVE FALSE
      OBVIOUS
    <3>1. Sees(h)
      BY <1>2 DEF ContentInv, ScanKept, Found, At, Comparing
    <3> QED BY <1>1, <1>2, <3>1 DEF Sees
  <2>2. LostWith(db, h) \subseteq removed'
    BY <1>2 DEF LostBy
  <2> QED BY <1>1, <1>2, <2>1, <2>2, FolderDataDropped
<1>3. CASE h \notin FolderRow
  <2>1. marker
    BY DEF ContentInv, StageGood, At, Comparing
  <2> QED BY <1>1, <1>3, <2>1 DEF RowDropped
<1> QED BY <1>2, <1>3

LEMMA EnteringKept ==
  ASSUME SmbInv, ContentInv, At("folders"), NEW p, pass'.at = pass.at, pass'.scan = pass.scan,
         pass'.todo = pass.todo \ {p}, UNCHANGED <<marker, touched>>, FilesKept', FoldersKept',
         HistoryGrows, \A q : EntryStays(q), \A q \in pass.todo \ {p} : DirThere(q)',
         \A r \in FolderRow : Calm(r)' => Found(r)'
  PROVE  ContentInv'
<1>1. StageGood'
  BY StageStays DEF ContentInv, At
<1>2. ScanAgrees'
  BY ComparedShrinks, ScanStep DEF ContentInv
<1>3. ScanKept'
  <2>1. \A q, t \in Dirs(pass.scan) :
          pass.scan[q] = pass.scan[t] => q = t \/ pass.scan[q] \in touched
    BY DEF ContentInv, ScanKept, At, Comparing
  <2> QED BY <2>1 DEF ScanKept, At, Dirs
<1> QED BY <1>1, <1>2, <1>3 DEF ContentInv

LEMMA CreateFolderKeeps ==
  ASSUME SmbInv, ContentInv, At("folders"), NEW p \in pass.todo, NEW d,
         d = Cleared(db, MappedAt(db, p)), CreateFolder(d, p), KeepsHistory, UNCHANGED marker,
         \A r \in MappedAt(db, p) \cap FolderRow : db.maps[r].node # pass.scan[p]
  PROVE  ContentInv'
<1> DEFINE here == MappedAt(db, p)
<1>0. /\ TablesGood(db) /\ IsTree(proj) /\ IsPass(pass) /\ p \in Dirs(pass.scan)
      /\ UNCHANGED <<made, touched, raced, marker>>
      /\ MappedFolders(db) \subseteq DOMAIN db.folders
  BY DEF SmbInv, PassGood, At, KeepsHistory, Synchronizing
<1>1. /\ p \in Path /\ p[1] = Root /\ p[2] \in Name /\ pass.scan[p] \in DirNode
  BY <1>0, ScannedDir
<1>2. /\ TablesGood(d) /\ MappedAt(d, p) = {}
      /\ DOMAIN d.files = DOMAIN db.files \ DataOf(db, here)
      /\ \A s \in DOMAIN d.files : d.files[s] = db.files[s]
      /\ DOMAIN d.folders \subseteq DOMAIN db.folders
      /\ DOMAIN d.maps \subseteq DOMAIN db.maps
      /\ \A s \in DOMAIN d.maps : d.maps[s] = db.maps[s] /\ d.maps[s].path # p
  <2>1. TablesGood(d) /\ MappedAt(d, p) = {}
    BY <1>0, ClearedGood
  <2>2. /\ DOMAIN d.files = DOMAIN db.files \ DataOf(db, here)
        /\ \A s \in DOMAIN d.files : d.files[s] = db.files[s]
        /\ DOMAIN d.folders \subseteq DOMAIN db.folders
        /\ DOMAIN d.maps \subseteq DOMAIN db.maps
        /\ \A s \in DOMAIN d.maps : d.maps[s] = db.maps[s]
    BY <1>0, ClearedIs
  <2>3. \A s \in DOMAIN d.maps : d.maps[s].path # p
    BY <2>1 DEF MappedAt
  <2> HIDE DEF here
  <2> QED BY <2>1, <2>2, <2>3
<1>3. LostBy(here) \subseteq removed' /\ removed \subseteq removed'
  BY DEF CreateFolder
<1>4. HistoryGrows /\ TouchedStay
  BY <1>0, <1>3, TouchedGrows DEF HistoryGrows
<1>5. ASSUME db'.files = d.files PROVE \A r \in DOMAIN db.files : RowKept(r) \/ RowDropped(r)
  <2>1. \A r \in DataOf(db, here) : RowDropped(r)
    BY <1>3, ClearedDropped
  <2> QED BY <1>2, <1>5, <2>1 DEF RowKept
<1>6. made' \subseteq FileNode /\ made' \subseteq made \cup Range(proj') \cup Blobs(db')
  BY <1>0 DEF ContentInv, FilesKept
<1>7. \A s \in FolderRow : Calm(s) => Found(s)
  BY DEF ContentInv, ScanKept
<1> HIDE DEF here
\* What a calm folder's mapping says, other than that of p.
<1>8. ASSUME NEW s \in DOMAIN d.maps \cap FolderRow, Calm(s)
      PROVE  /\ Sees(s) /\ InPlace(s)
             /\ db.maps[s].path \in pass.todo \ {p} \/ s \in pass.seen
             /\ db.maps[s].path # p /\ db.maps[s].path[1] = Root
  <2>1. s \in DOMAIN db.maps /\ db.maps[s].path # p /\ db.maps[s].path[1] = Root
    BY <1>0, <1>2, <1>8, MappingFacts
  <2> QED BY <1>7, <1>8, <2>1 DEF Found, At, Comparing
\* One folder more than allowed: the directory goes.
<1>9. ASSUME NEW gone, gone = IF p \in DOMAIN proj THEN Under(proj, p) ELSE {},
             proj' = Without(proj, gone), NodesOf(proj, gone) \subseteq removed', db' = d, Did(p)
      PROVE  ContentInv'
  <2>1. /\ pass'.at = pass.at /\ pass'.scan = pass.scan /\ pass'.todo = pass.todo \ {p}
        /\ pass'.seen = pass.seen /\ pass'.stable = pass.stable
    BY <1>0, <1>9, PassDid
  <2>2. gone \subseteq DOMAIN proj /\ \A q \in gone : q = p \/ InDir(q, p)
    BY <1>9 DEF Under
  <2>3. NodesStay /\ \A q : EntryStays(q)
    <3>1. gone \cap DOMAIN proj = gone
      BY <2>2
    <3> QED BY <1>9, <3>1, EntriesRemoved
  <2>4. /\ DOMAIN proj' = DOMAIN proj \ gone /\ \A q \in DOMAIN proj' : proj'[q] = proj[q]
    BY <1>9 DEF Without, Restrict
  <2>5. ASSUME NEW q, q[1] = Root, q # p PROVE q \notin gone
    BY <1>1, <2>2, <2>5, SmbSyncAssumption DEF InDir
  <2>6. FilesKept'
    <3>1. \A r \in MappedFiles(db') : MapKept(r)
      BY <1>2, <1>9 DEF MapKept, MappedFiles
    <3> QED BY <1>0, <1>4, <1>5, <1>6, <1>9, <2>3, <3>1, FilesStep DEF ContentInv
  <2>7. ASSUME NEW s \in MappedFolders(db'), Calm(s)'
        PROVE  Calm(s) /\ InPlace(s)' /\ Found(s)'
    <3>1. s \in DOMAIN d.maps \cap FolderRow /\ s \in DOMAIN db.maps /\ db'.maps[s] = db.maps[s]
      BY <1>2, <1>9, <2>7 DEF MappedFolders
    <3>2. Calm(s)
      BY <1>0, <2>7, <3>1 DEF Calm, MappedFolders
    <3>3. InPlace(s)'
      BY <1>8, <2>4, <2>5, <3>1, <3>2 DEF InPlace
    <3>4. Sees(s)'
      BY <1>8, <2>1, <3>1, <3>2 DEF Sees
    <3> QED BY <1>8, <2>1, <3>1, <3>2, <3>3, <3>4 DEF Found, At
  <2>8. FoldersKept'
    <3>1. DirsOnce(proj')
      BY <1>9, DirsWithout DEF ContentInv, FoldersKept
    <3>2. ASSUME NEW s \in MappedFolders(db'), NEW t \in MappedFolders(db'), Calm(s)',
                 db'.maps[s].node = db'.maps[t].node
          PROVE  s = t
      BY <1>2, <1>9, <2>7, <3>2 DEF ContentInv, FoldersKept, MappedFolders
    <3>3. ASSUME NEW s \in MappedFolders(db'), Calm(s)' PROVE db'.maps[s].node \in Range(proj')
      BY <2>7, <3>3 DEF InPlace, Range
    <3> QED BY <3>1, <3>2, <3>3 DEF FoldersKept
  <2>9. ASSUME NEW q \in pass.todo \ {p} PROVE DirThere(q)'
    <3>1. q \in Dirs(pass.scan) /\ DirThere(q)
      BY DEF ContentInv, ScanKept, SmbInv, PassGood, At
    <3>2. q[1] = Root
      BY <3>1, ScannedDir
    <3> QED BY <1>0, <2>1, <2>4, <2>5, <3>1, <3>2 DEF DirThere
  <2>10. \A s \in FolderRow : Calm(s)' => Found(s)'
    BY <2>7 DEF Calm
  <2> QED BY <1>0, <1>4, <2>1, <2>3, <2>6, <2>8, <2>9, <2>10, EnteringKept
<1>10. ASSUME NEW r \in FolderRow \ (DOMAIN d.folders \cup DOMAIN d.maps),
             NEW n \in FolderName(d, p[2], {}),
             db' = [d EXCEPT !.folders = With(@, r, n),
                             !.maps = With(@, r, [path |-> p, node |-> pass.scan[p]])],
             Saw(p, r), UNCHANGED proj
      PROVE  ContentInv'
  <2>1. /\ pass'.at = pass.at /\ pass'.scan = pass.scan /\ pass'.todo = pass.todo \ {p}
        /\ pass'.seen = pass.seen \cup {r} /\ pass'.stable = pass.stable
    BY <1>0, <1>10, PassSaw
  <2> DEFINE v == [path |-> p, node |-> pass.scan[p]]
             D == With(d.folders, r, n)
             M == With(d.maps, r, v)
  <2>2. /\ DOMAIN D = DOMAIN d.folders \cup {r} /\ DOMAIN M = DOMAIN d.maps \cup {r}
        /\ \A s \in DOMAIN d.maps : M[s] = d.maps[s]
        /\ M[r].path = p /\ M[r].node = pass.scan[p]
    BY <1>10 DEF With
  <2>3. db' = [d EXCEPT !.folders = D, !.maps = M]
    BY <1>10
  <2> HIDE DEF D, M, v
  <2>4. db'.files = d.files /\ db'.folders = D /\ db'.maps = M
    BY <1>2, <2>3 DEF TablesGood, Tables
  <2>5. FilesKept'
    <3>1. \A s \in MappedFiles(db') : MapKept(s)
      <4> TAKE s \in MappedFiles(db')
      <4>1. s # r
        BY <1>10, SmbSyncAssumption DEF MappedFiles
      <4> QED BY <1>2, <2>2, <2>4, <4>1 DEF MapKept, MappedFiles
    <3> QED BY <1>0, <1>4, <1>5, <1>6, <1>10, <2>4, <3>1, SameProjection, FilesStep DEF ContentInv
  <2>6. ASSUME NEW s \in MappedFolders(db'), s # r
        PROVE  /\ s \in DOMAIN d.maps \cap FolderRow /\ s \in MappedFolders(db)
               /\ db'.maps[s] = db.maps[s] /\ (Calm(s)' <=> Calm(s))
    BY <1>0, <1>2, <2>2, <2>4, <2>6 DEF MappedFolders, Calm
  <2>7. DirThere(p)
    BY DEF ContentInv, ScanKept
  \* The directory is that of no other folder.
  <2>8. ASSUME NEW t \in MappedFolders(db'), t # r, pass.scan[p] \notin touched,
               db'.maps[t].node = pass.scan[p]
        PROVE  FALSE
    <3>1. Calm(t)
      BY <2>6, <2>8 DEF Calm
    <3>2. Sees(t) /\ db.maps[t].path # p /\ db.maps[t].node = pass.scan[p]
      BY <1>8, <2>6, <2>8, <3>1
    <3>3. db.maps[t].path \in Dirs(pass.scan)
      BY <1>1, <3>2 DEF Sees, Dirs
    <3> QED BY <1>0, <2>8, <3>2, <3>3 DEF ContentInv, ScanKept, At, Comparing, Sees
  <2>9. FoldersKept'
    <3>1. ASSUME NEW s \in MappedFolders(db'), NEW t \in MappedFolders(db'), Calm(s)',
                 db'.maps[s].node = db'.maps[t].node
          PROVE  s = t
      <4>1. db'.maps[s].node \notin touched
        BY <1>0, <3>1 DEF Calm
      <4>2. CASE s = r /\ t # r
        BY <2>2, <2>4, <2>8, <3>1, <4>1, <4>2
      <4>3. CASE s # r /\ t = r
        BY <2>2, <2>4, <2>8, <3>1, <4>1, <4>3
      <4>4. CASE s # r /\ t # r
        BY <2>6, <3>1, <4>4 DEF ContentInv, FoldersKept
      <4> QED BY <4>2, <4>3, <4>4
    <3>2. ASSUME marker', NEW s \in MappedFolders(db') \cap DOMAIN db'.folders, Calm(s)'
          PROVE  db'.maps[s].node \in Range(proj')
      <4>1. CASE s = r
        BY <1>0, <1>10, <2>2, <2>4, <2>7, <3>2, <4>1 DEF DirThere, Range, Calm
      <4>2. CASE s # r
        <5>1. InPlace(s) /\ db'.maps[s] = db.maps[s]
          BY <1>8, <2>6, <3>2, <4>2
        <5> QED BY <1>10, <5>1 DEF InPlace, Range
      <4> QED BY <4>1, <4>2
    <3>3. DirsOnce(proj')
      BY <1>10 DEF ContentInv, FoldersKept
    <3> QED BY <3>1, <3>2, <3>3 DEF FoldersKept
  <2>10. ASSUME NEW s \in FolderRow, Calm(s)' PROVE Found(s)'
    <3>1. CASE s = r
      <4>1. Sees(s)'
        BY <1>0, <2>1, <2>2, <2>4, <3>1 DEF Sees, Dirs
      <4>2. pass.scan[p] \notin touched
        BY <1>0, <2>2, <2>4, <2>10, <3>1 DEF Calm
      <4>3. InPlace(s)'
        BY <1>10, <2>2, <2>4, <2>7, <3>1, <4>2 DEF DirThere, InPlace
      <4> QED BY <2>1, <3>1, <4>1, <4>3 DEF Found, At
    <3>2. CASE s # r
      <4>1. s \in MappedFolders(db')
        BY <2>10 DEF Calm
      <4>2. s \in DOMAIN d.maps \cap FolderRow /\ db'.maps[s] = db.maps[s] /\ Calm(s)
        BY <2>6, <2>10, <3>2, <4>1
      <4>3. Sees(s)' /\ InPlace(s)'
        BY <1>8, <1>10, <2>1, <4>2 DEF Sees, InPlace
      <4> QED BY <1>8, <2>1, <4>2, <4>3 DEF Found, At
    <3> QED BY <3>1, <3>2
  <2>11. \A q \in pass.todo \ {p} : DirThere(q)'
    BY <1>0, <1>10, <2>1 DEF ContentInv, ScanKept, DirThere
  <2>12. \A q : EntryStays(q)
    BY <1>10, SameProjection
  <2> QED BY <1>0, <1>4, <2>1, <2>5, <2>9, <2>10, <2>11, <2>12, EnteringKept
<1>11. CASE FolderRow \subseteq DOMAIN d.folders \cup DOMAIN d.maps
  <2> DEFINE gone == IF p \in DOMAIN proj THEN Under(proj, p) ELSE {}
  <2>1. proj' = Without(proj, gone) /\ NodesOf(proj, gone) \subseteq removed' /\ db' = d /\ Did(p)
    BY <1>11 DEF CreateFolder
  <2>2. gone = IF p \in DOMAIN proj THEN Under(proj, p) ELSE {}
    OBVIOUS
  <2> HIDE DEF gone
  <2> QED BY <1>9, <2>1, <2>2
<1> QED BY <1>10, <1>11 DEF CreateFolder

LEMMA EnterFolderKeeps ==
  ASSUME SmbInv, ContentInv, NEW p \in Path, EnterFolder(p)
  PROVE  ContentInv'
<1> DEFINE here == MappedAt(db, p)
           same == {r \in here \cap FolderRow : db.maps[r].node = pass.scan[p]}
<1>0. /\ TablesGood(db) /\ IsPass(pass) /\ At("folders") /\ p \in pass.todo /\ p \in Dirs(pass.scan)
      /\ MappedFolders(db) \subseteq DOMAIN db.folders /\ KeepsHistory /\ UNCHANGED marker
      /\ UNCHANGED <<made, touched, raced>>
  BY DEF EnterFolder, SmbInv, PassGood, At, Synchronizing, KeepsHistory
<1>1. p[2] \in Name
  BY <1>0, ScannedDir
<1>2. ASSUME NEW r \in same, NEW n \in FolderName(db, p[2], {r}),
             db' = [db EXCEPT !.folders[r] = n], Saw(p, r), UNCHANGED <<proj, removed>>
      PROVE  ContentInv'
  <2>1. r \in DOMAIN db.folders /\ r \in DOMAIN db.maps /\ db.maps[r].path = p
    BY <1>0 DEF MappedAt, MappedFolders
  <2>2. n \in Name /\ \A s \in DOMAIN db.folders \ {r} : db.folders[s] # n
    BY <1>1, FolderNameFacts
  <2>3. db'.files = db.files /\ db'.maps = db.maps /\ DOMAIN db'.folders = DOMAIN db.folders
    BY <1>0, <1>2, <2>1, <2>2, FolderRenamed
  <2>4. /\ pass'.at = pass.at /\ pass'.scan = pass.scan /\ pass'.todo = pass.todo \ {p}
        /\ pass'.seen = pass.seen \cup {r}
    BY <1>0, <1>2, PassSaw
  <2>5. HistoryGrows /\ NodesStay /\ \A q : EntryStays(q)
    BY <1>0, <1>2, SameProjection DEF HistoryGrows
  <2>6. FilesKept'
    <3>1. MappedFiles(db') \subseteq MappedFiles(db)
          /\ \A s \in MappedFiles(db') : db'.maps[s].node = db.maps[s].node
      BY <2>3 DEF MappedFiles
    <3> QED BY <1>0, <2>3, <2>5, <3>1, MapsGone DEF ContentInv
  <2>7. FoldersKept'
    <3>1. \A s \in MappedFolders(db') : FolderKept(s)
      BY <2>3 DEF FolderKept, MappedFolders
    <3> QED BY <1>0, <1>2, <3>1, FoldersQuiet DEF ContentInv
  <2>8. ASSUME NEW s \in FolderRow, Calm(s)' PROVE Found(s)'
    <3>1. Calm(s) /\ s \in DOMAIN db.maps
      BY <1>0, <2>3, <2>8 DEF Calm, MappedFolders
    <3>2. Sees(s) /\ InPlace(s) /\ (db.maps[s].path \in pass.todo \/ s \in pass.seen)
      BY <1>0, <3>1 DEF ContentInv, ScanKept, Found, At, Comparing
    <3>3. db.maps[s].path = p => s = r
      BY <1>0, <2>1, <3>1 DEF TablesGood, MapsGood, PathsUnique
    <3>4. Sees(s)' /\ InPlace(s)'
      BY <1>2, <2>3, <2>4, <3>2 DEF Sees, InPlace
    <3> QED BY <1>0, <2>3, <2>4, <3>2, <3>3, <3>4 DEF Found, At
  <2>9. \A q \in pass.todo \ {p} : DirThere(q)'
    BY <1>0, <1>2, <2>4 DEF ContentInv, ScanKept, DirThere
  <2> QED BY <1>0, <2>4, <2>5, <2>6, <2>7, <2>8, <2>9, EnteringKept
<1>3. CASE same = {} /\ CreateFolder(Cleared(db, here), p)
  BY <1>0, <1>3, CreateFolderKeeps
<1>4. CASE same = {} /\ TornDeletion(DataOf(db, here)) /\ removed' = removed \cup LostBy(here)
           /\ UNCHANGED proj
  <2>1. \A r \in DataOf(db, here) : RowDropped(r)
    BY <1>0, <1>4, ClearedDropped
  <2>2. HistoryGrows
    BY <1>0, <1>4 DEF HistoryGrows
  <2> HIDE DEF here
  <2> QED BY <1>0, <1>4, <2>1, <2>2, TornKept
<1> QED BY <1>2, <1>3, <1>4 DEF EnterFolder

-----------------------------------------------------------------------------
(* Files that are moved and entered.                                         *)

\* A stage that works on files, or on what was not seen, goes on.
LEMMA ReadingKept ==
  ASSUME SmbInv, ContentInv, pass.at \in Comparing \ {"movefolders", "folders"},
         pass'.at = pass.at, pass'.scan = pass.scan, pass'.stable = pass.stable,
         pass'.todo \subseteq pass.todo, pass.seen \subseteq pass'.seen,
         UNCHANGED <<marker, touched>>, HistoryGrows, FilesKept', DirsStay, DirsOnce(proj'),
         \A p \in Compared' : EntryStays(p),
         \A r \in MappedFolders(db') : FolderKept(r) /\ db'.maps[r].path = db.maps[r].path,
         At("deletefiles") => pass'.todo \subseteq MappedFiles(db')
  PROVE  ContentInv'
<1>1. TouchedStay /\ DirsHeld
  BY TouchedGrows, StaysHeld
<1>2. FoldersKept'
  BY <1>1, SmbKinds, FoldersStep DEF ContentInv
<1>3. ScanKept'
  BY <1>1, ScanQuiet DEF ContentInv
<1>4. ScanAgrees'
  BY ComparedShrinks, ScanStep DEF ContentInv
<1>5. StageGood'
  BY StageStays DEF ContentInv, At, Comparing
<1> QED BY <1>2, <1>3, <1>4, <1>5 DEF ContentInv

\* The row and the mapping of one file are set; its content and its mapping are held.
LEMMA FileSetKept ==
  ASSUME SmbInv, FilesKept, HistoryGrows, UNCHANGED <<made, marker>>, NodesStay,
         NEW r \in FileRow, FileMappingSet(r),
         DOMAIN db'.files \subseteq DOMAIN db.files \cup {r},
         \A s \in DOMAIN db.files \ {r} : s \in DOMAIN db'.files /\ db'.files[s] = db.files[s],
         r \in DOMAIN db.files => RowKept(r) \/ RowDropped(r),
         MapKept(r) \/ MapMade(r)
  PROVE  FilesKept'
<1>1. \A s \in DOMAIN db.files : RowKept(s) \/ RowDropped(s)
  BY DEF RowKept
<1>2. ASSUME NEW s \in MappedFiles(db'), s # r PROVE MapKept(s)
  <2>1. s \in DOMAIN db.maps /\ db'.maps[s] = db.maps[s]
    BY <1>2 DEF FileMappingSet, MappedFiles
  <2> QED BY <1>2, <2>1 DEF MapKept
<1>3. made' \subseteq FileNode /\ made' \subseteq made \cup Range(proj') \cup Blobs(db')
  BY DEF FilesKept
<1> QED BY <1>1, <1>2, <1>3, SmbKinds, FilesStep

\* A file's row and mapping say where the entry is.
LEMMA RenamingKept ==
  ASSUME SmbInv, FilesKept, UNCHANGED <<proj, marker, made, removed, raced>>,
         NEW r \in DOMAIN db.maps \cap DOMAIN db.files, NEW p \in Path,
         NEW parent \in {Root} \cup FolderRow, db' = Renaming(db, r, p, parent)
  PROVE  FilesKept' /\ FileMappingSet(r) /\ r \in FileRow
<1>1. /\ db'.folders = db.folders
      /\ DOMAIN db'.files = DOMAIN db.files /\ db'.files[r].blob = db.files[r].blob
      /\ \A s \in DOMAIN db.files \ {r} : db'.files[s] = db.files[s]
      /\ DOMAIN db'.maps = DOMAIN db.maps /\ db'.maps[r].node = db.maps[r].node
  BY SmbKinds, RenamingIs
<1>2. r \in FileRow
  BY SmbKinds
<1>3. FileMappingSet(r)
  <2>1. \A s \in DOMAIN db.maps \ {r} : db'.maps[s] = db.maps[s]
    BY DEF Renaming, Tables
  <2> QED BY <1>1, <2>1 DEF FileMappingSet
<1>4. RowKept(r) /\ MapKept(r)
  BY <1>1 DEF RowKept, MapKept
<1>5. HistoryGrows /\ NodesStay
  BY SameProjection DEF HistoryGrows
<1>6. FilesKept'
  BY <1>1, <1>2, <1>3, <1>4, <1>5, FileSetKept
<1> QED BY <1>2, <1>3, <1>6

LEMMA MoveFileKeeps ==
  ASSUME SmbInv, ContentInv, NEW p \in Path, MoveFile(p)
  PROVE  ContentInv'
<1>0. /\ TablesGood(db) /\ IsPass(pass) /\ At("movefiles")
      /\ UNCHANGED <<proj, marker, made, removed, touched, raced>>
  BY SmbKinds DEF MoveFile, KeepsHistory
<1>1. HistoryGrows /\ DirsStay /\ DirsOnce(proj') /\ \A q : EntryStays(q)
  BY <1>0, SameProjection, SameDirs DEF HistoryGrows, ContentInv, FoldersKept
<1>2. pass.at \in Comparing \ {"movefolders", "folders"} /\ ~At("deletefiles")
  BY <1>0 DEF At, Comparing
<1>3. ASSUME Did(p)
      PROVE  /\ pass'.at = pass.at /\ pass'.scan = pass.scan /\ pass'.stable = pass.stable
             /\ pass'.todo \subseteq pass.todo /\ pass'.seen = pass.seen
  BY <1>0, <1>3, PassDid
<1>4. CASE Did(p) /\ UNCHANGED db
  <2>1. FilesKept' /\ \A s \in MappedFolders(db') : FolderKept(s) /\ db'.maps[s].path = db.maps[s].path
    BY <1>0, <1>4, SameKept, SameFolders DEF ContentInv
  <2> QED BY <1>0, <1>1, <1>2, <1>3, <1>4, <2>1, ReadingKept
<1>5. CASE Fails /\ UNCHANGED db
  BY <1>0, <1>5, SameKept, EndWithinKept DEF ContentInv
<1>6. ASSUME NEW r \in MovedRows(FileRow, p), r \in DOMAIN db.files,
             NEW parent \in ParentOf(db, p), Did(p), db' = Renaming(db, r, p, parent)
      PROVE  ContentInv'
  <2>1. r \in DOMAIN db.maps \cap DOMAIN db.files
    BY <1>6 DEF MovedRows, Owners
  <2>2. parent \in {Root} \cup FolderRow
    BY <1>0, OneParent
  <2>3. FilesKept' /\ FileMappingSet(r) /\ r \in FileRow
    BY <1>0, <1>6, <2>1, <2>2, RenamingKept DEF ContentInv
  <2>4. \A s \in MappedFolders(db') : FolderKept(s) /\ db'.maps[s].path = db.maps[s].path
    BY <2>3, OtherFolders
  <2> QED BY <1>0, <1>1, <1>2, <1>3, <1>6, <2>3, <2>4, ReadingKept
<1> QED BY <1>4, <1>5, <1>6 DEF MoveFile

\* The entry of a file goes, or another one takes its place.
LEMMA EntryGone ==
  ASSUME SmbInv, ContentInv, NEW p, p \in DOMAIN proj => FileAt(p), proj' = Without(proj, {p}),
         NodesOf(proj, {p} \cap DOMAIN proj) \subseteq removed'
  PROVE  NodesStay /\ DirsStay /\ DirsOnce(proj') /\ \A q : EntryStays(q)
<1>1. NodesStay /\ \A q : EntryStays(q)
  BY EntriesRemoved
<1>2. DirsStay
  BY SmbSyncAssumption, DirsNotRemoved DEF FileAt
<1>3. DirsOnce(proj')
  BY DirsWithout DEF ContentInv, FoldersKept
<1> QED BY <1>1, <1>2, <1>3

LEMMA EntryReplaced ==
  ASSUME SmbInv, ContentInv, NEW p, p \in DOMAIN proj => FileAt(p), NEW n \in FileNode,
         proj' = With(proj, p, n), NodesOf(proj, {p} \cap DOMAIN proj) \subseteq removed'
  PROVE  /\ NodesStay /\ DirsStay /\ DirsOnce(proj') /\ n \in Range(proj')
         /\ \A q : q # p => EntryStays(q)
<1>1. NodesStay /\ n \in Range(proj') /\ \A q : q # p => EntryStays(q)
  <2>1. NodesOf(proj, {p} \cap DOMAIN proj) \subseteq Lost'
    BY DEF Lost
  <2> QED BY <2>1, EntryWritten
<1>2. DirsStay
  BY SmbSyncAssumption, DirsNotWritten DEF FileAt
<1>3. DirsOnce(proj')
  <2>1. DirsOnce(proj) /\ n \notin DirNode
    BY SmbSyncAssumption DEF ContentInv, FoldersKept
  <2>2. DirsOnce(With(proj, p, n))
    BY <2>1, DirsWith
  <2> QED BY <2>2
<1> QED BY <1>1, <1>2, <1>3

\* What is at a path that the pass comes to is what the scan saw, or raced with the pass.
LEMMA EntryAgrees ==
  ASSUME SmbInv, ContentInv, At("files"), NEW p \in pass.todo, FileAt(p)
  PROVE  /\ pass.scan[p] \in FileNode
         /\ proj[p] = pass.scan[p] \/ {proj[p], pass.scan[p]} \subseteq Lost
<1>1. p \in Leaves(pass.scan)
  BY DEF SmbInv, PassGood, At
<1>2. pass.scan[p] \in FileNode
  BY <1>1, ScannedLeaf
<1>3. Agrees(p)
  BY DEF ContentInv, ScanAgrees, Compared, At
<1>4. EntryAt(proj, p) = {proj[p]} /\ proj[p] \in FileNode
  BY DEF EntryAt, FileAt
<1> QED BY <1>2, <1>3, <1>4 DEF Agrees

LEMMA EnteredKept ==
  ASSUME SmbInv, ContentInv, At("files"), NEW p \in pass.todo, Did(p) \/ \E r : Saw(p, r),
         UNCHANGED <<made, marker, touched, raced>>, removed \subseteq removed', FilesKept',
         DirsStay, DirsOnce(proj'), \A q : q # p => EntryStays(q),
         \A r \in MappedFolders(db') : FolderKept(r) /\ db'.maps[r].path = db.maps[r].path
  PROVE  ContentInv'
<1>1. /\ pass'.at = pass.at /\ pass'.scan = pass.scan /\ pass'.stable = pass.stable
      /\ pass'.todo = pass.todo \ {p} /\ pass.seen \subseteq pass'.seen
  BY SmbKinds, PassDid, PassSaw
<1>2. pass.at \in Comparing \ {"movefolders", "folders"} /\ ~At("deletefiles")
  BY DEF At, Comparing
<1>3. \A q \in Compared' : EntryStays(q)
  BY <1>1 DEF Compared, At
<1>4. HistoryGrows
  BY DEF HistoryGrows
<1> QED BY <1>1, <1>2, <1>3, <1>4, ReadingKept

\* The row and the mapping of the file at a path are those of its entry.
LEMMA EntryRecorded ==
  ASSUME SmbInv, ContentInv, At("files"), NEW p \in pass.todo, FileAt(p), NEW r \in FileRow,
         UNCHANGED <<proj, made, marker, touched, removed, raced>>, Saw(p, r), FileMappingSet(r),
         DOMAIN db'.files \subseteq DOMAIN db.files \cup {r},
         \A s \in DOMAIN db.files \ {r} : s \in DOMAIN db'.files /\ db'.files[s] = db.files[s],
         r \in DOMAIN db.files => r \in DOMAIN db.maps,
         db'.files[r].blob = proj[p], db'.maps[r].node = pass.scan[p]
  PROVE  ContentInv'
<1>1. proj[p] = pass.scan[p] \/ {proj[p], pass.scan[p]} \subseteq Lost
  BY EntryAgrees
<1>2. proj[p] \in Range(proj) /\ Lost' = Lost
  BY DEF Range, FileAt, Lost
<1>3. MapMade(r)
  BY <1>1, <1>2 DEF MapMade, NodeHeld, SameData
<1>4. r \in DOMAIN db.files => RowDropped(r)
  BY DEF RowDropped, ContentInv, StageGood, At, Comparing
<1>5. HistoryGrows /\ NodesStay /\ DirsStay /\ \A q : EntryStays(q)
  BY SameProjection, SameDirs DEF HistoryGrows
<1>6. FilesKept'
  <2>1. FilesKept
    BY DEF ContentInv
  <2> QED BY <1>3, <1>4, <1>5, <2>1, FileSetKept
<1>7. DirsOnce(proj')
  BY DEF ContentInv, FoldersKept
<1> QED BY <1>5, <1>6, <1>7, OtherFolders, EnteredKept

LEMMA ImportKeeps ==
  ASSUME SmbInv, ContentInv, At("files"), NEW p \in pass.todo, MappedAt(db, p) = {},
         Import(db, p), KeepsHistory, UNCHANGED marker
  PROVE  ContentInv'
<1>0. /\ TablesGood(db) /\ MappedFolders(db) \subseteq DOMAIN db.folders
      /\ p \in Leaves(pass.scan) /\ UNCHANGED <<made, marker, touched, raced>>
  BY DEF SmbInv, PassGood, At, Synchronizing, KeepsHistory
<1>1. p \in Path /\ p[2] \in Name /\ pass.scan[p] \in FileNode
  BY <1>0, ScannedLeaf
<1>2. CASE db' = db /\ Did(p) /\ UNCHANGED <<proj, removed>>
  <2>1. FilesKept'
    BY <1>0, <1>2, SameKept DEF ContentInv
  <2>2. DirsStay /\ DirsOnce(proj') /\ \A q : EntryStays(q)
    BY <1>2, SameProjection, SameDirs DEF ContentInv, FoldersKept
  <2> QED BY <1>0, <1>2, <2>1, <2>2, SameFolders, EnteredKept
<1>3. CASE db' = db /\ Fails /\ UNCHANGED <<proj, removed>>
  BY <1>0, <1>3, SameKept, EndWithinKept DEF ContentInv
<1>4. CASE /\ p \in DOMAIN proj => FileAt(p)
           /\ proj' = Without(proj, {p})
           /\ removed' = removed \cup NodesOf(proj, {p} \cap DOMAIN proj)
           /\ db' = db /\ Did(p)
  <2>1. NodesStay /\ DirsStay /\ DirsOnce(proj') /\ \A q : EntryStays(q)
    BY <1>4, EntryGone
  <2>2. FilesKept'
    <3>1. HistoryGrows /\ made' \subseteq FileNode /\ made' \subseteq made
      BY <1>0, <1>4 DEF HistoryGrows, ContentInv, FilesKept
    <3> QED BY <1>0, <1>4, <2>1, <3>1, SameTables, FilesStep DEF ContentInv
  <2> QED BY <1>0, <1>4, <2>1, <2>2, SameFolders, EnteredKept
<1>5. ASSUME FileAt(p), NEW r \in FileRow \ (DOMAIN db.files \cup DOMAIN db.maps),
             NEW parent \in ParentOf(db, p),
             db' = [db EXCEPT
               !.files = With(@, r, [folder |-> parent, name |-> p[2], blob |-> proj[p]]),
               !.maps = With(@, r, [path |-> p, node |-> pass.scan[p]])],
             Saw(p, r), UNCHANGED <<proj, removed>>
      PROVE  ContentInv'
  <2> DEFINE row == [folder |-> parent, name |-> p[2], blob |-> proj[p]]
             node == pass.scan[p]
  <2>1. ParentOf(db, p) = {parent} /\ parent \in {Root} \cup FolderRow
    BY <1>0, OneParent
  <2>2. row \in FileRecord /\ row.folder = parent /\ row.blob = proj[p] /\ node \in FileNode
    BY <1>1, <1>5, <2>1 DEF FileRecord, FileAt
  <2>3. FileMade(db, db', r, row, p, node)
    BY <1>5 DEF FileMade
  <2>4. node = pass.scan[p]
    OBVIOUS
  <2> HIDE DEF row, node
  <2>5. /\ db'.folders = db.folders
        /\ DOMAIN db'.files = DOMAIN db.files \cup {r} /\ DOMAIN db'.maps = DOMAIN db.maps \cup {r}
        /\ db'.files[r] = row /\ \A s \in DOMAIN db.files : db'.files[s] = db.files[s]
        /\ db'.maps[r].node = node
        /\ \A s \in DOMAIN db.maps : db'.maps[s] = db.maps[s]
    BY <1>0, <1>1, <2>1, <2>2, <2>3, FileCreated
  <2>6. FileMappingSet(r)
    BY <2>5 DEF FileMappingSet
  <2> QED BY <1>0, <1>5, <2>2, <2>4, <2>5, <2>6, EntryRecorded
<1> QED BY <1>2, <1>3, <1>4, <1>5 DEF Import

LEMMA ReplaceKeeps ==
  ASSUME SmbInv, ContentInv, At("files"), NEW p \in pass.todo, NEW r \in MappedAt(db, p) \cap FileRow,
         r \in DOMAIN db.files, Replace(r, p), KeepsHistory, UNCHANGED marker
  PROVE  ContentInv'
<1>0. /\ TablesGood(db) /\ MappedFolders(db) \subseteq DOMAIN db.folders
      /\ p \in Leaves(pass.scan) /\ UNCHANGED <<made, marker, touched, raced>>
      /\ r \in DOMAIN db.maps \cap FileRow /\ r \in DOMAIN db.maps \cap DOMAIN db.files
  BY DEF SmbInv, PassGood, At, Synchronizing, KeepsHistory, MappedAt
<1>1. p \in Path /\ p[2] \in Name /\ pass.scan[p] \in FileNode
  BY <1>0, ScannedLeaf
<1>2. ASSUME FileAt(p), NEW parent \in ParentOrRoot(db, p),
             db' = [Renaming(db, r, p, parent) EXCEPT
                      !.files[r].blob = proj[p], !.maps[r].node = pass.scan[p]],
             Saw(p, r), UNCHANGED <<proj, removed>>
      PROVE  ContentInv'
  <2> DEFINE e == Renaming(db, r, p, parent)
             blob == proj[p]
             node == pass.scan[p]
  <2>1. ParentOf(db, p) = {parent} /\ MappedAt(db, p) = {r} /\ parent \in {Root} \cup FolderRow
        /\ db.maps[r].path = p
    BY <1>0, MappedHere
  <2>2. TablesGood(e)
    BY <1>0, <1>1, <2>1, RenamingGood
  <2>3. /\ e.folders = db.folders /\ DOMAIN e.files = DOMAIN db.files
        /\ \A s \in DOMAIN db.files \ {r} : e.files[s] = db.files[s]
        /\ DOMAIN e.maps = DOMAIN db.maps
    BY <1>0, <1>1, <2>1, RenamingIs
  <2>4. \A s \in DOMAIN db.maps \ {r} : e.maps[s] = db.maps[s]
    BY <1>0 DEF Renaming, TablesGood, Tables
  <2>5. /\ Replaced(e, db', r, blob, node) /\ blob \in FileNode /\ node \in FileNode
        /\ blob = proj[p] /\ node = pass.scan[p]
    BY <1>1, <1>2 DEF Replaced, FileAt
  <2> HIDE DEF e, blob, node
  <2>6. /\ db'.folders = e.folders
        /\ DOMAIN db'.files = DOMAIN e.files /\ DOMAIN db'.maps = DOMAIN e.maps
        /\ db'.files[r].blob = blob /\ \A s \in DOMAIN e.files \ {r} : db'.files[s] = e.files[s]
        /\ db'.maps[r].node = node /\ \A s \in DOMAIN e.maps \ {r} : db'.maps[s] = e.maps[s]
    BY <1>0, <2>2, <2>3, <2>5, ReplacedGood
  <2>7. FileMappingSet(r)
    BY <2>3, <2>4, <2>6 DEF FileMappingSet
  <2>8. /\ DOMAIN db'.files \subseteq DOMAIN db.files \cup {r}
        /\ \A s \in DOMAIN db.files \ {r} : s \in DOMAIN db'.files /\ db'.files[s] = db.files[s]
    BY <2>3, <2>6
  <2> QED BY <1>0, <1>2, <2>5, <2>6, <2>7, <2>8, EntryRecorded
<1>3. CASE Fails /\ UNCHANGED <<db, proj, removed>>
  BY <1>0, <1>3, SameKept, EndWithinKept DEF ContentInv
<1>4. ASSUME p \in DOMAIN proj => FileAt(p), db.files[r].blob # NoData,
             removed' = removed \cup NodesOf(proj, {p} \cap DOMAIN proj),
             proj' = With(proj, p, db.files[r].blob),
             db' = [db EXCEPT !.maps[r].node = db.files[r].blob], Saw(p, r)
      PROVE  ContentInv'
  <2> DEFINE n == db.files[r].blob
  <2>1. n \in FileNode
    <3>1. db.files[r] \in FileRecord
      BY <1>0, TablesFields DEF TablesGood
    <3> QED BY <1>4, <3>1 DEF FileRecord
  <2>2. proj' = With(proj, p, n) /\ db' = [db EXCEPT !.maps[r].node = n] /\ db.files[r].blob = n
    BY <1>4
  <2> HIDE DEF n
  <2>3. /\ NodesStay /\ DirsStay /\ DirsOnce(proj') /\ n \in Range(proj')
        /\ \A q : q # p => EntryStays(q)
    BY <1>4, <2>1, <2>2, EntryReplaced
  <2>4. /\ db'.files = db.files /\ db'.folders = db.folders /\ DOMAIN db'.maps = DOMAIN db.maps
        /\ db'.maps[r].node = n /\ \A s \in DOMAIN db.maps \ {r} : db'.maps[s] = db.maps[s]
    BY <1>0, <2>1, <2>2, NodeSetIs
  <2>5. FileMappingSet(r) /\ RowKept(r)
    BY <1>0, <2>4 DEF FileMappingSet, RowKept
  <2>6. MapMade(r)
    BY <2>2, <2>3, <2>4 DEF MapMade, NodeHeld, SameData
  <2>7. FilesKept'
    <3>1. HistoryGrows /\ FilesKept
      BY <1>0, <1>4 DEF HistoryGrows, ContentInv
    <3>2. /\ DOMAIN db'.files \subseteq DOMAIN db.files \cup {r}
          /\ \A s \in DOMAIN db.files \ {r} : s \in DOMAIN db'.files /\ db'.files[s] = db.files[s]
      BY <2>4
    <3> QED BY <1>0, <2>3, <2>5, <2>6, <3>1, <3>2, FileSetKept
  <2>8. removed \subseteq removed'
    BY <1>4
  <2> QED BY <1>0, <1>4, <2>3, <2>5, <2>7, <2>8, OtherFolders, EnteredKept
<1>5. CASE /\ p \in DOMAIN proj => FileAt(p)
           /\ removed' = removed \cup NodesOf(proj, {p} \cap DOMAIN proj)
           /\ proj' = Without(proj, {p}) /\ (Fails \/ EndsWithin) /\ UNCHANGED db
  <2>1. NodesStay /\ DirsStay /\ DirsOnce(proj')
    BY <1>5, EntryGone
  <2>2. FilesKept'
    <3>1. HistoryGrows /\ made' \subseteq FileNode /\ made' \subseteq made
      BY <1>0, <1>5 DEF HistoryGrows, ContentInv, FilesKept
    <3> QED BY <1>0, <1>5, <2>1, <3>1, SameTables, FilesStep DEF ContentInv
  <2>3. FoldersKept'
    <3>1. DirsHeld /\ TouchedStay
      BY <1>0, <2>1, StaysHeld, TouchedGrows
    <3> QED BY <1>0, <1>5, <2>1, <3>1, SameFolders, FoldersStep DEF ContentInv
  <2> QED BY <1>5, <2>2, <2>3, EndWithinKept
<1> QED BY <1>2, <1>3, <1>4, <1>5 DEF Replace

LEMMA FolderRowsGone ==
  ASSUME TablesGood(db), NEW h \in DOMAIN db.maps \cap FolderRow, NEW e, e = FolderDeleted(db, h)
  PROVE  /\ e.files = Without(db.files, FilesOf(db, h)) /\ e.folders = Without(db.folders, {h})
         /\ DOMAIN e.maps \subseteq DOMAIN db.maps
         /\ \A s \in DOMAIN e.maps : e.maps[s] = db.maps[s]
BY FolderDeletedGood

\* A folder whose directory a user changed is deleted with its files.
LEMMA FolderDeletedKept ==
  ASSUME SmbInv, ContentInv, NEW h \in DOMAIN db.maps \cap FolderRow, ~Calm(h),
         db' = FolderDeleted(db, h), removed' = removed \cup LostWith(db, h),
         UNCHANGED <<proj, marker, made, touched, raced>>,
         pass.at \in Comparing \ {"movefolders", "folders", "deletefiles"},
         pass'.at = pass.at, pass'.scan = pass.scan, pass'.stable = pass.stable,
         pass'.todo \subseteq pass.todo, pass.seen \subseteq pass'.seen
  PROVE  ContentInv'
<1>1. /\ db'.files = Without(db.files, FilesOf(db, h)) /\ db'.folders = Without(db.folders, {h})
      /\ DOMAIN db'.maps \subseteq DOMAIN db.maps
      /\ \A s \in DOMAIN db'.maps : db'.maps[s] = db.maps[s]
  BY SmbKinds, FolderRowsGone
<1>2. /\ DOMAIN db'.files = DOMAIN db.files \ FilesOf(db, h)
      /\ \A s \in DOMAIN db'.files : db'.files[s] = db.files[s]
      /\ DOMAIN db'.folders \subseteq DOMAIN db.folders
  BY <1>1 DEF Without, Restrict
<1>3. \A s \in DOMAIN db.files : RowKept(s) \/ RowDropped(s)
  <2>1. \A s \in FilesOf(db, h) : RowDropped(s)
    BY FolderDataDropped
  <2> QED BY <1>2, <2>1 DEF RowKept
<1>4. \A s \in MappedFiles(db') : MapKept(s)
  BY <1>1, <1>2 DEF MapKept, MappedFiles
<1>5. HistoryGrows /\ NodesStay /\ DirsStay /\ DirsOnce(proj') /\ \A q : EntryStays(q)
  BY SameProjection, SameDirs DEF HistoryGrows, ContentInv, FoldersKept
<1>6. FilesKept'
  <2>1. made' \subseteq FileNode /\ made' \subseteq made
    BY DEF ContentInv, FilesKept
  <2> QED BY <1>3, <1>4, <1>5, <2>1, SmbKinds, FilesStep DEF ContentInv
<1>7. \A s \in MappedFolders(db') : FolderKept(s) /\ db'.maps[s].path = db.maps[s].path
  BY <1>1, <1>2 DEF FolderKept, MappedFolders
<1>8. pass.at \in Comparing \ {"movefolders", "folders"} /\ ~At("deletefiles")
  BY DEF At
<1> QED BY <1>5, <1>6, <1>7, <1>8, ReadingKept

LEMMA EnterFileKeeps ==
  ASSUME SmbInv, ContentInv, NEW p \in Path, EnterFile(p)
  PROVE  ContentInv'
<1> DEFINE files == MappedAt(db, p) \cap FileRow
           folders == MappedAt(db, p) \cap FolderRow
<1>0. /\ TablesGood(db) /\ At("files") /\ p \in pass.todo /\ p \in Leaves(pass.scan)
      /\ KeepsHistory /\ UNCHANGED <<made, marker, touched, raced>>
      /\ DOMAIN db.maps \subseteq FileRow \cup FolderRow
  BY SmbKinds DEF EnterFile, SmbInv, PassGood, At, KeepsHistory
<1>1. CASE Did(p) /\ UNCHANGED <<db, proj, removed>>
  <2>1. FilesKept'
    BY <1>0, <1>1, SameKept DEF ContentInv
  <2>2. DirsStay /\ DirsOnce(proj') /\ \A q : EntryStays(q)
    BY <1>1, SameProjection, SameDirs DEF ContentInv, FoldersKept
  <2> QED BY <1>0, <1>1, <2>1, <2>2, SameFolders, EnteredKept
<1>2. ASSUME NEW r \in files, r \in DOMAIN db.files, Replace(r, p) PROVE ContentInv'
  BY <1>0, <1>2, ReplaceKeeps
<1>3. ASSUME NEW r \in files, r \in DOMAIN db.files, NEW parent \in ParentOrRoot(db, p),
             db' = Renaming(db, r, p, parent), Saw(p, r), UNCHANGED <<proj, removed>>
      PROVE  ContentInv'
  <2>1. parent \in {Root} \cup FolderRow /\ r \in DOMAIN db.maps \cap DOMAIN db.files
    BY <1>0, <1>3, MappedHere
  <2>2. FilesKept' /\ FileMappingSet(r) /\ r \in FileRow
    BY <1>0, <1>3, <2>1, RenamingKept DEF ContentInv
  <2>3. DirsStay /\ DirsOnce(proj') /\ \A q : EntryStays(q)
    BY <1>3, SameProjection, SameDirs DEF ContentInv, FoldersKept
  <2> QED BY <1>0, <1>3, <2>2, <2>3, OtherFolders, EnteredKept
<1>4. CASE files = {} /\ folders = {} /\ Import(db, p)
  <2>1. MappedAt(db, p) = {}
    BY <1>0, <1>4 DEF MappedAt
  <2> QED BY <1>0, <1>4, <2>1, ImportKeeps
\* A folder is mapped where the scan saw a file: not one whose directory stood still.
<1>5. ASSUME NEW h \in folders
      PROVE  h \in DOMAIN db.maps \cap FolderRow /\ ~Calm(h)
  <2>1. h \in DOMAIN db.maps \cap FolderRow /\ db.maps[h].path = p
    BY DEF MappedAt
  <2>2. db.maps[h].node \in DirNode
    BY <1>0, <2>1, MappingFacts
  <2>3. pass.scan[p] \in FileNode /\ FileNode \cap DirNode = {}
    BY <1>0, SmbSyncAssumption DEF Leaves
  <2>4. Calm(h) => Sees(h)
    BY <1>0, <2>1 DEF ContentInv, ScanKept, Found, At, Comparing
  <2> QED BY <2>1, <2>2, <2>3, <2>4 DEF Sees
<1>6. ASSUME NEW h \in folders, db' = FolderDeleted(db, h), UNCHANGED pass,
             removed' = removed \cup LostWith(db, h), UNCHANGED proj
      PROVE  ContentInv'
  <2>1. pass.at \in Comparing \ {"movefolders", "folders", "deletefiles"}
    BY <1>0 DEF At, Comparing
  <2> QED BY <1>0, <1>5, <1>6, <2>1, FolderDeletedKept
<1>7. ASSUME NEW h \in folders, TornDeletion(FilesOf(db, h)),
             removed' = removed \cup LostWith(db, h), UNCHANGED proj
      PROVE  ContentInv'
  <2>1. HistoryGrows /\ LostWith(db, h) \subseteq removed'
    BY <1>0, <1>7 DEF HistoryGrows
  <2>2. \A s \in FilesOf(db, h) : RowDropped(s)
    BY <1>5, <2>1, FolderDataDropped
  <2> QED BY <1>0, <1>7, <2>1, <2>2, TornKept
<1> QED BY <1>1, <1>2, <1>3, <1>4, <1>6, <1>7 DEF EnterFile

-----------------------------------------------------------------------------
(* What was not seen.                                                        *)

LEMMA DeleteUnseenFileKeeps ==
  ASSUME SmbInv, ContentInv, NEW r \in FileRow, DeleteUnseenFile(r)
  PROVE  ContentInv'
<1>0. /\ TablesGood(db) /\ At("deletefiles") /\ r \in pass.todo /\ marker
      /\ UNCHANGED <<proj, marker, made, removed, touched, raced>>
      /\ pass.todo \subseteq MappedFiles(db) /\ r \in DOMAIN db.maps
  BY SmbKinds DEF DeleteUnseenFile, ContentInv, StageGood, At, KeepsHistory, MappedFiles, Comparing
<1>1. RowDropped(r)
  BY <1>0 DEF RowDropped
<1>2. HistoryGrows /\ NodesStay /\ DirsStay /\ DirsOnce(proj') /\ \A q : EntryStays(q)
  BY <1>0, SameProjection, SameDirs DEF HistoryGrows, ContentInv, FoldersKept
<1>3. made' \subseteq FileNode /\ made' \subseteq made
  BY <1>0 DEF ContentInv, FilesKept
<1>4. ASSUME db'.files = Without(db.files, {r}), DOMAIN db'.maps \subseteq DOMAIN db.maps,
             \A s \in DOMAIN db'.maps : db'.maps[s] = db.maps[s]
      PROVE  FilesKept'
  <2>1. /\ DOMAIN db'.files = DOMAIN db.files \ {r}
        /\ \A s \in DOMAIN db'.files : db'.files[s] = db.files[s]
    BY <1>4 DEF Without, Restrict
  <2>2. \A s \in DOMAIN db.files : RowKept(s) \/ RowDropped(s)
    BY <1>1, <2>1 DEF RowKept
  <2>3. \A s \in MappedFiles(db') : MapKept(s)
    BY <1>4, <2>1 DEF MapKept, MappedFiles
  <2> QED BY <1>0, <1>2, <1>3, <2>2, <2>3, FilesStep DEF ContentInv
<1>5. CASE db' = FileDeleted(db, r) /\ Did(r)
  <2>1. /\ db'.folders = db.folders /\ db'.files = Without(db.files, {r})
        /\ db'.maps = Without(db.maps, {r})
    BY <1>0, <1>5, FileDeletedGood
  <2>2. /\ DOMAIN db'.maps = DOMAIN db.maps \ {r}
        /\ \A s \in DOMAIN db'.maps : db'.maps[s] = db.maps[s]
    BY <2>1 DEF Without, Restrict
  <2>3. FilesKept'
    BY <1>4, <2>1, <2>2
  <2>4. \A s \in MappedFolders(db') : FolderKept(s) /\ db'.maps[s].path = db.maps[s].path
    BY <2>1, <2>2 DEF FolderKept, MappedFolders
  <2>5. /\ pass'.at = pass.at /\ pass'.scan = pass.scan /\ pass'.stable = pass.stable
        /\ pass'.todo = pass.todo \ {r} /\ pass'.seen = pass.seen
    BY <1>5, SmbKinds, PassDid
  <2>6. pass'.todo \subseteq MappedFiles(db')
    BY <1>0, <2>2, <2>5 DEF MappedFiles
  <2>7. pass.at \in Comparing \ {"movefolders", "folders"}
    BY <1>0 DEF At, Comparing
  <2> QED BY <1>0, <1>2, <2>3, <2>4, <2>5, <2>6, <2>7, ReadingKept
<1>6. CASE db' = DataLost(db, {r}) /\ EndsWithin
  <2>1. /\ db'.folders = db.folders /\ db'.maps = db.maps /\ DOMAIN db'.files = DOMAIN db.files
        /\ \A s \in DOMAIN db.files :
             db'.files[s] = IF s \in {r} THEN [db.files[s] EXCEPT !.blob = NoData] ELSE db.files[s]
    BY <1>0, <1>6, DataLostGood
  <2>2. \A s \in DOMAIN db.files : RowKept(s) \/ RowDropped(s)
    BY <1>1, <2>1 DEF RowKept
  <2>3. \A s \in MappedFiles(db') : MapKept(s)
    <3>1. \A s \in DOMAIN db.files : db'.files[s].blob \in {db.files[s].blob, NoData}
      <4> TAKE s \in DOMAIN db.files
      <4>1. db.files[s] \in FileRecord
        BY SmbKinds, TablesFields
      <4> QED BY <2>1, <4>1 DEF FileRecord
    <3> QED BY <2>1, <3>1 DEF MapKept, MappedFiles
  <2>4. FilesKept'
    BY <1>0, <1>2, <1>3, <2>2, <2>3, FilesStep DEF ContentInv
  <2>5. FoldersKept'
    <3>1. \A s \in MappedFolders(db') : FolderKept(s)
      BY <2>1 DEF FolderKept, MappedFolders
    <3> QED BY <1>0, <3>1, FoldersQuiet DEF ContentInv
  <2> QED BY <1>6, <2>4, <2>5, EndWithinKept
<1>7. CASE db' = [db EXCEPT !.files = Without(@, {r})] /\ EndsWithin
  <2> DEFINE F == Without(db.files, {r})
  <2>1. F = Without(db.files, {r}) /\ db' = [db EXCEPT !.files = F]
    BY <1>7
  <2> HIDE DEF F
  <2>2. db'.files = F /\ db'.folders = db.folders /\ db'.maps = db.maps
    BY <2>1, SmbKinds DEF Tables
  <2>3. FilesKept'
    BY <1>4, <2>1, <2>2
  <2>4. FoldersKept'
    <3>1. \A s \in MappedFolders(db') : FolderKept(s)
      BY <2>2 DEF FolderKept, MappedFolders
    <3> QED BY <1>0, <3>1, FoldersQuiet DEF ContentInv
  <2> QED BY <1>7, <2>3, <2>4, EndWithinKept
<1> QED BY <1>5, <1>6, <1>7 DEF DeleteUnseenFile

LEMMA DeleteUnseenFolderKeeps ==
  ASSUME SmbInv, ContentInv, NEW r \in FolderRow, DeleteUnseenFolder(r)
  PROVE  ContentInv'
<1>0. /\ At("deletefolders") /\ r \in pass.todo /\ r \in DOMAIN db.maps \cap FolderRow
      /\ UNCHANGED <<proj, marker, made, touched, raced>>
      /\ removed' = removed \cup LostWith(db, r)
  BY DEF DeleteUnseenFolder, SmbInv, PassGood, At, KeepsHistory, MappedFolders
<1>1. ~Calm(r)
  BY <1>0 DEF ContentInv, ScanKept, Found
<1>2. CASE db' = FolderDeleted(db, r) /\ Did(r)
  <2>1. /\ pass'.at = pass.at /\ pass'.scan = pass.scan /\ pass'.stable = pass.stable
        /\ pass'.todo = pass.todo \ {r} /\ pass'.seen = pass.seen
    BY <1>2, SmbKinds, PassDid
  <2>2. pass.at \in Comparing \ {"movefolders", "folders", "deletefiles"}
    BY <1>0 DEF At, Comparing
  <2> QED BY <1>0, <1>1, <1>2, <2>1, <2>2, FolderDeletedKept
<1>3. CASE TornDeletion(FilesOf(db, r))
  <2>1. HistoryGrows /\ LostWith(db, r) \subseteq removed'
    BY <1>0 DEF HistoryGrows
  <2>2. \A s \in FilesOf(db, r) : RowDropped(s)
    BY <1>0, <1>1, <2>1, FolderDataDropped
  <2> QED BY <1>0, <1>3, <2>1, <2>2, TornKept
<1> QED BY <1>2, <1>3 DEF DeleteUnseenFolder

-----------------------------------------------------------------------------
(* Rows that are not projected yet.                                          *)

\* An entry is made for a row.
LEMMA ProjectKeeps ==
  ASSUME SmbInv, ContentInv, At("project"), NEW r \in pass.todo,
         NEW dir \in DirOf(db, FolderOf(r)), NEW node,
         node \in IF r \in FileRow THEN FileNode ELSE DirNode,
         r \in FileRow => node = db.files[r].blob,
         r \in FolderRow => /\ node \notin Range(proj)
                            /\ \A s \in DOMAIN db.maps : db.maps[s].node # node,
         Project(r, dir, node), UNCHANGED <<marker, made, removed, raced>>,
         touched \ {node} \subseteq touched', r \in FileRow => UNCHANGED touched
  PROVE  ContentInv'
<1>0. /\ TablesGood(db) /\ IsPass(pass) /\ r \in Rows(db) \ DOMAIN db.maps
      /\ r \in FileRow \cup FolderRow /\ FileRow \cap FolderRow = {} /\ FileNode \cap DirNode = {}
      /\ r \in FileRow => r \in DOMAIN db.files
      /\ NameOf(r) \in Name /\ FolderOf(r) \in {Root} \cup FolderRow
      /\ r \in FolderRow => FolderOf(r) = Root
  <2>1. /\ TablesGood(db) /\ IsPass(pass) /\ r \in Rows(db) \ DOMAIN db.maps
        /\ DOMAIN db.files \subseteq FileRow /\ DOMAIN db.folders \subseteq FolderRow
        /\ FileRow \cap FolderRow = {} /\ FileNode \cap DirNode = {} /\ db \in Tables
    BY SmbKinds, SmbSyncAssumption DEF SmbInv, PassGood, At
  <2>2. CASE r \in DOMAIN db.files
    <3>1. db.files[r] \in FileRecord
      BY <2>1, <2>2, TablesFields
    <3> QED BY <2>1, <2>2, <3>1 DEF NameOf, FolderOf, FileRecord
  <2>3. CASE r \in DOMAIN db.folders
    <3>1. db.folders[r] \in Name
      BY <2>1, <2>3, TablesFields
    <3> QED BY <2>1, <2>3, <3>1 DEF NameOf, FolderOf
  <2> QED BY <2>1, <2>2, <2>3 DEF Rows
<1>1. dir \in {Root} \cup Name /\ (FolderOf(r) = Root <=> dir = Root)
  <2> DEFINE q == <<dir, dir>>
  <2>1. q[1] = dir
    OBVIOUS
  <2> HIDE DEF q
  <2> QED BY <2>1, <1>0, DirOfFacts
\* The inode may be one that a user changed before: no mapping names it.
<1>2. ASSUME NEW s \in MappedFolders(db), Calm(s)' , db'.maps[s].node = db.maps[s].node
      PROVE  Calm(s)
  <2>1. db.maps[s].node # node
    <3>1. db.maps[s].node \in DirNode /\ s \in DOMAIN db.maps
      BY <1>0, MappingFacts DEF MappedFolders
    <3> QED BY <1>0, <3>1
  <2> QED BY <1>2, <2>1 DEF Calm
<1>3. HistoryGrows /\ made' \subseteq FileNode /\ made' \subseteq made
  BY DEF HistoryGrows, ContentInv, FilesKept
<1>4. CASE Fails /\ UNCHANGED <<db, proj>>
  <2>1. FilesKept'
    <3>1. NodesStay
      BY <1>4, SameProjection
    <3> QED BY <1>0, <1>3, <1>4, <3>1, SameTables, FilesStep DEF ContentInv
  <2>2. FoldersKept'
    <3>1. \A s \in MappedFolders(db) : Calm(s)' => Calm(s)
      BY <1>2, <1>4
    <3> QED BY <1>4, <3>1 DEF ContentInv, FoldersKept, Calm, MappedFolders
  <2> QED BY <1>4, <2>1, <2>2, EndWithinKept
<1>5. ASSUME NEW p \in Allocated(dir, NameOf(r), {}), proj' = With(proj, p, node)
      PROVE  /\ p \in Path /\ p[1] = dir /\ MappedAt(db, p) = {} /\ ParentOf(db, p) = {FolderOf(r)}
             /\ NodesStay /\ node \in Range(proj') /\ DirsOnce(proj')
             /\ \A n : n \in Range(proj) => n \in Range(proj')
  <2>1. p \in Path /\ p[1] = dir /\ NoConflict(p, {})
    BY <1>0, <1>1, AllocatedFacts
  <2>2. ParentOf(db, p) = {FolderOf(r)}
    BY <1>0, <2>1, DirOfFacts
  <2>3. MappedAt(db, p) = {} /\ p \notin DOMAIN proj
    BY <2>1 DEF NoConflict
  <2>4. NodesStay /\ node \in Range(proj')
    <3>1. NodesOf(proj, {p} \cap DOMAIN proj) \subseteq Lost'
      BY <2>3 DEF NodesOf
    <3> QED BY <1>5, <3>1, EntryWritten
  <2>5. DirsOnce(proj')
    <3>1. DirsOnce(proj) /\ (node \in DirNode => node \notin Range(proj))
      BY <1>0 DEF ContentInv, FoldersKept
    <3>2. DirsOnce(With(proj, p, node))
      BY <3>1, DirsWith
    <3> QED BY <1>5, <3>2
  <2>6. ASSUME NEW n, n \in Range(proj) PROVE n \in Range(proj')
    <3>1. PICK q \in DOMAIN proj : proj[q] = n
      BY <2>6 DEF Range
    <3>2. q \in DOMAIN proj' /\ proj'[q] = n
      BY <1>5, <2>3, <3>1 DEF With
    <3> QED BY <3>2 DEF Range
  <2> QED BY <2>1, <2>2, <2>3, <2>4, <2>5, <2>6
<1>6. ASSUME NEW p \in Allocated(dir, NameOf(r), {}), proj' = With(proj, p, node),
             EndsWithin, UNCHANGED db
      PROVE  ContentInv'
  <2>1. FilesKept'
    BY <1>0, <1>3, <1>5, <1>6, SameTables, FilesStep DEF ContentInv
  <2>2. FoldersKept'
    <3>1. \A s \in MappedFolders(db) : Calm(s)' => Calm(s)
      BY <1>2, <1>6
    <3>2. DirsOnce(proj') /\ \A n : n \in Range(proj) => n \in Range(proj')
      BY <1>5, <1>6
    <3> QED BY <1>6, <3>1, <3>2 DEF ContentInv, FoldersKept, Calm, MappedFolders
  <2> QED BY <1>6, <2>1, <2>2, EndWithinKept
<1>7. ASSUME NEW p \in Allocated(dir, NameOf(r), {}), proj' = With(proj, p, node),
             db' = [db EXCEPT !.maps = With(@, r, [path |-> p, node |-> node])], Did(r)
      PROVE  ContentInv'
  <2>1. Mapped(db, db', r, p, node)
    BY <1>7 DEF Mapped
  <2>2. /\ p \in Path /\ MappedAt(db, p) = {} /\ ParentOf(db, p) # {}
        /\ r \in FolderRow => p[1] = Root
        /\ r \in DOMAIN db.files => ParentOf(db, p) = {db.files[r].folder}
        /\ NodesStay /\ node \in Range(proj') /\ DirsOnce(proj')
        /\ \A n : n \in Range(proj) => n \in Range(proj')
    <3>1. r \in DOMAIN db.files => FolderOf(r) = db.files[r].folder
      BY <1>0, SmbKinds DEF FolderOf
    <3> QED BY <1>0, <1>1, <1>5, <1>7, <3>1
  <2>3. /\ db'.files = db.files /\ db'.folders = db.folders
        /\ DOMAIN db'.maps = DOMAIN db.maps \cup {r} /\ db'.maps[r].node = node
        /\ \A s \in DOMAIN db.maps : db'.maps[s] = db.maps[s]
    BY <1>0, <2>1, <2>2, MappedGood
  <2>4. FilesKept'
    <3>1. \A s \in DOMAIN db.files : RowKept(s)
      BY <2>3 DEF RowKept
    <3>2. ASSUME NEW s \in MappedFiles(db') PROVE MapKept(s) \/ MapMade(s)
      <4>1. CASE s = r
        <5>1. s \in FileRow
          BY DEF MappedFiles
        <5> QED BY <2>2, <2>3, <4>1, <5>1 DEF MapMade, NodeHeld, SameData
      <4>2. CASE s # r
        BY <2>3, <4>2 DEF MapKept, MappedFiles
      <4> QED BY <4>1, <4>2
    <3> QED BY <1>0, <1>3, <2>2, <3>1, <3>2, FilesStep DEF ContentInv
  <2>5. FoldersKept'
    <3>1. ASSUME NEW s \in MappedFolders(db'), s # r
          PROVE  /\ s \in MappedFolders(db) /\ db'.maps[s].node = db.maps[s].node
                 /\ Calm(s)' => Calm(s)
      <4>1. s \in MappedFolders(db) /\ db'.maps[s].node = db.maps[s].node
        BY <2>3, <3>1 DEF MappedFolders
      <4> QED BY <1>2, <4>1
    <3>2. ASSUME NEW s \in MappedFolders(db'), s # r, r \in FolderRow PROVE db'.maps[s].node # node
      BY <3>1, <3>2 DEF MappedFolders
    <3>3. ASSUME NEW s \in MappedFolders(db'), NEW t \in MappedFolders(db'), Calm(s)',
                 db'.maps[s].node = db'.maps[t].node
          PROVE  s = t
      <4>1. CASE s = r
        BY <2>3, <3>2, <3>3, <4>1 DEF MappedFolders
      <4>2. CASE t = r
        BY <2>3, <3>2, <3>3, <4>2 DEF MappedFolders
      <4>3. CASE s # r /\ t # r
        <5>1. Calm(s) /\ s \in MappedFolders(db) /\ t \in MappedFolders(db)
              /\ db.maps[s].node = db.maps[t].node
          BY <3>1, <3>3, <4>3
        <5> QED BY <5>1 DEF ContentInv, FoldersKept
      <4> QED BY <4>1, <4>2, <4>3
    <3>4. ASSUME marker', NEW s \in MappedFolders(db') \cap DOMAIN db'.folders, Calm(s)'
          PROVE  db'.maps[s].node \in Range(proj')
      <4>1. CASE s = r
        BY <2>2, <2>3, <4>1
      <4>2. CASE s # r
        <5>1. db.maps[s].node \in Range(proj)
          BY <2>3, <3>1, <3>4, <4>2 DEF ContentInv, FoldersKept
        <5> QED BY <2>2, <3>1, <4>2, <5>1
      <4> QED BY <4>1, <4>2
    <3> QED BY <2>2, <3>3, <3>4 DEF FoldersKept
  <2>6. pass'.at = pass.at
    BY <1>0, <1>7, PassDid
  <2>7. StageGood' /\ pass'.at \notin Comparing
    BY <2>6 DEF ContentInv, StageGood, At, Comparing
  <2> QED BY <2>4, <2>5, <2>7, EarlyKept
<1> QED BY <1>4, <1>6, <1>7 DEF Project

LEMMA ProjectFolderKeeps ==
  ASSUME SmbInv, ContentInv, NEW r \in FolderRow, NEW node \in DirNode, ProjectFolder(r, node)
  PROVE  ContentInv'
<1>1. r \notin FileRow
  BY SmbSyncAssumption
<1>2. Root \in DirOf(db, FolderOf(r))
  BY DEF FolderOf, DirOf
<1>3. /\ At("project") /\ r \in pass.todo /\ Project(r, Root, node)
      /\ node \notin Range(proj) /\ \A s \in DOMAIN db.maps : db.maps[s].node # node
      /\ UNCHANGED <<marker, made, removed, raced>> /\ touched \ {node} \subseteq touched'
  BY DEF ProjectFolder
<1> QED BY <1>1, <1>2, <1>3, ProjectKeeps

LEMMA ProjectFileKeeps ==
  ASSUME SmbInv, ContentInv, NEW r \in FileRow, ProjectFile(r)
  PROVE  ContentInv'
<1>0. /\ At("project") /\ r \in pass.todo /\ r \notin FolderRow /\ r \in DOMAIN db.files
      /\ UNCHANGED <<marker, made, removed, touched, raced>>
  BY SmbKinds, SmbSyncAssumption DEF ProjectFile, SmbInv, PassGood, At, Rows, KeepsHistory
<1>1. db.files[r].blob \in FileNode \cup {NoData}
  <2>1. db.files[r] \in FileRecord
    BY <1>0, SmbKinds, TablesFields
  <2> QED BY <2>1 DEF FileRecord
<1>2. PICK dir \in DirOf(db, FolderOf(r)) :
        IF db.files[r].blob = NoData THEN Fails /\ UNCHANGED <<db, proj, events>>
        ELSE Project(r, dir, db.files[r].blob)
  BY DEF ProjectFile
<1>3. CASE db.files[r].blob = NoData
  BY <1>0, <1>2, <1>3, SameKept, EndWithinKept DEF ContentInv
<1>4. CASE db.files[r].blob # NoData
  BY <1>0, <1>1, <1>2, <1>4, ProjectKeeps
<1> QED BY <1>3, <1>4

-----------------------------------------------------------------------------
(* What is kept.                                                             *)

LEMMA ContentStarts == SmbInit => ContentInv
<1> SUFFICES ASSUME SmbInit PROVE ContentInv
  OBVIOUS
<1>1. /\ TablesGood(db) /\ DOMAIN db.maps = {} /\ DOMAIN proj = {}
      /\ ~marker /\ pass.at = "idle" /\ made = Blobs(db)
      /\ \A r \in DOMAIN db.files : db.files[r].blob \in FileNode
  <2>1. PICK s \in Shared : db = [files |-> s.files, folders |-> s.folders, maps |-> Nothing]
    BY DEF SmbInit
  <2>2. PICK R \in SUBSET FileRow :
          s.files \in [R -> [folder : {Root} \cup DOMAIN s.folders, name : Name, blob : FileNode]]
    BY SmbSyncAssumption
  <2>3. DOMAIN Nothing = {} /\ db.files = s.files /\ db.maps = Nothing
    BY <2>1 DEF Nothing
  <2>4. \A r \in DOMAIN s.files : s.files[r].blob \in FileNode
    BY <2>2
  <2>5. pass = Rest("idle", FALSE) /\ proj = Nothing /\ ~marker /\ made = Blobs(db)
    BY DEF SmbInit, Blobs
  <2>6. TablesGood(db)
    BY SmbStarts DEF SmbInv
  <2> QED BY <2>3, <2>4, <2>5, <2>6, RestIs
<1>2. FilesKept
  <2>1. made \subseteq FileNode /\ ContentKept
    BY <1>1 DEF ContentKept, Kept, Blobs
  <2> QED BY <1>1, <2>1 DEF FilesKept, MappedFiles
<1>3. FoldersKept
  BY <1>1 DEF FoldersKept, DirsOnce, MappedFolders
<1>4. ScanAgrees /\ ScanKept /\ StageGood
  BY <1>1 DEF ScanAgrees, Compared, ScanKept, Found, StageGood, At, Comparing
<1> QED BY <1>2, <1>3, <1>4 DEF ContentInv

LEMMA ContentStep == SmbInv /\ ContentInv /\ SmbNext => ContentInv'
BY SmbUserKeeps, WebUploadKeeps, WebDeleteFileKeeps, WebDeleteFolderKeeps, LoseProjectionKeeps,
   CrashDuringPassKeeps, BeginPassKeeps, WipeKeeps, UnmapKeeps, MarkKeeps, RemoveWebDeletedKeeps,
   ApplyEntryKeeps, RelinkKeeps, ApplyDuringSaveKeeps, BeginApplyKeeps, ScanKeeps,
   ScanDuringChangeKeeps, MoveFolderKeeps, EnterFolderKeeps, MoveFileKeeps, EnterFileKeeps,
   BeginFoldersKeeps, BeginMovesKeeps, BeginFilesKeeps, BeginDeletionsKeeps,
   BeginFolderDeletionsKeeps, DeleteUnseenFileKeeps, DeleteUnseenFolderKeeps, BeginProjectKeeps,
   EndPassKeeps, ProjectFolderKeeps, ProjectFileKeeps
   DEF SmbNext, SmbAction

LEMMA ContentStutters == ContentInv /\ UNCHANGED smbVars => ContentInv'
<1> SUFFICES ASSUME ContentInv, UNCHANGED smbVars PROVE ContentInv'
  OBVIOUS
<1>1. UNCHANGED <<db, proj, marker, pass, made, removed, touched, raced>>
  BY DEF smbVars
<1>2. FilesKept' /\ FoldersKept'
  BY <1>1, SameKept DEF ContentInv
<1>3. StageGood' /\ ScanAgrees'
  BY <1>1 DEF ContentInv, StageGood, At, ScanAgrees, Compared, Agrees, Lost
<1>4. ScanKept'
  BY <1>1 DEF ContentInv, ScanKept, DirThere, Found, Calm, Sees, InPlace, At
<1> QED BY <1>2, <1>3, <1>4 DEF ContentInv

LEMMA ContentHolds == FilesSpec => []ContentInv
<1>1. FilesInit => ContentInv
  BY ContentStarts DEF FilesInit
<1>2. SmbInv /\ ContentInv /\ [FilesNext]_fileVars => ContentInv'
  BY ContentStep, ContentStutters DEF FilesNext, fileVars
<1> QED BY <1>1, <1>2, SmbHolds, PTL DEF FilesSpec

\* A content that nobody deleted, overwrote or was refused, and whose entry stood still while
\* passes ran, stays in the storage or in the projection, whatever else users do, whenever a
\* pass ends early and whenever the projection is lost.
THEOREM ContentIsKept == FilesSpec => []ContentKept
<1>1. ContentInv => ContentKept
  BY DEF ContentInv, FilesKept
<1> QED BY <1>1, ContentHolds, PTL
=============================================================================
