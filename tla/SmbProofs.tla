------------------------------- MODULE SmbProofs -------------------------------
(***************************************************************************)
(* Proofs about what a synchronization of a shared repository with its      *)
(* projection (SmbSync) may delete and what it leaves behind, as FilesSpec  *)
(* of MCSmbStorage composes it with the other parts.  They rest on SmbInv   *)
(* and ContentInv of StorageProofs.                                         *)
(*                                                                         *)
(* That only users delete is about where a row's entry is.  FilesPlaced     *)
(* says that the entry of a row which is Quiet, since nobody touched it or  *)
(* its folder, is in the projection, and where the pass has still to find   *)
(* it; ContentsRaced, FoldersSettled and TwinsKnown say what disturbs that. *)
(* PlaceInv is their conjunction.                                           *)
(*                                                                         *)
(* That a pass which nothing disturbs leaves both sides in agreement is     *)
(* about the entries it has met.  EntriesMet and ScanMet say what is left   *)
(* of the scan in the projection and which entries have rows, SeenMet that  *)
(* these rows are mapped to them, UnseenLeft that every other one is still  *)
(* to be deleted, and Projected what that comes to once the rows without an *)
(* entry are projected.  AgreeInv is their conjunction.                     *)
(***************************************************************************)
EXTENDS StorageProofs

-----------------------------------------------------------------------------
(* The entries of files, and the rows that a pass deletes.                   *)

\* No user has changed the entry of a row or of its folder, and no other row has had
\* the same content.
Quiet(r) ==
  /\ r \in MappedFiles(db) \cap DOMAIN db.files
  /\ db.maps[r].node \notin touched \cup raced \cup twinned
  /\ db.files[r].folder # Root => Calm(db.files[r].folder)

\* A path lies in the directory of the row's folder.
AtHome(r, p) ==
  LET folder == db.files[r].folder
  IN  IF folder = Root THEN p[1] = Root
      ELSE /\ p[1] # Root /\ Top(p[1]) \in DOMAIN proj
           /\ proj[Top(p[1])] = db.maps[folder].node

\* The entry is there, though not always where the mapping says: a pass that ended within
\* a step may have moved it, or its directory.
Linked(r, p) == p \in DOMAIN proj /\ proj[p] = db.maps[r].node /\ AtHome(r, p)
SeenAt(r, p) == p \in Leaves(pass.scan) /\ pass.scan[p] = db.maps[r].node /\ Linked(r, p)

\* What a pass has found of a file whose entry nobody changed.
Placing(r) ==
  /\ \E p : Linked(r, p)
  /\ pass.at \in {"movefolders", "folders"} => \E p : SeenAt(r, p)
  /\ At("movefiles") => \/ SeenAt(r, db.maps[r].path)
                        \/ r \notin pass.stable /\ \E p \in pass.todo : SeenAt(r, p)
  /\ At("files") => /\ Linked(r, db.maps[r].path)
                    /\ db.maps[r].path \in pass.todo \/ r \in pass.seen
  /\ At("deletefiles") => r \notin pass.todo
FilesPlaced == marker => \A r \in FileRow : Quiet(r) => Placing(r)

\* What is stored for a mapped file, and what a scan saw where a file may be entered, is
\* another content only if one changed during a pass.
DataRaced(r) ==
  \/ db.files[r].blob \in {db.maps[r].node, NoData}
  \/ {db.files[r].blob, db.maps[r].node} \subseteq raced
Live(p) ==
  \/ p[1] = Root \/ ParentOf(db, p) # {} \/ At("movefolders")
  \/ At("folders") /\ Top(p[1]) \in pass.todo
SeenRaced(p) ==
  \/ EntryAt(proj, p) = {pass.scan[p]}
  \/ ({pass.scan[p]} \cup EntryAt(proj, p)) \cap FileNode \subseteq raced
ContentsRaced ==
  /\ \A r \in MappedFiles(db) \cap DOMAIN db.files : DataRaced(r)
  /\ \A p \in Compared : Live(p) => SeenRaced(p)

\* Folders that were applied or entered are where their mappings say.
Early == {"wipe", "unmap", "mark", "web"}
Entered == {"movefiles", "files", "deletefiles", "deletefolders", "project"}
FoldersSettled ==
  /\ pass.at \in Early => pass.stable = {}
  /\ At("apply") => \A r \in pass.stable : r \in MappedFolders(db) /\ (Calm(r) => InPlace(r))
  /\ pass.at \in Entered => \A r \in FolderRow : Calm(r) => InPlace(r)

TwinsKnown == Twins(db) \subseteq twinned
PlaceInv == FilesPlaced /\ ContentsRaced /\ FoldersSettled /\ TwinsKnown

\* A step from a state that all invariants hold in.
Ready ==
  /\ SmbInv /\ SmbInv' /\ ContentInv /\ ContentInv' /\ PlaceInv
  /\ twinned' = twinned \cup Twins(db')

-----------------------------------------------------------------------------
\* A row that stays what it was.
RowSame(r) ==
  /\ r \in MappedFiles(db) \cap DOMAIN db.files
  /\ db'.maps[r].node = db.maps[r].node
  /\ db'.files[r].folder = db.files[r].folder
  /\ db'.files[r].blob \in {db.files[r].blob, NoData}
  /\ \A s \in MappedFolders(db') : db.files[r].folder = s =>
       s \in MappedFolders(db) /\ db'.maps[s].node = db.maps[s].node
MarksStay ==
  /\ raced \subseteq raced'
  /\ \A s \in DOMAIN db.maps : db.maps[s].node \in touched => db.maps[s].node \in touched'
Steady(p) == p \in DOMAIN proj' /\ proj'[p] = proj[p]

LEMMA MarksKept ==
  ASSUME UNCHANGED <<touched, raced>> \/ (touched \subseteq touched' /\ raced \subseteq raced')
  PROVE  MarksStay
BY DEF MarksStay

LEMMA QuietWas ==
  ASSUME Ready, MarksStay, NEW r, RowSame(r), Quiet(r)'
  PROVE  Quiet(r)
<1>1. /\ db'.maps[r].node = db.maps[r].node /\ db'.files[r].folder = db.files[r].folder
      /\ r \in MappedFiles(db) \cap DOMAIN db.files /\ r \in DOMAIN db.maps
  BY DEF RowSame, MappedFiles
<1>2. db.maps[r].node \notin touched \cup raced \cup twinned
  BY <1>1 DEF Quiet, MarksStay, Ready
<1>3. ASSUME db.files[r].folder # Root PROVE Calm(db.files[r].folder)
  <2> DEFINE s == db.files[r].folder
  <2>1. s \in MappedFolders(db') /\ db'.maps[s].node \notin touched'
    BY <1>1, <1>3 DEF Quiet, Calm
  <2>2. s \in MappedFolders(db) /\ db'.maps[s].node = db.maps[s].node
    BY <2>1 DEF RowSame
  <2> QED BY <2>1, <2>2 DEF Calm, MarksStay, MappedFolders
<1> QED BY <1>1, <1>2, <1>3 DEF Quiet

LEMMA LinkedStays ==
  ASSUME NEW r, RowSame(r), Quiet(r)', NEW p, Linked(r, p), Steady(p),
         p[1] # Root => Steady(Top(p[1]))
  PROVE  Linked(r, p)'
<1>1. /\ db'.maps[r].node = db.maps[r].node /\ db'.files[r].folder = db.files[r].folder
  BY DEF RowSame
<1>2. p \in DOMAIN proj' /\ proj'[p] = db'.maps[r].node
  BY <1>1 DEF Linked, Steady
<1>3. CASE db.files[r].folder = Root
  BY <1>1, <1>2, <1>3 DEF Linked, AtHome
<1>4. CASE db.files[r].folder # Root
  <2> DEFINE s == db.files[r].folder
  <2>1. db'.maps[s].node = db.maps[s].node
    BY <1>1, <1>4 DEF Quiet, Calm, RowSame
  <2>2. p[1] # Root /\ Top(p[1]) \in DOMAIN proj /\ proj[Top(p[1])] = db.maps[s].node
    BY <1>4 DEF Linked, AtHome
  <2> QED BY <1>1, <1>2, <1>4, <2>1, <2>2 DEF Linked, AtHome, Steady
<1> QED BY <1>3, <1>4

\* The pass is at a stage that looks for no file.
LEMMA LinksStep ==
  ASSUME Ready, MarksStay, marker' => marker,
         pass'.at \notin {"movefolders", "folders", "movefiles", "files", "deletefiles"},
         \A r \in FileRow : Quiet(r)' =>
           \/ \E q : Linked(r, q)'
           \/ RowSame(r) /\ \A p : Quiet(r) /\ Linked(r, p) => \E q : Linked(r, q)'
  PROVE  FilesPlaced'
<1> SUFFICES ASSUME marker', NEW r \in FileRow, Quiet(r)' PROVE Placing(r)'
  BY DEF FilesPlaced
<1>1. CASE \E q : Linked(r, q)'
  BY <1>1 DEF Placing, At
<1>2. CASE RowSame(r) /\ \A p : Quiet(r) /\ Linked(r, p) => \E q : Linked(r, q)'
  <2>1. Quiet(r)
    BY <1>2, QuietWas
  <2>2. \E p : Linked(r, p)
    BY <2>1 DEF Ready, PlaceInv, FilesPlaced, Placing
  <2> QED BY <1>1, <1>2, <2>1, <2>2
<1> QED BY <1>1, <1>2

\* The pass is where it was.
LEMMA StageStep ==
  ASSUME Ready, MarksStay, marker, NEW r \in FileRow, Quiet(r)', RowSame(r),
         db'.maps[r].path = db.maps[r].path,
         pass'.at = pass.at, pass'.scan = pass.scan, pass'.stable = pass.stable,
         At("movefiles") => pass'.todo = pass.todo,
         At("files") => (db.maps[r].path \in pass.todo \ pass'.todo => r \in pass'.seen),
         pass.seen \subseteq pass'.seen,
         At("deletefiles") => pass'.todo \subseteq pass.todo,
         \A p : Quiet(r) /\ Linked(r, p) => Linked(r, p)'
  PROVE  Placing(r)'
<1>1. Quiet(r) /\ Placing(r)
  BY QuietWas DEF Ready, PlaceInv, FilesPlaced
<1>2. \A p : SeenAt(r, p) => SeenAt(r, p)'
  BY <1>1 DEF SeenAt, Leaves, RowSame
<1>3. \A p : Linked(r, p) => Linked(r, p)'
  BY <1>1
<1>4. (\E p : Linked(r, p)) => \E p : Linked(r, p)'
  BY <1>3
<1>5. (\E p : SeenAt(r, p)) => \E p : SeenAt(r, p)'
  BY <1>2
<1>6. (\E p \in pass.todo : SeenAt(r, p)) => \E p \in pass.todo : SeenAt(r, p)'
  BY <1>2
<1>7. At("movefiles") => \/ SeenAt(r, db.maps[r].path)'
                         \/ r \notin pass'.stable /\ \E p \in pass'.todo : SeenAt(r, p)'
  BY <1>1, <1>2, <1>6 DEF Placing
<1>8. At("files") => /\ Linked(r, db.maps[r].path)'
                     /\ db.maps[r].path \in pass'.todo \/ r \in pass'.seen
  BY <1>1, <1>3 DEF Placing
<1> QED BY <1>1, <1>4, <1>5, <1>7, <1>8 DEF Placing, At

\* The contents of rows, and what was seen at paths that are still compared.
EntryRaces(p) ==
  \/ EntryAt(proj', p) = EntryAt(proj, p)
  \/ (EntryAt(proj, p) \cup EntryAt(proj', p)) \cap FileNode \subseteq raced'

LEMMA DataStep ==
  ASSUME Ready, raced \subseteq raced',
         \A r \in MappedFiles(db') \cap DOMAIN db'.files : RowSame(r) \/ DataRaced(r)'
  PROVE  \A r \in MappedFiles(db') \cap DOMAIN db'.files : DataRaced(r)'
<1> SUFFICES ASSUME NEW r \in MappedFiles(db') \cap DOMAIN db'.files, RowSame(r)
             PROVE  DataRaced(r)'
  OBVIOUS
<1>1. DataRaced(r)
  BY DEF RowSame, Ready, PlaceInv, ContentsRaced
<1> QED BY <1>1 DEF RowSame, DataRaced

LEMMA ContentsStep ==
  ASSUME Ready, raced \subseteq raced', pass'.scan = pass.scan, Compared' \subseteq Compared,
         \A r \in MappedFiles(db') \cap DOMAIN db'.files : RowSame(r) \/ DataRaced(r)',
         \A p \in Compared' : Live(p)' => Live(p) /\ EntryRaces(p)
  PROVE  ContentsRaced'
<1>1. \A r \in MappedFiles(db') \cap DOMAIN db'.files : DataRaced(r)'
  BY DataStep
<1>2. ASSUME NEW p \in Compared', Live(p)' PROVE SeenRaced(p)'
  <2>1. SeenRaced(p) /\ EntryRaces(p)
    BY <1>2 DEF Ready, PlaceInv, ContentsRaced
  <2>2. CASE EntryAt(proj', p) = EntryAt(proj, p)
    BY <2>1, <2>2 DEF SeenRaced
  <2>3. CASE (EntryAt(proj, p) \cup EntryAt(proj', p)) \cap FileNode \subseteq raced'
    BY <2>1, <2>3 DEF SeenRaced
  <2> QED BY <2>1, <2>2, <2>3 DEF EntryRaces
<1> QED BY <1>1, <1>2 DEF ContentsRaced

LEMMA ContentsUncompared ==
  ASSUME Ready, raced \subseteq raced',
         pass'.at \notin {"movefolders", "folders", "movefiles", "files"},
         \A r \in MappedFiles(db') \cap DOMAIN db'.files : RowSame(r) \/ DataRaced(r)'
  PROVE  ContentsRaced'
<1>1. Compared' = {}
  BY DEF Compared, At
<1> QED BY <1>1, DataStep DEF ContentsRaced

-----------------------------------------------------------------------------
(* What most steps have in common.                                           *)

LEMMA RowsFewer ==
  ASSUME SmbInv, SmbInv',
         \A s \in DOMAIN db'.maps : s \in DOMAIN db.maps /\ db'.maps[s].node = db.maps[s].node,
         \A s \in DOMAIN db'.files \cap DOMAIN db'.maps :
           /\ s \in DOMAIN db.files /\ db'.files[s].folder = db.files[s].folder
           /\ db'.files[s].blob \in {db.files[s].blob, NoData}
  PROVE  \A r \in MappedFiles(db') \cap DOMAIN db'.files : RowSame(r)
BY DEF RowSame, MappedFiles, MappedFolders

LEMMA RowsUnchanged ==
  ASSUME SmbInv, SmbInv', UNCHANGED db
  PROVE  \A r \in MappedFiles(db') \cap DOMAIN db'.files : RowSame(r)
BY RowsFewer

\* The entry of a row is one of the entries that stay.
LEMMA LinkedSame ==
  ASSUME SmbInv, NEW r, RowSame(r), Quiet(r)', NEW p, Linked(r, p),
         \A q \in DOMAIN proj : q = p \/ proj[q] \in DirNode => Steady(q)
  PROVE  Linked(r, p)'
<1>1. p \in DOMAIN proj /\ (p[1] # Root => Top(p[1]) \in DOMAIN proj /\ proj[Top(p[1])] \in DirNode)
  BY SmbKinds, EntryFacts DEF Linked
<1> QED BY <1>1, LinkedStays

LEMMA LinkedQuiet ==
  ASSUME SmbInv, NEW r, RowSame(r), Quiet(r)', NEW p, Linked(r, p), UNCHANGED proj
  PROVE  Linked(r, p)'
BY LinkedSame DEF Steady

\* The steps of users and of a pass in which folders stay where they are.
LEMMA SettledStays ==
  ASSUME Ready, DirsStay, TouchedStay, pass'.at = pass.at, pass'.stable = pass.stable,
         \A r \in MappedFolders(db') : FolderKept(r) /\ db'.maps[r].path = db.maps[r].path,
         At("apply") => MappedFolders(db) \subseteq MappedFolders(db')
  PROVE  FoldersSettled'
<1>1. ASSUME NEW r, Calm(r)', Calm(r) => InPlace(r) PROVE InPlace(r)'
  <2>1. /\ FolderKept(r) /\ db'.maps[r].path = db.maps[r].path
        /\ db'.maps[r].node = db.maps[r].node /\ r \in DOMAIN db.maps /\ r \in FolderRow
    BY <1>1 DEF Calm, FolderKept, MappedFolders
  <2>2. InPlace(r) /\ db.maps[r].node \notin touched'
    BY <1>1, <2>1, CalmStays DEF Calm
  <2>3. db.maps[r].node \in DirNode
    BY <2>1, SmbKinds, MappingFacts DEF Ready
  <2> QED BY <2>1, <2>2, <2>3 DEF InPlace, DirsStay
<1> QED BY <1>1 DEF Ready, PlaceInv, FoldersSettled, At

LEMMA SettledNowhere ==
  ASSUME pass'.at \notin Early \cup {"apply"} \cup Entered
  PROVE  FoldersSettled'
BY DEF FoldersSettled, At, Early, Entered

LEMMA TwinsStep ==
  ASSUME Ready
  PROVE  TwinsKnown'
BY DEF Ready, TwinsKnown

\* The pass ends, or there is none.
LEMMA EndPlaced ==
  ASSUME Ready, MarksStay, marker' => marker, pass'.at \in {"idle", "done", "failed"},
         \A r \in MappedFiles(db') \cap DOMAIN db'.files : RowSame(r),
         \A r \in FileRow : Quiet(r)' /\ RowSame(r) =>
           \A p : Quiet(r) /\ Linked(r, p) => \E q : Linked(r, q)'
  PROVE  PlaceInv'
<1>1. \A r \in FileRow : Quiet(r)' => RowSame(r)
  BY DEF Quiet
<1>2. FilesPlaced'
  BY <1>1, LinksStep
<1>3. ContentsRaced'
  BY ContentsUncompared DEF MarksStay
<1>4. FoldersSettled'
  BY SettledNowhere DEF Early, Entered
<1> QED BY <1>2, <1>3, <1>4, TwinsStep DEF PlaceInv

LEMMA EndQuiet ==
  ASSUME Ready, MarksStay, marker' => marker, pass'.at \in {"idle", "done", "failed"},
         \A r \in MappedFiles(db') \cap DOMAIN db'.files : RowSame(r), UNCHANGED proj
  PROVE  PlaceInv'
BY LinkedQuiet, EndPlaced DEF Ready

LEMMA EndSame ==
  ASSUME Ready, UNCHANGED <<db, proj, touched, raced>>, marker' => marker,
         pass'.at \in {"idle", "done", "failed"}
  PROVE  PlaceInv'
BY RowsUnchanged, MarksKept, EndQuiet DEF Ready

-----------------------------------------------------------------------------
(* Users and routes.                                                         *)

\* A user's change of an entry is one of what is there.
EntriesStay == \A p \in DOMAIN proj : Steady(p) \/ proj[p] \in touched'

LEMMA WrittenStays ==
  ASSUME NEW p, NEW n, proj' = With(proj, p, n)
  PROVE  \A q \in DOMAIN proj \ {p} : Steady(q)
BY DEF With, Steady

LEMMA RemovedStays ==
  ASSUME NEW S, proj' = Without(proj, S)
  PROVE  \A q \in DOMAIN proj \ S : Steady(q)
BY DEF Without, Restrict, Steady

LEMMA ChangeEntries ==
  ASSUME IsTree(proj), SmbChange
  PROVE  EntriesStay
<1>1. ASSUME NEW p \in Path, NEW n \in FileNode, SmbWrite(p, n) PROVE EntriesStay
  <2>1. /\ proj' = With(proj, p, n)
        /\ touched' = touched \cup NodesOf(proj, {p} \cap DOMAIN proj)
        /\ p \in DOMAIN proj => proj[p] \in FileNode
    BY <1>1 DEF SmbWrite, FileAt, Vacant
  <2>2. p \in DOMAIN proj => proj[p] \in touched'
    BY <2>1 DEF NodesOf
  <2> QED BY <2>1, <2>2, WrittenStays DEF EntriesStay
<1>2. ASSUME NEW p \in Path, SmbUnlink(p) PROVE EntriesStay
  <2>1. proj' = Without(proj, {p}) /\ proj[p] \in touched'
    BY <1>2 DEF SmbUnlink
  <2> QED BY <2>1, RemovedStays DEF EntriesStay
<1>3. ASSUME NEW p \in Path, NEW q \in Path, SmbRename(p, q) PROVE EntriesStay
  <2> DEFINE g == Without(proj, {p})
  <2>1. /\ proj' = With(g, q, proj[p])
        /\ touched' = touched \cup NodesOf(proj, {p, q} \cap DOMAIN proj)
        /\ p \in DOMAIN proj /\ proj[p] \in FileNode
        /\ q \in DOMAIN proj => proj[q] \in FileNode
    BY <1>3 DEF SmbRename, FileAt, Vacant
  <2>2. proj[p] \in touched' /\ (q \in DOMAIN proj => proj[q] \in touched')
    BY <2>1 DEF NodesOf
  <2>3. DOMAIN g = DOMAIN proj \ {p} /\ \A t \in DOMAIN g : g[t] = proj[t]
    BY DEF Without, Restrict
  <2> HIDE DEF g
  <2>4. \A t \in DOMAIN g \ {q} : t \in DOMAIN proj' /\ proj'[t] = g[t]
    BY <2>1 DEF With
  <2> QED BY <2>2, <2>3, <2>4 DEF EntriesStay, Steady
<1>4. ASSUME NEW n \in Name, NEW node \in DirNode, SmbMkdir(n, node) PROVE EntriesStay
  <2>1. proj' = With(proj, Top(n), node) /\ Top(n) \notin DOMAIN proj
    BY <1>4 DEF SmbMkdir, Vacant
  <2> QED BY <2>1, WrittenStays DEF EntriesStay
<1>5. ASSUME NEW n \in Name, SmbRmdir(n) PROVE EntriesStay
  <2>1. proj' = Without(proj, {Top(n)}) /\ proj[Top(n)] \in touched'
    BY <1>5 DEF SmbRmdir
  <2> QED BY <2>1, RemovedStays DEF EntriesStay
<1>6. ASSUME NEW n \in Name, NEW m \in Name, SmbRenameDir(n, m) PROVE EntriesStay
  <2> DEFINE from == Top(n)
             to == Top(m)
             U == Under(proj, from)
             g == Renamed(proj, from, to)
  <2>1. /\ to \notin DOMAIN proj /\ proj' = g /\ touched' = touched \cup {proj[p] : p \in U}
    BY <1>6 DEF SmbRenameDir, Vacant
  <2>2. /\ DOMAIN g = (DOMAIN proj \ U) \cup {Shifted(o, from, to) : o \in U}
        /\ \A q \in DOMAIN g :
             \/ \E o \in U : q = Shifted(o, from, to) /\ g[q] = proj[o]
             \/ /\ q \in DOMAIN proj \ U /\ g[q] = proj[q]
                /\ \A o \in U : q # Shifted(o, from, to)
    BY RenamedIs
  <2>3. \A o \in U : Shifted(o, from, to) = to \/ Shifted(o, from, to)[1] = m
    <3> SUFFICES ASSUME NEW o \in U, o # from PROVE Shifted(o, from, to)[1] = m
      BY DEF Shifted
    <3>1. InDir(o, from)
      BY DEF Under
    <3>2. Shifted(o, from, to) = <<m, o[2]>>
      BY <3>1 DEF Shifted, Top
    <3> QED BY <3>2
  <2>4. m # Root /\ to = Top(m)
    BY SmbSyncAssumption
  <2>5. \A q \in DOMAIN proj : q # to /\ q[1] # m
    BY <2>1, <2>4, EntryFacts
  <2> HIDE DEF U, g, from, to
  <2>6. \A q \in DOMAIN proj : q \in U \/ Steady(q)
    BY <2>1, <2>2, <2>3, <2>4, <2>5 DEF Steady
  <2>7. \A q \in U : proj[q] \in touched'
    BY <2>1
  <2> QED BY <2>6, <2>7 DEF EntriesStay
<1> QED BY <1>1, <1>2, <1>3, <1>4, <1>5, <1>6 DEF SmbChange

\* What a row has, and its folder's directory, is not changed if it stays quiet.
LEMMA QuietLinked ==
  ASSUME SmbInv, EntriesStay, NEW r, RowSame(r), Quiet(r)', NEW p, Linked(r, p)
  PROVE  Linked(r, p)' /\ Steady(p) /\ (p[1] # Root => Steady(Top(p[1])))
<1>1. p \in DOMAIN proj /\ proj[p] = db.maps[r].node /\ db'.maps[r].node = db.maps[r].node
      /\ db'.files[r].folder = db.files[r].folder
  BY DEF Linked, RowSame
<1>2. Steady(p)
  BY <1>1 DEF EntriesStay, Quiet
<1>3. ASSUME p[1] # Root PROVE Steady(Top(p[1]))
  <2> DEFINE s == db.files[r].folder
  <2>1. s # Root /\ Top(p[1]) \in DOMAIN proj /\ proj[Top(p[1])] = db.maps[s].node
    BY <1>3 DEF Linked, AtHome
  <2>2. db.maps[s].node = db'.maps[s].node /\ db'.maps[s].node \notin touched'
    BY <1>1, <2>1 DEF Quiet, Calm, RowSame
  <2> QED BY <2>1, <2>2 DEF EntriesStay
<1> QED BY <1>2, <1>3, LinkedStays

LEMMA RacesRaced ==
  ASSUME RacesWithPass
  PROVE  raced \subseteq raced' /\ \A p : EntryRaces(p)
<1> DEFINE same == {p \in DOMAIN proj \cap DOMAIN proj' : proj[p] = proj'[p]}
<1>1. /\ NodesOf(proj, DOMAIN proj \ same) \subseteq raced'
      /\ NodesOf(proj', DOMAIN proj' \ same) \subseteq raced'
      /\ raced \subseteq raced'
  BY DEF RacesWithPass, Differing
<1>2. ASSUME NEW p PROVE EntryRaces(p)
  <2>1. CASE p \in same
    BY <2>1 DEF EntryRaces, EntryAt
  <2>2. CASE p \notin same
    <3>1. EntryAt(proj, p) \cap FileNode \subseteq raced'
      BY <1>1, <2>2 DEF EntryAt, NodesOf
    <3>2. EntryAt(proj', p) \cap FileNode \subseteq raced'
      BY <1>1, <2>2 DEF EntryAt, NodesOf
    <3> QED BY <3>1, <3>2 DEF EntryRaces
  <2> QED BY <2>1, <2>2
<1> QED BY <1>1, <1>2

LEMMA UserPlaced ==
  ASSUME Ready, SmbUser
  PROVE  PlaceInv'
<1>1. EntriesStay /\ DirsStay /\ TouchedStay
  BY SmbKinds, ChangeEntries, ChangeDirs DEF SmbUser, Ready, ContentInv, FoldersKept
<1>2. UNCHANGED <<db, marker>>
  BY DEF SmbUser
<1>3. /\ pass'.at = pass.at /\ pass'.scan = pass.scan /\ pass'.todo = pass.todo
      /\ pass'.stable = pass.stable /\ pass'.seen = pass.seen
  BY PassDisturbed DEF SmbUser, Disturbed, Ready, SmbInv, PassGood
<1>4. raced \subseteq raced' /\ (~Resting => \A p : EntryRaces(p))
  BY RacesRaced DEF SmbUser
<1>5. MarksStay
  BY <1>1, <1>4 DEF MarksStay, TouchedStay
<1>6. \A r \in MappedFiles(db') \cap DOMAIN db'.files : RowSame(r)
  BY <1>2, RowsUnchanged DEF Ready
<1>7. FilesPlaced'
  <2> SUFFICES ASSUME marker', NEW r \in FileRow, Quiet(r)' PROVE Placing(r)'
    BY DEF FilesPlaced
  <2>1. RowSame(r) /\ marker
    BY <1>2, <1>6 DEF Quiet
  <2>2. \A p : Linked(r, p) => Linked(r, p)'
    BY <1>1, <2>1, QuietLinked DEF Ready
  <2> QED BY <1>2, <1>3, <1>5, <2>1, <2>2, StageStep
<1>8. ContentsRaced'
  <2>1. CASE Resting
    BY <1>3, <1>4, <1>6, <2>1, ContentsUncompared DEF Resting
  <2>2. CASE ~Resting
    <3>1. Compared' = Compared /\ \A p : Live(p)' => Live(p)
      BY <1>2, <1>3 DEF Compared, Live, At, Leaves
    <3> QED BY <1>3, <1>4, <1>6, <2>2, <3>1, ContentsStep
  <2> QED BY <2>1, <2>2
<1>9. FoldersSettled'
  BY <1>1, <1>2, <1>3, SameFolders, SettledStays
<1> QED BY <1>7, <1>8, <1>9, TwinsStep DEF PlaceInv

\* The routes leave the mappings and the projection alone.
LEMMA RoutePlaced ==
  ASSUME Ready, Resting, Disturbed, UNCHANGED <<proj, marker, touched, raced>>,
         db'.maps = db.maps,
         \A s \in DOMAIN db'.files \cap DOMAIN db.maps :
           s \in DOMAIN db.files /\ db'.files[s] = db.files[s]
  PROVE  PlaceInv'
<1>1. pass'.at \in {"idle", "done", "failed"}
  BY SmbKinds, PassDisturbed DEF Disturbed, Resting, Ready
<1>2. \A r \in MappedFiles(db') \cap DOMAIN db'.files : RowSame(r)
  BY RowsFewer DEF Ready
<1> QED BY <1>1, <1>2, MarksKept, EndQuiet

LEMMA WebUploadPlaced ==
  ASSUME Ready, NEW r \in FileRow, NEW folder \in {Root} \cup FolderRow,
         NEW name \in Name, NEW n \in FileNode, WebUpload(r, folder, name, n)
  PROVE  PlaceInv'
<1> DEFINE row == [folder |-> folder, name |-> name, blob |-> n]
           F == With(db.files, r, row)
<1>1. /\ r \notin DOMAIN db.maps
      /\ db' = [db EXCEPT !.files = F]
      /\ Resting /\ Disturbed /\ UNCHANGED <<proj, marker, touched, raced>>
  BY DEF WebUpload, Rows
<1>2. \A s \in DOMAIN F \ {r} : s \in DOMAIN db.files /\ F[s] = db.files[s]
  BY DEF With
<1> HIDE DEF row, F
<1>3. db'.files = F /\ db'.maps = db.maps
  BY <1>1, SmbKinds DEF Tables, Ready
<1> QED BY <1>1, <1>2, <1>3, RoutePlaced

LEMMA WebDeletePlaced ==
  ASSUME Ready, NEW S, NEW F, F = Without(db.files, S), db'.files = F, db'.maps = db.maps,
         Resting, Disturbed, UNCHANGED <<proj, marker, touched, raced>>
  PROVE  PlaceInv'
<1>1. \A s \in DOMAIN F : s \in DOMAIN db.files /\ F[s] = db.files[s]
  BY DEF Without, Restrict
<1> QED BY <1>1, RoutePlaced

LEMMA WebDeletesPlaced ==
  ASSUME Ready, NEW r, WebDeleteFile(r) \/ WebDeleteFolder(r)
  PROVE  PlaceInv'
<1>1. Resting /\ Disturbed /\ UNCHANGED <<proj, marker, touched, raced>>
  BY DEF WebDeleteFile, WebDeleteFolder
<1>2. CASE WebDeleteFile(r)
  <2> DEFINE F == Without(db.files, {r})
  <2>1. db' = [db EXCEPT !.files = F]
    BY <1>2 DEF WebDeleteFile
  <2>2. F = Without(db.files, {r})
    OBVIOUS
  <2> HIDE DEF F
  <2>3. db'.files = F /\ db'.maps = db.maps
    BY <2>1, SmbKinds DEF Tables, Ready
  <2> QED BY <1>1, <2>2, <2>3, WebDeletePlaced
<1>3. CASE WebDeleteFolder(r)
  <2> DEFINE S == FilesOf(db, r)
             F == Without(db.files, S)
             D == Without(db.folders, {r})
  <2>1. db' = [db EXCEPT !.files = F, !.folders = D]
    BY <1>3 DEF WebDeleteFolder
  <2>2. F = Without(db.files, S)
    OBVIOUS
  <2> HIDE DEF F, S, D
  <2>3. db'.files = F /\ db'.maps = db.maps
    BY <2>1, SmbKinds DEF Tables, Ready
  <2> QED BY <1>1, <2>2, <2>3, WebDeletePlaced
<1> QED BY <1>2, <1>3

LEMMA LoseProjectionPlaced ==
  ASSUME Ready, LoseProjection
  PROVE  PlaceInv'
<1>1. /\ ~marker' /\ UNCHANGED raced /\ pass'.at \in {"idle", "done", "failed"}
  BY SmbKinds, PassDisturbed DEF LoseProjection, Disturbed, Resting, Ready
<1>2. /\ db'.files = db.files /\ db'.folders = db.folders
      /\ db'.maps = db.maps \/ db'.maps = Nothing
  BY SmbKinds, UnmappedGood DEF LoseProjection, Ready
<1>3. DOMAIN Nothing = {}
  BY DEF Nothing
<1>4. \A s \in DOMAIN db'.maps : s \in DOMAIN db.maps /\ db'.maps[s].node = db.maps[s].node
  BY <1>2, <1>3
<1>5. \A r \in MappedFiles(db') \cap DOMAIN db'.files : RowSame(r)
  BY <1>2, <1>4, RowsFewer DEF Ready
<1>6. ContentsRaced'
  BY <1>1, <1>5, ContentsUncompared
<1>7. FoldersSettled' /\ FilesPlaced'
  BY <1>1, SettledNowhere DEF FilesPlaced, Early, Entered
<1> QED BY <1>6, <1>7, TwinsStep DEF PlaceInv

LEMMA FailsAt ==
  ASSUME Fails \/ EndsWithin
  PROVE  pass'.at = "failed"
<1>1. PICK c : pass' = Rest("failed", c)
  BY DEF Fails, EndsWithin
<1> QED BY <1>1, RestIs

LEMMA CrashPlaced ==
  ASSUME Ready, CrashDuringPass
  PROVE  PlaceInv'
BY RestIs, EndSame DEF CrashDuringPass

-----------------------------------------------------------------------------
(* A pass: the marker, and entries whose rows were deleted.                  *)

LEMMA EarlyPlaced ==
  ASSUME Ready, UNCHANGED raced, pass'.at \in Early, pass'.stable = {},
         \A r \in MappedFiles(db') \cap DOMAIN db'.files : RowSame(r), FilesPlaced'
  PROVE  PlaceInv'
<1>1. ContentsRaced'
  BY ContentsUncompared DEF Early
<1>2. FoldersSettled'
  BY DEF FoldersSettled, At, Early, Entered
<1> QED BY <1>1, <1>2, TwinsStep DEF PlaceInv

LEMMA BeginPassPlaced ==
  ASSUME Ready, BeginPass
  PROVE  PlaceInv'
<1> DEFINE at == IF marker THEN "web" ELSE "wipe"
<1>1. UNCHANGED <<db, proj, marker, touched, raced>> /\ pass' = Rest(at, TRUE)
      /\ at \in {"web", "wipe"}
  BY DEF BeginPass
<1> HIDE DEF at
<1>2. pass'.at \in {"web", "wipe"} /\ pass'.stable = {}
  BY <1>1 DEF Rest
<1>3. \A r \in MappedFiles(db') \cap DOMAIN db'.files : RowSame(r)
  BY <1>1, RowsUnchanged DEF Ready
<1>4. FilesPlaced'
  <2>1. MarksStay
    BY <1>1, MarksKept
  <2>2. \A r \in FileRow : Quiet(r)' => RowSame(r)
    BY <1>3 DEF Quiet
  <2>3. \A r, p : Quiet(r)' /\ RowSame(r) /\ Linked(r, p) => Linked(r, p)'
    BY <1>1, LinkedQuiet DEF Ready
  <2> QED BY <1>1, <1>2, <2>1, <2>2, <2>3, LinksStep
<1> QED BY <1>1, <1>2, <1>3, <1>4, EarlyPlaced DEF Early

\* Without the marker no mapping counts.
LEMMA UnmarkedPlaced ==
  ASSUME Ready, Wipe \/ Unmap \/ Mark
  PROVE  PlaceInv'
<1>1. /\ UNCHANGED raced /\ db' \in {db, [db EXCEPT !.maps = Nothing]}
      /\ pass'.at \in {"unmap", "mark", "web"} /\ pass'.stable = pass.stable
      /\ pass.at \in {"wipe", "unmap", "mark"}
  BY SmbKinds, PassGoes DEF Wipe, Unmap, Mark, KeepsHistory, Ready, At
<1>2. pass'.stable = {}
  BY <1>1 DEF Ready, PlaceInv, FoldersSettled, Early
<1>3. /\ db'.files = db.files /\ db'.folders = db.folders
      /\ db'.maps = db.maps \/ db'.maps = Nothing
  BY <1>1, SmbKinds, UnmappedGood DEF Ready
<1>4. DOMAIN Nothing = {}
  BY DEF Nothing
<1>5. \A s \in DOMAIN db'.maps : s \in DOMAIN db.maps /\ db'.maps[s].node = db.maps[s].node
  BY <1>3, <1>4
<1>6. \A r \in MappedFiles(db') \cap DOMAIN db'.files : RowSame(r)
  BY <1>3, <1>5, RowsFewer DEF Ready
<1>7. ~marker \/ DOMAIN db.maps = {}
  BY <1>1 DEF Ready, ContentInv, StageGood, At
<1>8. FilesPlaced'
  <2>1. CASE Mark
    <3>1. UNCHANGED db /\ DOMAIN db.maps = {}
      BY <2>1 DEF Mark, Ready, ContentInv, StageGood
    <3> QED BY <3>1 DEF FilesPlaced, Quiet, MappedFiles
  <2>2. CASE Wipe \/ Unmap
    <3>1. ~marker'
      BY <2>2 DEF Wipe, Unmap, Ready, ContentInv, StageGood, At
    <3> QED BY <3>1 DEF FilesPlaced
  <2> QED BY <2>1, <2>2
<1> QED BY <1>1, <1>2, <1>6, <1>8, EarlyPlaced DEF Early

\* Another row with the same content would be an excuse.
LEMMA NoTwin ==
  ASSUME Ready, NEW r, Quiet(r), NEW s \in DOMAIN db.maps, s # r
  PROVE  db.maps[s].node # db.maps[r].node
<1> SUFFICES ASSUME db.maps[s].node = db.maps[r].node PROVE FALSE
  OBVIOUS
<1> DEFINE n == db.maps[r].node
<1>1. r \in DOMAIN db.maps /\ r \in FileRow
  BY DEF Quiet, MappedFiles
<1>2. n \in FileNode
  BY <1>1, SmbKinds, MappingFacts DEF Ready
<1>3. r \in Holders(db, n) /\ s \in Holders(db, n)
  BY <1>1 DEF Holders
<1>4. n \in Twins(db)
  BY <1>2, <1>3 DEF Twins
<1> QED BY <1>4 DEF Ready, PlaceInv, TwinsKnown, Quiet

\* The folder of a quiet row.
LEMMA HomeFacts ==
  ASSUME Ready, NEW r, Quiet(r)
  PROVE  LET folder == db.files[r].folder
             path == db.maps[r].path
         IN  /\ r \in FileRow /\ r \in DOMAIN db.maps /\ r \in DOMAIN db.files
             /\ path \in Path /\ db.maps[r].node \in FileNode /\ db.maps[r].node \notin DirNode
             /\ ParentOf(db, path) = {folder}
             /\ folder = Root => path[1] = Root
             /\ folder # Root =>
                  /\ folder \in FolderRow /\ folder \in DOMAIN db.maps /\ folder \in DOMAIN db.folders
                  /\ folder \in MappedFolders(db) /\ Calm(folder)
                  /\ db.maps[folder].node \in DirNode
                  /\ path[1] # Root /\ db.maps[folder].path = Top(path[1])
<1> DEFINE folder == db.files[r].folder
           path == db.maps[r].path
<1>1. r \in FileRow /\ r \in DOMAIN db.maps /\ r \in DOMAIN db.files
  BY DEF Quiet, MappedFiles
<1>2. path \in Path /\ db.maps[r].node \in FileNode /\ db.maps[r].node \notin DirNode
  BY <1>1, SmbKinds, MappingFacts, SmbSyncAssumption DEF Ready
<1>3. ParentOf(db, path) = {folder}
  BY <1>1 DEF Ready, SmbInv, TablesGood, Placed
<1>4. CASE folder = Root
  <2>1. path[1] = Root
    BY <1>3, <1>4, OneParent, SmbKinds, SmbSyncAssumption DEF Ready
  <2> QED BY <1>1, <1>2, <1>3, <1>4, <2>1
<1>5. CASE folder # Root
  <2>1. Calm(folder) /\ folder \in MappedFolders(db)
    BY <1>5 DEF Quiet, Calm
  <2>2. folder \in FolderRow /\ folder \in DOMAIN db.maps
    BY <2>1 DEF MappedFolders
  <2>3. folder \in DOMAIN db.folders
    BY <1>1, <1>5 DEF Ready, SmbInv, TablesGood, RowsGood
  <2>4. db.maps[folder].node \in DirNode
    BY <2>2, SmbKinds, MappingFacts DEF Ready
  <2>5. path[1] # Root /\ db.maps[folder].path = Top(path[1])
    BY <1>3, <1>5, OneParent, SmbKinds DEF Ready
  <2> QED BY <1>1, <1>2, <1>3, <1>5, <2>1, <2>2, <2>3, <2>4, <2>5
<1> QED BY <1>4, <1>5

\* The entry of an orphaned mapping is no row's, and neither is what lies below it.
LEMMA OrphanEntries ==
  ASSUME Ready, NEW r \in Orphans, InPlace(r), NEW s, Quiet(s), NEW p, Linked(s, p),
         NEW q \in Under(proj, db.maps[r].path)
  PROVE  q # p /\ (p[1] # Root => q # Top(p[1]))
<1> DEFINE path == db.maps[r].path
           folder == db.files[s].folder
<1>1. r \in DOMAIN db.maps /\ r \notin DOMAIN db.files /\ r \notin DOMAIN db.folders
  BY DEF Orphans, Rows
<1>2. s # r /\ db.maps[r].node # db.maps[s].node
  BY <1>1, HomeFacts, NoTwin
<1>3. path \in DOMAIN proj /\ proj[path] = db.maps[r].node /\ path[2] \in Name /\ path[2] # Root
  BY <1>1, SmbKinds, MappingFacts, SmbSyncAssumption DEF InPlace, Ready
<1>4. p \in DOMAIN proj /\ proj[p] = db.maps[s].node
  BY DEF Linked
\* A directory that is not that of a folder.
<1>5. ASSUME p[1] # Root, path = Top(p[1]) PROVE FALSE
  <2>1. folder # Root /\ proj[Top(p[1])] = db.maps[folder].node
    BY <1>5 DEF Linked, AtHome
  <2>2. Calm(folder) /\ folder \in MappedFolders(db) /\ folder # r /\ db.maps[folder].node \in DirNode
    BY <1>1, <2>1, HomeFacts
  <2>3. db.maps[r].node = db.maps[folder].node
    BY <1>3, <1>5, <2>1
  <2>4. r \in MappedFolders(db)
    BY <1>1, <2>2, <2>3, SmbKinds, MappingFacts, SmbSyncAssumption DEF MappedFolders, Ready
  <2> QED BY <2>2, <2>3, <2>4 DEF Ready, ContentInv, FoldersKept
<1>6. q = path \/ (path[1] = Root /\ q[1] = path[2])
  BY DEF Under, InDir
<1>7. q = p => FALSE
  <2> SUFFICES ASSUME q = p PROVE FALSE
    OBVIOUS
  <2>1. path[1] = Root /\ p[1] = path[2]
    BY <1>2, <1>3, <1>4, <1>6
  <2>2. path = Top(p[1])
    BY <1>3, <2>1, SmbKinds, EntryFacts DEF Top, Ready
  <2> QED BY <1>3, <1>5, <2>1, <2>2
<1>8. p[1] # Root /\ q = Top(p[1]) => FALSE
  <2> SUFFICES ASSUME p[1] # Root, q = Top(p[1]) PROVE FALSE
    OBVIOUS
  <2>1. q[1] = Root
    BY DEF Top
  <2> QED BY <1>3, <1>5, <1>6, <2>1
<1> QED BY <1>7, <1>8

LEMMA RemoveWebDeletedPlaced ==
  ASSUME Ready, NEW r \in FileRow \cup FolderRow, RemoveWebDeleted(r)
  PROVE  PlaceInv'
<1> DEFINE gone == IF InPlace(r) THEN Under(proj, db.maps[r].path) ELSE {}
           M == Without(db.maps, {r})
<1>1. /\ At("web") /\ r \in Orphans /\ proj' = Without(proj, gone)
      /\ UNCHANGED <<touched, raced, marker>>
      /\ \/ db' = [db EXCEPT !.maps = M] /\ UNCHANGED pass
         \/ EndsWithin /\ UNCHANGED db
  BY DEF RemoveWebDeleted, KeepsHistory
<1>2. MarksStay
  BY <1>1, MarksKept
<1>3. /\ db'.files = db.files
      /\ \A s \in DOMAIN db'.maps : s \in DOMAIN db.maps /\ db'.maps[s] = db.maps[s]
  <2>1. \A s \in DOMAIN M : s \in DOMAIN db.maps /\ M[s] = db.maps[s]
    BY DEF Without, Restrict
  <2> HIDE DEF M
  <2> QED BY <1>1, <2>1, SmbKinds DEF Tables, Ready
<1>4. \A s \in MappedFiles(db') \cap DOMAIN db'.files : RowSame(s)
  BY <1>3, RowsFewer DEF Ready
<1>5. ASSUME NEW s, Quiet(s)', RowSame(s), Quiet(s), NEW p, Linked(s, p) PROVE Linked(s, p)'
  <2>1. \A q \in gone : q # p /\ (p[1] # Root => q # Top(p[1]))
    BY <1>1, <1>5, OrphanEntries
  <2>2. p \in DOMAIN proj /\ (p[1] # Root => Top(p[1]) \in DOMAIN proj)
    BY <1>5, SmbKinds, EntryFacts DEF Linked, Ready
  <2> HIDE DEF gone
  <2>3. Steady(p) /\ (p[1] # Root => Steady(Top(p[1])))
    BY <1>1, <2>1, <2>2, RemovedStays
  <2> QED BY <1>5, <2>3, LinkedStays
<1>6. CASE EndsWithin
  <2>1. pass'.at = "failed"
    BY <1>6, FailsAt
  <2> QED BY <1>1, <1>2, <1>4, <1>5, <2>1, EndPlaced
<1>7. CASE UNCHANGED pass
  <2>1. pass'.at = "web" /\ pass'.stable = {}
    BY <1>1, <1>7 DEF At, Ready, PlaceInv, FoldersSettled, Early
  <2>2. \A s \in FileRow : Quiet(s)' => RowSame(s)
    BY <1>4 DEF Quiet
  <2>3. FilesPlaced'
    BY <1>1, <1>2, <1>5, <2>1, <2>2, LinksStep
  <2> QED BY <1>1, <1>4, <2>1, <2>3, EarlyPlaced DEF Early
<1> QED BY <1>1, <1>6, <1>7

-----------------------------------------------------------------------------
(* Names as the database has them.                                           *)

\* Still at this stage: what is left is whether the stable folders stay in place.
LEMMA ApplyPlaced ==
  ASSUME Ready, MarksStay, marker' => marker, pass'.at = "apply", FoldersSettled',
         \A r \in MappedFiles(db') \cap DOMAIN db'.files : RowSame(r) \/ DataRaced(r)',
         \A r \in FileRow : Quiet(r)' => RowSame(r),
         \A r \in FileRow : Quiet(r)' /\ RowSame(r) =>
           \A p : Quiet(r) /\ Linked(r, p) => \E q : Linked(r, q)'
  PROVE  PlaceInv'
<1>1. FilesPlaced'
  BY LinksStep
<1>2. ContentsRaced'
  BY ContentsUncompared DEF MarksStay
<1> QED BY <1>1, <1>2, TwinsStep DEF PlaceInv

LEMMA ApplyQuiet ==
  ASSUME Ready, UNCHANGED <<db, proj, marker, touched, raced>>, pass'.at = "apply", FoldersSettled'
  PROVE  PlaceInv'
<1>1. \A r \in MappedFiles(db') \cap DOMAIN db'.files : RowSame(r)
  BY RowsUnchanged DEF Ready
<1>2. \A r, p : Quiet(r)' /\ RowSame(r) /\ Linked(r, p) => Linked(r, p)'
  BY LinkedQuiet DEF Ready
<1>3. \A r \in FileRow : Quiet(r)' => RowSame(r)
  BY <1>1 DEF Quiet
<1> QED BY <1>1, <1>2, <1>3, MarksKept, ApplyPlaced

LEMMA BeginApplyPlaced ==
  ASSUME Ready, BeginApply
  PROVE  PlaceInv'
<1>1. /\ UNCHANGED <<db, proj, marker, touched, raced>> /\ pass'.at = "apply"
      /\ pass'.stable = {}
  BY SmbKinds, PassGoes DEF BeginApply, KeepsHistory, Ready, At, PlaceInv, FoldersSettled, Early
<1>2. FoldersSettled'
  BY <1>1 DEF FoldersSettled, At, Early, Entered
<1> QED BY <1>1, <1>2, ApplyQuiet

\* Every entry of a renamed projection can be followed.
LEMMA RenamedFollows ==
  ASSUME NEW f, IsTree(f), NEW from \in DOMAIN f, NEW to \in Path, to \in DOMAIN f => to = from,
         f[from] \in DirNode => to[1] = Root
  PROVE  LET g == Renamed(f, from, to)
         IN  \A o \in DOMAIN f :
               Shifted(o, from, to) \in DOMAIN g /\ g[Shifted(o, from, to)] = f[o]
<1> DEFINE Sh(o) == Shifted(o, from, to)
           U == Under(f, from)
           g == Renamed(f, from, to)
<1>1. /\ DOMAIN g = (DOMAIN f \ U) \cup {Sh(o) : o \in U}
      /\ \A q \in DOMAIN g :
           \/ \E o \in U : q = Sh(o) /\ g[q] = f[o]
           \/ q \in DOMAIN f \ U /\ g[q] = f[q] /\ \A o \in U : q # Sh(o)
  BY RenamedIs
<1>2. U \subseteq DOMAIN f /\ \A o \in DOMAIN f : o \in U <=> o = from \/ InDir(o, from)
  BY DEF Under
<1>3. \A o \in DOMAIN f \ U : Sh(o) = o
  BY <1>2 DEF Shifted
<1>4. Sh(from) = to /\ \A o \in U : o # from => Sh(o) = <<to[2], o[2]>>
  BY <1>2 DEF Shifted
<1>5. ASSUME NEW o \in U, o # from
      PROVE  from[1] = Root /\ o[1] = from[2] /\ o[1] # Root /\ f[from] \in DirNode /\ to[1] = Root
  <2>1. from[1] = Root /\ o[1] = from[2]
    BY <1>2, <1>5 DEF InDir
  <2>2. from = <<Root, from[2]>> /\ from[2] # Root
    BY <2>1, EntryFacts
  <2>3. from = Top(o[1]) /\ o[1] # Root
    BY <2>1, <2>2 DEF Top
  <2>4. f[from] \in DirNode
    BY <1>2, <2>3, EntryFacts
  <2> QED BY <2>1, <2>3, <2>4
<1>6. to = <<to[1], to[2]>> /\ to[2] # Root /\ to[2] \in Name
  BY SmbSyncAssumption DEF Path
<1>7. \A o \in DOMAIN f : o = <<o[1], o[2]>> /\ (o[1] # Root => Top(o[1]) \in DOMAIN f)
  BY EntryFacts
<1> HIDE DEF g, U, Sh
<1>8. ASSUME NEW o \in DOMAIN f, NEW q \in U, Sh(o) = Sh(q) PROVE o = q
  <2>1. CASE to = from
    <3>1. ASSUME NEW u \in U PROVE Sh(u) = u
      BY <1>2, <1>4, <1>5, <1>7, <2>1
    <3> QED BY <1>3, <1>8, <3>1
  <2>2. CASE to \notin DOMAIN f
    <3>1. ASSUME NEW u \in U, u # from PROVE Sh(u) # to /\ Sh(u) \notin DOMAIN f
      <4>1. to[1] = Root /\ Sh(u) = <<to[2], u[2]>>
        BY <1>4, <1>5, <3>1
      <4>2. Sh(u)[1] = to[2] /\ to[2] # Root /\ to = Top(to[2])
        BY <1>6, <4>1 DEF Top
      <4> QED BY <1>7, <2>2, <4>1, <4>2
    <3>2. CASE o \notin U
      BY <1>3, <1>4, <1>8, <2>2, <3>1, <3>2
    <3>3. CASE o \in U
      <4>1. CASE o = from \/ q = from
        BY <1>4, <1>8, <3>1, <3>3, <4>1
      <4>2. CASE o # from /\ q # from
        <5>1. o[1] = q[1] /\ o[2] = q[2]
          BY <1>4, <1>5, <1>8, <3>3, <4>2
        <5> QED BY <1>2, <1>7, <5>1
      <4> QED BY <4>1, <4>2
    <3> QED BY <3>2, <3>3
  <2> QED BY <2>1, <2>2
<1>9. ASSUME NEW o \in DOMAIN f PROVE Sh(o) \in DOMAIN g /\ g[Sh(o)] = f[o]
  <2>1. Sh(o) \in DOMAIN g
    BY <1>1, <1>3
  <2>2. CASE \E u \in U : Sh(o) = Sh(u) /\ g[Sh(o)] = f[u]
    BY <1>8, <2>1, <2>2
  <2>3. CASE Sh(o) \in DOMAIN f \ U /\ g[Sh(o)] = f[Sh(o)] /\ \A u \in U : Sh(o) # Sh(u)
    BY <1>3, <2>1, <2>3
  <2> QED BY <1>1, <2>1, <2>2, <2>3
<1> QED BY <1>9 DEF g, Sh

\* Where an entry is moved to.
EntryMoved(r, p) ==
  /\ proj' = Renamed(proj, db.maps[r].path, p) /\ InPlace(r)
  /\ p \in DOMAIN proj => p = db.maps[r].path
  /\ r \in FolderRow => p[1] = Root
  /\ r \in FileRow => r \in DOMAIN db.files /\ ParentOf(db, p) = {db.files[r].folder}

LEMMA ApplyIs ==
  ASSUME SmbInv, NEW r \in FileRow \cup FolderRow, At("apply"), Applicable(r), Apply(r)
  PROVE  \/ Fails /\ UNCHANGED <<db, proj>>
         \/ \E p \in Path :
              /\ EntryMoved(r, p)
              /\ \/ /\ db' = Remapped(db, r, p)
                    /\ Settles(pass.todo \ {r},
                               IF r \in FolderRow THEN pass.stable \cup {r} ELSE pass.stable)
                 \/ EndsWithin /\ UNCHANGED db
<1>0. /\ TablesGood(db) /\ Orphans = {} /\ r \in DOMAIN db.maps
  BY DEF SmbInv, PassGood, Applicable
<1>1. /\ NameOf(r) \in Name /\ FolderOf(r) \in {Root} \cup FolderRow
      /\ r \in FolderRow => FolderOf(r) = Root
      /\ r \in FileRow => r \in DOMAIN db.files /\ FolderOf(r) = db.files[r].folder
  <2>1. r \in DOMAIN db.files \cup DOMAIN db.folders
    BY <1>0 DEF Orphans, Rows
  <2>2. CASE r \in FolderRow
    BY <2>1, <2>2, SmbKinds, TablesFields, SmbSyncAssumption DEF NameOf, FolderOf
  <2>3. CASE r \in FileRow
    <3>1. r \in DOMAIN db.files /\ r \notin FolderRow
      BY <2>1, <2>3, SmbKinds, SmbSyncAssumption
    <3>2. db.files[r] \in FileRecord
      BY <3>1, SmbKinds, TablesFields
    <3> QED BY <3>1, <3>2 DEF NameOf, FolderOf, FileRecord
  <2> QED BY <2>2, <2>3
<1>2. PICK dir \in DirOf(db, FolderOf(r)) :
        LET paths == Allocated(dir, NameOf(r), {r}) IN
        IF paths = {} THEN Fails /\ UNCHANGED <<db, proj, events>>
        ELSE \E p \in paths :
          /\ proj' = Renamed(proj, db.maps[r].path, p)
          /\ \/ /\ db' = Remapped(db, r, p)
                /\ pass' = [pass EXCEPT !.todo = @ \ {r},
                     !.stable = IF r \in FolderRow THEN @ \cup {r} ELSE @]
                /\ UNCHANGED events
             \/ p # db.maps[r].path /\ EndsWithin /\ UNCHANGED db
  BY DEF Apply
<1>3. CASE Fails /\ UNCHANGED <<db, proj, events>>
  BY <1>3
<1>4. ASSUME NEW p \in Allocated(dir, NameOf(r), {r}),
             proj' = Renamed(proj, db.maps[r].path, p),
             \/ /\ db' = Remapped(db, r, p)
                /\ pass' = [pass EXCEPT !.todo = @ \ {r},
                     !.stable = IF r \in FolderRow THEN @ \cup {r} ELSE @]
             \/ EndsWithin /\ UNCHANGED db
      PROVE  /\ p \in Path /\ EntryMoved(r, p)
             /\ \/ /\ db' = Remapped(db, r, p)
                   /\ Settles(pass.todo \ {r},
                              IF r \in FolderRow THEN pass.stable \cup {r} ELSE pass.stable)
                \/ EndsWithin /\ UNCHANGED db
  <2>1. dir \in {Root} \cup Name /\ (FolderOf(r) = Root <=> dir = Root)
    <3> DEFINE q == <<dir, dir>>
    <3>1. q[1] = dir
      OBVIOUS
    <3> HIDE DEF q
    <3> QED BY <3>1, <1>0, <1>1, DirOfFacts
  <2>2. p \in Path /\ p[1] = dir /\ NoConflict(p, {r})
    BY <1>1, <2>1, AllocatedFacts
  <2>3. p \in DOMAIN proj => p = db.maps[r].path
    BY <2>2 DEF NoConflict
  <2>4. InPlace(r)
    BY DEF Applicable
  <2>5. ParentOf(db, p) = {FolderOf(r)}
    BY <1>0, <1>1, <2>2, DirOfFacts
  <2>6. EntryMoved(r, p)
    BY <1>1, <1>4, <2>1, <2>2, <2>3, <2>4, <2>5 DEF EntryMoved
  <2> QED BY <1>4, <2>2, <2>6 DEF Settles
<1> QED BY <1>2, <1>3, <1>4

\* Where the link of a quiet row is after a move.
LEMMA FollowedLinks ==
  ASSUME Ready, NEW r \in FileRow \cup FolderRow, r \in DOMAIN db.maps, NEW to \in Path, EntryMoved(r, to),
         NEW s, RowSame(s), Quiet(s), Quiet(s)', NEW q, Linked(s, q),
         q # db.maps[r].path, NEW t, t = Shifted(q, db.maps[r].path, to)
  PROVE  Linked(s, t)'
<1> DEFINE from == db.maps[r].path
           folder == db.files[s].folder
           home == Top(q[1])
<1>0. /\ from \in DOMAIN proj /\ proj[from] = db.maps[r].node /\ IsTree(proj)
      /\ from \in Path /\ from[2] # Root /\ from = <<from[1], from[2]>>
      /\ proj[from] \in DirNode => r \in FolderRow /\ to[1] = Root /\ from = Top(from[2])
  <2>1. from \in DOMAIN proj /\ proj[from] = db.maps[r].node /\ IsTree(proj)
    BY SmbKinds DEF EntryMoved, InPlace, Ready
  <2>2. from \in Path /\ from[2] # Root /\ from = <<from[1], from[2]>>
    BY SmbKinds, MappingFacts, SmbSyncAssumption DEF Ready
  <2>3. ASSUME proj[from] \in DirNode PROVE r \in FolderRow /\ to[1] = Root /\ from = Top(from[2])
    <3>1. r \notin FileRow
      BY <2>1, <2>3, SmbKinds, MappingFacts, SmbSyncAssumption DEF Ready
    <3>2. from[1] = Root /\ r \in FolderRow
      BY <3>1, SmbKinds, MappingFacts DEF Ready
    <3> QED BY <2>2, <3>2 DEF EntryMoved, Top
  <2> QED BY <2>1, <2>2, <2>3
<1>1. \A o \in DOMAIN proj :
        Shifted(o, from, to) \in DOMAIN proj' /\ proj'[Shifted(o, from, to)] = proj[o]
  BY <1>0, RenamedFollows DEF EntryMoved
<1>2. /\ q \in DOMAIN proj /\ proj[q] = db.maps[s].node /\ q = <<q[1], q[2]>>
      /\ db'.maps[s].node = db.maps[s].node /\ db'.files[s].folder = folder
  BY <1>0, EntryFacts DEF Linked, RowSame
<1>3. t \in DOMAIN proj' /\ proj'[t] = db'.maps[s].node
  BY <1>1, <1>2
<1>4. t = IF InDir(q, from) THEN <<to[2], q[2]>> ELSE q
  BY DEF Shifted
<1>5. InDir(q, from) => /\ q[1] # Root /\ home = from /\ proj[from] \in DirNode /\ to[1] = Root
  <2> SUFFICES ASSUME InDir(q, from)
               PROVE  q[1] # Root /\ home = from /\ proj[from] \in DirNode /\ to[1] = Root
    OBVIOUS
  <2>1. q[1] # Root /\ home = from
    BY <1>0 DEF InDir, Top
  <2>2. proj[from] \in DirNode
    BY <1>0, <1>2, <2>1, EntryFacts
  <2> QED BY <1>0, <2>1, <2>2
<1>6. CASE folder = Root
  <2>1. q[1] = Root
    BY <1>6 DEF Linked, AtHome
  <2>2. t = q
    BY <1>4, <1>5, <2>1
  <2> QED BY <1>2, <1>3, <1>6, <2>1, <2>2 DEF Linked, AtHome
<1>7. CASE folder # Root
  <2>1. q[1] # Root /\ home \in DOMAIN proj /\ proj[home] = db.maps[folder].node
    BY <1>7 DEF Linked, AtHome
  <2>2. db'.maps[folder].node = db.maps[folder].node
    BY <1>2, <1>7 DEF Quiet, Calm, RowSame
  <2>3. t[1] # Root /\ Shifted(home, from, to) = Top(t[1])
    <3>1. CASE InDir(q, from)
      <4>1. home = from /\ to[1] = Root /\ to = <<to[1], to[2]>> /\ to[2] # Root
        BY <1>5, <3>1, SmbSyncAssumption DEF Path
      <4>2. t[1] = to[2] /\ Top(to[2]) = to
        BY <1>4, <3>1, <4>1 DEF Top
      <4> QED BY <4>1, <4>2 DEF Shifted
    <3>2. CASE ~InDir(q, from)
      <4>1. t = q
        BY <1>4, <3>2
      <4>2. home # from
        BY <3>2 DEF InDir, Top
      <4>3. ~InDir(home, from)
        BY <1>0 DEF InDir, Top
      <4> QED BY <2>1, <4>1, <4>2, <4>3 DEF Shifted
    <3> QED BY <3>1, <3>2
  <2> HIDE DEF home
  <2>4. Top(t[1]) \in DOMAIN proj' /\ proj'[Top(t[1])] = db'.maps[folder].node
    BY <1>1, <2>1, <2>2, <2>3
  <2> QED BY <1>2, <1>3, <1>7, <2>3, <2>4 DEF Linked, AtHome
<1> QED BY <1>6, <1>7

\* A moved row that is quiet is found where it was moved to.
LEMMA MovedLinked ==
  ASSUME Ready, NEW r \in FileRow, NEW to \in Path, EntryMoved(r, to), RowSame(r), Quiet(r), Quiet(r)',
         db.files[r].folder # Root => InPlace(db.files[r].folder)
  PROVE  Linked(r, to)'
<1> DEFINE from == db.maps[r].path
           folder == db.files[r].folder
<1>1. /\ r \in DOMAIN db.maps /\ from \in DOMAIN proj /\ proj[from] = db.maps[r].node
      /\ IsTree(proj) /\ db.maps[r].node \notin DirNode
      /\ db'.maps[r].node = db.maps[r].node /\ db'.files[r].folder = folder
  BY HomeFacts, SmbKinds DEF Ready, EntryMoved, InPlace, RowSame
<1>2. \A o \in DOMAIN proj :
        Shifted(o, from, to) \in DOMAIN proj' /\ proj'[Shifted(o, from, to)] = proj[o]
  BY <1>1, RenamedFollows DEF EntryMoved
<1>3. to \in DOMAIN proj' /\ proj'[to] = db'.maps[r].node
  BY <1>1, <1>2 DEF Shifted
<1>4. ParentOf(db, to) = {folder} /\ to = <<to[1], to[2]>>
  BY DEF EntryMoved, Path
<1>5. CASE folder = Root
  <2>1. to[1] = Root
    BY <1>4, <1>5, OneParent, SmbKinds, SmbSyncAssumption DEF Ready
  <2> QED BY <1>1, <1>3, <1>5, <2>1 DEF Linked, AtHome
<1>6. CASE folder # Root
  <2> DEFINE home == Top(to[1])
  <2>0. TablesGood(db) /\ folder \in ParentOf(db, to)
    BY <1>4, SmbKinds DEF Ready
  <2>1. to[1] # Root /\ db.maps[folder].path = home /\ db.maps[folder].node \in DirNode
    <3>1. to[1] # Root /\ db.maps[folder].path = home
      BY <1>6, <2>0, OneParent
    <3>2. db.maps[folder].node \in DirNode
      BY <1>6, HomeFacts
    <3> QED BY <3>1, <3>2
  <2>2. home \in DOMAIN proj /\ proj[home] = db.maps[folder].node
    BY <1>6, <2>1 DEF InPlace
  <2>3. home # from
    BY <1>1, <2>1, <2>2
  <2>4. ~InDir(home, from)
    <3>1. from[2] # Root
      BY <1>1, EntryFacts
    <3> QED BY <3>1 DEF InDir, Top
  <2>5. Shifted(home, from, to) = home
    BY <2>3, <2>4 DEF Shifted
  <2>6. home \in DOMAIN proj' /\ proj'[home] = db.maps[folder].node
    BY <1>2, <2>2, <2>5
  <2>7. db'.maps[folder].node = db.maps[folder].node
    BY <1>1, <1>6 DEF Quiet, Calm, RowSame
  <2> HIDE DEF home
  <2>8. Top(to[1]) \in DOMAIN proj' /\ proj'[Top(to[1])] = db'.maps[folder].node
    BY <2>6, <2>7 DEF home
  <2> QED BY <1>1, <1>3, <1>6, <2>1, <2>8 DEF Linked, AtHome
<1> QED BY <1>5, <1>6

\* Whatever is moved, the links of quiet rows are moved with it.
LEMMA MovesLinks ==
  ASSUME Ready, At("apply"), NEW r \in FileRow \cup FolderRow, r \in DOMAIN db.maps, Settled(r),
         NEW to \in Path, EntryMoved(r, to),
         NEW s, RowSame(s), Quiet(s), Quiet(s)', NEW q, Linked(s, q)
  PROVE  \E t : Linked(s, t)'
<1>1. CASE q # db.maps[r].path
  <2>1. PICK t : t = Shifted(q, db.maps[r].path, to)
    OBVIOUS
  <2> QED BY <1>1, <2>1, FollowedLinks
<1>2. CASE q = db.maps[r].path
  <2>1. db.maps[s].node = db.maps[r].node
    BY <1>2 DEF Linked, EntryMoved, InPlace
  <2>2. s = r /\ r \in FileRow
    BY <2>1, NoTwin, HomeFacts
  <2>3. ASSUME db.files[r].folder # Root PROVE InPlace(db.files[r].folder)
    <3>1. db.files[r].folder \in pass.stable
      BY <2>2, <2>3, SmbSyncAssumption DEF Settled
    <3>2. Calm(db.files[r].folder)
      BY <2>2, <2>3, HomeFacts
    <3> QED BY <3>1, <3>2 DEF Ready, PlaceInv, FoldersSettled
  <2> QED BY <2>2, <2>3, MovedLinked
<1> QED BY <1>1, <1>2

LEMMA MovedSettled ==
  ASSUME Ready, At("apply"), NEW r \in FileRow \cup FolderRow, r \in DOMAIN db.maps,
         NEW to \in Path, EntryMoved(r, to), db' = Remapped(db, r, to), UNCHANGED touched,
         Settles(pass.todo \ {r}, IF r \in FolderRow THEN pass.stable \cup {r} ELSE pass.stable)
  PROVE  /\ FoldersSettled' /\ pass'.at = "apply"
         /\ \A s \in MappedFiles(db') \cap DOMAIN db'.files : RowSame(s)
<1> DEFINE from == db.maps[r].path
           stable == IF r \in FolderRow THEN pass.stable \cup {r} ELSE pass.stable
<1>1. /\ db'.files = db.files /\ DOMAIN db'.maps = DOMAIN db.maps
      /\ \A s \in DOMAIN db.maps :
           /\ db'.maps[s].node = db.maps[s].node
           /\ db'.maps[s].path = IF s = r \/ (r \in FolderRow /\ InDir(db.maps[s].path, from))
                                 THEN Shifted(db.maps[s].path, from, to) ELSE db.maps[s].path
  BY SmbKinds, RemappedIs DEF Ready
<1>2. pass'.at = "apply" /\ pass'.stable = stable
  BY SmbKinds, PassSettles DEF Ready, At
<1>3. \A s \in MappedFiles(db') \cap DOMAIN db'.files : RowSame(s)
  BY <1>1, RowsFewer DEF Ready
<1>4. \A o \in DOMAIN proj :
        Shifted(o, from, to) \in DOMAIN proj' /\ proj'[Shifted(o, from, to)] = proj[o]
  <2>1. /\ from \in DOMAIN proj /\ proj[from] = db.maps[r].node /\ IsTree(proj)
    BY SmbKinds DEF EntryMoved, InPlace, Ready
  <2>2. proj[from] \in DirNode => to[1] = Root
    BY <2>1, SmbKinds, MappingFacts, SmbSyncAssumption DEF EntryMoved, Ready
  <2> QED BY <2>1, <2>2, RenamedFollows DEF EntryMoved
<1>5. from \in DOMAIN proj /\ proj[from] = db.maps[r].node /\ from[2] # Root
  BY SmbKinds, MappingFacts, SmbSyncAssumption DEF EntryMoved, InPlace, Ready
<1>6. ASSUME NEW s \in stable
      PROVE  /\ s \in DOMAIN db.maps /\ s \in FolderRow
             /\ Calm(s)' => db'.maps[s].path \in DOMAIN proj'
                            /\ proj'[db'.maps[s].path] = db'.maps[s].node
  <2>1. CASE s = r
    <3>1. s \in FolderRow \/ s \in pass.stable
      BY <1>6
    <3>2. s \in DOMAIN db.maps /\ s \in FolderRow
      BY <2>1, <3>1 DEF Ready, PlaceInv, FoldersSettled, MappedFolders
    <3>3. db'.maps[r].path = to /\ Shifted(from, from, to) = to
      BY <1>1 DEF Shifted
    <3> QED BY <1>1, <1>4, <1>5, <2>1, <3>2, <3>3
  <2>2. CASE s # r
    <3> DEFINE path == db.maps[s].path
    <3>1. s \in pass.stable
      BY <1>6, <2>2
    <3>2. s \in DOMAIN db.maps /\ s \in FolderRow /\ (Calm(s) => InPlace(s))
      BY <3>1 DEF Ready, PlaceInv, FoldersSettled, MappedFolders
    <3>3. path[1] = Root /\ path # from
      <4>1. PathsUnique(db) /\ path[1] = Root
        BY <3>2, SmbKinds, MappingFacts DEF Ready, TablesGood, MapsGood
      <4> QED BY <2>2, <3>2, <4>1 DEF PathsUnique
    <3>4. ~InDir(path, from)
      BY <1>5, <3>3 DEF InDir
    <3>5. Shifted(path, from, to) = path /\ db'.maps[s].path = path
      BY <1>1, <2>2, <3>2, <3>3, <3>4 DEF Shifted
    <3>6. Calm(s)' => Calm(s)
      BY <1>1, <3>2 DEF Calm, MappedFolders
    <3> QED BY <1>1, <1>4, <3>2, <3>5, <3>6 DEF InPlace
  <2> QED BY <2>1, <2>2
<1>7. FoldersSettled'
  BY <1>2, <1>1, <1>6 DEF FoldersSettled, At, Early, Entered, MappedFolders, InPlace
<1> QED BY <1>2, <1>3, <1>7

LEMMA ApplyEntryPlaced ==
  ASSUME Ready, NEW r \in FileRow \cup FolderRow, ApplyEntry(r)
  PROVE  PlaceInv'
<1>1. /\ At("apply") /\ UNCHANGED <<marker, touched, raced>> /\ SmbInv
      /\ \/ Did(r) /\ UNCHANGED <<db, proj>>
         \/ Fails /\ UNCHANGED <<db, proj>>
         \/ Applicable(r) /\ Apply(r)
  BY DEF ApplyEntry, KeepsHistory, Ready
<1>2. CASE Did(r) /\ UNCHANGED <<db, proj>>
  <2>1. pass'.at = "apply" /\ pass'.stable = pass.stable
    BY <1>1, <1>2, SmbKinds, PassDid DEF At
  <2>2. FoldersSettled'
    BY <1>1, <1>2, <2>1, SameDirs, SameFolders, TouchedGrows, SettledStays DEF At
  <2> QED BY <1>1, <1>2, <2>1, <2>2, ApplyQuiet
<1>3. CASE Fails /\ UNCHANGED <<db, proj>>
  BY <1>1, <1>3, FailsAt, EndSame
<1>4. CASE Applicable(r) /\ Apply(r)
  <2>1. r \in DOMAIN db.maps /\ Settled(r) /\ MarksStay
    BY <1>1, <1>4, MarksKept DEF Applicable
  <2>2. CASE Fails /\ UNCHANGED <<db, proj>>
    BY <1>3, <2>2
  <2>3. ASSUME NEW p \in Path, EntryMoved(r, p), db' = Remapped(db, r, p),
               Settles(pass.todo \ {r},
                       IF r \in FolderRow THEN pass.stable \cup {r} ELSE pass.stable)
        PROVE  PlaceInv'
    <3>1. /\ FoldersSettled' /\ pass'.at = "apply"
          /\ \A s \in MappedFiles(db') \cap DOMAIN db'.files : RowSame(s)
      BY <1>1, <2>1, <2>3, MovedSettled
    <3>2. \A s \in FileRow : Quiet(s)' => RowSame(s)
      BY <3>1 DEF Quiet
    <3>3. \A s, q : Quiet(s)' /\ RowSame(s) /\ Quiet(s) /\ Linked(s, q) => \E t : Linked(s, t)'
      BY <1>1, <2>1, <2>3, MovesLinks
    <3> QED BY <1>1, <2>1, <3>1, <3>2, <3>3, ApplyPlaced
  <2>4. ASSUME NEW p \in Path, EntryMoved(r, p), EndsWithin, UNCHANGED db PROVE PlaceInv'
    <3>1. pass'.at = "failed"
      BY <2>4, FailsAt
    <3>2. \A s \in MappedFiles(db') \cap DOMAIN db'.files : RowSame(s)
      BY <1>1, <2>4, RowsUnchanged DEF Ready
    <3>3. \A s, q : Quiet(s)' /\ RowSame(s) /\ Quiet(s) /\ Linked(s, q) => \E t : Linked(s, t)'
      BY <1>1, <2>1, <2>4, MovesLinks
    <3> QED BY <1>1, <2>1, <3>1, <3>2, <3>3, EndPlaced
  <2> QED BY <1>1, <1>4, <2>2, <2>3, <2>4, ApplyIs
<1> QED BY <1>1, <1>2, <1>3, <1>4

\* A row whose content and mapping differ, or whose entry is another one now, is not quiet.
LEMMA RacedRow ==
  ASSUME Ready, NEW r \in MappedFiles(db) \cap DOMAIN db.files,
         db.files[r].blob \notin {NoData, db.maps[r].node}
  PROVE  {db.files[r].blob, db.maps[r].node} \subseteq raced
BY DEF Ready, PlaceInv, ContentsRaced, DataRaced

LEMMA RelinkPlaced ==
  ASSUME Ready, NEW r \in FileRow, Relink(r)
  PROVE  PlaceInv'
<1> DEFINE p == db.maps[r].path
           blob == db.files[r].blob
<1>0. /\ SmbInv /\ At("apply") /\ Applicable(r) /\ blob \notin {NoData, db.maps[r].node}
      /\ UNCHANGED <<marker, touched, raced>> /\ MarksStay
      /\ \/ /\ proj' = [proj EXCEPT ![p] = blob] /\ db' = [db EXCEPT !.maps[r].node = blob]
            /\ Did(r)
         \/ EndsWithin /\ proj' = Without(proj, {p}) /\ UNCHANGED db
  BY MarksKept DEF Relink, KeepsHistory, Ready
<1>1. /\ TablesGood(db) /\ IsPass(pass) /\ r \in DOMAIN db.maps \cap FileRow
      /\ r \in DOMAIN db.files /\ blob \in FileNode \cup {NoData}
      /\ p \in DOMAIN proj /\ proj[p] \notin DirNode /\ proj[p] = db.maps[r].node
  BY <1>0, ApplicableFile DEF Applicable, InPlace
<1>2. {blob, db.maps[r].node} \subseteq raced
  BY <1>0, <1>1, RacedRow DEF MappedFiles
\* Other rows have other entries.
<1>3. ASSUME NEW s, RowSame(s), Quiet(s), Quiet(s)', NEW q, Linked(s, q),
             \A o \in DOMAIN proj \ {p} : Steady(o)
      PROVE  Linked(s, q)'
  <2>1. s # r
    BY <1>2, <1>3 DEF Quiet
  <2>2. db.maps[s].node # db.maps[r].node
    BY <1>1, <1>3, <2>1, NoTwin
  <2>3. q # p /\ (q[1] # Root => Top(q[1]) # p)
    <3>1. q[1] # Root => proj[Top(q[1])] \in DirNode
      BY <1>0, <1>3, SmbKinds, EntryFacts DEF Linked
    <3> QED BY <1>1, <1>3, <2>2, <3>1 DEF Linked
  <2>4. q \in DOMAIN proj /\ (q[1] # Root => Top(q[1]) \in DOMAIN proj)
    BY <1>0, <1>3, SmbKinds, EntryFacts DEF Linked
  <2> QED BY <1>3, <2>3, <2>4, LinkedStays
<1>4. CASE proj' = [proj EXCEPT ![p] = blob] /\ db' = [db EXCEPT !.maps[r].node = blob] /\ Did(r)
  <2>1. /\ db'.files = db.files /\ db'.folders = db.folders /\ DOMAIN db'.maps = DOMAIN db.maps
        /\ db'.maps[r].node = blob /\ \A s \in DOMAIN db.maps \ {r} : db'.maps[s] = db.maps[s]
    BY <1>0, <1>1, <1>4, NodeSetIs
  <2>2. pass'.at = "apply" /\ pass'.stable = pass.stable
    BY <1>0, <1>1, <1>4, PassDid DEF At
  <2>3. \A o \in DOMAIN proj \ {p} : Steady(o)
    BY <1>4 DEF Steady
  <2>4. DataRaced(r)'
    BY <2>1 DEF DataRaced
  <2>5. \A s \in MappedFiles(db') \cap DOMAIN db'.files : s # r => RowSame(s)
    BY <2>1, SmbSyncAssumption DEF RowSame, MappedFiles, MappedFolders
  <2>6. \A s : Quiet(s)' => s # r /\ RowSame(s)
    BY <1>0, <1>2, <2>1, <2>5 DEF Quiet
  <2>7. FoldersSettled'
    <3>1. DirsStay
      BY <1>1, <2>3 DEF DirsStay, Steady
    <3>2. FileMappingSet(r)
      BY <2>1 DEF FileMappingSet
    <3> QED BY <1>0, <2>1, <2>2, <3>1, <3>2, OtherFolders, TouchedGrows, SettledStays
        DEF At, MappedFolders
  <2>8. \A s, q : Quiet(s)' /\ RowSame(s) /\ Quiet(s) /\ Linked(s, q) => Linked(s, q)'
    BY <1>3, <2>3
  <2> QED BY <1>0, <2>2, <2>4, <2>5, <2>6, <2>7, <2>8, ApplyPlaced
<1>5. CASE EndsWithin /\ proj' = Without(proj, {p}) /\ UNCHANGED db
  <2>1. pass'.at = "failed"
    BY <1>5, FailsAt
  <2>2. \A s \in MappedFiles(db') \cap DOMAIN db'.files : RowSame(s)
    BY <1>5, RowsUnchanged DEF Ready
  <2>3. \A o \in DOMAIN proj \ {p} : Steady(o)
    BY <1>5, RemovedStays
  <2>4. \A s, q : Quiet(s)' /\ RowSame(s) /\ Quiet(s) /\ Linked(s, q) => Linked(s, q)'
    BY <1>3, <2>3
  <2> QED BY <1>0, <2>1, <2>2, <2>4, EndPlaced
<1> QED BY <1>0, <1>4, <1>5

LEMMA ApplyDuringSavePlaced ==
  ASSUME Ready, NEW r \in FileRow, NEW n \in FileNode, ApplyDuringSave(r, n)
  PROVE  PlaceInv'
<1> DEFINE p == db.maps[r].path
           todo == pass.todo \ {r}
<1>0. /\ SmbInv /\ At("apply") /\ Applicable(r) /\ SmbWrite(p, n)
      /\ db.files[r].blob = db.maps[r].node /\ db' = [db EXCEPT !.maps[r].node = n]
      /\ RacesWithPass /\ UNCHANGED marker /\ Disturbs(todo)
  BY DEF ApplyDuringSave, Ready, Disturbs
<1>1. /\ TablesGood(db) /\ IsTree(proj) /\ IsPass(pass) /\ r \in DOMAIN db.maps \cap FileRow
      /\ r \in DOMAIN db.files /\ p \in Path /\ p \in DOMAIN proj
      /\ proj[p] = db.files[r].blob /\ proj[p] \notin DirNode /\ proj[p] \in FileNode
  BY <1>0, ApplicableFile, EntryFacts DEF Applicable, InPlace
<1>2. SmbChange
  BY <1>0, <1>1 DEF SmbChange
<1>3. EntriesStay /\ DirsStay /\ TouchedStay
  BY <1>1, <1>2, ChangeEntries, ChangeDirs DEF Ready, ContentInv, FoldersKept
<1>4. /\ db'.files = db.files /\ db'.folders = db.folders /\ DOMAIN db'.maps = DOMAIN db.maps
      /\ db'.maps[r].node = n /\ \A s \in DOMAIN db.maps \ {r} : db'.maps[s] = db.maps[s]
  BY <1>0, <1>1, NodeSetIs
<1>5. raced \subseteq raced' /\ EntryRaces(p)
  BY <1>0, RacesRaced
<1>6. proj[p] \in touched' /\ MarksStay
  <2>1. touched' = touched \cup NodesOf(proj, {p} \cap DOMAIN proj)
    BY <1>0 DEF SmbWrite
  <2>2. proj[p] \in touched' /\ touched \subseteq touched'
    BY <1>1, <2>1 DEF NodesOf
  <2> QED BY <1>5, <2>2, MarksKept
\* What was there is overwritten, and what is there now raced with the pass.
<1>7. n = proj[p] \/ {proj[p], n} \subseteq raced'
  <2>1. proj' = With(proj, p, n)
    BY <1>0 DEF SmbWrite
  <2>2. p \in DOMAIN proj' /\ proj'[p] = n
    BY <2>1 DEF With
  <2>3. EntryAt(proj, p) = {proj[p]} /\ EntryAt(proj', p) = {n}
    BY <1>1, <2>2 DEF EntryAt
  <2> QED BY <1>1, <1>5, <2>3 DEF EntryRaces
<1>8. pass'.at = "apply" /\ pass'.stable = pass.stable
  <2> HIDE DEF todo
  <2> QED BY <1>0, <1>1, PassSaved DEF At
<1> HIDE DEF p
<1>9. \A s \in MappedFiles(db') \cap DOMAIN db'.files : s # r => RowSame(s)
  BY <1>4, SmbSyncAssumption DEF RowSame, MappedFiles, MappedFolders
<1>10. DataRaced(r)' /\ ~Quiet(r)'
  BY <1>1, <1>4, <1>6, <1>7 DEF DataRaced, Quiet
<1>11. \A s : Quiet(s)' => s # r /\ RowSame(s)
  BY <1>9, <1>10 DEF Quiet
<1>12. \A s, q : Quiet(s)' /\ RowSame(s) /\ Linked(s, q) => Linked(s, q)'
  BY <1>0, <1>3, QuietLinked
<1>13. FoldersSettled'
  <2>1. FileMappingSet(r)
    BY <1>4 DEF FileMappingSet
  <2> QED BY <1>0, <1>3, <1>4, <1>8, <2>1, OtherFolders, SettledStays DEF At, MappedFolders
<1> QED BY <1>0, <1>6, <1>8, <1>9, <1>10, <1>11, <1>12, <1>13, ApplyPlaced

-----------------------------------------------------------------------------
(* The scan.                                                                 *)

LEMMA ScannedPlaced ==
  ASSUME Ready, UNCHANGED <<db, marker>>, At("apply"), MarksStay,
         NEW scan, NEW calm, Scanned(scan, calm),
         \A p \in Leaves(scan) :
           \/ EntryAt(proj', p) = {scan[p]}
           \/ ({scan[p]} \cup EntryAt(proj', p)) \cap FileNode \subseteq raced',
         \A r, p : Quiet(r)' /\ RowSame(r) /\ Linked(r, p) =>
           Linked(r, p)' /\ p \in Leaves(scan) /\ scan[p] = db.maps[r].node
  PROVE  PlaceInv'
<1>1. \A r \in MappedFiles(db') \cap DOMAIN db'.files : RowSame(r)
  BY RowsUnchanged DEF Ready
<1>2. CASE pass' = Rest("failed", calm)
  <2>1. pass'.at = "failed"
    BY <1>2, RestIs
  <2> QED BY <1>1, <2>1, EndPlaced
<1>3. CASE Within(scan)
  <2> DEFINE todo == Dirs(scan)
             stable == StableRows(db, scan)
  <2>1. pass' = [Rest("movefolders", calm) EXCEPT !.scan = scan, !.todo = todo, !.stable = stable]
    BY <1>3 DEF Scanned
  <2> HIDE DEF todo, stable
  <2>2. pass' = [at |-> "movefolders", scan |-> scan, todo |-> todo, seen |-> {},
                 stable |-> stable, calm |-> calm]
    BY <2>1 DEF Rest
  <2>3. pass'.at = "movefolders" /\ pass'.scan = scan
    BY <2>2
  <2>4. FilesPlaced'
    <3> SUFFICES ASSUME NEW r \in FileRow, Quiet(r)' PROVE Placing(r)'
      BY DEF FilesPlaced
    <3>1. RowSame(r)
      BY <1>1 DEF Quiet
    <3>2. Quiet(r)
      BY <3>1, QuietWas
    <3>3. marker
      BY DEF Ready, ContentInv, StageGood, At
    <3>4. PICK p : Linked(r, p)
      BY <3>2, <3>3 DEF Ready, PlaceInv, FilesPlaced, Placing
    <3>5. Linked(r, p)' /\ SeenAt(r, p)'
      BY <2>3, <3>1, <3>4 DEF SeenAt, Leaves
    <3> QED BY <2>3, <3>5 DEF Placing, At
  <2>5. ContentsRaced'
    <3>1. \A r \in MappedFiles(db') \cap DOMAIN db'.files : DataRaced(r)'
      BY <1>1, DataStep DEF MarksStay
    <3>2. \A p \in Compared' : SeenRaced(p)'
      BY <2>3 DEF Compared, At, SeenRaced, Leaves
    <3> QED BY <3>1, <3>2 DEF ContentsRaced
  <2>6. FoldersSettled'
    BY <2>3, SettledNowhere DEF Early, Entered
  <2> QED BY <2>4, <2>5, <2>6, TwinsStep DEF PlaceInv
<1> QED BY <1>2, <1>3 DEF Scanned

LEMMA ScanPlaced ==
  ASSUME Ready, Scan
  PROVE  PlaceInv'
<1>1. /\ At("apply") /\ Scanned(proj, pass.calm)
      /\ UNCHANGED <<db, proj, marker, made, removed, touched, raced>>
  BY DEF Scan, KeepsHistory
<1>2. \A p \in Leaves(proj) : EntryAt(proj', p) = {proj[p]}
  BY <1>1 DEF EntryAt, Leaves
<1>3. \A r, p : Quiet(r)' /\ RowSame(r) /\ Linked(r, p) => Linked(r, p)'
  BY <1>1, LinkedQuiet DEF Ready
<1>4. ASSUME NEW r, NEW p, Quiet(r)', RowSame(r), Linked(r, p)
      PROVE  p \in Leaves(proj) /\ proj[p] = db.maps[r].node
  <2>1. db.maps[r].node \in FileNode
    BY <1>4, SmbKinds, MappingFacts DEF RowSame, MappedFiles, Ready
  <2> QED BY <1>4, <2>1 DEF Linked, Leaves
<1>5. MarksStay
  BY <1>1, MarksKept
<1>6. PICK s : s = proj
  OBVIOUS
<1>7. \A p \in Leaves(s) : EntryAt(proj', p) = {s[p]}
  BY <1>2, <1>6
<1>8. \A r, p : Quiet(r)' /\ RowSame(r) /\ Linked(r, p) =>
        Linked(r, p)' /\ p \in Leaves(s) /\ s[p] = db.maps[r].node
  BY <1>3, <1>4, <1>6
<1>9. Scanned(s, pass.calm)
  BY <1>1, <1>6
<1> QED BY <1>1, <1>5, <1>7, <1>8, <1>9, ScannedPlaced

LEMMA ScanDuringChangePlaced ==
  ASSUME Ready, ScanDuringChange
  PROVE  PlaceInv'
<1>1. At("apply") /\ SmbChange /\ RacesWithPass /\ UNCHANGED <<db, marker>>
  BY DEF ScanDuringChange
<1>2. PICK scan \in Scans(proj, proj') : Scanned(scan, FALSE)
  BY DEF ScanDuringChange
<1>3. SmbInv /\ IsTree(proj) /\ EntriesStay /\ DirsStay /\ TouchedStay
  BY <1>1, SmbKinds, ChangeEntries, ChangeDirs DEF Ready, ContentInv, FoldersKept
<1>4. raced \subseteq raced' /\ \A p : EntryRaces(p)
  BY <1>1, RacesRaced
<1>5. MarksStay
  BY <1>3, <1>4 DEF MarksStay, TouchedStay
<1>6. Sighted(proj, proj', scan)
  BY DEF Scans
<1>7. ASSUME NEW p \in Leaves(scan)
      PROVE  \/ EntryAt(proj', p) = {scan[p]}
             \/ ({scan[p]} \cup EntryAt(proj', p)) \cap FileNode \subseteq raced'
  <2>1. p \in DOMAIN scan
    BY DEF Leaves
  <2>2. CASE p \in DOMAIN proj' /\ scan[p] = proj'[p]
    BY <2>2 DEF EntryAt
  <2>3. CASE p \in DOMAIN proj /\ scan[p] = proj[p]
    <3>1. EntryAt(proj, p) = {scan[p]} /\ EntryRaces(p)
      BY <1>4, <2>3 DEF EntryAt
    <3> QED BY <3>1 DEF EntryRaces
  <2> QED BY <1>6, <2>1, <2>2, <2>3 DEF Sighted
<1>8. ASSUME NEW r, NEW p, Quiet(r)', RowSame(r), Linked(r, p)
      PROVE  Linked(r, p)' /\ p \in Leaves(scan) /\ scan[p] = db.maps[r].node
  <2>1. Linked(r, p)' /\ Steady(p) /\ (p[1] # Root => Steady(Top(p[1])))
    BY <1>3, <1>8, QuietLinked
  <2>2. /\ p \in DOMAIN proj /\ proj[p] = db.maps[r].node /\ db.maps[r].node \in FileNode
        /\ p[1] # Root => Top(p[1]) \in DOMAIN proj
    BY <1>3, <1>8, SmbKinds, MappingFacts, EntryFacts DEF RowSame, MappedFiles, Linked
  <2>3. Top(p[1])[1] = Root
    BY DEF Top
  <2>4. p[1] # Root => Top(p[1]) \in DOMAIN scan
    BY <1>6, <2>1, <2>2, <2>3 DEF Sighted, Steady
  <2>5. p \in DOMAIN scan
    BY <1>6, <2>1, <2>2, <2>4 DEF Sighted, Steady
  <2>6. scan[p] = proj[p]
    BY <1>6, <2>1, <2>5 DEF Sighted, Steady
  <2> QED BY <2>1, <2>2, <2>5, <2>6 DEF Leaves
<1> QED BY <1>1, <1>2, <1>5, <1>7, <1>8, ScannedPlaced

-----------------------------------------------------------------------------
(* Folders that moved, and those that are entered.                           *)

\* The pass still works on folders.
LEMMA LookingStep ==
  ASSUME Ready, MarksStay, UNCHANGED marker, pass.at \in {"movefolders", "folders"},
         pass'.at \in {"movefolders", "folders"}, pass'.scan = pass.scan,
         \A r \in MappedFiles(db') \cap DOMAIN db'.files : RowSame(r),
         \A r, p : Quiet(r)' /\ RowSame(r) /\ Quiet(r) /\ SeenAt(r, p) => Linked(r, p)',
         \A p \in Leaves(pass.scan) : Live(p)' => Live(p) /\ EntryRaces(p)
  PROVE  PlaceInv'
<1>1. FilesPlaced'
  <2> SUFFICES ASSUME marker', NEW r \in FileRow, Quiet(r)' PROVE Placing(r)'
    BY DEF FilesPlaced
  <2>1. RowSame(r)
    BY DEF Quiet
  <2>2. Quiet(r)
    BY <2>1, QuietWas
  <2>3. PICK p : SeenAt(r, p)
    BY <2>2 DEF Ready, PlaceInv, FilesPlaced, Placing, At
  <2>4. Linked(r, p)' /\ SeenAt(r, p)'
    BY <2>1, <2>2, <2>3 DEF SeenAt, Leaves, RowSame
  <2> QED BY <2>4 DEF Placing, At
<1>2. Compared' = Leaves(pass.scan) /\ Compared = Leaves(pass.scan)
  BY DEF Compared, At, Leaves
<1>3. ContentsRaced'
  BY <1>2, ContentsStep DEF MarksStay
<1>4. FoldersSettled'
  BY SettledNowhere DEF Early, Entered
<1> QED BY <1>1, <1>3, <1>4, TwinsStep DEF PlaceInv

\* Nothing changes but rows of folders and paths of mappings.
LEMMA LookingQuiet ==
  ASSUME Ready, UNCHANGED <<proj, marker, touched, raced>>,
         pass.at \in {"movefolders", "folders"},
         pass'.at \in {"movefolders", "folders"}, pass'.scan = pass.scan,
         \A r \in MappedFiles(db') \cap DOMAIN db'.files : RowSame(r),
         \A p \in Leaves(pass.scan) : Live(p)' => Live(p)
  PROVE  PlaceInv'
<1>1. \A p : EntryRaces(p)
  BY DEF EntryRaces, EntryAt
<1>2. \A r, p : Quiet(r)' /\ RowSame(r) /\ SeenAt(r, p) => Linked(r, p)'
  BY LinkedQuiet DEF SeenAt, Ready
<1> QED BY <1>1, <1>2, MarksKept, LookingStep

LEMMA TornPlaced ==
  ASSUME Ready, NEW S, TornDeletion(S), UNCHANGED <<proj, marker, touched, raced>>
  PROVE  PlaceInv'
<1>1. PICK T \in SUBSET S : db' = DataLost(db, T) /\ EndsWithin
  BY DEF TornDeletion
<1>2. /\ db'.maps = db.maps /\ DOMAIN db'.files = DOMAIN db.files
      /\ \A r \in DOMAIN db.files :
           db'.files[r] = IF r \in T THEN [db.files[r] EXCEPT !.blob = NoData] ELSE db.files[r]
  BY <1>1, SmbKinds, DataLostGood DEF Ready
<1>3. \A r \in DOMAIN db.files : /\ db'.files[r].folder = db.files[r].folder
                                 /\ db'.files[r].blob \in {db.files[r].blob, NoData}
  <2> TAKE r \in DOMAIN db.files
  <2>1. db.files[r] \in FileRecord
    BY SmbKinds, TablesFields DEF Ready
  <2> QED BY <1>2, <2>1 DEF FileRecord
<1>4. \A r \in MappedFiles(db') \cap DOMAIN db'.files : RowSame(r)
  BY <1>2, <1>3, RowsFewer DEF Ready
<1>5. pass'.at = "failed"
  BY <1>1, FailsAt
<1> QED BY <1>4, <1>5, MarksKept, EndQuiet

LEMMA MoveFolderPlaced ==
  ASSUME Ready, NEW p \in Path, MoveFolder(p)
  PROVE  PlaceInv'
<1>0. /\ At("movefolders") /\ SmbInv /\ IsPass(pass) /\ TablesGood(db)
      /\ UNCHANGED <<proj, marker, touched, raced>>
  BY SmbKinds DEF MoveFolder, KeepsHistory, Ready
<1>1. CASE Fails /\ UNCHANGED db
  BY <1>0, <1>1, FailsAt, EndSame
<1>2. ASSUME Did(p), db'.files = db.files, DOMAIN db'.maps = DOMAIN db.maps,
             \A s \in DOMAIN db.maps : db'.maps[s].node = db.maps[s].node
      PROVE  PlaceInv'
  <2>1. pass'.at = "movefolders" /\ pass'.scan = pass.scan
    BY <1>0, <1>2, PassDid DEF At
  <2>2. \A r \in MappedFiles(db') \cap DOMAIN db'.files : RowSame(r)
    BY <1>2, RowsFewer DEF Ready
  <2>3. \A q : Live(q)
    BY <1>0 DEF Live
  <2> QED BY <1>0, <2>1, <2>2, <2>3, LookingQuiet DEF At
<1>3. ASSUME NEW r \in MovedRows(FolderRow, p), NEW n, Did(p),
             db' = [Remapped(db, r, p) EXCEPT !.folders[r] = n]
      PROVE  PlaceInv'
  <2> DEFINE e == Remapped(db, r, p)
  <2>1. r \in DOMAIN db.maps
    BY DEF MovedRows, Owners
  <2>2. /\ e \in Tables /\ e.files = db.files /\ DOMAIN e.maps = DOMAIN db.maps
        /\ \A s \in DOMAIN db.maps : e.maps[s].node = db.maps[s].node
    BY <1>0, <2>1, RemappedIs
  <2> HIDE DEF e
  <2>3. db' = [e EXCEPT !.folders[r] = n]
    BY <1>3 DEF e
  <2>4. db'.files = e.files /\ db'.maps = e.maps
    BY <2>2, <2>3 DEF Tables
  <2> QED BY <1>2, <1>3, <2>2, <2>4
<1>4. CASE Did(p) /\ UNCHANGED db
  BY <1>2, <1>4
<1> QED BY <1>1, <1>3, <1>4 DEF MoveFolder

LEMMA BeginFoldersPlaced ==
  ASSUME Ready, BeginFolders
  PROVE  PlaceInv'
<1>1. /\ At("movefolders") /\ UNCHANGED <<db, proj, marker, touched, raced>>
      /\ pass'.at = "folders" /\ pass'.scan = pass.scan
  BY SmbKinds, PassGoes DEF BeginFolders, KeepsHistory, Ready
<1>2. \A r \in MappedFiles(db') \cap DOMAIN db'.files : RowSame(r)
  BY <1>1, RowsUnchanged DEF Ready
<1>3. \A q : Live(q)
  BY <1>1 DEF Live
<1> QED BY <1>1, <1>2, <1>3, LookingQuiet DEF At

\* Rows that were at a path are gone, and a folder has perhaps been made there.
LEMMA ClearedSame ==
  ASSUME Ready, NEW p, NEW d, d = Cleared(db, MappedAt(db, p)), db'.files = d.files,
         MappedFolders(db) \subseteq DOMAIN db.folders,
         NEW R, R \cap DOMAIN d.folders = {}, R \subseteq FolderRow,
         \A s \in DOMAIN db'.maps : s \in R \/ (s \in DOMAIN d.maps /\ db'.maps[s] = d.maps[s])
  PROVE  \A s \in MappedFiles(db') \cap DOMAIN db'.files : RowSame(s)
<1> SUFFICES ASSUME NEW s \in MappedFiles(db') \cap DOMAIN db'.files PROVE RowSame(s)
  OBVIOUS
<1>1. /\ DOMAIN d.files \subseteq DOMAIN db.files /\ \A t \in DOMAIN d.files : d.files[t] = db.files[t]
      /\ DOMAIN d.maps \subseteq DOMAIN db.maps /\ \A t \in DOMAIN d.maps : d.maps[t] = db.maps[t]
  BY SmbKinds, ClearedIs DEF Ready
<1>2. TablesGood(d)
  BY SmbKinds, ClearedGood DEF Ready
<1>3. s \in FileRow /\ s \in DOMAIN db'.maps /\ s \in DOMAIN d.files /\ s \notin R
  BY SmbSyncAssumption DEF MappedFiles
<1>4. d.files[s].folder \in {Root} \cup DOMAIN d.folders
  BY <1>2, <1>3 DEF TablesGood, RowsGood
<1>5. s \in DOMAIN db.maps /\ db'.maps[s] = db.maps[s] /\ db'.files[s] = db.files[s] /\ s \in DOMAIN db.files
  BY <1>1, <1>3
<1>6. ASSUME NEW t \in MappedFolders(db'), db.files[s].folder = t
      PROVE  t \in MappedFolders(db) /\ db'.maps[t].node = db.maps[t].node
  <2>1. t \in FolderRow /\ t \in DOMAIN db'.maps /\ t # Root
    BY SmbSyncAssumption DEF MappedFolders
  <2>2. t \notin R
    BY <1>1, <1>3, <1>4, <1>6, <2>1
  <2> QED BY <1>1, <2>1, <2>2 DEF MappedFolders
<1> QED BY <1>3, <1>5, <1>6 DEF RowSame, MappedFiles

LEMMA CreateFolderPlaced ==
  ASSUME Ready, At("folders"), NEW p \in pass.todo, NEW d, d = Cleared(db, MappedAt(db, p)),
         CreateFolder(d, p), UNCHANGED <<marker, touched, raced>>
  PROVE  PlaceInv'
<1>0. /\ TablesGood(db) /\ IsTree(proj) /\ IsPass(pass) /\ p \in Dirs(pass.scan) /\ SmbInv
      /\ MappedFolders(db) \subseteq DOMAIN db.folders
  BY DEF Ready, SmbInv, PassGood, At, Synchronizing
<1>1. /\ p \in Path /\ p[1] = Root /\ p[2] \in Name /\ p = Top(p[2]) /\ pass.scan[p] \in DirNode
  BY <1>0, ScannedDir
<1>2. /\ TablesGood(d) /\ MappedAt(d, p) = {} /\ DOMAIN d.maps \subseteq DOMAIN db.maps
      /\ \A s \in DOMAIN d.maps : d.maps[s] = db.maps[s]
  BY <1>0, ClearedGood, ClearedIs
\* A parent that is still mapped was.
<1>3. ASSUME NEW e, NEW q, NEW R, \A s \in DOMAIN e : s \in R \/ (s \in DOMAIN d.maps /\ e[s] = d.maps[s]),
             NEW t \in DOMAIN e \ R, e[t].path = Top(q[1]), t \in FolderRow, q[1] # Root
      PROVE  ParentOf(db, q) # {} /\ Top(q[1]) # p
  <2>1. t \in DOMAIN d.maps /\ d.maps[t].path = Top(q[1]) /\ db.maps[t] = d.maps[t] /\ t \in DOMAIN db.maps
    BY <1>2, <1>3
  <2>2. Top(q[1]) # p
    BY <1>2, <2>1 DEF MappedAt
  <2> QED BY <1>3, <2>1, <2>2 DEF ParentOf, MappedAt
<1>4. ASSUME NEW gone, gone = IF p \in DOMAIN proj THEN Under(proj, p) ELSE {},
             proj' = Without(proj, gone), db' = d, Did(p)
      PROVE  PlaceInv'
  <2>1. pass'.at = "folders" /\ pass'.scan = pass.scan /\ pass'.todo = pass.todo \ {p}
    BY <1>0, <1>4, PassDid DEF At
  <2>2. \A r \in MappedFiles(db') \cap DOMAIN db'.files : RowSame(r)
    <3>1. PICK R : R = {}
      OBVIOUS
    <3>2. R \cap DOMAIN d.folders = {} /\ R \subseteq FolderRow
      BY <3>1
    <3>3. \A s \in DOMAIN db'.maps : s \in R \/ (s \in DOMAIN d.maps /\ db'.maps[s] = d.maps[s])
      BY <1>4
    <3>4. db'.files = d.files
      BY <1>4
    <3> QED BY <1>0, <3>2, <3>3, <3>4, ClearedSame
  <2>3. \A q \in gone : q = p \/ (p[1] = Root /\ q[1] = p[2])
    BY <1>4 DEF Under, InDir
  <2>4. \A q \in DOMAIN proj \ gone : Steady(q)
    BY <1>4, RemovedStays
  <2>5. \A q \in Leaves(pass.scan) : q # p
    BY <1>1, SmbSyncAssumption DEF Leaves
  <2>6. ASSUME NEW q \in Leaves(pass.scan), Live(q)' PROVE Live(q) /\ EntryRaces(q)
    <3>1. CASE q[1] = Root
      <4>1. q \notin gone
        BY <1>1, <2>3, <2>5, <3>1, SmbSyncAssumption
      <4> QED BY <1>4, <3>1, <4>1 DEF Live, EntryRaces, EntryAt, Without, Restrict
    <3>2. CASE q[1] # Root
      <4>1. ParentOf(d, q) # {} \/ Top(q[1]) \in pass.todo \ {p}
        BY <1>4, <2>1, <2>6, <3>2 DEF Live, At
      <4>2. Live(q) /\ Top(q[1]) # p
        <5>1. CASE ParentOf(d, q) # {}
          <6>1. PICK t \in FolderRow : t \in DOMAIN d.maps /\ d.maps[t].path = Top(q[1])
            BY <3>2, <5>1 DEF ParentOf, MappedAt
          <6>2. ParentOf(db, q) # {} /\ Top(q[1]) # p
            BY <1>2, <3>2, <6>1 DEF ParentOf, MappedAt
          <6> QED BY <6>2 DEF Live
        <5>2. CASE Top(q[1]) \in pass.todo \ {p}
          BY <5>2 DEF Live
        <5> QED BY <4>1, <5>1, <5>2
      <4>3. q \notin gone
        BY <1>1, <2>3, <2>5, <4>2 DEF Top
      <4> QED BY <1>4, <4>2, <4>3 DEF EntryRaces, EntryAt, Without, Restrict
    <3> QED BY <3>1, <3>2
  <2>7. ASSUME NEW r, NEW q, Quiet(r)', RowSame(r), Quiet(r), SeenAt(r, q) PROVE Linked(r, q)'
    <3> DEFINE folder == db.files[r].folder
    <3>1. q \in Leaves(pass.scan) /\ Linked(r, q) /\ q \in DOMAIN proj /\ q # p
      BY <2>5, <2>7 DEF SeenAt, Linked
    <3>2. CASE folder = Root
      <4>1. q[1] = Root
        BY <3>1, <3>2 DEF Linked, AtHome
      <4>2. q \notin gone
        BY <1>1, <2>3, <3>1, <4>1, SmbSyncAssumption
      <4> QED BY <2>4, <2>7, <3>1, <4>1, <4>2, LinkedStays
    <3>3. CASE folder # Root
      <4>1. q[1] # Root /\ Top(q[1]) \in DOMAIN proj /\ proj[Top(q[1])] = db.maps[folder].node
        BY <3>1, <3>3 DEF Linked, AtHome
      <4>2. Calm(folder) /\ folder \in FolderRow /\ db.maps[folder].node \in DirNode
        BY <2>7, <3>3, HomeFacts
      <4>3. InPlace(folder)
        BY <4>2 DEF Ready, ContentInv, ScanKept, Found
      <4>4. Top(q[1]) = db.maps[folder].path
        BY <4>1, <4>2, <4>3 DEF Ready, ContentInv, FoldersKept, DirsOnce, InPlace
      <4>5. folder \in DOMAIN d.maps
        BY <1>4, <2>7, <3>3 DEF Quiet, Calm, MappedFolders, RowSame
      <4>6. Top(q[1]) # p
        BY <1>2, <4>4, <4>5 DEF MappedAt
      <4>7. q \notin gone /\ Top(q[1]) \notin gone
        <5>1. Top(q[1])[1] = Root
          BY DEF Top
        <5> QED BY <1>1, <2>3, <3>1, <4>6, <5>1, SmbSyncAssumption DEF Top
      <4> QED BY <2>4, <2>7, <3>1, <4>1, <4>7, LinkedStays
    <3> QED BY <3>2, <3>3
  <2>8. MarksStay
    BY MarksKept
  <2> QED BY <2>1, <2>2, <2>6, <2>7, <2>8, LookingStep DEF At
<1>5. ASSUME NEW r \in FolderRow \ (DOMAIN d.folders \cup DOMAIN d.maps),
             NEW n,
             db' = [d EXCEPT !.folders = With(@, r, n),
                             !.maps = With(@, r, [path |-> p, node |-> pass.scan[p]])],
             Saw(p, r), UNCHANGED proj
      PROVE  PlaceInv'
  <2>1. pass'.at = "folders" /\ pass'.scan = pass.scan /\ pass'.todo = pass.todo \ {p}
    BY <1>0, <1>5, PassSaw DEF At
  <2> DEFINE v == [path |-> p, node |-> pass.scan[p]]
             D == With(d.folders, r, n)
             M == With(d.maps, r, v)
  <2>2. /\ DOMAIN M = DOMAIN d.maps \cup {r} /\ M[r].path = p
        /\ \A s \in DOMAIN d.maps : M[s] = d.maps[s]
    BY <1>5 DEF With
  <2>3. db' = [d EXCEPT !.folders = D, !.maps = M]
    BY <1>5
  <2> HIDE DEF D, M, v
  <2>4. db'.files = d.files /\ db'.maps = M
    BY <1>2, <2>3 DEF TablesGood, Tables
  <2>5. \A s \in MappedFiles(db') \cap DOMAIN db'.files : RowSame(s)
    <3>1. PICK R : R = {r}
      OBVIOUS
    <3>2. R \cap DOMAIN d.folders = {} /\ R \subseteq FolderRow
      BY <3>1
    <3>3. \A s \in DOMAIN db'.maps : s \in R \/ (s \in DOMAIN d.maps /\ db'.maps[s] = d.maps[s])
      BY <2>2, <2>4, <3>1
    <3> QED BY <1>0, <2>4, <3>2, <3>3, ClearedSame
  <2>6. ASSUME NEW q, Live(q)' PROVE Live(q)
    <3>1. CASE q[1] = Root
      BY <3>1 DEF Live
    <3>2. CASE Top(q[1]) \in pass'.todo
      BY <2>1, <3>2 DEF Live
    <3>3. CASE q[1] # Root /\ ParentOf(db', q) # {}
      <4>1. PICK t \in FolderRow : t \in DOMAIN M /\ M[t].path = Top(q[1])
        BY <2>4, <3>3 DEF ParentOf, MappedAt
      <4>2. CASE t = r
        BY <2>2, <4>1, <4>2 DEF Live
      <4>3. CASE t # r
        <5>1. t \in DOMAIN db.maps /\ db.maps[t].path = Top(q[1])
          BY <1>2, <2>2, <4>1, <4>3
        <5> QED BY <3>3, <5>1 DEF Live, ParentOf, MappedAt
      <4> QED BY <4>2, <4>3
    <3> QED BY <2>1, <2>6, <3>1, <3>2, <3>3 DEF Live, At
  <2> QED BY <1>5, <2>1, <2>5, <2>6, LookingQuiet DEF At
<1>6. CASE FolderRow \subseteq DOMAIN d.folders \cup DOMAIN d.maps
  <2> DEFINE gone == IF p \in DOMAIN proj THEN Under(proj, p) ELSE {}
  <2>1. proj' = Without(proj, gone) /\ db' = d /\ Did(p)
    BY <1>6 DEF CreateFolder
  <2>2. gone = IF p \in DOMAIN proj THEN Under(proj, p) ELSE {}
    OBVIOUS
  <2> HIDE DEF gone
  <2> QED BY <1>4, <2>1, <2>2
<1> QED BY <1>5, <1>6 DEF CreateFolder

LEMMA EnterFolderPlaced ==
  ASSUME Ready, NEW p \in Path, EnterFolder(p)
  PROVE  PlaceInv'
<1> DEFINE here == MappedAt(db, p)
           same == {r \in here \cap FolderRow : db.maps[r].node = pass.scan[p]}
<1>0. /\ TablesGood(db) /\ IsPass(pass) /\ At("folders") /\ p \in pass.todo /\ p \in Dirs(pass.scan)
      /\ MappedFolders(db) \subseteq DOMAIN db.folders /\ UNCHANGED <<marker, touched, raced>>
  BY DEF EnterFolder, Ready, SmbInv, PassGood, At, Synchronizing, KeepsHistory
<1>1. ASSUME NEW r \in same, NEW n \in FolderName(db, p[2], {r}),
             db' = [db EXCEPT !.folders[r] = n], Saw(p, r), UNCHANGED proj
      PROVE  PlaceInv'
  <2>1. r \in DOMAIN db.folders /\ p[2] \in Name
    BY <1>0, ScannedDir DEF MappedAt, MappedFolders, Ready
  <2>2. n \in Name /\ \A s \in DOMAIN db.folders \ {r} : db.folders[s] # n
    BY <2>1, FolderNameFacts
  <2>3. db'.files = db.files /\ db'.maps = db.maps
    BY <1>0, <1>1, <2>1, <2>2, FolderRenamed
  <2>4. pass'.at = "folders" /\ pass'.scan = pass.scan /\ pass'.todo = pass.todo \ {p}
    BY <1>0, <1>1, PassSaw DEF At
  <2>5. \A s \in MappedFiles(db') \cap DOMAIN db'.files : RowSame(s)
    BY <2>3, RowsFewer DEF Ready
  <2>6. ASSUME NEW q, Live(q)' PROVE Live(q)
    <3>1. ParentOf(db', q) = ParentOf(db, q)
      BY <2>3 DEF ParentOf, MappedAt
    <3> QED BY <1>0, <2>4, <2>6, <3>1 DEF Live, At
  <2> QED BY <1>0, <1>1, <2>4, <2>5, <2>6, LookingQuiet DEF At
<1>2. CASE CreateFolder(Cleared(db, here), p)
  BY <1>0, <1>2, CreateFolderPlaced
<1>3. CASE TornDeletion(DataOf(db, here)) /\ UNCHANGED proj
  BY <1>0, <1>3, TornPlaced
<1> QED BY <1>1, <1>2, <1>3 DEF EnterFolder

-----------------------------------------------------------------------------
(* Files that moved, and those that are entered.                             *)

\* Once folders are entered, they stay where they are.
LEMMA EnteredStays ==
  ASSUME Ready, DirsStay, TouchedStay, pass.at \in Entered, pass'.at \in Entered,
         \A r \in MappedFolders(db') : FolderKept(r) /\ db'.maps[r].path = db.maps[r].path
  PROVE  FoldersSettled'
<1>1. ASSUME NEW r, r \in FolderRow, Calm(r)' PROVE InPlace(r)'
  <2>1. /\ FolderKept(r) /\ db'.maps[r].path = db.maps[r].path
        /\ db'.maps[r].node = db.maps[r].node /\ r \in DOMAIN db.maps
    BY <1>1 DEF Calm, FolderKept, MappedFolders
  <2>2. InPlace(r) /\ db.maps[r].node \notin touched'
    BY <1>1, <2>1, CalmStays DEF Calm, Ready, PlaceInv, FoldersSettled
  <2>3. db.maps[r].node \in DirNode
    BY <1>1, <2>1, SmbKinds, MappingFacts DEF Ready
  <2> QED BY <2>1, <2>2, <2>3 DEF InPlace, DirsStay
<1> QED BY <1>1 DEF FoldersSettled, At, Early, Entered

\* Where a folder that is in place has its files.
LEMMA HomeInPlace ==
  ASSUME Ready, NEW r, Quiet(r), NEW p, p[1] # Root => Top(p[1]) \in DOMAIN proj,
         db.files[r].folder # Root => InPlace(db.files[r].folder)
  PROVE  AtHome(r, p) <=> ParentOf(db, p) = {db.files[r].folder}
<1> DEFINE folder == db.files[r].folder
<1>1. CASE folder = Root
  <2>1. AtHome(r, p) <=> p[1] = Root
    BY <1>1 DEF AtHome
  <2>2. ParentOf(db, p) = {folder} => p[1] = Root
    BY <1>1, OneParent, SmbKinds, SmbSyncAssumption DEF Ready
  <2>3. p[1] = Root => ParentOf(db, p) = {folder}
    BY <1>1 DEF ParentOf
  <2> QED BY <2>1, <2>2, <2>3
<1>2. CASE folder # Root
  <2>1. /\ Calm(folder) /\ folder \in FolderRow /\ folder \in DOMAIN db.maps
        /\ db.maps[folder].node \in DirNode
    BY <1>2, HomeFacts
  <2>2. db.maps[folder].path \in DOMAIN proj /\ proj[db.maps[folder].path] = db.maps[folder].node
    BY <1>2 DEF InPlace
  <2>3. AtHome(r, p) <=> p[1] # Root /\ Top(p[1]) = db.maps[folder].path
    BY <1>2, <2>1, <2>2 DEF AtHome, Ready, ContentInv, FoldersKept, DirsOnce
  <2>4. ParentOf(db, p) = {folder} => p[1] # Root /\ Top(p[1]) = db.maps[folder].path
    BY <1>2, OneParent, SmbKinds DEF Ready
  <2>5. ASSUME p[1] # Root, Top(p[1]) = db.maps[folder].path PROVE ParentOf(db, p) = {folder}
    <3>1. folder \in ParentOf(db, p)
      BY <2>1, <2>5 DEF ParentOf, MappedAt
    <3> QED BY <3>1, OneParent, SmbKinds DEF Ready
  <2> QED BY <2>3, <2>4, <2>5
<1> QED BY <1>1, <1>2

\* The folders of quiet rows are in place while files are looked at.
LEMMA QuietFolder ==
  ASSUME Ready, pass.at \in {"folders"} \cup Entered, NEW r, Quiet(r), db.files[r].folder # Root
  PROVE  InPlace(db.files[r].folder)
<1>1. Calm(db.files[r].folder) /\ db.files[r].folder \in FolderRow
  BY HomeFacts
<1>2. CASE At("folders")
  BY <1>1, <1>2 DEF Ready, ContentInv, ScanKept, Found
<1>3. CASE pass.at \in Entered
  BY <1>1, <1>3 DEF Ready, PlaceInv, FoldersSettled
<1> QED BY <1>2, <1>3 DEF At

\* A file that a scan saw where its mapping says is there.
LEMMA SeenThere ==
  ASSUME Ready, pass.at \in {"folders"} \cup Entered, NEW r, Quiet(r),
         db.maps[r].path \in Compared, pass.scan[db.maps[r].path] = db.maps[r].node
  PROVE  Linked(r, db.maps[r].path)
<1> DEFINE p == db.maps[r].path
<1>1. ParentOf(db, p) = {db.files[r].folder} /\ db.maps[r].node \in FileNode
  BY HomeFacts
<1>2. SeenRaced(p)
  BY <1>1 DEF Live, Ready, PlaceInv, ContentsRaced
<1>3. EntryAt(proj, p) = {pass.scan[p]}
  BY <1>1, <1>2 DEF SeenRaced, Quiet
<1>4. p \in DOMAIN proj /\ proj[p] = db.maps[r].node
  BY <1>3 DEF EntryAt
<1>5. p[1] # Root => Top(p[1]) \in DOMAIN proj
  BY <1>4, SmbKinds, EntryFacts DEF Ready
<1>6. AtHome(r, p)
  BY <1>1, <1>5, QuietFolder, HomeInPlace
<1> QED BY <1>4, <1>6 DEF Linked

LEMMA BeginMovesPlaced ==
  ASSUME Ready, BeginMoves
  PROVE  PlaceInv'
<1> DEFINE todo == Leaves(pass.scan)
           stable == StableRows(db, pass.scan)
<1>1. /\ At("folders") /\ Moves("movefiles", todo, stable)
      /\ UNCHANGED <<db, proj, marker, touched, raced>>
  BY DEF BeginMoves, KeepsHistory, Moves
<1>2. todo = Leaves(pass.scan) /\ stable = StableRows(db, pass.scan)
  OBVIOUS
<1> HIDE DEF todo, stable
<1>3. pass'.at = "movefiles" /\ pass'.scan = pass.scan /\ pass'.todo = todo /\ pass'.stable = stable
  BY <1>1, SmbKinds, PassMoves DEF Ready
<1>4. Compared' = Leaves(pass.scan) /\ Compared = Leaves(pass.scan) /\ MarksStay
  BY <1>1, <1>3, MarksKept DEF Compared, At, Leaves
<1>5. \A r \in MappedFiles(db') \cap DOMAIN db'.files : RowSame(r)
  BY <1>1, RowsUnchanged DEF Ready
<1>6. FilesPlaced'
  <2> SUFFICES ASSUME marker', NEW r \in FileRow, Quiet(r)' PROVE Placing(r)'
    BY DEF FilesPlaced
  <2>1. RowSame(r) /\ Quiet(r)
    BY <1>4, <1>5, QuietWas DEF Quiet
  <2>2. PICK p : SeenAt(r, p)
    BY <1>1, <2>1 DEF Ready, PlaceInv, FilesPlaced, Placing, At
  <2>3. Linked(r, p)' /\ SeenAt(r, p)' /\ p \in todo
    BY <1>1, <1>2, <1>3, <2>1, <2>2, LinkedQuiet DEF SeenAt, Leaves, Ready
  <2>4. CASE r \in stable
    <3> DEFINE path == db.maps[r].path
    <3>1. path \in Leaves(pass.scan) /\ pass.scan[path] = db.maps[r].node
      <4>1. path \in DOMAIN pass.scan /\ pass.scan[path] = db.maps[r].node
        BY <1>2, <2>4 DEF StableRows
      <4>2. db.maps[r].node \in FileNode
        BY <2>1, HomeFacts
      <4> QED BY <4>1, <4>2 DEF Leaves
    <3>2. Linked(r, path)
      BY <1>1, <1>4, <2>1, <3>1, SeenThere DEF At
    <3>3. SeenAt(r, db.maps[r].path)
      BY <3>1, <3>2 DEF SeenAt
    <3>4. SeenAt(r, db.maps[r].path)'
      BY <1>1, <1>3, <3>3 DEF SeenAt, Leaves, Linked, AtHome
    <3> QED BY <1>3, <2>3, <3>4 DEF Placing, At
  <2>5. CASE r \notin stable
    BY <1>3, <2>3, <2>5 DEF Placing, At
  <2> QED BY <2>4, <2>5
<1>7. ContentsRaced'
  <2>1. ASSUME NEW p, Live(p)' PROVE Live(p) /\ EntryRaces(p)
    BY <1>1, <1>3, <2>1 DEF Live, At, EntryRaces, EntryAt
  <2> QED BY <1>1, <1>3, <1>4, <1>5, <2>1, ContentsStep
<1>8. FoldersSettled'
  <2>1. ASSUME NEW r \in FolderRow, Calm(r)' PROVE InPlace(r)'
    BY <1>1, <2>1 DEF Calm, Ready, ContentInv, ScanKept, Found, InPlace
  <2> QED BY <1>3, <2>1 DEF FoldersSettled, At, Early, Entered
<1> QED BY <1>6, <1>7, <1>8, TwinsStep DEF PlaceInv

\* A file that is looked for keeps what was found, unless what is done with is what was found.
LEMMA MovingStep ==
  ASSUME Ready, At("movefiles"), NEW r \in FileRow, Quiet(r)', RowSame(r), NEW p,
         pass'.at = pass.at, pass'.scan = pass.scan, pass'.todo = pass.todo \ {p},
         pass'.stable = pass.stable, UNCHANGED <<proj, marker, touched, raced>>,
         db'.maps[r].path = db.maps[r].path,
         SeenAt(r, p) /\ r \notin pass.stable => p = db.maps[r].path
  PROVE  Placing(r)'
<1>1. Quiet(r) /\ marker
  BY MarksKept, QuietWas DEF Ready, ContentInv, StageGood, At, Comparing
<1>2. ASSUME NEW q, SeenAt(r, q) PROVE SeenAt(r, q)'
  <2>1. Linked(r, q)'
    BY <1>2, LinkedQuiet DEF SeenAt, Ready
  <2> QED BY <1>2, <2>1 DEF SeenAt, Leaves, RowSame
<1>3. \/ SeenAt(r, db.maps[r].path)
      \/ r \notin pass.stable /\ \E q \in pass.todo : SeenAt(r, q)
  BY <1>1 DEF Ready, PlaceInv, FilesPlaced, Placing
<1>4. PICK path : path = db.maps[r].path /\ path = db'.maps[r].path
  OBVIOUS
<1>5. CASE SeenAt(r, path)
  <2>1. SeenAt(r, path)' /\ Linked(r, path)'
    BY <1>2, <1>5 DEF SeenAt
  <2>2. SeenAt(r, db.maps[r].path)'
    BY <1>4, <2>1 DEF SeenAt, Linked, AtHome
  <2> QED BY <2>1, <2>2 DEF Placing, At
<1>6. CASE r \notin pass.stable /\ ~SeenAt(r, path) /\ \E q \in pass.todo : SeenAt(r, q)
  <2>1. PICK q \in pass.todo : SeenAt(r, q)
    BY <1>6
  <2>2. q # p
    BY <1>4, <1>6, <2>1
  <2>3. SeenAt(r, q)' /\ Linked(r, q)' /\ q \in pass'.todo
    BY <1>2, <2>1, <2>2 DEF SeenAt
  <2> QED BY <1>6, <2>3 DEF Placing, At
<1> QED BY <1>3, <1>4, <1>5, <1>6

LEMMA MoveFilePlaced ==
  ASSUME Ready, NEW p \in Path, MoveFile(p)
  PROVE  PlaceInv'
<1>0. /\ SmbInv /\ TablesGood(db) /\ IsPass(pass) /\ At("movefiles")
      /\ UNCHANGED <<proj, marker, touched, raced>> /\ MarksStay
      /\ p \in Leaves(pass.scan)
  BY SmbKinds, MarksKept DEF MoveFile, KeepsHistory, Ready, SmbInv, PassGood, At
<1>1. CASE Fails /\ UNCHANGED db
  BY <1>0, <1>1, FailsAt, EndSame
<1>2. ASSUME Did(p), FilesPlaced',
             \A s \in MappedFolders(db') : FolderKept(s) /\ db'.maps[s].path = db.maps[s].path,
             \A s \in MappedFiles(db') \cap DOMAIN db'.files : RowSame(s) \/ DataRaced(s)'
      PROVE  PlaceInv'
  <2>1. pass'.at = "movefiles" /\ pass'.scan = pass.scan
    BY <1>0, <1>2, PassDid DEF At
  <2>3. FoldersSettled'
    BY <1>0, <1>2, <2>1, SameDirs, TouchedGrows, EnteredStays DEF Entered, At
  <2>4. ASSUME NEW q, Live(q)' PROVE Live(q) /\ EntryRaces(q)
    <3>1. q[1] = Root \/ ParentOf(db', q) # {}
      BY <2>1, <2>4 DEF Live, At
    <3>2. ParentOf(db', q) # {} => q[1] = Root \/ ParentOf(db, q) # {}
      BY <1>2 DEF ParentOf, MappedAt, MappedFolders, FolderKept
    <3> QED BY <1>0, <3>1, <3>2 DEF Live, EntryRaces, EntryAt
  <2>5. Compared' \subseteq Compared
    BY <1>0, <2>1 DEF Compared, At, Leaves
  <2>6. ContentsRaced'
    BY <1>0, <1>2, <2>1, <2>4, <2>5, ContentsStep
  <2> QED BY <1>2, <2>3, <2>6, TwinsStep DEF PlaceInv
<1>3. CASE /\ Did(p) /\ UNCHANGED db
           /\ \/ {r \in MovedRows(FileRow, p) : r \in DOMAIN db.files /\ ParentOf(db, p) # {}}
                   # Owners(FileRow, p)
              \/ Owners(FileRow, p) = {}
  <2>1. \A s \in MappedFiles(db') \cap DOMAIN db'.files : RowSame(s)
    BY <1>3, RowsUnchanged DEF Ready
  <2>2. ASSUME NEW r \in FileRow, Quiet(r)' PROVE Placing(r)'
    <3>1. RowSame(r) /\ Quiet(r)
      BY <1>0, <2>1, <2>2, QuietWas DEF Quiet
    <3>2. ASSUME SeenAt(r, p), r \notin pass.stable PROVE p = db.maps[r].path
      <4> SUFFICES ASSUME p # db.maps[r].path PROVE FALSE
        OBVIOUS
      <4>1. /\ r \in DOMAIN db.maps /\ r \in DOMAIN db.files /\ pass.scan[p] = db.maps[r].node
            /\ Linked(r, p)
        BY <3>1, <3>2, HomeFacts DEF SeenAt
      <4>2. p[1] # Root => Top(p[1]) \in DOMAIN proj
        BY <1>0, <4>1, SmbKinds, EntryFacts DEF Linked
      <4>3. ParentOf(db, p) = {db.files[r].folder}
        BY <1>0, <3>1, <4>1, <4>2, QuietFolder, HomeInPlace DEF Linked, Entered, At
      <4>4. r \in MovedRows(FileRow, p) /\ r \in Owners(FileRow, p)
        BY <3>2, <4>1 DEF MovedRows, Owners
      <4>5. PICK s \in Owners(FileRow, p) : s # r
        BY <1>3, <4>1, <4>3, <4>4 DEF MovedRows
      <4>6. s \in DOMAIN db.maps /\ db.maps[s].node = db.maps[r].node
        BY <4>1, <4>5 DEF Owners
      <4> QED BY <3>1, <4>5, <4>6, NoTwin
    <3>3. /\ pass'.at = pass.at /\ pass'.scan = pass.scan /\ pass'.todo = pass.todo \ {p}
          /\ pass'.stable = pass.stable
      BY <1>0, <1>3, PassDid
    <3> QED BY <1>0, <1>3, <2>2, <3>1, <3>2, <3>3, MovingStep
  <2>3. FilesPlaced'
    BY <2>2 DEF FilesPlaced
  <2> QED BY <1>2, <1>3, <2>1, <2>3, SameFolders
<1>4. ASSUME NEW r \in MovedRows(FileRow, p), r \in DOMAIN db.files,
             NEW parent \in ParentOf(db, p), Did(p), db' = Renaming(db, r, p, parent)
      PROVE  PlaceInv'
  <2>1. r \in DOMAIN db.maps \cap DOMAIN db.files /\ r \in FileRow /\ db.maps[r].node = pass.scan[p]
    BY <1>4 DEF MovedRows, Owners
  <2>2. parent \in {Root} \cup FolderRow /\ ParentOf(db, p) = {parent}
    BY <1>0, OneParent
  <2>3. /\ db'.folders = db.folders /\ DOMAIN db'.files = DOMAIN db.files
        /\ db'.files[r].folder = parent /\ db'.files[r].blob = db.files[r].blob
        /\ \A s \in DOMAIN db.files \ {r} : db'.files[s] = db.files[s]
        /\ DOMAIN db'.maps = DOMAIN db.maps
        /\ \A s \in DOMAIN db.maps :
             /\ db'.maps[s].node = db.maps[s].node
             /\ db'.maps[s].path = IF s = r THEN p ELSE db.maps[s].path
    BY <1>0, <1>4, <2>1, <2>2, RenamingIs
  <2>4. FileMappingSet(r)
    <3>1. \A s \in DOMAIN db.maps \ {r} : db'.maps[s] = db.maps[s]
      <4> TAKE s \in DOMAIN db.maps \ {r}
      <4>1. db'.maps[s] \in Mapping /\ db.maps[s] \in Mapping
        BY <2>3, SmbKinds, TablesFields DEF Ready, SmbInv, TablesGood
      <4> QED BY <2>3, <4>1 DEF Mapping
    <3> QED BY <2>3, <3>1 DEF FileMappingSet
  <2>a. \A s \in MappedFolders(db') : FolderKept(s) /\ db'.maps[s].path = db.maps[s].path
    BY <2>1, <2>4, OtherFolders
  <2>5. \A s \in MappedFiles(db') \cap DOMAIN db'.files : s # r => RowSame(s)
    BY <2>3 DEF RowSame, MappedFiles, MappedFolders
  <2>6. DataRaced(r)'
    <3>1. DataRaced(r)
      BY <2>1 DEF Ready, PlaceInv, ContentsRaced, MappedFiles
    <3> QED BY <1>0, <2>1, <2>3, <3>1 DEF DataRaced
  <2>7. /\ pass'.at = pass.at /\ pass'.scan = pass.scan /\ pass'.todo = pass.todo \ {p}
        /\ pass'.stable = pass.stable
    BY <1>0, <1>4, PassDid
  \* The row that is moved is where the scan saw its entry.
  <2>8. ASSUME Quiet(r)' PROVE Placing(r)'
    <3>1. db'.maps[r].node = db.maps[r].node /\ db.maps[r].node \in FileNode
          /\ db.maps[r].node \notin raced /\ db'.maps[r].path = p
      BY <1>0, <2>1, <2>3, <2>8, MappingFacts DEF Quiet
    <3>2. SeenRaced(p)
      BY <1>0, <2>2 DEF Ready, PlaceInv, ContentsRaced, Live, Compared, At
    <3>3. EntryAt(proj, p) = {pass.scan[p]}
      BY <2>1, <3>1, <3>2 DEF SeenRaced
    <3>4. p \in DOMAIN proj /\ proj[p] = db.maps[r].node
      BY <2>1, <3>3 DEF EntryAt
    <3>5. CASE parent = Root
      <4>1. p[1] = Root
        BY <1>0, <2>2, <3>5, OneParent, SmbSyncAssumption
      <4>2. Linked(r, p)'
        BY <1>0, <2>3, <3>1, <3>4, <3>5, <4>1 DEF Linked, AtHome
      <4>3. SeenAt(r, db.maps[r].path)'
        BY <1>0, <2>1, <2>7, <3>1, <4>2 DEF SeenAt, Leaves, Linked, AtHome
      <4> QED BY <1>0, <2>7, <4>2, <4>3 DEF Placing, At
    <3>6. CASE parent # Root
      <4>1. p[1] # Root /\ parent \in FolderRow /\ parent \in DOMAIN db.maps
            /\ db.maps[parent].path = Top(p[1])
        BY <1>0, <2>2, <3>6, OneParent
      <4>2. Calm(parent) /\ db'.maps[parent].node = db.maps[parent].node
        <5>1. db'.maps[parent].node \notin touched' /\ parent \in MappedFolders(db')
          BY <2>3, <2>8, <3>6 DEF Quiet, Calm
        <5> QED BY <1>0, <2>3, <4>1, <5>1 DEF Calm, MappedFolders
      <4>3. InPlace(parent)
        BY <1>0, <4>1, <4>2 DEF Ready, PlaceInv, FoldersSettled, Entered, At
      <4>4. Top(p[1]) \in DOMAIN proj /\ proj[Top(p[1])] = db.maps[parent].node
        BY <4>1, <4>3 DEF InPlace
      <4>5. Linked(r, p)'
        BY <1>0, <2>3, <3>1, <3>4, <3>6, <4>1, <4>2, <4>4 DEF Linked, AtHome
      <4>6. SeenAt(r, db.maps[r].path)'
        BY <1>0, <2>1, <2>7, <3>1, <4>5 DEF SeenAt, Leaves, Linked, AtHome
      <4> QED BY <1>0, <2>7, <4>5, <4>6 DEF Placing, At
    <3> QED BY <3>5, <3>6
  <2>9. ASSUME NEW s \in FileRow, Quiet(s)' PROVE Placing(s)'
    <3>1. CASE s = r
      BY <2>8, <2>9, <3>1
    <3>2. CASE s # r
      <4>1. RowSame(s) /\ Quiet(s) /\ db'.maps[s].path = db.maps[s].path
        BY <1>0, <2>3, <2>5, <2>9, <3>2, QuietWas, HomeFacts DEF Quiet
      <4>2. ~SeenAt(s, p)
        BY <2>1, <3>2, <4>1, NoTwin DEF SeenAt
      <4> QED BY <1>0, <2>7, <2>9, <4>1, <4>2, MovingStep
    <3> QED BY <3>1, <3>2
  <2>10. FilesPlaced'
    BY <2>9 DEF FilesPlaced
  <2> QED BY <1>2, <1>4, <2>1, <2>a, <2>5, <2>6, <2>10
<1> QED BY <1>1, <1>3, <1>4 DEF MoveFile

LEMMA BeginFilesPlaced ==
  ASSUME Ready, BeginFiles
  PROVE  PlaceInv'
<1>1. /\ At("movefiles") /\ pass.todo = {} /\ UNCHANGED <<db, proj, marker, touched, raced>>
      /\ pass'.at = "files" /\ pass'.scan = pass.scan /\ pass'.todo = Leaves(pass.scan)
  BY SmbKinds, PassGoes DEF BeginFiles, KeepsHistory, Ready
<1>2. MarksStay /\ \A r \in MappedFiles(db') \cap DOMAIN db'.files : RowSame(r)
  BY <1>1, MarksKept, RowsUnchanged DEF Ready
<1>3. FilesPlaced'
  <2> SUFFICES ASSUME marker', NEW r \in FileRow, Quiet(r)' PROVE Placing(r)'
    BY DEF FilesPlaced
  <2>1. RowSame(r) /\ Quiet(r)
    BY <1>2, QuietWas DEF Quiet
  <2>2. SeenAt(r, db.maps[r].path)
    BY <1>1, <2>1 DEF Ready, PlaceInv, FilesPlaced, Placing
  <2>3. Linked(r, db.maps[r].path)'
    BY <1>1, <2>2 DEF SeenAt, Linked, AtHome
  <2>4. db'.maps[r].path \in pass'.todo
    BY <1>1, <2>2 DEF SeenAt
  <2> QED BY <1>1, <2>3, <2>4 DEF Placing, At
<1>4. Compared' \subseteq Compared
  BY <1>1 DEF Compared, At
<1>5. ASSUME NEW q, Live(q)' PROVE Live(q) /\ EntryRaces(q)
  BY <1>1, <1>5 DEF Live, At, EntryRaces, EntryAt
<1>6. ContentsRaced'
  BY <1>1, <1>2, <1>4, <1>5, ContentsStep
<1>7. FoldersSettled'
  BY <1>1, SameFolders, SameDirs, TouchedGrows, EnteredStays DEF Entered, At
<1> QED BY <1>3, <1>6, <1>7, TwinsStep DEF PlaceInv

\* What is left of the rows of a pass that reads what was there stays as it was.
LEMMA RowsGonePlaced ==
  ASSUME Ready, UNCHANGED <<proj, marker, touched, raced>>,
         pass.at \in {"files", "deletefiles", "deletefolders"}, pass'.at = pass.at,
         pass'.scan = pass.scan, pass'.stable = pass.stable, pass.seen \subseteq pass'.seen,
         pass'.todo \subseteq pass.todo, At("files") => pass'.todo = pass.todo,
         DOMAIN db'.maps \subseteq DOMAIN db.maps,
         \A s \in DOMAIN db'.maps : db'.maps[s] = db.maps[s],
         DOMAIN db'.files \subseteq DOMAIN db.files,
         \A s \in DOMAIN db'.files : db'.files[s] = db.files[s],
         DOMAIN db'.folders \subseteq DOMAIN db.folders
  PROVE  PlaceInv'
<1>0. SmbInv /\ SmbInv' /\ MarksStay /\ marker
  BY MarksKept DEF Ready, ContentInv, StageGood, Comparing
<1>1. \A r \in MappedFiles(db') \cap DOMAIN db'.files : RowSame(r)
  BY <1>0, RowsFewer
<1>2. ASSUME NEW r \in FileRow, Quiet(r)' PROVE Placing(r)'
  <2>1. RowSame(r) /\ r \in DOMAIN db'.maps
    BY <1>1, <1>2 DEF Quiet, MappedFiles
  <2>2. \A q : Quiet(r) /\ Linked(r, q) => Linked(r, q)'
    BY <1>0, <1>2, <2>1, LinkedQuiet
  <2>3. ~At("movefiles")
    BY DEF At
  <2>4. db'.maps[r].path = db.maps[r].path
    BY <2>1
  <2> QED BY <1>0, <1>2, <2>1, <2>2, <2>3, <2>4, StageStep
<1>3. FilesPlaced'
  BY <1>2 DEF FilesPlaced
<1>4. \A s \in MappedFolders(db') : FolderKept(s) /\ db'.maps[s].path = db.maps[s].path
  BY DEF FolderKept, MappedFolders
<1>5. Compared' \subseteq Compared
  BY DEF Compared, At
<1>6. ASSUME NEW q, Live(q)' PROVE Live(q) /\ EntryRaces(q)
  <2>1. q[1] = Root \/ ParentOf(db', q) # {}
    BY <1>6 DEF Live, At
  <2>2. ParentOf(db', q) # {} => q[1] = Root \/ ParentOf(db, q) # {}
    BY <1>4 DEF ParentOf, MappedAt, MappedFolders, FolderKept
  <2> QED BY <2>1, <2>2 DEF Live, EntryRaces, EntryAt
<1>7. ContentsRaced'
  BY <1>0, <1>1, <1>5, <1>6, ContentsStep DEF MarksStay
<1>8. FoldersSettled'
  BY <1>4, SameDirs, TouchedGrows, EnteredStays DEF Entered
<1> QED BY <1>3, <1>7, <1>8, TwinsStep DEF PlaceInv

\* A path is done with: other rows keep their entries, and its own row has its entry now.
LEMMA EnteredPlaced ==
  ASSUME Ready, At("files"), NEW p \in pass.todo, Did(p) \/ \E r : Saw(p, r),
         UNCHANGED <<marker, touched, raced>>, DirsStay,
         \A q : q # p => EntryAt(proj', q) = EntryAt(proj, q),
         \A q \in DOMAIN proj : q # p \/ proj[q] \in DirNode => Steady(q),
         \A s \in MappedFolders(db') : FolderKept(s) /\ db'.maps[s].path = db.maps[s].path,
         \A s \in MappedFiles(db') \cap DOMAIN db'.files : RowSame(s) \/ DataRaced(s)',
         \A s \in FileRow : Quiet(s)' =>
           \/ s \in pass'.seen /\ Linked(s, p)' /\ db'.maps[s].path = p
           \/ RowSame(s) /\ db'.maps[s].path = db.maps[s].path /\ db.maps[s].path # p
  PROVE  PlaceInv'
<1>1. /\ pass'.at = "files" /\ pass'.scan = pass.scan /\ pass'.todo = pass.todo \ {p}
      /\ pass.seen \subseteq pass'.seen
  BY SmbKinds, PassDid, PassSaw DEF Ready, At
<1>2. SmbInv /\ MarksStay /\ marker
  BY MarksKept DEF Ready, ContentInv, StageGood, At, Comparing
<1>3. ASSUME NEW s \in FileRow, Quiet(s)' PROVE Placing(s)'
  <2>1. CASE s \in pass'.seen /\ Linked(s, p)' /\ db'.maps[s].path = p
    <3>1. Linked(s, db.maps[s].path)'
      BY <2>1 DEF Linked, AtHome
    <3> QED BY <1>1, <2>1, <3>1 DEF Placing, At
  <2>2. CASE RowSame(s) /\ db'.maps[s].path = db.maps[s].path /\ db.maps[s].path # p
    <3>1. Quiet(s) /\ Placing(s)
      BY <1>2, <1>3, <2>2, QuietWas DEF Ready, PlaceInv, FilesPlaced
    <3>2. PICK q : q = db.maps[s].path /\ q = db'.maps[s].path /\ q # p
      BY <2>2
    <3>3. Linked(s, q) /\ (q \in pass.todo \/ s \in pass.seen)
      BY <3>1, <3>2 DEF Placing
    <3>4. Linked(s, q)'
      BY <1>2, <1>3, <2>2, <3>2, <3>3, LinkedSame
    <3>5. Linked(s, db.maps[s].path)'
      BY <3>2, <3>4 DEF Linked, AtHome
    <3>6. q \in pass'.todo \/ s \in pass'.seen
      BY <1>1, <3>2, <3>3
    <3> QED BY <1>1, <3>2, <3>4, <3>5, <3>6 DEF Placing, At
  <2> QED BY <1>3, <2>1, <2>2
<1>4. FilesPlaced'
  BY <1>3 DEF FilesPlaced
<1>5. Compared' \subseteq Compared /\ p \notin Compared'
  BY <1>1 DEF Compared, At
<1>6. ASSUME NEW q \in Compared', Live(q)' PROVE Live(q) /\ EntryRaces(q)
  <2>1. q[1] = Root \/ ParentOf(db', q) # {}
    BY <1>1, <1>6 DEF Live, At
  <2>2. ParentOf(db', q) # {} => q[1] = Root \/ ParentOf(db, q) # {}
    BY DEF ParentOf, MappedAt, MappedFolders, FolderKept
  <2>3. EntryAt(proj', q) = EntryAt(proj, q)
    BY <1>5, <1>6
  <2> QED BY <2>1, <2>2, <2>3 DEF Live, EntryRaces
<1>7. ContentsRaced'
  BY <1>1, <1>2, <1>5, <1>6, ContentsStep DEF MarksStay
<1>8. FoldersSettled'
  BY <1>1, TouchedGrows, EnteredStays DEF Entered, At
<1> QED BY <1>4, <1>7, <1>8, TwinsStep DEF PlaceInv

\* The mapping of one file is set at a path: other rows have other paths.
LEMMA OthersElsewhere ==
  ASSUME Ready, NEW r \in FileRow, FileMappingSet(r), NEW p, db'.maps[r].path = p, r \in DOMAIN db'.maps,
         DOMAIN db'.files \subseteq DOMAIN db.files \cup {r},
         \A s \in DOMAIN db.files \ {r} : s \in DOMAIN db'.files /\ db'.files[s] = db.files[s]
  PROVE  \A s \in MappedFiles(db') \cap DOMAIN db'.files : s # r =>
           RowSame(s) /\ db'.maps[s].path = db.maps[s].path /\ db.maps[s].path # p
<1> SUFFICES ASSUME NEW s \in MappedFiles(db') \cap DOMAIN db'.files, s # r
             PROVE  RowSame(s) /\ db'.maps[s].path = db.maps[s].path /\ db.maps[s].path # p
  OBVIOUS
<1>1. s \in DOMAIN db.maps /\ db'.maps[s] = db.maps[s] /\ s \in DOMAIN db'.maps /\ s \in FileRow
  BY DEF FileMappingSet, MappedFiles
<1>2. s \in DOMAIN db.files /\ db'.files[s] = db.files[s]
  OBVIOUS
<1>3. \A t \in MappedFolders(db') : t \in MappedFolders(db) /\ db'.maps[t].node = db.maps[t].node
  BY OtherFolders DEF FolderKept
<1>4. RowSame(s)
  BY <1>1, <1>2, <1>3 DEF RowSame, MappedFiles
<1>5. db'.maps[s].path # p
  BY <1>1 DEF Ready, SmbInv, TablesGood, MapsGood, PathsUnique
<1> QED BY <1>1, <1>4, <1>5

\* The row says where its entry is, and names what the scan saw.
LEMMA EntryPlaced ==
  ASSUME Ready, At("files"), NEW p \in pass.todo, NEW r \in FileRow, Saw(p, r),
         UNCHANGED <<proj, marker, touched, raced>>, FileMappingSet(r), r \in DOMAIN db'.maps,
         db'.maps[r].path = p, db'.maps[r].node = pass.scan[p],
         DOMAIN db'.files \subseteq DOMAIN db.files \cup {r},
         \A s \in DOMAIN db.files \ {r} : s \in DOMAIN db'.files /\ db'.files[s] = db.files[s],
         NEW parent, ParentOf(db, p) = {parent}, db'.files[r].folder = parent,
         SeenRaced(p) => DataRaced(r)'
  PROVE  PlaceInv'
<1>0. /\ SmbInv /\ IsPass(pass) /\ p \in Leaves(pass.scan) /\ pass.scan[p] \in FileNode
      /\ TablesGood(db) /\ MarksStay
  BY SmbKinds, ScannedLeaf, MarksKept DEF Ready, SmbInv, PassGood, At
<1>1. SeenRaced(p)
  BY DEF Ready, PlaceInv, ContentsRaced, Live, Compared, At
<1>2. r \in pass'.seen
  BY <1>0, PassSaw
<1>3. \A s \in MappedFiles(db') \cap DOMAIN db'.files : s # r =>
        RowSame(s) /\ db'.maps[s].path = db.maps[s].path /\ db.maps[s].path # p
  BY OthersElsewhere
<1>4. ASSUME Quiet(r)' PROVE Linked(r, p)'
  <2>1. pass.scan[p] \notin raced
    BY <1>4 DEF Quiet
  <2>2. p \in DOMAIN proj /\ proj[p] = pass.scan[p]
    BY <1>0, <1>1, <2>1 DEF SeenRaced, EntryAt
  <2>3. CASE parent = Root
    <3>1. p[1] = Root
      BY <1>0, <2>3, OneParent, SmbSyncAssumption
    <3> QED BY <2>2, <2>3, <3>1 DEF Linked, AtHome
  <2>4. CASE parent # Root
    <3>1. p[1] # Root /\ parent \in FolderRow /\ parent \in DOMAIN db.maps
          /\ db.maps[parent].path = Top(p[1])
      BY <1>0, <2>4, OneParent
    <3>2. parent # r
      BY <3>1, SmbSyncAssumption
    <3>3. Calm(parent)' /\ db'.maps[parent] = db.maps[parent]
      BY <1>4, <2>4, <3>1, <3>2 DEF Quiet, FileMappingSet
    <3>4. InPlace(parent)
      BY <3>1, <3>3 DEF Calm, MappedFolders, Ready, PlaceInv, FoldersSettled, Entered, At
    <3>5. Top(p[1]) \in DOMAIN proj /\ proj[Top(p[1])] = db.maps[parent].node
      BY <3>1, <3>4 DEF InPlace
    <3> QED BY <2>2, <2>4, <3>1, <3>3, <3>5 DEF Linked, AtHome
  <2> QED BY <2>3, <2>4
<1>5. ASSUME NEW s \in FileRow, Quiet(s)'
      PROVE  \/ s \in pass'.seen /\ Linked(s, p)' /\ db'.maps[s].path = p
             \/ RowSame(s) /\ db'.maps[s].path = db.maps[s].path /\ db.maps[s].path # p
  BY <1>2, <1>3, <1>4, <1>5 DEF Quiet
<1>6. \A s \in MappedFiles(db') \cap DOMAIN db'.files : RowSame(s) \/ DataRaced(s)'
  BY <1>1, <1>3
<1>7. DirsStay /\ \A q : EntryAt(proj', q) = EntryAt(proj, q)
  BY SameDirs DEF EntryAt
<1>8. \A q \in DOMAIN proj : Steady(q)
  BY DEF Steady
<1> QED BY <1>5, <1>6, <1>7, <1>8, OtherFolders, EnteredPlaced

\* A path that no row of a file that is left is mapped to is done with.
LEMMA UnmappedPlaced ==
  ASSUME Ready, At("files"), NEW p \in pass.todo, Did(p),
         UNCHANGED <<db, marker, touched, raced>>,
         UNCHANGED proj \/ (proj' = Without(proj, {p}) /\ (p \in DOMAIN proj => FileAt(p))),
         \A s \in MappedAt(db, p) : s \notin DOMAIN db.files
  PROVE  PlaceInv'
<1>1. \A s \in MappedFiles(db') \cap DOMAIN db'.files : RowSame(s)
  BY RowsUnchanged DEF Ready
<1>2. ASSUME NEW s \in FileRow, Quiet(s)'
      PROVE  RowSame(s) /\ db'.maps[s].path = db.maps[s].path /\ db.maps[s].path # p
  BY <1>1, <1>2 DEF Quiet, MappedAt, MappedFiles
<1>3. DirsStay /\ \A q : q # p => EntryAt(proj', q) = EntryAt(proj, q)
  <2>1. CASE UNCHANGED proj
    BY <2>1, SameDirs DEF EntryAt
  <2>2. CASE proj' = Without(proj, {p}) /\ (p \in DOMAIN proj => FileAt(p))
    <3>1. DirsStay
      BY <2>2, DirsNotRemoved, SmbSyncAssumption DEF FileAt
    <3>2. ASSUME NEW q, q # p PROVE EntryAt(proj', q) = EntryAt(proj, q)
      BY <2>2, <3>2 DEF EntryAt, Without, Restrict
    <3> QED BY <3>1, <3>2
  <2> QED BY <2>1, <2>2
<1>4. ASSUME NEW q \in DOMAIN proj, q # p \/ proj[q] \in DirNode PROVE Steady(q)
  <2>1. CASE UNCHANGED proj
    BY <2>1 DEF Steady
  <2>2. CASE proj' = Without(proj, {p}) /\ (p \in DOMAIN proj => FileAt(p))
    <3>1. q # p
      BY <1>4, <2>2, SmbSyncAssumption DEF FileAt
    <3> QED BY <2>2, <3>1, RemovedStays
  <2> QED BY <2>1, <2>2
<1> QED BY <1>1, <1>2, <1>3, <1>4, SameFolders, EnteredPlaced

LEMMA ImportPlaced ==
  ASSUME Ready, At("files"), NEW p \in pass.todo, MappedAt(db, p) = {}, Import(db, p),
         UNCHANGED <<marker, touched, raced>>
  PROVE  PlaceInv'
<1>0. /\ TablesGood(db) /\ MappedFolders(db) \subseteq DOMAIN db.folders /\ p \in Leaves(pass.scan)
      /\ SmbInv
  BY DEF Ready, SmbInv, PassGood, At, Synchronizing
<1>1. p \in Path /\ p[2] \in Name /\ pass.scan[p] \in FileNode
  BY <1>0, ScannedLeaf
<1>2. CASE db' = db /\ Did(p) /\ UNCHANGED proj
  BY <1>2, UnmappedPlaced
<1>3. CASE db' = db /\ Fails /\ UNCHANGED proj
  BY <1>3, FailsAt, EndSame
<1>4. CASE (p \in DOMAIN proj => FileAt(p)) /\ proj' = Without(proj, {p}) /\ db' = db /\ Did(p)
  BY <1>4, UnmappedPlaced
<1>5. ASSUME FileAt(p), NEW r \in FileRow \ (DOMAIN db.files \cup DOMAIN db.maps),
             NEW parent \in ParentOf(db, p),
             db' = [db EXCEPT
               !.files = With(@, r, [folder |-> parent, name |-> p[2], blob |-> proj[p]]),
               !.maps = With(@, r, [path |-> p, node |-> pass.scan[p]])],
             Saw(p, r), UNCHANGED proj
      PROVE  PlaceInv'
  <2> DEFINE row == [folder |-> parent, name |-> p[2], blob |-> proj[p]]
             node == pass.scan[p]
  <2>1. ParentOf(db, p) = {parent} /\ parent \in {Root} \cup FolderRow
    BY <1>0, OneParent
  <2>2. row \in FileRecord /\ row.folder = parent /\ row.blob = proj[p] /\ node \in FileNode
    BY <1>1, <1>5, <2>1 DEF FileRecord, FileAt
  <2>3. FileMade(db, db', r, row, p, node)
    BY <1>5 DEF FileMade
  <2>4. node = pass.scan[p]
    OBVIOUS
  <2> HIDE DEF row, node
  <2>5. /\ db'.folders = db.folders
        /\ DOMAIN db'.files = DOMAIN db.files \cup {r} /\ DOMAIN db'.maps = DOMAIN db.maps \cup {r}
        /\ db'.files[r] = row /\ \A s \in DOMAIN db.files : db'.files[s] = db.files[s]
        /\ db'.maps[r].node = node /\ db'.maps[r].path = p
        /\ \A s \in DOMAIN db.maps : db'.maps[s] = db.maps[s]
    BY <1>0, <1>1, <2>1, <2>2, <2>3, FileCreated
  <2>6. FileMappingSet(r)
    BY <2>5 DEF FileMappingSet
  <2>7. SeenRaced(p) => DataRaced(r)'
    BY <1>5, <1>1, <2>2, <2>4, <2>5 DEF SeenRaced, DataRaced, EntryAt, FileAt
  <2>8. /\ DOMAIN db'.files \subseteq DOMAIN db.files \cup {r} /\ r \in DOMAIN db'.maps
        /\ \A s \in DOMAIN db.files \ {r} : s \in DOMAIN db'.files /\ db'.files[s] = db.files[s]
        /\ db'.files[r].folder = parent
    BY <2>2, <2>5
  <2> QED BY <1>5, <2>1, <2>4, <2>5, <2>6, <2>7, <2>8, EntryPlaced
<1> QED BY <1>2, <1>3, <1>4, <1>5 DEF Import

\* A file whose entry is another one than was mapped.
LEMMA ReplacePlaced ==
  ASSUME Ready, At("files"), NEW p \in pass.todo, NEW r \in MappedAt(db, p) \cap FileRow,
         r \in DOMAIN db.files, db.maps[r].node # pass.scan[p], Replace(r, p),
         UNCHANGED <<marker, touched, raced>>
  PROVE  PlaceInv'
<1>0. /\ TablesGood(db) /\ MappedFolders(db) \subseteq DOMAIN db.folders /\ SmbInv
      /\ p \in Leaves(pass.scan) /\ marker /\ MarksStay
      /\ r \in DOMAIN db.maps \cap FileRow /\ r \in DOMAIN db.maps \cap DOMAIN db.files
      /\ db.maps[r].path = p
  BY MarksKept DEF Ready, SmbInv, PassGood, At, Synchronizing, MappedAt, ContentInv, StageGood, Comparing
<1>1. p \in Path /\ p[2] \in Name /\ pass.scan[p] \in FileNode
  BY <1>0, ScannedLeaf
<1>2. ASSUME FileAt(p), NEW parent \in ParentOrRoot(db, p),
             db' = [Renaming(db, r, p, parent) EXCEPT
                      !.files[r].blob = proj[p], !.maps[r].node = pass.scan[p]],
             Saw(p, r), UNCHANGED proj
      PROVE  PlaceInv'
  <2> DEFINE e == Renaming(db, r, p, parent)
             blob == proj[p]
             node == pass.scan[p]
  <2>1. ParentOf(db, p) = {parent} /\ MappedAt(db, p) = {r} /\ parent \in {Root} \cup FolderRow
    BY <1>0, MappedHere
  <2>2. TablesGood(e)
    BY <1>0, <1>1, <2>1, RenamingGood
  <2>3. /\ e.folders = db.folders /\ DOMAIN e.files = DOMAIN db.files
        /\ \A s \in DOMAIN db.files \ {r} : e.files[s] = db.files[s]
        /\ DOMAIN e.maps = DOMAIN db.maps /\ e.files[r].folder = parent /\ e.maps[r].path = p
    BY <1>0, <1>1, <2>1, RenamingIs
  <2>4. \A s \in DOMAIN db.maps \ {r} : e.maps[s] = db.maps[s]
    BY <1>0 DEF Renaming, TablesGood, Tables
  <2>5. /\ Replaced(e, db', r, blob, node) /\ blob \in FileNode /\ node \in FileNode
        /\ blob = proj[p] /\ node = pass.scan[p]
    BY <1>1, <1>2 DEF Replaced, FileAt
  <2>a. db'.files[r].folder = e.files[r].folder
    <3>1. e.files[r] \in FileRecord
      BY <1>0, <2>2, <2>3, TablesFields DEF TablesGood
    <3>2. db'.files[r] = [e.files[r] EXCEPT !.blob = proj[p]]
      BY <1>0, <1>2, <2>2, <2>3 DEF TablesGood, Tables
    <3> QED BY <3>1, <3>2 DEF FileRecord
  <2> HIDE DEF e, blob, node
  <2>6. /\ db'.folders = e.folders
        /\ DOMAIN db'.files = DOMAIN e.files /\ DOMAIN db'.maps = DOMAIN e.maps
        /\ db'.files[r].blob = blob /\ \A s \in DOMAIN e.files \ {r} : db'.files[s] = e.files[s]
        /\ db'.maps[r].node = node /\ db'.maps[r].path = e.maps[r].path
        /\ \A s \in DOMAIN e.maps \ {r} : db'.maps[s] = e.maps[s]
    BY <1>0, <2>2, <2>3, <2>5, ReplacedGood
  <2>7. FileMappingSet(r)
    BY <2>3, <2>4, <2>6 DEF FileMappingSet
  <2>8. /\ DOMAIN db'.files \subseteq DOMAIN db.files \cup {r} /\ r \in DOMAIN db'.maps
        /\ \A s \in DOMAIN db.files \ {r} : s \in DOMAIN db'.files /\ db'.files[s] = db.files[s]
        /\ db'.files[r].folder = parent /\ db'.maps[r].path = p /\ db'.maps[r].node = pass.scan[p]
    BY <1>0, <2>3, <2>5, <2>6, <2>a
  <2>9. SeenRaced(p) => DataRaced(r)'
    BY <1>2, <1>1, <2>5, <2>6 DEF SeenRaced, DataRaced, EntryAt, FileAt
  <2> QED BY <1>0, <1>2, <2>1, <2>7, <2>8, <2>9, EntryPlaced
<1>3. CASE Fails /\ UNCHANGED <<db, proj>>
  BY <1>3, FailsAt, EndSame
<1>4. ASSUME p \in DOMAIN proj => FileAt(p), db.files[r].blob # NoData,
             Vacant(p) \/ p \in DOMAIN proj,
             proj' = With(proj, p, db.files[r].blob),
             db' = [db EXCEPT !.maps[r].node = db.files[r].blob], Saw(p, r)
      PROVE  PlaceInv'
  <2> DEFINE n == db.files[r].blob
  <2>1. n \in FileNode
    <3>1. db.files[r] \in FileRecord
      BY <1>0, TablesFields DEF TablesGood
    <3> QED BY <1>4, <3>1 DEF FileRecord
  <2>2. proj' = With(proj, p, n) /\ db' = [db EXCEPT !.maps[r].node = n] /\ db.files[r].blob = n
    BY <1>4
  <2> HIDE DEF n
  <2>3. /\ db'.files = db.files /\ db'.folders = db.folders /\ DOMAIN db'.maps = DOMAIN db.maps
        /\ db'.maps[r].node = n /\ \A s \in DOMAIN db.maps \ {r} : db'.maps[s] = db.maps[s]
    BY <1>0, <2>1, <2>2, NodeSetIs
  <2>4. db'.maps[r].path = p
    BY <1>0, <2>2, TablesFields DEF TablesGood, Tables, Mapping
  <2>5. FileMappingSet(r) /\ DataRaced(r)'
    BY <1>0, <2>2, <2>3 DEF FileMappingSet, DataRaced
  <2>6. \A s \in MappedFiles(db') \cap DOMAIN db'.files : s # r =>
          RowSame(s) /\ db'.maps[s].path = db.maps[s].path /\ db.maps[s].path # p
    <3>1. /\ DOMAIN db'.files \subseteq DOMAIN db.files \cup {r} /\ r \in DOMAIN db'.maps
          /\ \A s \in DOMAIN db.files \ {r} : s \in DOMAIN db'.files /\ db'.files[s] = db.files[s]
      BY <1>0, <2>3
    <3> QED BY <2>4, <2>5, <3>1, OthersElsewhere
  <2>7. DirsStay /\ (\A q : q # p => EntryAt(proj', q) = EntryAt(proj, q))
        /\ p \in DOMAIN proj' /\ proj'[p] = n
    <3>1. DirsStay
      BY <1>4, <2>2, DirsNotWritten, SmbSyncAssumption DEF FileAt
    <3>2. ASSUME NEW q, q # p PROVE EntryAt(proj', q) = EntryAt(proj, q)
      BY <2>2, <3>2 DEF EntryAt, With
    <3>3. p \in DOMAIN proj' /\ proj'[p] = n
      BY <2>2 DEF With
    <3> QED BY <3>1, <3>2, <3>3
  <2>8. ASSUME NEW q \in DOMAIN proj, q # p \/ proj[q] \in DirNode PROVE Steady(q)
    <3>1. q # p
      BY <1>4, <2>8, SmbSyncAssumption DEF FileAt
    <3> QED BY <2>2, <3>1, WrittenStays
  <2>9. ASSUME Quiet(r)' PROVE Linked(r, p)'
    <3> DEFINE folder == db.files[r].folder
    <3>1. ParentOf(db, p) = {folder} /\ db'.files[r].folder = folder
      BY <1>0, <2>3 DEF TablesGood, Placed
    <3>2. CASE folder = Root
      <4>1. p[1] = Root
        BY <1>0, <3>1, <3>2, OneParent, SmbSyncAssumption
      <4> QED BY <2>3, <2>7, <3>1, <3>2, <4>1 DEF Linked, AtHome
    <3>3. CASE folder # Root
      <4>1. p[1] # Root /\ folder \in FolderRow /\ folder \in DOMAIN db.maps
            /\ db.maps[folder].path = Top(p[1])
        BY <1>0, <3>1, <3>3, OneParent
      <4>2. folder # r
        BY <1>0, <4>1, SmbSyncAssumption
      <4>3. Calm(folder)' /\ db'.maps[folder] = db.maps[folder]
        BY <2>3, <2>9, <3>1, <3>3, <4>1, <4>2 DEF Quiet
      <4>4. InPlace(folder) /\ db.maps[folder].node \in DirNode
        <5>1. Calm(folder)
          BY <3>1, <4>1, <4>3 DEF Calm, MappedFolders
        <5>2. InPlace(folder)
          BY <4>1, <5>1 DEF Ready, PlaceInv, FoldersSettled, Entered, At
        <5>3. db.maps[folder].node \in DirNode
          BY <1>0, <4>1, MappingFacts
        <5> QED BY <5>2, <5>3
      <4>5. Top(p[1]) \in DOMAIN proj' /\ proj'[Top(p[1])] = db.maps[folder].node
        BY <2>8, <4>1, <4>4 DEF InPlace, Steady
      <4> QED BY <2>3, <2>7, <3>1, <3>3, <4>1, <4>3, <4>5 DEF Linked, AtHome
    <3> QED BY <3>2, <3>3
  <2>10. r \in pass'.seen
    BY <1>4, SmbKinds, PassSaw DEF Ready
  <2>11. ASSUME NEW s \in FileRow, Quiet(s)'
         PROVE  \/ s \in pass'.seen /\ Linked(s, p)' /\ db'.maps[s].path = p
                \/ RowSame(s) /\ db'.maps[s].path = db.maps[s].path /\ db.maps[s].path # p
    BY <2>4, <2>6, <2>9, <2>10, <2>11 DEF Quiet
  <2>12. \A s \in MappedFiles(db') \cap DOMAIN db'.files : RowSame(s) \/ DataRaced(s)'
    BY <2>5, <2>6
  <2> QED BY <1>0, <1>4, <2>5, <2>7, <2>8, <2>11, <2>12, OtherFolders, EnteredPlaced
\* The entry goes before the stored file is linked again.
<1>5. CASE /\ p \in DOMAIN proj => FileAt(p)
           /\ proj' = Without(proj, {p}) /\ (Fails \/ EndsWithin) /\ UNCHANGED db
  <2>1. pass'.at = "failed"
    BY <1>5, FailsAt
  <2>2. \A s \in MappedFiles(db') \cap DOMAIN db'.files : RowSame(s)
    BY <1>0, <1>5, RowsUnchanged DEF Ready
  <2>3. ASSUME NEW s \in FileRow, Quiet(s)', RowSame(s), Quiet(s) PROVE \E q : Linked(s, q)'
    <3>0. PICK q : q = db.maps[s].path
      OBVIOUS
    <3>1. Linked(s, q)
      BY <1>0, <2>3, <3>0 DEF Ready, PlaceInv, FilesPlaced, Placing
    <3>2. q # p
      <4> SUFFICES ASSUME q = p PROVE FALSE
        OBVIOUS
      <4>1. s \in DOMAIN db.maps /\ db.maps[s].node \in FileNode /\ db.maps[s].node \notin raced
            /\ ParentOf(db, q) # {}
        <5>1. s \in DOMAIN db.maps /\ db.maps[s].node \notin raced
          BY <2>3 DEF Quiet, MappedFiles
        <5>2. db.maps[s].node \in FileNode /\ ParentOf(db, q) # {}
          BY <2>3, <3>0, HomeFacts
        <5> QED BY <5>1, <5>2
      <4>2. s = r
        BY <1>0, <3>0, <4>1 DEF TablesGood, MapsGood, PathsUnique
      <4>3. SeenRaced(p)
        BY <4>1 DEF Ready, PlaceInv, ContentsRaced, Live, Compared, At
      <4>4. EntryAt(proj, p) = {db.maps[r].node}
        BY <3>1, <4>2 DEF Linked, EntryAt
      <4> QED BY <4>1, <4>2, <4>3, <4>4 DEF SeenRaced
    <3>3. \A x \in DOMAIN proj : x = q \/ proj[x] \in DirNode => Steady(x)
      BY <1>5, <3>2, RemovedStays, SmbSyncAssumption DEF FileAt
    <3>4. Linked(s, q)'
      BY <1>0, <2>3, <3>1, <3>3, LinkedSame
    <3> QED BY <3>4
  <2> QED BY <1>0, <2>1, <2>2, <2>3, EndPlaced
<1> QED BY <1>2, <1>3, <1>4, <1>5 DEF Replace

LEMMA EnterFilePlaced ==
  ASSUME Ready, NEW p \in Path, EnterFile(p)
  PROVE  PlaceInv'
<1> DEFINE files == MappedAt(db, p) \cap FileRow
           folders == MappedAt(db, p) \cap FolderRow
<1>0. /\ TablesGood(db) /\ At("files") /\ p \in pass.todo /\ p \in Leaves(pass.scan) /\ SmbInv
      /\ UNCHANGED <<marker, touched, raced>> /\ DOMAIN db.maps \subseteq FileRow \cup FolderRow
  BY SmbKinds DEF EnterFile, Ready, SmbInv, PassGood, At, KeepsHistory
<1>1. ASSUME NEW r \in files, r \notin DOMAIN db.files, Did(p), UNCHANGED <<db, proj>>
      PROVE  PlaceInv'
  <2>1. MappedAt(db, p) = {r}
    BY <1>0 DEF MappedAt, TablesGood, MapsGood, PathsUnique
  <2> QED BY <1>0, <1>1, <2>1, UnmappedPlaced
<1>2. ASSUME NEW r \in files, r \in DOMAIN db.files, db.maps[r].node # pass.scan[p], Replace(r, p)
      PROVE  PlaceInv'
  BY <1>0, <1>2, ReplacePlaced
<1>3. ASSUME NEW r \in files, r \in DOMAIN db.files, db.maps[r].node = pass.scan[p],
             NEW parent \in ParentOrRoot(db, p),
             db' = Renaming(db, r, p, parent), Saw(p, r), UNCHANGED proj
      PROVE  PlaceInv'
  <2>1. /\ parent \in {Root} \cup FolderRow /\ r \in DOMAIN db.maps \cap DOMAIN db.files
        /\ ParentOf(db, p) = {parent} /\ r \in FileRow /\ db.maps[r].path = p
    BY <1>0, <1>3, MappedHere
  <2>2. /\ db'.folders = db.folders /\ DOMAIN db'.files = DOMAIN db.files
        /\ db'.files[r].folder = parent /\ db'.files[r].blob = db.files[r].blob
        /\ \A s \in DOMAIN db.files \ {r} : db'.files[s] = db.files[s]
        /\ DOMAIN db'.maps = DOMAIN db.maps
        /\ \A s \in DOMAIN db.maps :
             /\ db'.maps[s].node = db.maps[s].node
             /\ db'.maps[s].path = IF s = r THEN p ELSE db.maps[s].path
    BY <1>0, <1>3, <2>1, RenamingIs
  <2>3. \A s \in DOMAIN db.maps \ {r} : db'.maps[s] = db.maps[s]
    <3> TAKE s \in DOMAIN db.maps \ {r}
    <3>1. db'.maps[s] \in Mapping /\ db.maps[s] \in Mapping
      BY <2>2, SmbKinds, TablesFields DEF Ready, SmbInv, TablesGood
    <3> QED BY <2>2, <3>1 DEF Mapping
  <2>4. FileMappingSet(r)
    BY <2>2, <2>3 DEF FileMappingSet
  <2>5. DataRaced(r)'
    <3>1. DataRaced(r)
      BY <2>1 DEF Ready, PlaceInv, ContentsRaced, MappedFiles
    <3> QED BY <1>0, <2>1, <2>2, <3>1 DEF DataRaced
  <2>6. db'.maps[r].path = p /\ db'.maps[r].node = pass.scan[p] /\ r \in DOMAIN db'.maps
        /\ DOMAIN db'.files \subseteq DOMAIN db.files \cup {r}
        /\ \A s \in DOMAIN db.files \ {r} : s \in DOMAIN db'.files /\ db'.files[s] = db.files[s]
    BY <1>3, <2>1, <2>2
  <2> QED BY <1>0, <1>3, <2>1, <2>2, <2>4, <2>5, <2>6, EntryPlaced
<1>4. CASE files = {} /\ folders = {} /\ Import(db, p)
  <2>1. MappedAt(db, p) = {}
    BY <1>0, <1>4 DEF MappedAt
  <2> QED BY <1>0, <1>4, <2>1, ImportPlaced
<1>5. ASSUME NEW h \in folders, db' = FolderDeleted(db, h), UNCHANGED <<pass, proj>>
      PROVE  PlaceInv'
  <2>1. h \in DOMAIN db.maps \cap FolderRow
    BY DEF MappedAt
  <2>2. /\ db'.files = Without(db.files, FilesOf(db, h)) /\ db'.folders = Without(db.folders, {h})
        /\ DOMAIN db'.maps \subseteq DOMAIN db.maps
        /\ \A s \in DOMAIN db'.maps : db'.maps[s] = db.maps[s]
    BY <1>0, <1>5, <2>1, FolderRowsGone
  <2>3. /\ DOMAIN db'.files \subseteq DOMAIN db.files
        /\ \A s \in DOMAIN db'.files : db'.files[s] = db.files[s]
        /\ DOMAIN db'.folders \subseteq DOMAIN db.folders
    BY <2>2 DEF Without, Restrict
  <2> QED BY <1>0, <1>5, <2>2, <2>3, RowsGonePlaced DEF At
<1>6. ASSUME NEW h \in folders, TornDeletion(FilesOf(db, h)), UNCHANGED proj
      PROVE  PlaceInv'
  BY <1>0, <1>6, TornPlaced
<1> QED BY <1>1, <1>2, <1>3, <1>4, <1>5, <1>6 DEF EnterFile

-----------------------------------------------------------------------------
(* What was not seen, and what is not projected yet.                         *)

LEMMA BeginDeletionsPlaced ==
  ASSUME Ready, BeginDeletions
  PROVE  PlaceInv'
<1>1. /\ At("files") /\ pass.todo = {} /\ UNCHANGED <<db, proj, marker, touched, raced>>
      /\ pass'.at = "deletefiles" /\ pass'.todo = MappedFiles(db) \ pass.seen
  BY SmbKinds, PassGoes DEF BeginDeletions, KeepsHistory, Ready
<1>2. MarksStay /\ \A r \in MappedFiles(db') \cap DOMAIN db'.files : RowSame(r)
  BY <1>1, MarksKept, RowsUnchanged DEF Ready
<1>3. FilesPlaced'
  <2> SUFFICES ASSUME marker', NEW r \in FileRow, Quiet(r)' PROVE Placing(r)'
    BY DEF FilesPlaced
  <2>1. RowSame(r) /\ Quiet(r)
    BY <1>2, QuietWas DEF Quiet
  <2>2. PICK q : q = db.maps[r].path
    OBVIOUS
  <2>3. Linked(r, q) /\ r \in pass.seen
    BY <1>1, <2>1, <2>2 DEF Ready, PlaceInv, FilesPlaced, Placing
  <2>4. Linked(r, q)'
    BY <1>1, <2>3 DEF Linked, AtHome
  <2> QED BY <1>1, <2>3, <2>4 DEF Placing, At
<1>4. ContentsRaced'
  BY <1>1, <1>2, ContentsUncompared
<1>5. FoldersSettled'
  BY <1>1, SameFolders, SameDirs, TouchedGrows, EnteredStays DEF Entered, At
<1> QED BY <1>3, <1>4, <1>5, TwinsStep DEF PlaceInv

\* The pass goes on to a stage that looks for no file.
LEMMA NextStagePlaced ==
  ASSUME Ready, NEW at, NEW todo, Goes(at, todo), pass.at \in Entered,
         at \in {"deletefolders", "project"}, UNCHANGED <<db, proj, marker, touched, raced>>
  PROVE  PlaceInv'
<1>1. pass'.at = at
  BY SmbKinds, PassGoes DEF Ready
<1>2. MarksStay /\ \A r \in MappedFiles(db') \cap DOMAIN db'.files : RowSame(r)
  BY MarksKept, RowsUnchanged DEF Ready
<1>3. FilesPlaced'
  <2>1. ASSUME NEW r \in FileRow, Quiet(r)'
        PROVE  RowSame(r) /\ \A q : Quiet(r) /\ Linked(r, q) => \E x : Linked(r, x)'
    BY <1>2, <2>1, LinkedQuiet DEF Quiet, Ready
  <2> QED BY <1>1, <1>2, <2>1, LinksStep
<1>4. ContentsRaced'
  BY <1>1, <1>2, ContentsUncompared
<1>5. FoldersSettled'
  BY <1>1, SameFolders, SameDirs, TouchedGrows, EnteredStays DEF Entered
<1> QED BY <1>3, <1>4, <1>5, TwinsStep DEF PlaceInv

LEMMA NextStagesPlaced ==
  ASSUME Ready, BeginFolderDeletions \/ BeginProject \/ EndPass
  PROVE  PlaceInv'
<1>1. CASE BeginFolderDeletions
  BY <1>1, NextStagePlaced DEF BeginFolderDeletions, KeepsHistory, Entered, At
<1>2. CASE BeginProject
  BY <1>2, NextStagePlaced DEF BeginProject, KeepsHistory, Entered, At
<1>3. CASE EndPass
  BY <1>3, RestIs, EndSame DEF EndPass, KeepsHistory
<1> QED BY <1>1, <1>2, <1>3

LEMMA DeleteUnseenFilePlaced ==
  ASSUME Ready, NEW r \in FileRow, DeleteUnseenFile(r)
  PROVE  PlaceInv'
<1>0. /\ TablesGood(db) /\ At("deletefiles") /\ SmbInv /\ MarksStay
      /\ UNCHANGED <<proj, marker, touched, raced>>
  BY SmbKinds, MarksKept DEF DeleteUnseenFile, KeepsHistory, Ready
<1>1. CASE db' = FileDeleted(db, r) /\ Did(r)
  <2>1. /\ db'.folders = db.folders /\ db'.files = Without(db.files, {r})
        /\ db'.maps = Without(db.maps, {r})
    BY <1>0, <1>1, FileDeletedGood
  <2>2. /\ DOMAIN db'.maps \subseteq DOMAIN db.maps /\ \A s \in DOMAIN db'.maps : db'.maps[s] = db.maps[s]
        /\ DOMAIN db'.files \subseteq DOMAIN db.files
        /\ \A s \in DOMAIN db'.files : db'.files[s] = db.files[s]
    BY <2>1 DEF Without, Restrict
  <2>3. /\ pass'.at = pass.at /\ pass'.scan = pass.scan /\ pass'.stable = pass.stable
        /\ pass'.todo = pass.todo \ {r} /\ pass'.seen = pass.seen
    BY <1>1, SmbKinds, PassDid DEF Ready
  <2> QED BY <1>0, <2>1, <2>2, <2>3, RowsGonePlaced DEF At
<1>2. CASE db' = DataLost(db, {r}) /\ EndsWithin
  <2>1. PICK S : S = {r}
    OBVIOUS
  <2>2. TornDeletion(S)
    BY <1>2, <2>1 DEF TornDeletion
  <2> QED BY <1>0, <2>2, TornPlaced
<1>3. CASE db' = [db EXCEPT !.files = Without(@, {r})] /\ EndsWithin
  <2> DEFINE F == Without(db.files, {r})
  <2>1. F = Without(db.files, {r}) /\ db' = [db EXCEPT !.files = F]
    BY <1>3
  <2> HIDE DEF F
  <2>2. db'.files = F /\ db'.maps = db.maps
    BY <2>1, SmbKinds DEF Tables, Ready
  <2>3. \A s \in DOMAIN F : s \in DOMAIN db.files /\ F[s] = db.files[s]
    BY <2>1 DEF Without, Restrict
  <2>4. \A s \in MappedFiles(db') \cap DOMAIN db'.files : RowSame(s)
    BY <1>0, <2>2, <2>3, RowsFewer DEF Ready
  <2> QED BY <1>0, <1>3, <2>4, FailsAt, EndQuiet
<1> QED BY <1>1, <1>2, <1>3 DEF DeleteUnseenFile

LEMMA DeleteUnseenFolderPlaced ==
  ASSUME Ready, NEW h \in FolderRow, DeleteUnseenFolder(h)
  PROVE  PlaceInv'
<1>0. /\ TablesGood(db) /\ At("deletefolders") /\ h \in DOMAIN db.maps \cap FolderRow
      /\ UNCHANGED <<proj, marker, touched, raced>>
  BY DEF DeleteUnseenFolder, Ready, SmbInv, PassGood, At, KeepsHistory, MappedFolders
<1>1. CASE db' = FolderDeleted(db, h) /\ Did(h)
  <2>1. /\ db'.files = Without(db.files, FilesOf(db, h)) /\ db'.folders = Without(db.folders, {h})
        /\ DOMAIN db'.maps \subseteq DOMAIN db.maps
        /\ \A s \in DOMAIN db'.maps : db'.maps[s] = db.maps[s]
    BY <1>0, <1>1, FolderRowsGone
  <2>2. /\ DOMAIN db'.files \subseteq DOMAIN db.files
        /\ \A s \in DOMAIN db'.files : db'.files[s] = db.files[s]
        /\ DOMAIN db'.folders \subseteq DOMAIN db.folders
    BY <2>1 DEF Without, Restrict
  <2>3. /\ pass'.at = pass.at /\ pass'.scan = pass.scan /\ pass'.stable = pass.stable
        /\ pass'.todo = pass.todo \ {h} /\ pass'.seen = pass.seen
    BY <1>1, SmbKinds, PassDid DEF Ready
  <2> QED BY <1>0, <2>1, <2>2, <2>3, RowsGonePlaced DEF At
<1>2. CASE TornDeletion(FilesOf(db, h))
  BY <1>0, <1>2, TornPlaced
<1> QED BY <1>1, <1>2 DEF DeleteUnseenFolder

\* An entry is made where there is none, then its mapping.
LEMMA ProjectPlaced ==
  ASSUME Ready, At("project"), NEW r \in pass.todo,
         NEW dir \in DirOf(db, FolderOf(r)), NEW node,
         node \in IF r \in FileRow THEN FileNode ELSE DirNode,
         r \in FileRow => node = db.files[r].blob /\ UNCHANGED touched,
         \A s \in MappedFolders(db) : db.maps[s].node # node,
         r \in FolderRow => \A s \in DOMAIN db.maps : db.maps[s].node # node,
         Project(r, dir, node), UNCHANGED <<marker, raced>>, touched \ {node} \subseteq touched'
  PROVE  PlaceInv'
<1>0. /\ SmbInv /\ TablesGood(db) /\ IsPass(pass) /\ r \in Rows(db) \ DOMAIN db.maps
      /\ r \in FileRow \cup FolderRow /\ FileRow \cap FolderRow = {} /\ FileNode \cap DirNode = {}
      /\ r \in FileRow => r \in DOMAIN db.files
      /\ NameOf(r) \in Name /\ FolderOf(r) \in {Root} \cup FolderRow
      /\ r \in FolderRow => FolderOf(r) = Root
  <2>1. /\ TablesGood(db) /\ IsPass(pass) /\ r \in Rows(db) \ DOMAIN db.maps
        /\ DOMAIN db.files \subseteq FileRow /\ DOMAIN db.folders \subseteq FolderRow
        /\ FileRow \cap FolderRow = {} /\ FileNode \cap DirNode = {} /\ db \in Tables
    BY SmbKinds, SmbSyncAssumption DEF Ready, SmbInv, PassGood, At
  <2>2. CASE r \in DOMAIN db.files
    <3>1. db.files[r] \in FileRecord
      BY <2>1, <2>2, TablesFields
    <3> QED BY <2>1, <2>2, <3>1 DEF NameOf, FolderOf, FileRecord, Ready
  <2>3. CASE r \in DOMAIN db.folders
    <3>1. db.folders[r] \in Name
      BY <2>1, <2>3, TablesFields
    <3> QED BY <2>1, <2>3, <3>1 DEF NameOf, FolderOf, Ready
  <2> QED BY <2>1, <2>2, <2>3 DEF Rows
<1>1. dir \in {Root} \cup Name /\ (FolderOf(r) = Root <=> dir = Root)
  <2> DEFINE q == <<dir, dir>>
  <2>1. q[1] = dir
    OBVIOUS
  <2> HIDE DEF q
  <2> QED BY <2>1, <1>0, DirOfFacts
<1>2. MarksStay
  BY <1>0 DEF MarksStay
<1>3. CASE Fails /\ UNCHANGED <<db, proj>>
  <2>1. \A s \in MappedFiles(db') \cap DOMAIN db'.files : RowSame(s)
    BY <1>3, RowsUnchanged DEF Ready
  <2> QED BY <1>2, <1>3, <2>1, FailsAt, EndQuiet
<1>4. ASSUME NEW p \in Allocated(dir, NameOf(r), {}), proj' = With(proj, p, node)
      PROVE  /\ p \in Path /\ p[1] = dir /\ MappedAt(db, p) = {} /\ ParentOf(db, p) = {FolderOf(r)}
             /\ p \in DOMAIN proj' /\ proj'[p] = node
             /\ \A q \in DOMAIN proj : Steady(q)
  <2>1. p \in Path /\ p[1] = dir /\ NoConflict(p, {})
    BY <1>0, <1>1, AllocatedFacts
  <2>2. ParentOf(db, p) = {FolderOf(r)}
    BY <1>0, <2>1, DirOfFacts
  <2>3. MappedAt(db, p) = {} /\ p \notin DOMAIN proj
    BY <2>1 DEF NoConflict
  <2>4. \A q \in DOMAIN proj : Steady(q)
    BY <1>4, <2>3, WrittenStays
  <2>5. p \in DOMAIN proj' /\ proj'[p] = node
    BY <1>4 DEF With
  <2> QED BY <2>1, <2>2, <2>3, <2>4, <2>5
<1>5. ASSUME NEW p \in Allocated(dir, NameOf(r), {}), proj' = With(proj, p, node),
             EndsWithin, UNCHANGED db
      PROVE  PlaceInv'
  <2>1. \A s \in MappedFiles(db') \cap DOMAIN db'.files : RowSame(s)
    BY <1>5, RowsUnchanged DEF Ready
  <2>2. \A q \in DOMAIN proj : Steady(q)
    BY <1>4, <1>5
  <2>3. ASSUME NEW s \in FileRow, Quiet(s)', RowSame(s), NEW q, Linked(s, q) PROVE Linked(s, q)'
    BY <1>0, <2>2, <2>3, LinkedSame
  <2> QED BY <1>2, <1>5, <2>1, <2>3, FailsAt, EndPlaced
<1>6. ASSUME NEW p \in Allocated(dir, NameOf(r), {}), proj' = With(proj, p, node),
             db' = [db EXCEPT !.maps = With(@, r, [path |-> p, node |-> node])], Did(r)
      PROVE  PlaceInv'
  <2>0. /\ p \in Path /\ p[1] = dir /\ MappedAt(db, p) = {} /\ ParentOf(db, p) = {FolderOf(r)}
        /\ p \in DOMAIN proj' /\ proj'[p] = node /\ \A q \in DOMAIN proj : Steady(q)
    BY <1>4, <1>6
  <2>1. Mapped(db, db', r, p, node)
    BY <1>6 DEF Mapped
  <2>2. /\ p \in Path /\ MappedAt(db, p) = {} /\ ParentOf(db, p) # {}
        /\ r \in FolderRow => p[1] = Root
        /\ r \in DOMAIN db.files => ParentOf(db, p) = {db.files[r].folder}
    <3>1. r \in DOMAIN db.files => FolderOf(r) = db.files[r].folder
      BY <1>0, SmbKinds DEF FolderOf
    <3> QED BY <1>0, <1>1, <2>0, <3>1
  <2>3. /\ db'.files = db.files /\ db'.folders = db.folders
        /\ DOMAIN db'.maps = DOMAIN db.maps \cup {r} /\ db'.maps[r].node = node /\ db'.maps[r].path = p
        /\ \A s \in DOMAIN db.maps : db'.maps[s] = db.maps[s]
    BY <1>0, <2>1, <2>2, MappedGood
  <2>4. pass'.at = "project"
    BY <1>0, <1>6, PassDid DEF At
  <2>5. ASSUME NEW s \in MappedFiles(db') \cap DOMAIN db'.files, s # r PROVE RowSame(s)
    <3>1. s \in DOMAIN db.maps /\ s \in DOMAIN db.files /\ s \in FileRow /\ db'.maps[s] = db.maps[s]
      BY <2>3, <2>5 DEF MappedFiles
    <3>2. ASSUME NEW t \in MappedFolders(db'), db.files[s].folder = t
          PROVE  t \in MappedFolders(db) /\ db'.maps[t].node = db.maps[t].node
      <4>1. ParentOf(db, db.maps[s].path) = {t} /\ t # Root /\ t \in FolderRow
        BY <1>0, <3>1, <3>2, SmbSyncAssumption DEF TablesGood, Placed, MappedFolders
      <4>2. t \in DOMAIN db.maps
        BY <1>0, <4>1, OneParent
      <4> QED BY <2>3, <4>1, <4>2 DEF MappedFolders
    <3> QED BY <2>3, <3>1, <3>2 DEF RowSame, MappedFiles
  <2>6. ASSUME NEW t \in MappedFolders(db), Calm(t)' PROVE InPlace(t)
    <3>1. t \in DOMAIN db.maps /\ db'.maps[t] = db.maps[t] /\ db.maps[t].node # node /\ t \in FolderRow
      BY <1>0, <2>3 DEF MappedFolders
    <3>2. Calm(t)
      BY <2>6, <3>1 DEF Calm
    <3> QED BY <3>1, <3>2 DEF Ready, PlaceInv, FoldersSettled, Entered, At
  <2>7. ASSUME r \in FileRow, Quiet(r)' PROVE Linked(r, p)'
    <3> DEFINE folder == db.files[r].folder
    <3>1. r \in DOMAIN db.files /\ ParentOf(db, p) = {folder} /\ db'.files[r].folder = folder
      BY <1>0, <2>2, <2>3, <2>7
    <3>2. CASE folder = Root
      <4>1. p[1] = Root
        BY <1>0, <3>1, <3>2, OneParent, SmbSyncAssumption
      <4> QED BY <2>0, <2>3, <3>1, <3>2, <4>1 DEF Linked, AtHome
    <3>3. CASE folder # Root
      <4>1. p[1] # Root /\ folder \in FolderRow /\ folder \in DOMAIN db.maps
            /\ db.maps[folder].path = Top(p[1])
        BY <1>0, <3>1, <3>3, OneParent
      <4>2. Calm(folder)' /\ db'.maps[folder] = db.maps[folder]
        BY <2>3, <2>7, <3>1, <3>3, <4>1 DEF Quiet
      <4>3. InPlace(folder)
        BY <2>6, <3>1, <4>1, <4>2 DEF MappedFolders
      <4>4. Top(p[1]) \in DOMAIN proj' /\ proj'[Top(p[1])] = db.maps[folder].node
        BY <2>0, <4>1, <4>3 DEF InPlace, Steady
      <4> QED BY <2>0, <2>3, <3>1, <3>3, <4>1, <4>2, <4>4 DEF Linked, AtHome
    <3> QED BY <3>2, <3>3
  <2>8. FilesPlaced'
    <3>1. ASSUME NEW s \in FileRow, Quiet(s)'
          PROVE  \/ \E q : Linked(s, q)'
                 \/ RowSame(s) /\ \A q : Quiet(s) /\ Linked(s, q) => \E x : Linked(s, x)'
      <4>1. CASE s = r
        BY <2>7, <3>1, <4>1
      <4>2. CASE s # r
        <5>1. RowSame(s)
          BY <2>5, <3>1, <4>2 DEF Quiet
        <5>2. ASSUME NEW q, Linked(s, q) PROVE Linked(s, q)'
          BY <1>0, <2>0, <3>1, <5>1, <5>2, LinkedSame
        <5> QED BY <5>1, <5>2
      <4> QED BY <4>1, <4>2
    <3> QED BY <1>2, <2>4, <3>1, LinksStep
  <2>9. ContentsRaced'
    <3>1. ASSUME r \in MappedFiles(db') PROVE DataRaced(r)'
      <4>1. r \in FileRow
        BY <3>1 DEF MappedFiles
      <4> QED BY <2>3, <4>1 DEF DataRaced
    <3>2. \A s \in MappedFiles(db') \cap DOMAIN db'.files : RowSame(s) \/ DataRaced(s)'
      BY <2>5, <3>1
    <3> QED BY <2>4, <3>2, ContentsUncompared
  <2>10. FoldersSettled'
    <3>1. ASSUME NEW t \in FolderRow, Calm(t)' PROVE InPlace(t)'
      <4>1. CASE t = r
        BY <2>0, <2>3, <4>1 DEF InPlace
      <4>2. CASE t # r
        <5>1. t \in MappedFolders(db) /\ db'.maps[t] = db.maps[t]
          BY <2>3, <3>1, <4>2 DEF Calm, MappedFolders
        <5>2. InPlace(t)
          BY <2>6, <3>1, <5>1
        <5> QED BY <2>0, <5>1, <5>2 DEF InPlace, Steady
      <4> QED BY <4>1, <4>2
    <3> QED BY <2>4, <3>1 DEF FoldersSettled, At, Early, Entered
  <2> QED BY <2>8, <2>9, <2>10, TwinsStep DEF PlaceInv
<1> QED BY <1>3, <1>5, <1>6 DEF Project

LEMMA ProjectsPlaced ==
  ASSUME Ready, NEW r
  PROVE  /\ \A node \in DirNode : r \in FolderRow /\ ProjectFolder(r, node) => PlaceInv'
         /\ r \in FileRow /\ ProjectFile(r) => PlaceInv'
<1>1. ASSUME NEW node \in DirNode, r \in FolderRow, ProjectFolder(r, node) PROVE PlaceInv'
  <2>1. /\ At("project") /\ r \in pass.todo /\ Project(r, Root, node)
        /\ UNCHANGED <<marker, raced>> /\ touched \ {node} \subseteq touched'
        /\ \A s \in DOMAIN db.maps : db.maps[s].node # node
    BY <1>1 DEF ProjectFolder
  <2>2. r \notin FileRow /\ Root \in DirOf(db, FolderOf(r))
    BY <1>1, SmbSyncAssumption DEF DirOf, FolderOf
  <2>3. \A s \in MappedFolders(db) : db.maps[s].node # node
    BY <2>1 DEF MappedFolders
  <2> QED BY <1>1, <2>1, <2>2, <2>3, ProjectPlaced
<1>2. ASSUME r \in FileRow, ProjectFile(r) PROVE PlaceInv'
  <2>1. /\ At("project") /\ r \in pass.todo /\ UNCHANGED <<marker, touched, raced>> /\ r \notin FolderRow
    BY <1>2, SmbSyncAssumption DEF ProjectFile, KeepsHistory
  <2>2. PICK dir \in DirOf(db, FolderOf(r)) :
          IF db.files[r].blob = NoData THEN Fails /\ UNCHANGED <<db, proj, events>>
          ELSE Project(r, dir, db.files[r].blob)
    BY <1>2 DEF ProjectFile
  <2>3. CASE db.files[r].blob = NoData
    BY <2>1, <2>2, <2>3, FailsAt, EndSame
  <2>4. CASE db.files[r].blob # NoData
    <3>1. r \in DOMAIN db.files
      BY <1>2, <2>1, SmbKinds, SmbSyncAssumption DEF Ready, SmbInv, PassGood, At, Rows
    <3>2. db.files[r].blob \in FileNode
      <4>1. db.files[r] \in FileRecord
        BY <3>1, SmbKinds, TablesFields DEF Ready
      <4> QED BY <2>4, <4>1 DEF FileRecord
    <3>3. ASSUME NEW s \in MappedFolders(db) PROVE db.maps[s].node # db.files[r].blob
      <4>1. db.maps[s].node \in DirNode
        BY SmbKinds, MappingFacts, SmbSyncAssumption DEF Ready, MappedFolders
      <4> QED BY <3>2, <4>1, SmbSyncAssumption
    <3>4. PICK node : node = db.files[r].blob
      OBVIOUS
    <3>5. Project(r, dir, node)
      BY <2>2, <2>4, <3>4
    <3>6. node \in IF r \in FileRow THEN FileNode ELSE DirNode
      BY <1>2, <3>2, <3>4
    <3>7. \A s \in MappedFolders(db) : db.maps[s].node # node
      BY <3>3, <3>4
    <3>8. touched \ {node} \subseteq touched' /\ UNCHANGED touched /\ UNCHANGED <<marker, raced>>
      BY <2>1
    <3> QED BY <1>2, <2>1, <3>4, <3>5, <3>6, <3>7, <3>8, ProjectPlaced
  <2> QED BY <2>3, <2>4
<1> QED BY <1>1, <1>2

-----------------------------------------------------------------------------
(* Rows that are deleted.                                                    *)

LEMMA PlaceStarts == SmbInit => PlaceInv
<1> SUFFICES ASSUME SmbInit PROVE PlaceInv
  OBVIOUS
<1>1. /\ DOMAIN db.maps = {} /\ ~marker /\ twinned = Twins(db)
      /\ pass.at = "idle"
  <2>1. PICK s \in Shared : db = [files |-> s.files, folders |-> s.folders, maps |-> Nothing]
    BY DEF SmbInit
  <2>2. DOMAIN Nothing = {} /\ db.maps = Nothing
    BY <2>1 DEF Nothing
  <2>3. pass = Rest("idle", FALSE) /\ ~marker /\ twinned = Twins(db)
    BY DEF SmbInit
  <2> QED BY <2>2, <2>3, RestIs
<1>2. FilesPlaced /\ TwinsKnown
  BY <1>1 DEF FilesPlaced, TwinsKnown
<1>3. ContentsRaced
  BY <1>1 DEF ContentsRaced, Compared, At, MappedFiles
<1>4. FoldersSettled
  BY <1>1 DEF FoldersSettled, At, Early, Entered
<1> QED BY <1>2, <1>3, <1>4 DEF PlaceInv

LEMMA SmbReady ==
  ASSUME SmbInv, ContentInv, PlaceInv, SmbNext
  PROVE  Ready
BY SmbStep, ContentStep DEF Ready, SmbNext

LEMMA PlaceStep ==
  ASSUME SmbInv, ContentInv, PlaceInv, SmbNext
  PROVE  PlaceInv'
<1>1. Ready /\ SmbAction
  BY SmbReady DEF SmbNext
<1> QED
  BY <1>1, UserPlaced, WebUploadPlaced, WebDeletesPlaced, LoseProjectionPlaced, CrashPlaced,
     BeginPassPlaced, UnmarkedPlaced, RemoveWebDeletedPlaced, ApplyEntryPlaced, RelinkPlaced,
     ApplyDuringSavePlaced, BeginApplyPlaced, ScanPlaced, ScanDuringChangePlaced, MoveFolderPlaced,
     EnterFolderPlaced, MoveFilePlaced, EnterFilePlaced, BeginFoldersPlaced, BeginMovesPlaced,
     BeginFilesPlaced, BeginDeletionsPlaced, NextStagesPlaced, DeleteUnseenFilePlaced,
     DeleteUnseenFolderPlaced, ProjectsPlaced
     DEF SmbAction

LEMMA PlaceStutters == PlaceInv /\ UNCHANGED smbVars => PlaceInv'
<1> SUFFICES ASSUME PlaceInv, UNCHANGED smbVars PROVE PlaceInv'
  OBVIOUS
<1>1. UNCHANGED <<db, proj, marker, pass, touched, raced, twinned>>
  BY DEF smbVars
<1>2. FilesPlaced'
  <2>1. \A r : Quiet(r)' <=> Quiet(r)
    BY <1>1 DEF Quiet, Calm
  <2>2. \A r, p : (Linked(r, p)' <=> Linked(r, p)) /\ (SeenAt(r, p)' <=> SeenAt(r, p))
    BY <1>1 DEF Linked, AtHome, SeenAt
  <2>3. \A r : Placing(r)' <=> Placing(r)
    BY <1>1, <2>2 DEF Placing, At
  <2> QED BY <1>1, <2>1, <2>3 DEF PlaceInv, FilesPlaced
<1>3. ContentsRaced'
  BY <1>1 DEF PlaceInv, ContentsRaced, DataRaced, SeenRaced, Live, Compared, At, EntryAt
<1>4. FoldersSettled' /\ TwinsKnown'
  BY <1>1 DEF PlaceInv, FoldersSettled, Calm, InPlace, At, TwinsKnown
<1> QED BY <1>2, <1>3, <1>4 DEF PlaceInv

LEMMA PlaceHolds == FilesSpec => []PlaceInv
<1>1. FilesInit => PlaceInv
  BY PlaceStarts DEF FilesInit
<1>2. SmbInv /\ ContentInv /\ PlaceInv /\ [FilesNext]_fileVars => PlaceInv'
  BY PlaceStep, PlaceStutters DEF FilesNext, fileVars
<1> QED BY <1>1, <1>2, SmbHolds, ContentHolds, PTL DEF FilesSpec

\* What DeletedByUser asks of a step and a row.
Excused(r) == Touched(r) \/ (r \in DOMAIN db.maps /\ db.maps[r].node \in twinned)
Remains(r) ==
  r \in DOMAIN db'.files /\ (db.files[r].blob # NoData => db'.files[r].blob # NoData)

LEMMA UnexcusedQuiet ==
  ASSUME Ready, NEW r \in DOMAIN db.files, r \in DOMAIN db.maps, ~Excused(r)
  PROVE  Quiet(r)
<1>1. r \in FileRow
  BY SmbKinds DEF Ready
<1>2. db.maps[r].node \notin touched \cup raced \cup twinned
  BY DEF Excused, Touched
<1>3. ASSUME db.files[r].folder # Root PROVE Calm(db.files[r].folder)
  <2>1. ParentOf(db, db.maps[r].path) = {db.files[r].folder} /\ TablesGood(db)
    BY DEF Ready, SmbInv, TablesGood, Placed
  <2>2. db.maps[r].path[1] = Root => db.files[r].folder = Root
    BY <2>1 DEF ParentOf
  <2>3. db.files[r].folder \in FolderRow \cap DOMAIN db.maps
    BY <1>3, <2>1, <2>2, OneParent
  <2>4. db.maps[db.files[r].folder].node \notin touched
    BY <2>3 DEF Excused, Touched
  <2> QED BY <2>3, <2>4 DEF Calm, MappedFolders
<1> QED BY <1>1, <1>2, <1>3 DEF Quiet, MappedFiles

\* A row of a folder whose directory a user changed is excused.
LEMMA FolderExcuses ==
  ASSUME NEW h \in DOMAIN db.maps \cap FolderRow, ~Calm(h), NEW r \in FilesOf(db, h)
  PROVE  Excused(r)
BY DEF Excused, Touched, FilesOf, Calm, MappedFolders

LEMMA LostRemains ==
  ASSUME SmbInv, NEW S, db' = DataLost(db, S), NEW r \in DOMAIN db.files, r \notin S
  PROVE  Remains(r)
<1>1. /\ DOMAIN db'.files = DOMAIN db.files
      /\ \A s \in DOMAIN db.files :
           db'.files[s] = IF s \in S THEN [db.files[s] EXCEPT !.blob = NoData] ELSE db.files[s]
  BY SmbKinds, DataLostGood
<1> QED BY <1>1 DEF Remains

LEMMA TornRemains ==
  ASSUME SmbInv, NEW S, TornDeletion(S), NEW r \in DOMAIN db.files, r \notin S
  PROVE  Remains(r)
BY LostRemains DEF TornDeletion

LEMMA WithoutRemains ==
  ASSUME NEW S, db'.files = Without(db.files, S), NEW r \in DOMAIN db.files, r \notin S
  PROVE  Remains(r)
BY DEF Remains, Without, Restrict

\* Steps that change no row of a file, or only mappings.
LEMMA MapsOnly ==
  ASSUME SmbInv, NEW M, db' = db \/ db' = [db EXCEPT !.maps = M]
  PROVE  db'.files = db.files
<1>1. db \in Tables
  BY SmbKinds
<1>2. CASE db' = [db EXCEPT !.maps = M]
  BY <1>1, <1>2 DEF Tables
<1> QED BY <1>2

LEMMA QuietStagesRemain ==
  ASSUME Ready, ~Resting, NEW r \in DOMAIN db.files,
         \/ SmbUser \/ LoseProjection \/ CrashDuringPass \/ BeginPass \/ Wipe \/ Unmap \/ Mark
         \/ BeginApply \/ Scan \/ ScanDuringChange \/ BeginFolders \/ BeginMoves \/ BeginFiles
         \/ BeginDeletions \/ BeginFolderDeletions \/ BeginProject \/ EndPass
         \/ \E s \in FileRow, folder \in {Root} \cup FolderRow, name \in Name, n \in FileNode :
              WebUpload(s, folder, name, n)
         \/ \E s \in FileRow : WebDeleteFile(s)
         \/ \E s \in FolderRow : WebDeleteFolder(s)
  PROVE  Remains(r)
<1>1. db' = db \/ db' = [db EXCEPT !.maps = Nothing]
  BY DEF SmbUser, LoseProjection, CrashDuringPass, BeginPass, Wipe, Unmap, Mark, BeginApply, Scan,
         ScanDuringChange, BeginFolders, BeginMoves, BeginFiles, BeginDeletions,
         BeginFolderDeletions, BeginProject, EndPass, WebUpload, WebDeleteFile, WebDeleteFolder
<1>2. db'.files = db.files
  BY <1>1, MapsOnly DEF Ready
<1> QED BY <1>2 DEF Remains

LEMMA MappingStepsRemain ==
  ASSUME Ready, NEW r \in DOMAIN db.files, NEW s,
         \/ RemoveWebDeleted(s) \/ Relink(s) \/ \E n \in FileNode : ApplyDuringSave(s, n)
         \/ s \in FileRow /\ ProjectFile(s)
         \/ s \in FolderRow /\ \E node \in DirNode : ProjectFolder(s, node)
         \/ s \in FileRow \cup FolderRow /\ ApplyEntry(s)
  PROVE  Remains(r)
<1>0. SmbInv /\ TablesGood(db)
  BY SmbKinds DEF Ready
<1>1. ASSUME NEW M, db' = db \/ db' = [db EXCEPT !.maps = M] PROVE Remains(r)
  BY <1>0, <1>1, MapsOnly DEF Remains
<1>2. CASE RemoveWebDeleted(s)
  BY <1>1, <1>2 DEF RemoveWebDeleted
<1>3. CASE Relink(s)
  BY <1>1, <1>3 DEF Relink
<1>4. CASE \E n \in FileNode : ApplyDuringSave(s, n)
  BY <1>1, <1>4 DEF ApplyDuringSave
<1>5. CASE s \in FileRow /\ ProjectFile(s)
  BY <1>1, <1>5 DEF ProjectFile, Project
<1>6. CASE s \in FolderRow /\ \E node \in DirNode : ProjectFolder(s, node)
  BY <1>1, <1>6 DEF ProjectFolder, Project
<1>7. CASE s \in FileRow \cup FolderRow /\ ApplyEntry(s)
  <2>1. CASE UNCHANGED db
    BY <1>1, <2>1
  <2>2. CASE ~UNCHANGED db
    <3>1. At("apply") /\ Applicable(s) /\ Apply(s)
      BY <1>7, <2>2 DEF ApplyEntry
    <3>2. PICK p \in Path : db' = Remapped(db, s, p)
      BY <1>0, <1>7, <2>2, <3>1, ApplyIs
    <3>3. db'.files = db.files
      BY <1>0, <3>1, <3>2, RemappedIs DEF Applicable
    <3> QED BY <3>3 DEF Remains
  <2> QED BY <2>1, <2>2
<1> QED BY <1>2, <1>3, <1>4, <1>5, <1>6, <1>7

LEMMA MovesRemain ==
  ASSUME Ready, NEW r \in DOMAIN db.files, NEW p \in Path, MoveFolder(p) \/ MoveFile(p)
  PROVE  Remains(r)
<1>0. SmbInv /\ TablesGood(db)
  BY SmbKinds DEF Ready
<1>1. CASE UNCHANGED db
  BY <1>1 DEF Remains
<1>2. ASSUME NEW s \in MovedRows(FolderRow, p), NEW n,
             db' = [Remapped(db, s, p) EXCEPT !.folders[s] = n]
      PROVE  Remains(r)
  <2> DEFINE e == Remapped(db, s, p)
  <2>1. e \in Tables /\ e.files = db.files
    BY <1>0, RemappedIs DEF MovedRows, Owners
  <2> HIDE DEF e
  <2>2. db' = [e EXCEPT !.folders[s] = n]
    BY <1>2 DEF e
  <2>3. db'.files = db.files
    BY <2>1, <2>2 DEF Tables
  <2> QED BY <2>3 DEF Remains
<1>3. ASSUME NEW s \in MovedRows(FileRow, p), s \in DOMAIN db.files, NEW parent \in ParentOf(db, p),
             db' = Renaming(db, s, p, parent)
      PROVE  Remains(r)
  <2>1. parent \in {Root} \cup FolderRow /\ s \in DOMAIN db.maps \cap DOMAIN db.files
    BY <1>0, <1>3, OneParent DEF MovedRows, Owners
  <2>2. /\ DOMAIN db'.files = DOMAIN db.files /\ db'.files[s].blob = db.files[s].blob
        /\ \A t \in DOMAIN db.files \ {s} : db'.files[t] = db.files[t]
    BY <1>0, <1>3, <2>1, RenamingIs
  <2> QED BY <2>2 DEF Remains
<1> QED BY <1>1, <1>2, <1>3 DEF MoveFolder, MoveFile

LEMMA EnterFolderExcused ==
  ASSUME Ready, NEW p \in Path, EnterFolder(p), NEW r \in DOMAIN db.files, ~Remains(r)
  PROVE  Excused(r)
<1> DEFINE here == MappedAt(db, p)
           same == {h \in here \cap FolderRow : db.maps[h].node = pass.scan[p]}
<1>0. /\ SmbInv /\ TablesGood(db) /\ At("folders") /\ p \in Dirs(pass.scan) /\ p[2] \in Name
      /\ MappedFolders(db) \subseteq DOMAIN db.folders
  BY ScannedDir DEF EnterFolder, Ready, SmbInv, PassGood, At, Synchronizing
<1>1. ASSUME NEW h \in same, NEW n \in FolderName(db, p[2], {h}), db' = [db EXCEPT !.folders[h] = n]
      PROVE  Remains(r)
  <2>1. h \in DOMAIN db.folders
    BY <1>0 DEF MappedAt, MappedFolders
  <2>2. n \in Name /\ \A s \in DOMAIN db.folders \ {h} : db.folders[s] # n
    BY <1>0, FolderNameFacts
  <2>3. db'.files = db.files
    BY <1>0, <1>1, <2>1, <2>2, FolderRenamed
  <2> QED BY <2>3 DEF Remains
<1>2. ASSUME same = {}, CreateFolder(Cleared(db, here), p) PROVE r \in DataOf(db, here)
  <2>1. PICK d : d = Cleared(db, here)
    OBVIOUS
  <2>2. /\ DOMAIN d.files = DOMAIN db.files \ DataOf(db, here)
        /\ \A s \in DOMAIN d.files : d.files[s] = db.files[s] /\ TablesGood(d)
    BY <1>0, <2>1, ClearedIs, ClearedGood
  <2>3. d \in Tables
    BY <1>0, <2>1, ClearedGood DEF TablesGood
  <2>4. db'.files = d.files
    <3>1. CASE db' = d
      BY <3>1
    <3>2. ASSUME NEW D, NEW M, db' = [d EXCEPT !.folders = D, !.maps = M] PROVE db'.files = d.files
      BY <2>3, <3>2 DEF Tables
    <3>3. CreateFolder(d, p)
      BY <1>2, <2>1
    <3> QED BY <3>1, <3>2, <3>3 DEF CreateFolder
  <2> QED BY <2>2, <2>4 DEF Remains
<1>3. ASSUME same = {}, r \in DataOf(db, here) PROVE Excused(r)
  <2>1. PICK h \in here : r \in IF h \in FolderRow THEN FilesOf(db, h) ELSE {h} \cap DOMAIN db.files
    BY <1>3 DEF DataOf
  <2>2. h \in DOMAIN db.maps /\ db.maps[h].path = p
    BY DEF MappedAt
  <2>3. CASE h \in FolderRow
    <3>1. ~Calm(h)
      <4>1. Calm(h) => Sees(h)
        BY <1>0, <2>3 DEF Ready, ContentInv, ScanKept, Found, At, Comparing
      <4> QED BY <1>3, <2>2, <2>3, <4>1 DEF Sees
    <3> QED BY <2>1, <2>2, <2>3, <3>1, FolderExcuses
  <2>4. CASE h \notin FolderRow
    <3>1. r = h /\ r \in FileRow
      BY <1>0, <2>1, <2>2, <2>4, SmbKinds
    <3>2. p \in DOMAIN pass.scan /\ pass.scan[p] \in DirNode
      BY <1>0 DEF Dirs
    <3>3. db.maps[r].node \in FileNode
      BY <1>0, <2>2, <3>1, MappingFacts
    <3>4. pass.scan[p] # db.maps[r].node
      BY <3>2, <3>3, SmbSyncAssumption
    <3> QED BY <2>2, <3>1, <3>2, <3>4 DEF Excused, Touched
  <2> QED BY <2>3, <2>4
<1>4. CASE same = {} /\ TornDeletion(DataOf(db, here))
  <2>1. r \in DataOf(db, here)
    BY <1>0, <1>4, TornRemains
  <2> QED BY <1>3, <1>4, <2>1
<1> QED BY <1>1, <1>2, <1>3, <1>4 DEF EnterFolder

LEMMA EnterFileExcused ==
  ASSUME Ready, NEW p \in Path, EnterFile(p), NEW r \in DOMAIN db.files, ~Remains(r)
  PROVE  Excused(r)
<1> DEFINE files == MappedAt(db, p) \cap FileRow
           folders == MappedAt(db, p) \cap FolderRow
<1>0. /\ SmbInv /\ TablesGood(db) /\ At("files") /\ p \in Leaves(pass.scan) /\ r \in FileRow
      /\ MappedFolders(db) \subseteq DOMAIN db.folders
  BY SmbKinds DEF EnterFile, Ready, SmbInv, PassGood, At, Synchronizing
<1>1. ASSUME UNCHANGED db PROVE Remains(r)
  BY <1>1 DEF Remains
<1>2. ASSUME NEW s \in files, s \in DOMAIN db.files, NEW parent \in ParentOrRoot(db, p),
             db' = Renaming(db, s, p, parent)
      PROVE  Remains(r)
  <2>1. parent \in {Root} \cup FolderRow /\ s \in DOMAIN db.maps \cap DOMAIN db.files
    BY <1>0, <1>2, MappedHere
  <2>2. /\ DOMAIN db'.files = DOMAIN db.files /\ db'.files[s].blob = db.files[s].blob
        /\ \A t \in DOMAIN db.files \ {s} : db'.files[t] = db.files[t]
    BY <1>0, <1>2, <2>1, RenamingIs
  <2> QED BY <2>2 DEF Remains
<1>3. ASSUME NEW s \in files, s \in DOMAIN db.files, FileAt(p), NEW parent \in ParentOrRoot(db, p),
             db' = [Renaming(db, s, p, parent) EXCEPT
                      !.files[s].blob = proj[p], !.maps[s].node = pass.scan[p]]
      PROVE  Remains(r)
  <2> DEFINE e == Renaming(db, s, p, parent)
             blob == proj[p]
             node == pass.scan[p]
  <2>1. /\ parent \in {Root} \cup FolderRow /\ s \in DOMAIN db.maps \cap DOMAIN db.files
        /\ ParentOf(db, p) = {parent} /\ MappedAt(db, p) = {s}
    BY <1>0, <1>3, MappedHere
  <2>2. TablesGood(e)
    BY <1>0, <2>1, RenamingGood
  <2>3. /\ DOMAIN e.files = DOMAIN db.files /\ DOMAIN e.maps = DOMAIN db.maps
        /\ \A t \in DOMAIN db.files \ {s} : e.files[t] = db.files[t]
    BY <1>0, <2>1, RenamingIs
  <2>4. Replaced(e, db', s, blob, node) /\ blob \in FileNode /\ node \in FileNode
    BY <1>0, <1>3, ScannedLeaf DEF Replaced, FileAt
  <2> HIDE DEF e, blob, node
  <2>5. /\ DOMAIN db'.files = DOMAIN e.files /\ db'.files[s].blob = blob
        /\ \A t \in DOMAIN e.files \ {s} : db'.files[t] = e.files[t]
    BY <2>1, <2>2, <2>3, <2>4, ReplacedGood
  <2> QED BY <2>3, <2>4, <2>5, SmbSyncAssumption DEF Remains
<1>4. ASSUME NEW s, db' = [db EXCEPT !.maps[s].node = db.files[s].blob] PROVE Remains(r)
  <2> DEFINE M == [db.maps EXCEPT ![s].node = db.files[s].blob]
  <2>1. db' = [db EXCEPT !.maps = M]
    BY <1>4
  <2> HIDE DEF M
  <2> QED BY <1>0, <2>1, MapsOnly DEF Remains
<1>5. ASSUME NEW s \in FileRow \ (DOMAIN db.files \cup DOMAIN db.maps), NEW row, NEW M,
             db' = [db EXCEPT !.files = With(@, s, row), !.maps = M]
      PROVE  Remains(r)
  <2> DEFINE F == With(db.files, s, row)
  <2>1. r \in DOMAIN F /\ F[r] = db.files[r]
    BY <1>5 DEF With
  <2>2. db' = [db EXCEPT !.files = F, !.maps = M]
    BY <1>5
  <2> HIDE DEF F
  <2>3. db'.files = F
    BY <1>0, <2>2 DEF TablesGood, Tables
  <2> QED BY <2>1, <2>3 DEF Remains
<1>6. ASSUME NEW h \in folders, ~UNCHANGED db,
             db' = FolderDeleted(db, h) \/ TornDeletion(FilesOf(db, h))
      PROVE  Excused(r)
  <2>1. h \in DOMAIN db.maps \cap FolderRow /\ db.maps[h].path = p
    BY DEF MappedAt
  <2>2. ~Calm(h)
    <3>1. db.maps[h].node \in DirNode
      BY <1>0, <2>1, MappingFacts, SmbSyncAssumption
    <3>2. pass.scan[p] \in FileNode /\ FileNode \cap DirNode = {}
      BY <1>0, SmbSyncAssumption DEF Leaves
    <3>3. Calm(h) => Sees(h)
      BY <1>0, <2>1 DEF Ready, ContentInv, ScanKept, Found, At, Comparing
    <3> QED BY <2>1, <3>1, <3>2, <3>3 DEF Sees
  <2>3. r \in FilesOf(db, h)
    <3>1. CASE db' = FolderDeleted(db, h)
      <4>1. db'.files = Without(db.files, FilesOf(db, h))
        BY <1>0, <2>1, <3>1, FolderRowsGone
      <4> QED BY <4>1, WithoutRemains
    <3>2. CASE TornDeletion(FilesOf(db, h))
      BY <1>0, <3>2, TornRemains
    <3> QED BY <1>6, <3>1, <3>2
  <2> QED BY <2>1, <2>2, <2>3, FolderExcuses
<1>7. ASSUME NEW s \in files, s \in DOMAIN db.files, Replace(s, p) PROVE Remains(r)
  <2>1. CASE UNCHANGED db
    BY <1>1, <2>1
  <2>2. CASE db' = [db EXCEPT !.maps[s].node = db.files[s].blob]
    BY <1>4, <2>2
  <2>3. CASE FileAt(p) /\ \E parent \in ParentOrRoot(db, p) :
               db' = [Renaming(db, s, p, parent) EXCEPT
                        !.files[s].blob = proj[p], !.maps[s].node = pass.scan[p]]
    <3>1. PICK parent \in ParentOrRoot(db, p) :
            db' = [Renaming(db, s, p, parent) EXCEPT
                     !.files[s].blob = proj[p], !.maps[s].node = pass.scan[p]]
      BY <2>3
    <3> QED BY <1>3, <1>7, <2>3, <3>1
  <2> QED BY <1>7, <2>1, <2>2, <2>3 DEF Replace
<1>8. CASE Import(db, p)
  <2>1. CASE db' = db
    BY <1>1, <2>1
  <2>2. CASE db' # db
    <3>1. PICK s \in FileRow \ (DOMAIN db.files \cup DOMAIN db.maps), parent \in ParentOf(db, p) :
            db' = [db EXCEPT
                     !.files = With(@, s, [folder |-> parent, name |-> p[2], blob |-> proj[p]]),
                     !.maps = With(@, s, [path |-> p, node |-> pass.scan[p]])]
      BY <1>8, <2>2 DEF Import
    <3> DEFINE row == [folder |-> parent, name |-> p[2], blob |-> proj[p]]
               M == With(db.maps, s, [path |-> p, node |-> pass.scan[p]])
    <3>2. db' = [db EXCEPT !.files = With(@, s, row), !.maps = M]
      BY <3>1
    <3> HIDE DEF row, M
    <3> QED BY <1>5, <3>1, <3>2
  <2> QED BY <2>1, <2>2
<1>9. ASSUME NEW s \in files, s \in DOMAIN db.files, NEW parent \in ParentOrRoot(db, p),
             db' = Renaming(db, s, p, parent)
      PROVE  FALSE
  BY <1>2, <1>9
<1>10. ASSUME NEW s \in files,
              IF s \notin DOMAIN db.files THEN UNCHANGED db
              ELSE \/ Replace(s, p)
                   \/ \E parent \in ParentOrRoot(db, p) : db' = Renaming(db, s, p, parent)
       PROVE  FALSE
  BY <1>1, <1>7, <1>9, <1>10
<1>11. CASE UNCHANGED db \/ db' = db
  BY <1>1, <1>11
<1>12. \/ \E s \in files : IF s \notin DOMAIN db.files THEN UNCHANGED db
                           ELSE \/ Replace(s, p)
                                \/ \E parent \in ParentOrRoot(db, p) : db' = Renaming(db, s, p, parent)
       \/ Import(db, p)
       \/ \E h \in folders : db' = FolderDeleted(db, h) \/ TornDeletion(FilesOf(db, h))
  BY DEF EnterFile
<1> HIDE DEF files, folders
<1> QED BY <1>6, <1>8, <1>10, <1>11, <1>12

LEMMA DeleteUnseenExcused ==
  ASSUME Ready, NEW s,
         \/ s \in FileRow /\ DeleteUnseenFile(s)
         \/ s \in FolderRow /\ DeleteUnseenFolder(s),
         NEW r \in DOMAIN db.files, ~Remains(r)
  PROVE  Excused(r)
<1>0. SmbInv /\ TablesGood(db)
  BY SmbKinds DEF Ready
<1>1. CASE s \in FileRow /\ DeleteUnseenFile(s)
  <2>1. /\ At("deletefiles") /\ s \in pass.todo /\ marker /\ s \in DOMAIN db.maps
        /\ \/ db' = FileDeleted(db, s)
           \/ db' = DataLost(db, {s})
           \/ db' = [db EXCEPT !.files = Without(@, {s})]
    BY <1>1 DEF DeleteUnseenFile, Ready, ContentInv, StageGood, At, MappedFiles, Comparing
  <2>2. r = s
    <3>1. CASE db' = FileDeleted(db, s)
      <4>1. db'.files = Without(db.files, {s})
        BY <1>0, <1>1, <3>1, FileDeletedGood
      <4> QED BY <4>1, WithoutRemains
    <3>2. CASE db' = DataLost(db, {s})
      <4>1. PICK S : S = {s}
        OBVIOUS
      <4>2. db' = DataLost(db, S)
        BY <3>2, <4>1
      <4>3. r \in S
        BY <1>0, <4>2, LostRemains
      <4> QED BY <4>1, <4>3
    <3>3. CASE db' = [db EXCEPT !.files = Without(@, {s})]
      <4> DEFINE F == Without(db.files, {s})
      <4>1. db' = [db EXCEPT !.files = F] /\ F = Without(db.files, {s})
        BY <3>3
      <4> HIDE DEF F
      <4>2. db'.files = F
        BY <1>0, <4>1 DEF TablesGood, Tables
      <4> QED BY <4>1, <4>2, WithoutRemains
    <3> QED BY <2>1, <3>1, <3>2, <3>3
  <2>3. ~Quiet(r)
    BY <1>1, <2>1, <2>2 DEF Ready, PlaceInv, FilesPlaced, Placing
  <2> QED BY <2>1, <2>2, <2>3, UnexcusedQuiet
<1>2. CASE s \in FolderRow /\ DeleteUnseenFolder(s)
  <2>1. /\ At("deletefolders") /\ s \in pass.todo /\ s \in DOMAIN db.maps \cap FolderRow
        /\ db' = FolderDeleted(db, s) \/ TornDeletion(FilesOf(db, s))
    BY <1>2 DEF DeleteUnseenFolder, Ready, SmbInv, PassGood, At, MappedFolders
  <2>2. ~Calm(s)
    BY <2>1 DEF Ready, ContentInv, ScanKept, Found
  <2>3. r \in FilesOf(db, s)
    <3>1. CASE db' = FolderDeleted(db, s)
      <4>1. db'.files = Without(db.files, FilesOf(db, s))
        BY <1>0, <2>1, <3>1, FolderRowsGone
      <4> QED BY <4>1, WithoutRemains
    <3>2. CASE TornDeletion(FilesOf(db, s))
      BY <1>0, <3>2, TornRemains
    <3> QED BY <2>1, <3>1, <3>2
  <2> QED BY <2>1, <2>2, <2>3, FolderExcuses
<1> QED BY <1>1, <1>2

LEMMA DeletionStep ==
  ASSUME Ready, SmbAction, ~Resting, NEW r \in DOMAIN db.files, ~Remains(r)
  PROVE  Excused(r)
BY QuietStagesRemain, MappingStepsRemain, MovesRemain, EnterFolderExcused, EnterFileExcused,
   DeleteUnseenExcused DEF SmbAction

\* docs/SMB.md:73: a pass deletes the row of a file, or its data, only after an SMB user
\* changed its entry, or if another row has had the same inode (smb-sync-service.js:1077-1090).
THEOREM DeletionsAreUsers == FilesSpec => DeletedByUser
<1>1. ASSUME SmbInv, ContentInv, PlaceInv, [FilesNext]_fileVars
      PROVE  [~Resting =>
                \A r \in DOMAIN db.files :
                  (r \notin DOMAIN db'.files
                     \/ (db.files[r].blob # NoData /\ db'.files[r].blob = NoData))
                    => Touched(r) \/ (r \in DOMAIN db.maps /\ db.maps[r].node \in twinned)]_smbVars
  <2>1. CASE SmbNext
    <3>1. Ready /\ SmbAction
      BY <1>1, <2>1, SmbReady DEF SmbNext
    <3> QED BY <3>1, DeletionStep DEF Excused, Remains
  <2>2. CASE UNCHANGED smbVars
    BY <2>2
  <2> QED BY <1>1, <2>1, <2>2 DEF FilesNext, fileVars
<1> QED BY <1>1, SmbHolds, ContentHolds, PlaceHolds, PTL DEF FilesSpec, DeletedByUser

-----------------------------------------------------------------------------
(* What a pass that nothing disturbs leaves behind.                          *)

\* An entry that the pass has yet to bring into the tables.
Unmet(p) ==
  IF p \in Dirs(pass.scan) THEN At("movefolders") \/ (At("folders") /\ p \in pass.todo)
  ELSE pass.at \in {"movefolders", "folders", "movefiles"} \/ (At("files") /\ p \in pass.todo)

\* The projection is what the scan saw, and what was met in it has a row; what was met and
\* refused is gone, a directory with all that lies below.
EntriesMet ==
  \A p \in DOMAIN proj :
    /\ p \in DOMAIN pass.scan
    /\ p \in Dirs(pass.scan) \/ Unmet(p) => proj[p] = pass.scan[p]
    /\ p \in Leaves(pass.scan) => proj[p] \in FileNode
    /\ ~Unmet(p) => \E r \in pass.seen : r \in DOMAIN db.maps /\ db.maps[r].path = p
ScanMet ==
  \A p \in DOMAIN pass.scan \ DOMAIN proj :
    IF p \in Dirs(pass.scan) THEN ~Unmet(p) /\ MappedAt(db, p) \cap FolderRow = {}
    ELSE Unmet(p) => p[1] # Root /\ Top(p[1]) \notin DOMAIN proj

\* A row that was seen is where its mapping says.
SeenMet ==
  \A r \in pass.seen :
    r \in DOMAIN db.maps
      /\ \E p \in DOMAIN proj : ~Unmet(p) /\ db.maps[r].path = p /\ proj[p] = db.maps[r].node

\* What was not seen is to be deleted.
UnseenLeft ==
  /\ pass.at \in {"deletefiles", "deletefolders"} => pass.todo \cap pass.seen = {}
  /\ At("deletefiles") => MappedFiles(db) \subseteq pass.seen \cup pass.todo
  /\ At("deletefolders") => /\ MappedFiles(db) \subseteq pass.seen
                            /\ MappedFolders(db) \subseteq pass.seen \cup pass.todo

Projected ==
  /\ \A r \in DOMAIN db.maps : InPlace(r)
  /\ DOMAIN proj \subseteq {db.maps[r].path : r \in DOMAIN db.maps}
  /\ Orphans = {}
  /\ \A r \in Rows(db) \ DOMAIN db.maps : At("project") /\ r \in pass.todo

Meeting == EntriesMet /\ ScanMet /\ SeenMet
AgreeInv ==
  /\ pass.at \in Synchronizing => Orphans = {}
  /\ pass.calm /\ pass.at \in Comparing => Meeting /\ UnseenLeft
  /\ pass.calm /\ pass.at \in {"project", "done"} => Projected

\* A step from a state that the invariants hold in.
Agreeing == SmbInv /\ SmbInv' /\ AgreeInv

-----------------------------------------------------------------------------
\* Rows that are gone but mapped: of folders there are none.
LEMMA OrphansGone ==
  ASSUME SmbInv', pass'.at \in Synchronizing, MappedFiles(db') \subseteq DOMAIN db'.files
  PROVE  Orphans' = {}
<1>1. TablesGood(db') /\ MappedFolders(db') \subseteq DOMAIN db'.folders
  BY DEF SmbInv, PassGood
<1>2. DOMAIN db'.maps \subseteq FileRow \cup FolderRow
  BY <1>1, TablesFields DEF TablesGood
<1> QED BY <1>1, <1>2 DEF Orphans, Rows, MappedFiles, MappedFolders

LEMMA NoOrphans ==
  ASSUME SmbInv, Orphans = {}
  PROVE  MappedFiles(db) \subseteq DOMAIN db.files
<1>1. FileRow \cap FolderRow = {} /\ DOMAIN db.folders \subseteq FolderRow
  BY SmbKinds, SmbSyncAssumption
<1> QED BY <1>1 DEF Orphans, Rows, MappedFiles

\* A pass that was disturbed, or one that compares nothing.
LEMMA AgreeQuiet ==
  ASSUME SmbInv', pass'.at \notin Comparing \cup {"project", "done"}
  PROVE  AgreeInv'
<1>1. pass'.at \in Synchronizing => Orphans' = {}
  BY DEF SmbInv, PassGood, At, Comparing, Synchronizing
<1> QED BY <1>1 DEF AgreeInv

LEMMA AgreeDisturbed ==
  ASSUME Agreeing, ~pass'.calm, pass'.at \in Synchronizing => pass.at \in Synchronizing /\ UNCHANGED db
  PROVE  AgreeInv'
<1>1. pass'.at \in Synchronizing => Orphans' = {}
  BY DEF Agreeing, AgreeInv, Orphans, Rows
<1> QED BY <1>1 DEF AgreeInv

LEMMA AgreeCompared ==
  ASSUME SmbInv', pass'.at \in Comparing, MappedFiles(db') \subseteq DOMAIN db'.files,
         pass'.calm => Meeting' /\ UnseenLeft'
  PROVE  AgreeInv'
<1>1. pass'.at \in Synchronizing \ {"project", "done"}
  BY DEF Comparing, Synchronizing
<1> QED BY <1>1, OrphansGone DEF AgreeInv

LEMMA AgreeEnds ==
  ASSUME Fails \/ EndsWithin
  PROVE  AgreeInv'
<1>1. pass'.at = "failed"
  BY FailsAt
<1> QED BY <1>1 DEF AgreeInv, Synchronizing, Comparing

LEMMA FolderDeletedMaps ==
  ASSUME NEW d, TablesGood(d), NEW h \in DOMAIN d.maps \cap FolderRow, NEW e, e = FolderDeleted(d, h)
  PROVE  /\ DOMAIN e.maps \subseteq DOMAIN d.maps
         /\ \A s \in DOMAIN d.maps :
              s \in DOMAIN e.maps <=> d.maps[s].path # d.maps[h].path /\ ~InDir(d.maps[s].path, d.maps[h].path)
         /\ \A s \in DOMAIN e.maps : e.maps[s] = d.maps[s]
<1>1. PICK S : S = {s \in DOMAIN d.maps : LET p == d.maps[s].path
                                          IN  p = d.maps[h].path \/ InDir(p, d.maps[h].path)}
  OBVIOUS
<1>2. e.maps = Without(d.maps, S)
  BY <1>1 DEF FolderDeleted
<1>3. DOMAIN e.maps = DOMAIN d.maps \ S /\ \A s \in DOMAIN e.maps : e.maps[s] = d.maps[s]
  BY <1>2 DEF Without, Restrict
<1>4. \A s \in DOMAIN d.maps :
        s \in S <=> d.maps[s].path = d.maps[h].path \/ InDir(d.maps[s].path, d.maps[h].path)
  BY <1>1
<1> QED BY <1>3, <1>4

\* What is deleted with a folder: its row, its mapping, and those of its files.
LEMMA FolderDeletedFiles ==
  ASSUME NEW d, TablesGood(d), NEW h \in DOMAIN d.maps \cap FolderRow, NEW e, e = FolderDeleted(d, h),
         MappedFiles(d) \subseteq DOMAIN d.files
  PROVE  MappedFiles(e) \subseteq DOMAIN e.files
<1>1. /\ e.files = Without(d.files, FilesOf(d, h))
      /\ \A s \in DOMAIN e.maps : s \in DOMAIN d.maps /\ ~InDir(d.maps[s].path, d.maps[h].path)
  <2>1. e.files = Without(d.files, FilesOf(d, h))
    BY DEF FolderDeleted
  <2>2. /\ DOMAIN e.maps \subseteq DOMAIN d.maps
        /\ \A s \in DOMAIN d.maps :
             s \in DOMAIN e.maps <=> d.maps[s].path # d.maps[h].path /\ ~InDir(d.maps[s].path, d.maps[h].path)
    BY FolderDeletedMaps, Zenon
  <2> QED BY <2>1, <2>2
<1>2. ASSUME NEW s \in MappedFiles(e) PROVE s \in DOMAIN e.files
  <2>1. s \in DOMAIN d.maps /\ s \in DOMAIN d.files /\ ~InDir(d.maps[s].path, d.maps[h].path)
    BY <1>1 DEF MappedFiles
  <2>2. d.files[s].folder # h
    <3> SUFFICES ASSUME d.files[s].folder = h PROVE FALSE
      OBVIOUS
    <3>1. h \in ParentOf(d, d.maps[s].path)
      BY <2>1 DEF TablesGood, Placed
    <3>2. h # Root
      BY SmbSyncAssumption
    <3>3. d.maps[s].path[1] # Root /\ d.maps[h].path = Top(d.maps[s].path[1])
      BY <3>1, <3>2, OneParent
    <3> QED BY <2>1, <3>3 DEF InDir, Top
  <2> QED BY <1>1, <2>1, <2>2 DEF Without, Restrict, FilesOf
<1> QED BY <1>2

LEMMA ClearedFiles ==
  ASSUME SmbInv, Orphans = {}, NEW p, NEW d, d = Cleared(db, MappedAt(db, p))
  PROVE  MappedFiles(d) \subseteq DOMAIN d.files
<1> DEFINE here == MappedAt(db, p)
<1>0. TablesGood(db) /\ MappedFiles(db) \subseteq DOMAIN db.files
  BY SmbKinds, NoOrphans
<1>1. CASE here = {}
  BY <1>0, <1>1 DEF Cleared
<1>2. CASE here # {}
  <2> DEFINE r == CHOOSE x \in here : TRUE
  <2>1. r \in here
    BY <1>2
  <2>2. d = IF r \in FolderRow THEN FolderDeleted(db, r) ELSE FileDeleted(db, r)
    BY <1>2 DEF Cleared
  <2> HIDE DEF r
  <2>3. r \in DOMAIN db.maps /\ (r \notin FolderRow => r \in FileRow)
    BY <1>0, <2>1, SmbKinds DEF MappedAt
  <2>4. CASE r \in FolderRow
    BY <1>0, <2>2, <2>3, <2>4, FolderDeletedFiles
  <2>5. CASE r \notin FolderRow
    <3>1. d.files = Without(db.files, {r}) /\ d.maps = Without(db.maps, {r})
      BY <1>0, <2>2, <2>3, <2>5, FileDeletedGood
    <3> QED BY <1>0, <3>1 DEF MappedFiles, Without, Restrict
  <2> QED BY <2>4, <2>5
<1> QED BY <1>1, <1>2

-----------------------------------------------------------------------------
\* The entries P are entered, and the rows R recorded for them.
LEMMA Meets ==
  ASSUME Agreeing, Meeting, pass'.scan = pass.scan,
         NEW P, NEW R, pass'.seen = pass.seen \cup R, \A q \in P : Unmet(q),
         \A q \in DOMAIN pass.scan : Unmet(q)' <=> Unmet(q) /\ q \notin P,
         DOMAIN proj' \subseteq DOMAIN proj,
         \A q \in DOMAIN proj' \ P : proj'[q] = proj[q],
         \A q \in DOMAIN proj \ DOMAIN proj' :
           q \in P \/ (q \in Leaves(pass.scan) /\ Unmet(q) /\ q[1] # Root /\ Top(q[1]) \notin DOMAIN proj'),
         \A s \in pass.seen : s \in DOMAIN db'.maps /\ db'.maps[s] = db.maps[s],
         \A s \in R : s \in DOMAIN db'.maps /\ db'.maps[s].path \in P /\ InPlace(s)',
         \A q \in P \cap DOMAIN proj' :
           /\ q \in Dirs(pass.scan) => proj'[q] = pass.scan[q]
           /\ q \in Leaves(pass.scan) => proj'[q] \in FileNode
           /\ \E s \in R : db'.maps[s].path = q,
         \A q \in Dirs(pass.scan) \ DOMAIN proj' : MappedAt(db', q) \cap FolderRow = {}
  PROVE  Meeting'
<1>0. \A q \in DOMAIN pass.scan : q \in Leaves(pass.scan) <=> q \notin Dirs(pass.scan)
  BY SmbKinds, SmbSyncAssumption DEF Agreeing, IsTree, Leaves, Dirs
<1>1. Dirs(pass'.scan) = Dirs(pass.scan) /\ Leaves(pass'.scan) = Leaves(pass.scan)
  OBVIOUS
<1>3. EntriesMet'
  <2> SUFFICES ASSUME NEW q \in DOMAIN proj'
               PROVE  /\ q \in DOMAIN pass.scan
                      /\ q \in Dirs(pass.scan) \/ Unmet(q)' => proj'[q] = pass.scan[q]
                      /\ q \in Leaves(pass.scan) => proj'[q] \in FileNode
                      /\ ~Unmet(q)' => \E r \in pass'.seen : r \in DOMAIN db'.maps /\ db'.maps[r].path = q
    BY <1>1 DEF EntriesMet
  <2>1. /\ q \in DOMAIN pass.scan
        /\ q \in Dirs(pass.scan) \/ Unmet(q) => proj[q] = pass.scan[q]
        /\ q \in Leaves(pass.scan) => proj[q] \in FileNode
        /\ ~Unmet(q) => \E r \in pass.seen : r \in DOMAIN db.maps /\ db.maps[r].path = q
    BY DEF Meeting, EntriesMet
  <2>2. CASE q \in P
    BY <2>1, <2>2
  <2>3. CASE q \notin P
    <3>1. proj'[q] = proj[q] /\ (Unmet(q)' <=> Unmet(q))
      BY <2>1, <2>3
    <3>2. ASSUME ~Unmet(q) PROVE \E r \in pass'.seen : r \in DOMAIN db'.maps /\ db'.maps[r].path = q
      BY <2>1, <3>2
    <3> QED BY <2>1, <3>1, <3>2
  <2> QED BY <2>2, <2>3
<1>4. ScanMet'
  <2> SUFFICES ASSUME NEW q \in DOMAIN pass.scan \ DOMAIN proj'
               PROVE  IF q \in Dirs(pass.scan) THEN ~Unmet(q)' /\ MappedAt(db', q) \cap FolderRow = {}
                      ELSE Unmet(q)' => q[1] # Root /\ Top(q[1]) \notin DOMAIN proj'
    BY <1>1 DEF ScanMet
  <2>1. CASE q \in Dirs(pass.scan)
    <3>1. ~Unmet(q)'
      <4>1. CASE q \in DOMAIN proj
        BY <2>1, <4>1, <1>0
      <4>2. CASE q \notin DOMAIN proj
        BY <2>1, <4>2 DEF Meeting, ScanMet
      <4> QED BY <4>1, <4>2
    <3> QED BY <2>1, <3>1
  <2>2. CASE q \notin Dirs(pass.scan)
    <3> SUFFICES ASSUME Unmet(q)' PROVE q[1] # Root /\ Top(q[1]) \notin DOMAIN proj'
      BY <2>2
    <3>1. Unmet(q) /\ q \notin P
      OBVIOUS
    <3>2. CASE q \in DOMAIN proj
      BY <3>1, <3>2
    <3>3. CASE q \notin DOMAIN proj
      BY <2>2, <3>1, <3>3 DEF Meeting, ScanMet
    <3> QED BY <3>2, <3>3
  <2> QED BY <2>1, <2>2
<1>5. SeenMet'
  <2> SUFFICES ASSUME NEW s \in pass'.seen
               PROVE  s \in DOMAIN db'.maps
                        /\ \E q \in DOMAIN proj' : /\ ~Unmet(q)' /\ db'.maps[s].path = q
                                                   /\ proj'[q] = db'.maps[s].node
    BY DEF SeenMet
  <2>1. CASE s \in pass.seen
    <3>1. PICK q \in DOMAIN proj : /\ ~Unmet(q) /\ db.maps[s].path = q /\ proj[q] = db.maps[s].node
                                   /\ s \in DOMAIN db.maps
      BY <2>1 DEF Meeting, SeenMet
    <3>2. q \in DOMAIN proj' /\ q \notin P
      BY <3>1
    <3>3. q \in DOMAIN pass.scan
      BY DEF Meeting, EntriesMet
    <3>4. db'.maps[s] = db.maps[s] /\ s \in DOMAIN db'.maps /\ proj'[q] = proj[q] /\ ~Unmet(q)'
      BY <2>1, <3>1, <3>2, <3>3
    <3> QED BY <3>1, <3>2, <3>4
  <2>2. CASE s \in R
    <3>1. PICK q : q = db'.maps[s].path
      OBVIOUS
    <3>2. q \in P /\ q \in DOMAIN proj' /\ q \in DOMAIN pass.scan /\ proj'[q] = db'.maps[s].node
      BY <2>2, <3>1 DEF InPlace, Meeting, EntriesMet
    <3>3. ~Unmet(q)'
      BY <3>2
    <3> QED BY <2>2, <3>1, <3>2, <3>3
  <2> QED BY <2>1, <2>2
<1> QED BY <1>3, <1>4, <1>5 DEF Meeting

\* Nothing is entered.
LEMMA MeetsStill ==
  ASSUME Agreeing, Meeting, pass'.scan = pass.scan, pass'.seen = pass.seen, UNCHANGED proj,
         \A q \in DOMAIN pass.scan : Unmet(q)' <=> Unmet(q),
         \A s \in pass.seen : s \in DOMAIN db'.maps /\ db'.maps[s] = db.maps[s],
         \A q \in Dirs(pass.scan) \ DOMAIN proj : MappedAt(db', q) \cap FolderRow = {}
  PROVE  Meeting'
<1>1. PICK P : P = {}
  OBVIOUS
<1>2. \A q \in P : FALSE
  BY <1>1
<1>3. pass'.seen = pass.seen \cup P
  BY <1>1
<1> QED BY <1>2, <1>3, Meets

LEMMA SeenFacts ==
  ASSUME Meeting, NEW r \in pass.seen
  PROVE  r \in DOMAIN db.maps /\ InPlace(r) /\ ~Unmet(db.maps[r].path)
BY DEF Meeting, SeenMet, InPlace

\* A directory that was entered has a row.
LEMMA MetDir ==
  ASSUME SmbInv, Meeting, NEW p \in DOMAIN proj, proj[p] \in DirNode
  PROVE  /\ p \in Dirs(pass.scan)
         /\ ~Unmet(p) => \E s \in pass.seen : s \in DOMAIN db.maps \cap FolderRow /\ db.maps[s].path = p
<1>1. p \in Dirs(pass.scan)
  BY SmbKinds, SmbSyncAssumption DEF Meeting, EntriesMet, IsTree, Dirs, Leaves
<1>2. ASSUME ~Unmet(p)
      PROVE  \E s \in pass.seen : s \in DOMAIN db.maps \cap FolderRow /\ db.maps[s].path = p
  <2>1. PICK s \in pass.seen : s \in DOMAIN db.maps /\ db.maps[s].path = p
    BY <1>2 DEF Meeting, EntriesMet
  <2>2. db.maps[s].node \in DirNode
    BY <2>1, SeenFacts DEF InPlace
  <2>3. s \in FolderRow
    BY <2>1, <2>2, SmbKinds, MappingFacts, SmbSyncAssumption
  <2> QED BY <2>1, <2>3
<1> QED BY <1>1, <1>2

-----------------------------------------------------------------------------
\* What users, the routes and failures do.
LEMMA ResetAgrees ==
  ASSUME Agreeing,
         \/ SmbUser \/ LoseProjection \/ CrashDuringPass \/ BeginPass \/ Wipe \/ Unmap \/ Mark
         \/ \E r \in FileRow, folder \in {Root} \cup FolderRow, name \in Name, n \in FileNode :
              WebUpload(r, folder, name, n)
         \/ \E r \in FileRow : WebDeleteFile(r)
         \/ \E r \in FolderRow : WebDeleteFolder(r)
  PROVE  AgreeInv'
<1>0. IsPass(pass)
  BY SmbKinds DEF Agreeing
<1>1. ASSUME Disturbed, Resting \/ UNCHANGED db PROVE AgreeInv'
  <2>1. ~pass'.calm /\ pass'.at = pass.at
    BY <1>0, <1>1, PassDisturbed DEF Disturbed
  <2>2. Resting => pass.at \notin Synchronizing
    BY DEF Resting, Synchronizing
  <2> QED BY <1>1, <2>1, <2>2, AgreeDisturbed
<1>2. ASSUME CrashDuringPass \/ BeginPass \/ Wipe \/ Unmap \/ Mark PROVE AgreeInv'
  <2>1. pass'.at \in {"failed", "web", "wipe", "unmap", "mark"}
    <3>1. CASE CrashDuringPass \/ BeginPass
      <4>1. PICK at \in {"failed", "web", "wipe"} : \E calm : pass' = Rest(at, calm)
        BY <3>1 DEF CrashDuringPass, BeginPass
      <4> QED BY <4>1, RestIs
    <3>2. ASSUME NEW at, Goes(at, {}) PROVE pass'.at = at
      BY <1>0, <3>2, PassGoes
    <3>3. CASE Wipe \/ Unmap \/ Mark
      BY <3>2, <3>3 DEF Wipe, Unmap, Mark
    <3> QED BY <1>2, <3>1, <3>3
  <2> QED BY <2>1, AgreeQuiet DEF Comparing, Agreeing
<1> QED BY <1>1, <1>2 DEF SmbUser, LoseProjection, WebUpload, WebDeleteFile, WebDeleteFolder

LEMMA EarlyAgrees ==
  ASSUME Agreeing,
         \/ BeginApply
         \/ \E r \in FileRow \cup FolderRow : RemoveWebDeleted(r) \/ ApplyEntry(r)
         \/ \E r \in FileRow : Relink(r)
         \/ \E r \in FileRow, n \in FileNode : ApplyDuringSave(r, n)
  PROVE  AgreeInv'
<1>0. IsPass(pass) /\ SmbInv /\ SmbInv'
  BY SmbKinds DEF Agreeing
<1>1. CASE Fails \/ EndsWithin
  BY <1>1, AgreeEnds
<1>2. CASE BeginApply
  <2>1. pass'.at = "apply"
    BY <1>0, <1>2, PassGoes DEF BeginApply
  <2> QED BY <2>1, <1>0, AgreeQuiet DEF Comparing
<1>3. ASSUME NEW r \in FileRow \cup FolderRow, RemoveWebDeleted(r), ~EndsWithin PROVE AgreeInv'
  <2>1. pass'.at = "web"
    BY <1>3 DEF RemoveWebDeleted, At
  <2> QED BY <2>1, <1>0, AgreeQuiet DEF Comparing
<1>4. ASSUME pass'.at = pass.at, At("apply") PROVE AgreeInv'
  BY <1>4, <1>0, AgreeQuiet DEF Comparing, At
<1>5. ASSUME NEW r \in FileRow \cup FolderRow, ApplyEntry(r) PROVE AgreeInv'
  <2>1. CASE Did(r)
    <3>1. pass'.at = pass.at /\ At("apply")
      BY <1>0, <1>5, <2>1, PassDid DEF ApplyEntry
    <3> QED BY <3>1, <1>4
  <2>2. CASE Apply(r) /\ Applicable(r)
    <3>1. At("apply")
      BY <1>5 DEF ApplyEntry
    <3>2. PICK todo, stable : Fails \/ EndsWithin \/ Settles(todo, stable)
      BY <1>0, <2>2, <3>1, ApplyIs, Zenon
    <3>3. CASE Settles(todo, stable)
      <4>1. pass'.at = pass.at
        BY <1>0, <3>3, PassSettles
      <4> QED BY <4>1, <3>1, <1>4
    <3> QED BY <3>2, <3>3, AgreeEnds
  <2>3. CASE Fails
    BY <2>3, AgreeEnds
  <2> QED BY <1>5, <2>1, <2>2, <2>3 DEF ApplyEntry
<1>6. ASSUME NEW r \in FileRow, Relink(r) PROVE AgreeInv'
  <2>1. CASE Did(r)
    <3>1. pass'.at = pass.at /\ At("apply")
      BY <1>0, <1>6, <2>1, PassDid DEF Relink
    <3> QED BY <3>1, <1>4
  <2>2. CASE EndsWithin
    BY <2>2, AgreeEnds
  <2> QED BY <1>6, <2>1, <2>2 DEF Relink
<1>7. ASSUME NEW r \in FileRow, NEW n \in FileNode, ApplyDuringSave(r, n) PROVE AgreeInv'
  <2>1. At("apply") /\ Disturbs(pass.todo \ {r})
    BY <1>7 DEF ApplyDuringSave, Disturbs
  <2>2. pass'.at = pass.at
    BY <1>0, <2>1, PassSaved
  <2> QED BY <2>1, <2>2, <1>4
<1> QED BY <1>1, <1>2, <1>3, <1>5, <1>6, <1>7

\* A scan that nothing changes the projection during.
LEMMA ScanIs ==
  ASSUME NEW scan, NEW calm, Scanned(scan, calm)
  PROVE  \/ pass'.at = "failed"
         \/ /\ pass'.at = "movefolders" /\ pass'.scan = scan /\ pass'.seen = {} /\ pass'.calm = calm
<1>1. CASE Within(scan)
  <2>1. PICK todo, stable : pass' = [Rest("movefolders", calm) EXCEPT !.scan = scan, !.todo = todo, !.stable = stable]
    BY <1>1 DEF Scanned
  <2>2. pass' = [at |-> "movefolders", scan |-> scan, todo |-> todo, seen |-> {}, stable |-> stable,
                 calm |-> calm]
    BY <2>1 DEF Rest
  <2> QED BY <2>2
<1>2. CASE ~Within(scan)
  BY <1>2, RestIs DEF Scanned
<1> QED BY <1>1, <1>2

LEMMA ScansAgree ==
  ASSUME Agreeing, Scan \/ ScanDuringChange
  PROVE  AgreeInv'
<1>0. IsPass(pass) /\ SmbInv /\ SmbInv' /\ At("apply") /\ db' = db /\ pass.at \in Synchronizing
  BY SmbKinds DEF Agreeing, Scan, ScanDuringChange, Synchronizing, At
<1>1. CASE ScanDuringChange
  <2>1. PICK scan : Scanned(scan, FALSE)
    BY <1>1 DEF ScanDuringChange
  <2>2. pass'.at = "failed" \/ ~pass'.calm
    BY <2>1, ScanIs
  <2> QED BY <2>2, <1>0, AgreeQuiet, AgreeDisturbed DEF Comparing
<1>2. CASE Scan
  <2>1. Scanned(proj, pass.calm) /\ proj' = proj
    BY <1>2 DEF Scan
  <2>2. CASE pass'.at = "failed"
    BY <2>2, <1>0, AgreeQuiet DEF Comparing
  <2>3. CASE pass'.at # "failed"
    <3>1. pass'.at = "movefolders" /\ pass'.scan = proj /\ pass'.seen = {}
      BY <2>1, <2>3, ScanIs
    <3>2. \A p : Unmet(p)'
      BY <3>1 DEF Unmet, At
    <3>3. EntriesMet'
      BY <2>1, <3>1, <3>2 DEF EntriesMet, Leaves
    <3>4. ScanMet' /\ SeenMet' /\ UnseenLeft'
      BY <2>1, <3>1 DEF ScanMet, SeenMet, UnseenLeft, At
    <3>5. MappedFiles(db') \subseteq DOMAIN db'.files
      BY <1>0, NoOrphans DEF SmbInv, PassGood
    <3> QED BY <1>0, <3>1, <3>3, <3>4, <3>5, AgreeCompared DEF Comparing, Meeting
  <2> QED BY <2>2, <2>3
<1> QED BY <1>1, <1>2

-----------------------------------------------------------------------------
\* Between the stages.
LEMMA MeetingDirs ==
  ASSUME SmbInv, Meeting, NEW q \in Dirs(pass.scan) \ DOMAIN proj
  PROVE  ~Unmet(q) /\ MappedAt(db, q) \cap FolderRow = {}
BY DEF Meeting, ScanMet, Dirs

LEMMA StagesAgree ==
  ASSUME Agreeing, BeginFolders \/ BeginMoves \/ BeginFiles
  PROVE  AgreeInv'
<1>0. IsPass(pass) /\ SmbInv /\ SmbInv' /\ IsTree(pass.scan) /\ UNCHANGED <<db, proj>>
  BY SmbKinds DEF Agreeing, BeginFolders, BeginMoves, BeginFiles
<1>1. \A q \in DOMAIN pass.scan : q \in Leaves(pass.scan) <=> q \notin Dirs(pass.scan)
  BY <1>0, SmbSyncAssumption DEF IsTree, Leaves, Dirs
<1>2. /\ pass'.scan = pass.scan /\ pass'.seen = pass.seen /\ pass'.calm = pass.calm
      /\ pass.todo = {} /\ pass.at \in Comparing /\ pass'.at \in {"folders", "movefiles", "files"}
      /\ \/ At("movefolders") /\ pass'.at = "folders" /\ pass'.todo = Dirs(pass.scan)
         \/ At("folders") /\ pass'.at = "movefiles"
         \/ At("movefiles") /\ pass'.at = "files" /\ pass'.todo = Leaves(pass.scan)
  <2>1. CASE BeginFolders
    BY <1>0, <2>1, PassGoes DEF BeginFolders, Comparing, At
  <2>2. CASE BeginMoves
    <3>1. PICK stable : Moves("movefiles", Leaves(pass.scan), stable)
      BY <2>2 DEF BeginMoves, Moves
    <3> QED BY <1>0, <2>2, <3>1, PassMoves DEF BeginMoves, Comparing, At
  <2>3. CASE BeginFiles
    BY <1>0, <2>3, PassGoes DEF BeginFiles, Comparing, At
  <2> QED BY <2>1, <2>2, <2>3
<1>3. \A q \in DOMAIN pass.scan : Unmet(q)' <=> Unmet(q)
  <2> TAKE q \in DOMAIN pass.scan
  <2>1. Dirs(pass'.scan) = Dirs(pass.scan)
    BY <1>2
  <2> QED BY <1>1, <1>2, <2>1 DEF Unmet, At
<1>4. MappedFiles(db') \subseteq DOMAIN db'.files
  <2>1. pass.at \in Synchronizing
    BY <1>2 DEF Comparing, Synchronizing
  <2> QED BY <1>0, <2>1, NoOrphans DEF Agreeing, AgreeInv
<1>5. ASSUME pass'.calm PROVE Meeting' /\ UnseenLeft'
  <2>1. Meeting
    BY <1>2, <1>5 DEF Agreeing, AgreeInv
  <2>2. Meeting'
    <3>1. \A q \in Dirs(pass.scan) \ DOMAIN proj : MappedAt(db', q) \cap FolderRow = {}
      BY <1>0, <2>1, MeetingDirs
    <3>2. \A s \in pass.seen : s \in DOMAIN db'.maps /\ db'.maps[s] = db.maps[s]
      BY <1>0, <2>1, SeenFacts
    <3> QED BY <1>0, <1>2, <1>3, <2>1, <3>1, <3>2, MeetsStill
  <2>3. UnseenLeft'
    BY <1>2 DEF UnseenLeft, At
  <2> QED BY <2>2, <2>3
<1>6. pass'.at \in Comparing
  BY <1>2 DEF Comparing
<1> QED BY <1>0, <1>4, <1>5, <1>6, AgreeCompared

-----------------------------------------------------------------------------
\* What holds while a scan is compared.
LEMMA ComparingFacts ==
  ASSUME Agreeing, pass.at \in Comparing
  PROVE  /\ SmbInv /\ SmbInv' /\ IsPass(pass) /\ TablesGood(db) /\ IsTree(proj) /\ IsTree(pass.scan)
         /\ Orphans = {} /\ MappedFiles(db) \subseteq DOMAIN db.files
         /\ pass.calm => Meeting /\ UnseenLeft
         /\ \A q \in DOMAIN pass.scan : q \in Leaves(pass.scan) <=> q \notin Dirs(pass.scan)
<1>1. /\ SmbInv /\ SmbInv' /\ IsPass(pass) /\ TablesGood(db) /\ IsTree(proj) /\ IsTree(pass.scan)
      /\ pass.at \in Synchronizing
  BY SmbKinds DEF Agreeing, Comparing, Synchronizing
<1>2. Orphans = {} /\ (pass.calm => Meeting /\ UnseenLeft)
  BY <1>1 DEF Agreeing, AgreeInv
<1>3. MappedFiles(db) \subseteq DOMAIN db.files
  BY <1>1, <1>2, NoOrphans
<1>4. \A q \in DOMAIN pass.scan : q \in Leaves(pass.scan) <=> q \notin Dirs(pass.scan)
  BY <1>1, SmbSyncAssumption DEF IsTree, Leaves, Dirs
<1> QED BY <1>1, <1>2, <1>3, <1>4

\* What was met while a scan is compared is of the kinds that the stage has come to.
LEMMA MovesAgree ==
  ASSUME Agreeing, pass.at \in {"movefolders", "movefiles"}, NEW p, Did(p), UNCHANGED proj,
         MappedFiles(db') \subseteq DOMAIN db'.files,
         At("movefiles") => \A s \in MappedFolders(db) : s \in DOMAIN db'.maps /\ db'.maps[s] = db.maps[s],
         At("movefiles") => MappedFolders(db') \subseteq MappedFolders(db)
  PROVE  AgreeInv'
<1>0. pass.at \in Comparing
  BY DEF Comparing
<1>1. /\ SmbInv' /\ IsPass(pass) /\ (pass.calm => Meeting /\ UnseenLeft)
      /\ \A q \in DOMAIN pass.scan : q \in Leaves(pass.scan) <=> q \notin Dirs(pass.scan)
  BY <1>0, ComparingFacts
<1>2. /\ pass'.at = pass.at /\ pass'.scan = pass.scan /\ pass'.seen = pass.seen
      /\ pass'.calm = pass.calm
  BY <1>0, ComparingFacts, PassDid
<1>3. ASSUME pass'.calm PROVE Meeting' /\ UnseenLeft'
  <2>0. Meeting /\ SmbInv
    BY <1>0, <1>2, <1>3, ComparingFacts
  <2>1. \A q : Unmet(q)' <=> Unmet(q)
    <3>1. Dirs(pass'.scan) = Dirs(pass.scan)
      BY <1>2
    <3> QED BY <1>2, <3>1 DEF Unmet, At
  <2>2. \A s \in pass.seen : At("movefiles") /\ s \in MappedFolders(db)
    <3> TAKE s \in pass.seen
    <3>1. PICK q \in DOMAIN proj :
            s \in DOMAIN db.maps /\ ~Unmet(q) /\ db.maps[s].path = q /\ proj[q] = db.maps[s].node
      BY <2>0 DEF Meeting, SeenMet
    <3>2. q \in Dirs(pass.scan) /\ At("movefiles")
      BY <3>1 DEF Unmet, At
    <3>3. db.maps[s].node \in DirNode
      BY <2>0, <3>1, <3>2 DEF Meeting, EntriesMet, Dirs
    <3>4. s \notin FileRow
      BY <1>0, <3>1, <3>3, ComparingFacts, MappingFacts, SmbSyncAssumption
    <3>5. s \in FileRow \cup FolderRow
      BY <1>0, <3>1, ComparingFacts, MappingFacts
    <3> QED BY <3>1, <3>2, <3>4, <3>5 DEF MappedFolders
  <2>3. \A q \in Dirs(pass.scan) \ DOMAIN proj : MappedAt(db', q) \cap FolderRow = {}
    <3> TAKE q \in Dirs(pass.scan) \ DOMAIN proj
    <3>1. ~Unmet(q) /\ MappedAt(db, q) \cap FolderRow = {}
      BY <2>0, MeetingDirs
    <3>2. At("movefiles")
      BY <3>1 DEF Unmet, At
    <3> QED BY <3>1, <3>2 DEF MappedAt, MappedFolders
  <2>4. Meeting'
    BY <1>2, <2>0, <2>1, <2>2, <2>3, MeetsStill
  <2>5. UnseenLeft'
    BY <1>2 DEF UnseenLeft, At
  <2> QED BY <2>4, <2>5
<1>4. pass'.at \in Comparing
  BY <1>0, <1>2
<1> QED BY <1>1, <1>3, <1>4, AgreeCompared

LEMMA MoveFolderAgrees ==
  ASSUME Agreeing, NEW p \in Path, MoveFolder(p)
  PROVE  AgreeInv'
<1>0. At("movefolders") /\ UNCHANGED proj /\ pass.at \in Comparing /\ pass.at # "movefiles"
  BY DEF MoveFolder, At, Comparing
<1>1. TablesGood(db) /\ MappedFiles(db) \subseteq DOMAIN db.files
  BY <1>0, ComparingFacts
<1>2. CASE Fails
  BY <1>2, AgreeEnds
<1>3. ASSUME Did(p), MappedFiles(db') \subseteq DOMAIN db'.files PROVE AgreeInv'
  BY <1>0, <1>3, MovesAgree DEF At
<1>4. ASSUME NEW r \in MovedRows(FolderRow, p), NEW n, Did(p),
             db' = [Remapped(db, r, p) EXCEPT !.folders[r] = n]
      PROVE  AgreeInv'
  <2> DEFINE e == Remapped(db, r, p)
  <2>1. r \in DOMAIN db.maps
    BY DEF MovedRows, Owners
  <2>2. e \in Tables /\ e.files = db.files /\ DOMAIN e.maps = DOMAIN db.maps
    BY <1>1, <2>1, RemappedIs
  <2> HIDE DEF e
  <2>3. db' = [e EXCEPT !.folders[r] = n]
    BY <1>4 DEF e
  <2>4. db'.files = e.files /\ db'.maps = e.maps
    BY <2>2, <2>3 DEF Tables
  <2> QED BY <1>1, <1>3, <1>4, <2>2, <2>4 DEF MappedFiles
<1> QED BY <1>1, <1>2, <1>3, <1>4 DEF MoveFolder

LEMMA MoveFileAgrees ==
  ASSUME Agreeing, NEW p \in Path, MoveFile(p)
  PROVE  AgreeInv'
<1>0. At("movefiles") /\ UNCHANGED proj /\ pass.at \in Comparing
  BY DEF MoveFile, At, Comparing
<1>1. TablesGood(db) /\ MappedFiles(db) \subseteq DOMAIN db.files /\ db \in Tables
  BY <1>0, ComparingFacts DEF TablesGood
<1>2. CASE Fails
  BY <1>2, AgreeEnds
<1>3. ASSUME Did(p), UNCHANGED db PROVE AgreeInv'
  BY <1>0, <1>1, <1>3, MovesAgree DEF At, MappedFolders
<1>4. ASSUME NEW r \in MovedRows(FileRow, p), r \in DOMAIN db.files, Did(p),
             NEW parent \in ParentOf(db, p), db' = Renaming(db, r, p, parent)
      PROVE  AgreeInv'
  <2>1. r \in DOMAIN db.maps \cap DOMAIN db.files /\ r \in FileRow
    BY <1>4 DEF MovedRows, Owners
  <2>2. parent \in {Root} \cup FolderRow
    BY <1>1, OneParent
  <2>3. /\ DOMAIN db'.files = DOMAIN db.files /\ DOMAIN db'.maps = DOMAIN db.maps
        /\ db' \in Tables
        /\ \A s \in DOMAIN db.maps :
             /\ db'.maps[s].node = db.maps[s].node
             /\ db'.maps[s].path = IF s = r THEN p ELSE db.maps[s].path
    BY <1>1, <1>4, <2>1, <2>2, RenamingIs
  <2>4. r \notin FolderRow
    BY <2>1, SmbSyncAssumption
  <2>5. \A s \in MappedFolders(db) : s \in DOMAIN db'.maps /\ db'.maps[s] = db.maps[s]
    <3> TAKE s \in MappedFolders(db)
    <3>1. s # r /\ s \in DOMAIN db.maps
      BY <2>4 DEF MappedFolders
    <3>2. db.maps[s] \in Mapping /\ db'.maps[s] \in Mapping
      BY <1>1, <2>3, <3>1, TablesFields
    <3> QED BY <2>3, <3>1, <3>2 DEF Mapping
  <2> QED BY <1>0, <1>1, <1>4, <2>3, <2>5, MovesAgree DEF At, MappedFolders, MappedFiles
<1> QED BY <1>2, <1>3, <1>4 DEF MoveFile

-----------------------------------------------------------------------------
\* Entering the entries of the scan.
LEMMA UnmetDone ==
  ASSUME Agreeing, At("folders") \/ At("files"), NEW p \in pass.todo,
         pass'.at = pass.at, pass'.scan = pass.scan, pass'.todo = pass.todo \ {p}
  PROVE  /\ p \in DOMAIN pass.scan /\ Unmet(p)
         /\ At("folders") => p \in Dirs(pass.scan)
         /\ At("files") => p \in Leaves(pass.scan)
         /\ \A q \in DOMAIN pass.scan : Unmet(q)' <=> Unmet(q) /\ q # p
<1>0. pass.at \in Comparing /\ (At("folders") <=> ~At("files"))
  BY DEF At, Comparing
<1>1. /\ At("folders") => pass.todo \subseteq Dirs(pass.scan)
      /\ At("files") => pass.todo \subseteq Leaves(pass.scan)
  BY DEF Agreeing, SmbInv, PassGood, At
<1>2. \A q \in DOMAIN pass.scan : q \in Leaves(pass.scan) <=> q \notin Dirs(pass.scan)
  BY <1>0, ComparingFacts
<1>3. p \in DOMAIN pass.scan
  BY <1>1 DEF Dirs, Leaves
<1>4. Dirs(pass'.scan) = Dirs(pass.scan)
  OBVIOUS
<1>5. \A q \in DOMAIN pass.scan : Unmet(q)' <=> Unmet(q) /\ q # p
  BY <1>0, <1>1, <1>2, <1>4 DEF Unmet, At
<1>6. Unmet(p)
  BY <1>0, <1>1, <1>2, <1>3 DEF Unmet, At
<1> QED BY <1>1, <1>3, <1>5, <1>6

LEMMA EntersOne ==
  ASSUME Agreeing, At("folders") \/ At("files"), NEW p \in pass.todo,
         NEW R, (Did(p) /\ R = {}) \/ \E r : Saw(p, r) /\ R = {r},
         MappedFiles(db') \subseteq DOMAIN db'.files,
         pass.calm /\ Meeting =>
           /\ DOMAIN proj' \subseteq DOMAIN proj
           /\ \A q \in DOMAIN proj' \ {p} : proj'[q] = proj[q]
           /\ \A q \in DOMAIN proj \ DOMAIN proj' :
                q = p \/ (q \in Leaves(pass.scan) /\ Unmet(q) /\ q[1] # Root /\ Top(q[1]) \notin DOMAIN proj')
           /\ \A s \in pass.seen : s \in DOMAIN db'.maps /\ db'.maps[s] = db.maps[s]
           /\ \A s \in R : s \in DOMAIN db'.maps /\ db'.maps[s].path = p /\ InPlace(s)'
           /\ p \in DOMAIN proj' => /\ R # {}
                                    /\ p \in Dirs(pass.scan) => proj'[p] = pass.scan[p]
                                    /\ p \in Leaves(pass.scan) => proj'[p] \in FileNode
           /\ \A q \in Dirs(pass.scan) \ DOMAIN proj' : MappedAt(db', q) \cap FolderRow = {}
  PROVE  AgreeInv'
<1>0. pass.at \in Comparing
  BY DEF At, Comparing
<1>1. SmbInv' /\ IsPass(pass) /\ (pass.calm => Meeting)
  BY <1>0, ComparingFacts
<1>2. /\ pass'.at = pass.at /\ pass'.scan = pass.scan /\ pass'.calm = pass.calm
      /\ pass'.todo = pass.todo \ {p} /\ pass'.seen = pass.seen \cup R
  <2>1. CASE Did(p) /\ R = {}
    BY <1>1, <2>1, PassDid
  <2>2. ASSUME NEW r, Saw(p, r), R = {r}
        PROVE  /\ pass'.at = pass.at /\ pass'.scan = pass.scan /\ pass'.calm = pass.calm
               /\ pass'.todo = pass.todo \ {p} /\ pass'.seen = pass.seen \cup R
    BY <1>1, <2>2, PassSaw
  <2> QED BY <2>1, <2>2
<1>3. /\ p \in DOMAIN pass.scan /\ Unmet(p)
      /\ \A q \in DOMAIN pass.scan : Unmet(q)' <=> Unmet(q) /\ q # p
  BY <1>2, UnmetDone
<1>4. ASSUME pass'.calm PROVE Meeting'
  <2>1. pass.calm /\ Meeting
    BY <1>1, <1>2, <1>4
  <2>2. PICK P : P = {p}
    OBVIOUS
  <2>3. /\ \A q \in P : Unmet(q)
        /\ \A q \in DOMAIN pass.scan : Unmet(q)' <=> Unmet(q) /\ q \notin P
    BY <1>3, <2>2
  <2>4. \A s \in R : s \in DOMAIN db'.maps /\ db'.maps[s].path \in P /\ InPlace(s)'
    BY <2>1, <2>2
  <2>5. \A q \in P \cap DOMAIN proj' :
          /\ q \in Dirs(pass.scan) => proj'[q] = pass.scan[q]
          /\ q \in Leaves(pass.scan) => proj'[q] \in FileNode
          /\ \E s \in R : db'.maps[s].path = q
    BY <2>1, <2>2
  <2>6. \A q \in DOMAIN proj' \ P : proj'[q] = proj[q]
    BY <2>1, <2>2
  <2>7. \A q \in DOMAIN proj \ DOMAIN proj' :
          q \in P \/ (q \in Leaves(pass.scan) /\ Unmet(q) /\ q[1] # Root /\ Top(q[1]) \notin DOMAIN proj')
    BY <2>1, <2>2
  <2> QED BY <1>2, <2>1, <2>3, <2>4, <2>5, <2>6, <2>7, Meets
<1>5. UnseenLeft' /\ pass'.at \in Comparing
  BY <1>0, <1>2 DEF UnseenLeft, At
<1> QED BY <1>1, <1>4, <1>5, AgreeCompared

-----------------------------------------------------------------------------
\* A directory is entered.
LEMMA ClearedMaps ==
  ASSUME TablesGood(db), NEW p, NEW d, d = Cleared(db, MappedAt(db, p)), NEW t \in DOMAIN db.maps,
         db.maps[t].path # p, ~InDir(db.maps[t].path, p)
  PROVE  t \in DOMAIN d.maps
<1> DEFINE here == MappedAt(db, p)
<1>1. CASE here = {}
  BY <1>1 DEF Cleared
<1>2. CASE here # {}
  <2> DEFINE r == CHOOSE x \in here : TRUE
  <2>1. r \in here
    BY <1>2
  <2>2. d = IF r \in FolderRow THEN FolderDeleted(db, r) ELSE FileDeleted(db, r)
    BY <1>2 DEF Cleared
  <2> HIDE DEF r
  <2>3. r \in DOMAIN db.maps /\ db.maps[r].path = p
    BY <2>1 DEF MappedAt
  <2>4. CASE r \in FolderRow
    <3>1. d = FolderDeleted(db, r) /\ r \in DOMAIN db.maps \cap FolderRow
      BY <2>2, <2>3, <2>4
    <3>2. PICK S : S = {s \in DOMAIN db.maps : LET q == db.maps[s].path
                                               IN  q = db.maps[r].path \/ InDir(q, db.maps[r].path)}
      OBVIOUS
    <3>3. d.maps = Without(db.maps, S)
      BY <3>1, <3>2 DEF FolderDeleted
    <3>4. t \notin S
      BY <2>3, <3>2
    <3> QED BY <3>3, <3>4 DEF Without, Restrict
  <2>5. CASE r \notin FolderRow
    <3>1. d = FileDeleted(db, r) /\ r \in FileRow
      BY <2>2, <2>3, <2>5, MappingFacts
    <3>2. d.maps = Without(db.maps, {r})
      BY <3>1, FileDeletedGood
    <3>3. DOMAIN d.maps = DOMAIN db.maps \ {r}
      BY <3>2 DEF Without, Restrict
    <3> QED BY <2>3, <3>3
  <2> QED BY <2>4, <2>5
<1> QED BY <1>1, <1>2

\* What is seen before the files are: directories.
LEMMA SeenDirs ==
  ASSUME Agreeing, At("folders"), Meeting, NEW s \in pass.seen
  PROVE  /\ s \in DOMAIN db.maps /\ db.maps[s].path[1] = Root
         /\ \A p \in pass.todo : db.maps[s].path # p
<1>0. pass.at \in Comparing
  BY DEF At, Comparing
<1>1. PICK q \in DOMAIN proj : /\ s \in DOMAIN db.maps /\ ~Unmet(q) /\ db.maps[s].path = q
                               /\ proj[q] = db.maps[s].node
  BY DEF Meeting, SeenMet
<1>2. q \in Dirs(pass.scan) /\ q \notin pass.todo
  BY <1>1 DEF Unmet, At
<1>3. q[1] = Root
  BY <1>0, <1>2, ComparingFacts, ScannedDir
<1> QED BY <1>1, <1>2, <1>3

LEMMA CreateFolderAgrees ==
  ASSUME Agreeing, At("folders"), NEW p \in pass.todo, NEW d, d = Cleared(db, MappedAt(db, p)),
         CreateFolder(d, p)
  PROVE  AgreeInv'
<1>0. pass.at \in Comparing
  BY DEF At, Comparing
<1>1. /\ SmbInv /\ TablesGood(db) /\ IsTree(proj) /\ IsTree(pass.scan) /\ IsPass(pass)
      /\ Orphans = {} /\ MappedFolders(db) \subseteq DOMAIN db.folders
      /\ \A q \in DOMAIN pass.scan : q \in Leaves(pass.scan) <=> q \notin Dirs(pass.scan)
  BY <1>0, ComparingFacts DEF SmbInv, PassGood, Comparing, Synchronizing
<1>2. p \in Dirs(pass.scan) /\ p \in Path /\ p[1] = Root /\ p[2] \in Name /\ p = Top(p[2])
      /\ pass.scan[p] \in DirNode /\ p[2] # Root
  <2>1. p \in Dirs(pass.scan)
    BY <1>1 DEF SmbInv, PassGood, At
  <2> QED BY <1>1, <2>1, ScannedDir, SmbSyncAssumption
<1>3. /\ TablesGood(d) /\ MappedAt(d, p) = {} /\ MappedFiles(d) \subseteq DOMAIN d.files
      /\ DOMAIN d.maps \subseteq DOMAIN db.maps
      /\ \A s \in DOMAIN d.maps : d.maps[s] = db.maps[s]
  BY <1>1, ClearedGood, ClearedFiles, ClearedIs
<1>4. ASSUME Meeting
      PROVE  /\ \A s \in pass.seen : s \in DOMAIN d.maps /\ d.maps[s] = db.maps[s]
             /\ \A q \in Dirs(pass.scan) \ DOMAIN proj : MappedAt(d, q) \cap FolderRow = {}
             /\ p \in DOMAIN proj /\ proj[p] = pass.scan[p]
  <2>1. ASSUME NEW s \in pass.seen PROVE s \in DOMAIN d.maps
    <3>1. s \in DOMAIN db.maps /\ db.maps[s].path[1] = Root /\ db.maps[s].path # p
      BY <1>4, SeenDirs
    <3>2. ~InDir(db.maps[s].path, p)
      BY <1>2, <3>1 DEF InDir
    <3> QED BY <1>1, <3>1, <3>2, ClearedMaps
  <2>2. ASSUME NEW q \in Dirs(pass.scan) \ DOMAIN proj PROVE MappedAt(d, q) \cap FolderRow = {}
    <3>1. MappedAt(db, q) \cap FolderRow = {}
      BY <1>1, <1>4, MeetingDirs
    <3> QED BY <1>3, <3>1 DEF MappedAt
  <2>3. Unmet(p)
    BY <1>2 DEF Unmet
  <2>4. p \in DOMAIN proj
    BY <1>1, <1>2, <1>4, <2>3, MeetingDirs
  <2> QED BY <1>2, <1>3, <1>4, <2>1, <2>2, <2>4 DEF Meeting, EntriesMet
<1>5. ASSUME db' = d, Did(p),
             proj' = Without(proj, IF p \in DOMAIN proj THEN Under(proj, p) ELSE {})
      PROVE  AgreeInv'
  <2>1. ASSUME Meeting
        PROVE  /\ DOMAIN proj' \subseteq DOMAIN proj
               /\ \A q \in DOMAIN proj' \ {p} : proj'[q] = proj[q]
               /\ \A q \in DOMAIN proj \ DOMAIN proj' :
                    q = p \/ (q \in Leaves(pass.scan) /\ Unmet(q) /\ q[1] # Root /\ Top(q[1]) \notin DOMAIN proj')
               /\ p \notin DOMAIN proj'
               /\ \A q \in Dirs(pass.scan) \ DOMAIN proj' : MappedAt(d, q) \cap FolderRow = {}
    <3>1. proj' = Without(proj, Under(proj, p))
      BY <1>4, <1>5, <2>1
    <3>2. DOMAIN proj' = DOMAIN proj \ Under(proj, p) /\ \A q \in DOMAIN proj' : proj'[q] = proj[q]
      BY <3>1 DEF Without, Restrict
    <3>3. p \notin DOMAIN proj'
      BY <3>2 DEF Under
    <3>4. ASSUME NEW q \in DOMAIN proj \ DOMAIN proj', q # p
          PROVE  q \in Leaves(pass.scan) /\ Unmet(q) /\ q[1] # Root /\ Top(q[1]) \notin DOMAIN proj'
      <4>1. q[1] = p[2] /\ q \in DOMAIN proj
        BY <3>2, <3>4 DEF Under, InDir
      <4>2. q[1] # Root /\ Top(q[1]) = p
        BY <1>2, <4>1
      <4>3. q \in DOMAIN pass.scan
        BY <2>1, <4>1 DEF Meeting, EntriesMet
      <4>4. pass.scan[q] \in FileNode
        BY <1>1, <4>2, <4>3, EntryFacts
      <4>5. q \in Leaves(pass.scan) /\ q \notin Dirs(pass.scan)
        BY <1>1, <4>3, <4>4 DEF Leaves
      <4> QED BY <3>3, <4>2, <4>5 DEF Unmet, At
    <3>5. ASSUME NEW q \in Dirs(pass.scan) \ DOMAIN proj' PROVE MappedAt(d, q) \cap FolderRow = {}
      <4>1. CASE q = p
        BY <1>3, <4>1
      <4>2. CASE q \in DOMAIN proj /\ q # p
        <5>1. q \in Leaves(pass.scan) /\ q \in DOMAIN pass.scan
          BY <3>4, <4>2 DEF Leaves
        <5> QED BY <1>1, <5>1
      <4>3. CASE q \notin DOMAIN proj
        BY <1>4, <2>1, <4>3
      <4> QED BY <4>1, <4>2, <4>3
    <3> QED BY <3>2, <3>3, <3>4, <3>5
  <2>2. PICK R : R = {}
    OBVIOUS
  <2>3. MappedFiles(db') \subseteq DOMAIN db'.files
    BY <1>3, <1>5
  <2> QED BY <1>4, <1>5, <2>1, <2>2, <2>3, EntersOne
<1>6. ASSUME NEW r \in FolderRow \ (DOMAIN d.folders \cup DOMAIN d.maps), NEW n,
             db' = [d EXCEPT !.folders = With(@, r, n),
                             !.maps = With(@, r, [path |-> p, node |-> pass.scan[p]])],
             Saw(p, r), UNCHANGED proj
      PROVE  AgreeInv'
  <2> DEFINE D == With(d.folders, r, n)
             v == [path |-> p, node |-> pass.scan[p]]
             M == With(d.maps, r, v)
  <2>1. db' = [d EXCEPT !.folders = D, !.maps = M]
    BY <1>6
  <2>3. v.path = p /\ v.node = pass.scan[p]
    OBVIOUS
  <2> HIDE DEF v
  <2>2. DOMAIN M = DOMAIN d.maps \cup {r} /\ M[r] = v /\ \A s \in DOMAIN d.maps \ {r} : M[s] = d.maps[s]
    BY DEF With
  <2> HIDE DEF D, M
  <2>4. db'.files = d.files /\ db'.maps = M
    <3>1. d \in Tables
      BY <1>3 DEF TablesGood
    <3> QED BY <2>1, <3>1 DEF Tables
  <2>5. MappedFiles(db') \subseteq DOMAIN db'.files
    BY <1>3, <2>2, <2>4, SmbSyncAssumption DEF MappedFiles
  <2>6. PICK R : R = {r}
    OBVIOUS
  <2>7. ASSUME Meeting
        PROVE  /\ \A s \in pass.seen : s \in DOMAIN db'.maps /\ db'.maps[s] = db.maps[s]
               /\ \A s \in R : s \in DOMAIN db'.maps /\ db'.maps[s].path = p /\ InPlace(s)'
               /\ proj'[p] = pass.scan[p]
               /\ \A q \in Dirs(pass.scan) \ DOMAIN proj' : MappedAt(db', q) \cap FolderRow = {}
    <3>1. \A s \in pass.seen : s \in DOMAIN db'.maps /\ db'.maps[s] = db.maps[s]
      BY <1>4, <2>2, <2>4, <2>7
    <3>2. r \in DOMAIN db'.maps /\ db'.maps[r].path = p /\ db'.maps[r].node = pass.scan[p]
      BY <2>2, <2>3, <2>4
    <3>3. p \in DOMAIN proj' /\ proj'[p] = pass.scan[p]
      BY <1>4, <1>6, <2>7
    <3>4. InPlace(r)'
      BY <3>2, <3>3 DEF InPlace
    <3>5. \A q \in Dirs(pass.scan) \ DOMAIN proj' : MappedAt(db', q) \cap FolderRow = {}
      <4> TAKE q \in Dirs(pass.scan) \ DOMAIN proj'
      <4>1. MappedAt(d, q) \cap FolderRow = {} /\ q # p
        BY <1>4, <1>6, <2>7
      <4>2. ASSUME NEW s \in DOMAIN db'.maps, db'.maps[s].path = q PROVE s \in MappedAt(d, q)
        <5>1. s # r
          BY <3>2, <4>1, <4>2
        <5>2. s \in DOMAIN d.maps /\ d.maps[s].path = q
          BY <2>2, <2>4, <4>2, <5>1
        <5> QED BY <5>2 DEF MappedAt
      <4> QED BY <4>1, <4>2 DEF MappedAt
    <3> QED BY <2>6, <3>1, <3>2, <3>3, <3>4, <3>5
  <2>8. \A q \in DOMAIN pass.scan : q \in Leaves(pass.scan) => q \notin Dirs(pass.scan)
    BY <1>1
  <2>9. p \notin Leaves(pass.scan)
    BY <1>2, <2>8 DEF Dirs
  <2> QED BY <1>6, <2>5, <2>6, <2>7, <2>9, EntersOne
<1> QED BY <1>5, <1>6 DEF CreateFolder

LEMMA EnterFolderAgrees ==
  ASSUME Agreeing, NEW p \in Path, EnterFolder(p)
  PROVE  AgreeInv'
<1> DEFINE here == MappedAt(db, p)
           same == {r \in here \cap FolderRow : db.maps[r].node = pass.scan[p]}
<1>0. At("folders") /\ p \in pass.todo /\ pass.at \in Comparing
  BY DEF EnterFolder, At, Comparing
<1>1. /\ SmbInv /\ TablesGood(db) /\ MappedFolders(db) \subseteq DOMAIN db.folders
      /\ MappedFiles(db) \subseteq DOMAIN db.files
      /\ \A q \in DOMAIN pass.scan : q \in Leaves(pass.scan) <=> q \notin Dirs(pass.scan)
  BY <1>0, ComparingFacts DEF SmbInv, PassGood, Comparing, Synchronizing
<1>2. p \in Dirs(pass.scan) /\ p[2] \in Name /\ p \notin Leaves(pass.scan)
  <2>1. p \in Dirs(pass.scan)
    BY <1>0, <1>1 DEF SmbInv, PassGood, At
  <2> QED BY <1>1, <2>1, ScannedDir DEF Dirs
<1>3. ASSUME NEW r \in same, NEW n \in FolderName(db, p[2], {r}),
             db' = [db EXCEPT !.folders[r] = n], Saw(p, r), UNCHANGED proj
      PROVE  AgreeInv'
  <2>1. r \in DOMAIN db.folders /\ r \in DOMAIN db.maps /\ db.maps[r].path = p /\ db.maps[r].node = pass.scan[p]
    BY <1>1 DEF MappedAt, MappedFolders
  <2>2. n \in Name /\ \A s \in DOMAIN db.folders \ {r} : db.folders[s] # n
    BY <1>2, FolderNameFacts
  <2>3. db'.files = db.files /\ db'.maps = db.maps
    BY <1>1, <1>3, <2>1, <2>2, FolderRenamed
  <2>4. MappedFiles(db') \subseteq DOMAIN db'.files
    BY <1>1, <2>3 DEF MappedFiles
  <2>5. PICK R : R = {r}
    OBVIOUS
  <2>6. ASSUME Meeting
        PROVE  /\ \A s \in pass.seen : s \in DOMAIN db'.maps /\ db'.maps[s] = db.maps[s]
               /\ \A s \in R : s \in DOMAIN db'.maps /\ db'.maps[s].path = p /\ InPlace(s)'
               /\ proj'[p] = pass.scan[p]
               /\ \A q \in Dirs(pass.scan) \ DOMAIN proj' : MappedAt(db', q) \cap FolderRow = {}
    <3>1. \A s \in pass.seen : s \in DOMAIN db'.maps /\ db'.maps[s] = db.maps[s]
      BY <2>3, <2>6, SeenFacts
    <3>2. Unmet(p)
      BY <1>0, <1>2 DEF Unmet
    <3>3. p \in DOMAIN proj
      BY <1>1, <1>2, <2>6, <3>2, MeetingDirs
    <3>4. proj[p] = pass.scan[p]
      BY <1>2, <2>6, <3>3 DEF Meeting, EntriesMet
    <3>5. InPlace(r)'
      BY <1>3, <2>1, <2>3, <3>3, <3>4 DEF InPlace
    <3>6. \A q \in Dirs(pass.scan) \ DOMAIN proj' : MappedAt(db', q) \cap FolderRow = {}
      <4> TAKE q \in Dirs(pass.scan) \ DOMAIN proj'
      <4>1. MappedAt(db, q) \cap FolderRow = {}
        BY <1>1, <1>3, <2>6, MeetingDirs
      <4> QED BY <2>3, <4>1 DEF MappedAt
    <3> QED BY <1>3, <2>1, <2>3, <2>5, <3>1, <3>4, <3>5, <3>6
  <2> QED BY <1>0, <1>2, <1>3, <2>4, <2>5, <2>6, EntersOne
<1>4. CASE CreateFolder(Cleared(db, here), p)
  BY <1>0, <1>4, CreateFolderAgrees
<1>5. CASE TornDeletion(DataOf(db, here))
  BY <1>5, AgreeEnds DEF TornDeletion
<1> QED BY <1>3, <1>4, <1>5 DEF EnterFolder

-----------------------------------------------------------------------------
\* A file is entered.
LEMMA EntryThere ==
  ASSUME Agreeing, At("files"), Meeting, NEW p \in pass.todo
  PROVE  /\ p \in DOMAIN proj <=> ParentOf(db, p) # {}
         /\ p \in DOMAIN proj => proj[p] = pass.scan[p] /\ proj[p] \in FileNode
<1>0. pass.at \in Comparing
  BY DEF At, Comparing
<1>1. /\ SmbInv /\ IsTree(proj) /\ IsTree(pass.scan)
      /\ \A q \in DOMAIN pass.scan : q \in Leaves(pass.scan) <=> q \notin Dirs(pass.scan)
  BY <1>0, ComparingFacts
<1>2. p \in DOMAIN pass.scan /\ p \in Leaves(pass.scan) /\ p \notin Dirs(pass.scan)
  <2>1. p \in Leaves(pass.scan)
    BY <1>1 DEF SmbInv, PassGood, At
  <2> QED BY <1>1, <2>1 DEF Leaves
<1>3. Unmet(p)
  BY <1>2 DEF Unmet
<1>4. ASSUME p \notin DOMAIN proj PROVE ParentOf(db, p) = {}
  <2>1. p[1] # Root /\ Top(p[1]) \notin DOMAIN proj
    BY <1>2, <1>3, <1>4 DEF Meeting, ScanMet
  <2>2. Top(p[1]) \in Dirs(pass.scan)
    BY <1>1, <1>2, <2>1, EntryFacts DEF Dirs
  <2>3. MappedAt(db, Top(p[1])) \cap FolderRow = {}
    BY <1>1, <2>1, <2>2, MeetingDirs
  <2> QED BY <2>1, <2>3 DEF ParentOf
<1>5. ASSUME p \in DOMAIN proj, p[1] # Root PROVE ParentOf(db, p) # {}
  <2>1. Top(p[1]) \in DOMAIN proj /\ proj[Top(p[1])] \in DirNode
    BY <1>1, <1>5, EntryFacts
  <2>2. Top(p[1]) \in Dirs(pass.scan)
    BY <1>1, <2>1, MetDir
  <2>3. ~Unmet(Top(p[1]))
    BY <2>2 DEF Unmet, At
  <2>4. PICK s \in pass.seen : s \in DOMAIN db.maps \cap FolderRow /\ db.maps[s].path = Top(p[1])
    BY <1>1, <2>1, <2>3, MetDir
  <2>5. s \in MappedAt(db, Top(p[1])) \cap FolderRow
    BY <2>4 DEF MappedAt
  <2> QED BY <1>5, <2>5 DEF ParentOf
<1>6. p[1] = Root => ParentOf(db, p) # {}
  BY DEF ParentOf
<1>7. p \in DOMAIN proj => proj[p] = pass.scan[p] /\ proj[p] \in FileNode
  BY <1>2, <1>3 DEF Meeting, EntriesMet
<1> QED BY <1>4, <1>5, <1>6, <1>7

\* What is mapped has a directory.
LEMMA MappedParent ==
  ASSUME NEW d, TablesGood(d), NEW p, NEW r \in MappedAt(d, p)
  PROVE  ParentOf(d, p) # {}
<1>1. r \in DOMAIN d.maps /\ d.maps[r].path = p
  BY DEF MappedAt
<1> QED BY <1>1, MappingFacts DEF ParentOf

LEMMA EntersFile ==
  ASSUME Agreeing, At("files"), NEW p \in pass.todo, NEW r \in FileRow, Saw(p, r),
         MappedFiles(db') \subseteq DOMAIN db'.files,
         FileMappingSet(r), r \in DOMAIN db'.maps, db'.maps[r].path = p,
         r \in DOMAIN db.maps => db.maps[r].path = p,
         Meeting => /\ p \in DOMAIN proj /\ DOMAIN proj' = DOMAIN proj
                    /\ proj'[p] = db'.maps[r].node /\ proj'[p] \in FileNode
                    /\ \A q \in DOMAIN proj \ {p} : proj'[q] = proj[q]
  PROVE  AgreeInv'
<1>0. pass.at \in Comparing
  BY DEF At, Comparing
<1>1. /\ SmbInv /\ IsPass(pass)
      /\ \A q \in DOMAIN pass.scan : q \in Leaves(pass.scan) <=> q \notin Dirs(pass.scan)
  BY <1>0, ComparingFacts
<1>2. p \in Leaves(pass.scan) /\ p \notin Dirs(pass.scan)
  <2>1. p \in Leaves(pass.scan)
    BY <1>1 DEF SmbInv, PassGood, At
  <2> QED BY <1>1, <2>1 DEF Leaves
<1>3. Unmet(p)
  BY <1>2 DEF Unmet
<1>4. PICK R : R = {r}
  OBVIOUS
<1>5. ASSUME Meeting
      PROVE  /\ \A s \in pass.seen : s \in DOMAIN db'.maps /\ db'.maps[s] = db.maps[s]
             /\ \A s \in R : s \in DOMAIN db'.maps /\ db'.maps[s].path = p /\ InPlace(s)'
             /\ \A q \in Dirs(pass.scan) \ DOMAIN proj' : MappedAt(db', q) \cap FolderRow = {}
  <2>1. ASSUME NEW s \in pass.seen PROVE s \in DOMAIN db'.maps /\ db'.maps[s] = db.maps[s]
    <3>1. PICK q \in DOMAIN proj : s \in DOMAIN db.maps /\ ~Unmet(q) /\ db.maps[s].path = q
      BY <1>5 DEF Meeting, SeenMet
    <3>2. s # r
      BY <1>3, <3>1
    <3> QED BY <3>1, <3>2 DEF FileMappingSet
  <2>2. InPlace(r)'
    BY <1>5 DEF InPlace
  <2>3. ASSUME NEW q \in Dirs(pass.scan) \ DOMAIN proj' PROVE MappedAt(db', q) \cap FolderRow = {}
    <3>1. MappedAt(db, q) \cap FolderRow = {}
      BY <1>1, <1>5, MeetingDirs
    <3>2. r \notin FolderRow
      BY SmbSyncAssumption
    <3> QED BY <3>1, <3>2 DEF MappedAt, FileMappingSet
  <2> QED BY <1>4, <2>1, <2>2, <2>3
<1> QED BY <1>2, <1>4, <1>5, EntersOne

LEMMA RenamingSets ==
  ASSUME NEW d, TablesGood(d), NEW r \in DOMAIN d.maps \cap DOMAIN d.files, NEW p \in Path,
         NEW parent \in {Root} \cup FolderRow, NEW e, e = Renaming(d, r, p, parent)
  PROVE  \A s \in DOMAIN d.maps \ {r} : e.maps[s] = d.maps[s]
<1>1. /\ e \in Tables /\ d \in Tables /\ DOMAIN e.maps = DOMAIN d.maps
      /\ \A s \in DOMAIN d.maps :
           /\ e.maps[s].node = d.maps[s].node
           /\ e.maps[s].path = IF s = r THEN p ELSE d.maps[s].path
  BY RenamingIs DEF TablesGood
<1> SUFFICES ASSUME NEW s \in DOMAIN d.maps \ {r} PROVE e.maps[s] = d.maps[s]
  OBVIOUS
<1>2. d.maps[s] \in Mapping /\ e.maps[s] \in Mapping
  BY <1>1, TablesFields
<1> QED BY <1>1, <1>2 DEF Mapping

LEMMA ImportAgrees ==
  ASSUME Agreeing, At("files"), NEW p \in pass.todo, MappedAt(db, p) = {}, Import(db, p)
  PROVE  AgreeInv'
<1>0. pass.at \in Comparing
  BY DEF At, Comparing
<1>1. /\ SmbInv /\ TablesGood(db) /\ IsPass(pass) /\ MappedFiles(db) \subseteq DOMAIN db.files
      /\ MappedFolders(db) \subseteq DOMAIN db.folders
  BY <1>0, ComparingFacts DEF SmbInv, PassGood, Comparing, Synchronizing
<1>2. p \in Leaves(pass.scan) /\ p \in Path /\ p[2] \in Name /\ pass.scan[p] \in FileNode
  <2>1. p \in Leaves(pass.scan)
    BY <1>1 DEF SmbInv, PassGood, At
  <2> QED BY <1>1, <2>1, ScannedLeaf
<1>3. CASE Fails
  BY <1>3, AgreeEnds
<1>4. ASSUME Did(p), db' = db, p \notin DOMAIN proj', \A q \in DOMAIN proj' : proj'[q] = proj[q],
             DOMAIN proj \ {p} \subseteq DOMAIN proj', DOMAIN proj' \subseteq DOMAIN proj
      PROVE  AgreeInv'
  <2>1. PICK R : R = {}
    OBVIOUS
  <2>2. ASSUME Meeting
        PROVE  /\ \A s \in pass.seen : s \in DOMAIN db'.maps /\ db'.maps[s] = db.maps[s]
               /\ \A q \in DOMAIN proj \ DOMAIN proj' : q = p
               /\ \A q \in Dirs(pass.scan) \ DOMAIN proj' : MappedAt(db', q) \cap FolderRow = {}
    <3>1. \A s \in pass.seen : s \in DOMAIN db'.maps /\ db'.maps[s] = db.maps[s]
      BY <1>4, <2>2, SeenFacts
    <3>2. p \notin Dirs(pass.scan)
      BY <1>0, <1>2, ComparingFacts DEF Leaves
    <3>3. \A q \in Dirs(pass.scan) \ DOMAIN proj' : MappedAt(db, q) \cap FolderRow = {}
      BY <1>1, <1>4, <2>2, <3>2, MeetingDirs
    <3> QED BY <1>4, <3>1, <3>3
  <2>3. MappedFiles(db') \subseteq DOMAIN db'.files
    BY <1>1, <1>4
  <2> QED BY <1>4, <2>1, <2>2, <2>3, EntersOne
<1>5. CASE (ParentOf(db, p) = {} \/ p \notin DOMAIN proj) /\ Did(p) /\ UNCHANGED <<db, proj>>
  <2>1. CASE p \notin DOMAIN proj
    BY <1>4, <1>5, <2>1
  <2>2. CASE p \in DOMAIN proj
    <3>1. PICK R : R = {}
      OBVIOUS
    <3>2. ~Meeting
      BY <1>5, <2>2, EntryThere
    <3>3. MappedFiles(db') \subseteq DOMAIN db'.files
      BY <1>1, <1>5
    <3> QED BY <1>5, <3>1, <3>2, <3>3, EntersOne
  <2> QED BY <2>1, <2>2
<1>6. ASSUME FileAt(p), NEW r \in FileRow \ (DOMAIN db.files \cup DOMAIN db.maps),
             NEW parent \in ParentOf(db, p),
             db' = [db EXCEPT
               !.files = With(@, r, [folder |-> parent, name |-> p[2], blob |-> proj[p]]),
               !.maps = With(@, r, [path |-> p, node |-> pass.scan[p]])],
             Saw(p, r), UNCHANGED proj
      PROVE  AgreeInv'
  <2> DEFINE row == [folder |-> parent, name |-> p[2], blob |-> proj[p]]
             node == pass.scan[p]
  <2>1. ParentOf(db, p) = {parent} /\ parent \in {Root} \cup FolderRow
    BY <1>1, OneParent
  <2>2. row \in FileRecord /\ row.folder = parent /\ node \in FileNode
    BY <1>2, <1>6, <2>1 DEF FileRecord, FileAt
  <2>3. FileMade(db, db', r, row, p, node)
    BY <1>6 DEF FileMade
  <2>4. node = pass.scan[p]
    OBVIOUS
  <2> HIDE DEF row, node
  <2>5. /\ db'.folders = db.folders
        /\ DOMAIN db'.files = DOMAIN db.files \cup {r} /\ DOMAIN db'.maps = DOMAIN db.maps \cup {r}
        /\ db'.maps[r].path = p /\ db'.maps[r].node = node
        /\ \A s \in DOMAIN db.maps : db'.maps[s] = db.maps[s]
    BY <1>1, <1>2, <2>1, <2>2, <2>3, FileCreated
  <2>6. FileMappingSet(r) /\ MappedFiles(db') \subseteq DOMAIN db'.files
    BY <1>1, <2>5 DEF FileMappingSet, MappedFiles
  <2>7. ASSUME Meeting PROVE p \in DOMAIN proj /\ proj[p] = pass.scan[p] /\ proj[p] \in FileNode
    BY <1>6, <2>7, EntryThere DEF FileAt
  <2> QED BY <1>6, <2>4, <2>5, <2>6, <2>7, EntersFile
<1>7. CASE proj' = Without(proj, {p}) /\ db' = db /\ Did(p)
  <2>1. DOMAIN proj' = DOMAIN proj \ {p} /\ \A q \in DOMAIN proj' : proj'[q] = proj[q]
    BY <1>7 DEF Without, Restrict
  <2> QED BY <1>4, <1>7, <2>1
<1> QED BY <1>3, <1>5, <1>6, <1>7 DEF Import

LEMMA ReplaceAgrees ==
  ASSUME Agreeing, At("files"), NEW p \in pass.todo, NEW r \in MappedAt(db, p) \cap FileRow,
         r \in DOMAIN db.files, Replace(r, p)
  PROVE  AgreeInv'
<1>0. pass.at \in Comparing
  BY DEF At, Comparing
<1>1. /\ SmbInv /\ TablesGood(db) /\ IsPass(pass) /\ MappedFiles(db) \subseteq DOMAIN db.files
      /\ MappedFolders(db) \subseteq DOMAIN db.folders
  BY <1>0, ComparingFacts DEF SmbInv, PassGood, Comparing, Synchronizing
<1>2. p \in Path /\ p[2] \in Name /\ pass.scan[p] \in FileNode
  <2>1. p \in Leaves(pass.scan)
    BY <1>1 DEF SmbInv, PassGood, At
  <2> QED BY <1>1, <2>1, ScannedLeaf
<1>3. r \in DOMAIN db.maps \cap DOMAIN db.files /\ r \in DOMAIN db.maps \cap FileRow /\ db.maps[r].path = p
  BY DEF MappedAt
<1>4. ASSUME Meeting PROVE p \in DOMAIN proj /\ proj[p] = pass.scan[p] /\ proj[p] \in FileNode
  BY <1>1, <1>4, MappedParent, EntryThere
<1>5. CASE Fails \/ EndsWithin
  BY <1>5, AgreeEnds
<1>6. ASSUME FileAt(p), NEW parent \in ParentOrRoot(db, p),
             db' = [Renaming(db, r, p, parent) EXCEPT
                      !.files[r].blob = proj[p], !.maps[r].node = pass.scan[p]],
             Saw(p, r), UNCHANGED proj
      PROVE  AgreeInv'
  <2> DEFINE e == Renaming(db, r, p, parent)
             blob == proj[p]
             node == pass.scan[p]
  <2>1. ParentOf(db, p) = {parent} /\ MappedAt(db, p) = {r} /\ parent \in {Root} \cup FolderRow
    BY <1>1, MappedHere
  <2>2. /\ TablesGood(e) /\ e.folders = db.folders
        /\ DOMAIN e.files = DOMAIN db.files /\ DOMAIN e.maps = DOMAIN db.maps
    BY <1>1, <1>2, <1>3, <2>1, RenamingGood
  <2>3. e.maps[r].path = p
    BY <1>1, <1>2, <1>3, <2>1, RenamingIs
  <2>4. \A s \in DOMAIN db.maps \ {r} : e.maps[s] = db.maps[s]
    BY <1>1, <1>2, <1>3, <2>1, RenamingSets
  <2>5. Replaced(e, db', r, blob, node) /\ blob \in FileNode /\ node \in FileNode
    BY <1>2, <1>6 DEF Replaced, FileAt
  <2>6. node = pass.scan[p]
    OBVIOUS
  <2> HIDE DEF e, blob, node
  <2>7. /\ db'.folders = e.folders
        /\ DOMAIN db'.files = DOMAIN e.files /\ DOMAIN db'.maps = DOMAIN e.maps
        /\ db'.maps[r].node = node /\ db'.maps[r].path = e.maps[r].path
        /\ \A s \in DOMAIN e.maps \ {r} : db'.maps[s] = e.maps[s]
    BY <1>3, <2>2, <2>5, ReplacedGood
  <2>8. FileMappingSet(r) /\ MappedFiles(db') \subseteq DOMAIN db'.files
    BY <1>1, <2>2, <2>4, <2>7 DEF FileMappingSet, MappedFiles
  <2>9. Saw(p, r) /\ proj' = proj
    BY <1>6
  <2>10. r \in FileRow /\ r \in DOMAIN db'.maps /\ db'.maps[r].path = p /\ db.maps[r].path = p
    BY <1>3, <2>2, <2>3, <2>7
  <2>11. Meeting => /\ p \in DOMAIN proj /\ DOMAIN proj' = DOMAIN proj
                     /\ proj'[p] = db'.maps[r].node /\ proj'[p] \in FileNode
                     /\ \A q \in DOMAIN proj \ {p} : proj'[q] = proj[q]
    BY <1>4, <2>6, <2>7, <2>9
  <2> QED BY <2>8, <2>9, <2>10, <2>11, EntersFile
<1>7. ASSUME proj' = With(proj, p, db.files[r].blob), db.files[r].blob # NoData,
             db' = [db EXCEPT !.maps[r].node = db.files[r].blob], Saw(p, r)
      PROVE  AgreeInv'
  <2> DEFINE n == db.files[r].blob
  <2>1. n \in FileNode
    <3>1. db.files[r] \in FileRecord
      BY <1>1, TablesFields DEF TablesGood
    <3> QED BY <1>7, <3>1 DEF FileRecord
  <2>2. proj' = With(proj, p, n) /\ db' = [db EXCEPT !.maps[r].node = n]
    BY <1>7
  <2> HIDE DEF n
  <2>3. /\ db'.files = db.files /\ db'.folders = db.folders /\ DOMAIN db'.maps = DOMAIN db.maps
        /\ db'.maps[r].node = n /\ \A s \in DOMAIN db.maps \ {r} : db'.maps[s] = db.maps[s]
    BY <1>1, <1>3, <2>1, <2>2, NodeSetIs
  <2>4. \A s \in DOMAIN db.maps : db'.maps[s].path = db.maps[s].path
    BY <1>1, <1>3, <2>1, <2>2, NodeSet
  <2>5. FileMappingSet(r) /\ MappedFiles(db') \subseteq DOMAIN db'.files
    BY <1>1, <2>3 DEF FileMappingSet, MappedFiles
  <2>6. DOMAIN proj' = DOMAIN proj \cup {p} /\ proj'[p] = n /\ \A q \in DOMAIN proj \ {p} : proj'[q] = proj[q]
    <3>1. proj' = With(proj, p, n)
      BY <2>2
    <3> QED BY <3>1 DEF With
  <2>7. r \in FileRow /\ r \in DOMAIN db'.maps /\ db'.maps[r].path = p /\ db.maps[r].path = p
    BY <1>3, <2>3, <2>4
  <2>8. Meeting => /\ p \in DOMAIN proj /\ DOMAIN proj' = DOMAIN proj
                    /\ proj'[p] = db'.maps[r].node /\ proj'[p] \in FileNode
                    /\ \A q \in DOMAIN proj \ {p} : proj'[q] = proj[q]
    BY <1>4, <2>1, <2>3, <2>6
  <2> QED BY <1>7, <2>5, <2>7, <2>8, EntersFile
<1> QED BY <1>5, <1>6, <1>7 DEF Replace

LEMMA EnterFileAgrees ==
  ASSUME Agreeing, NEW p \in Path, EnterFile(p)
  PROVE  AgreeInv'
<1> DEFINE files == MappedAt(db, p) \cap FileRow
           folders == MappedAt(db, p) \cap FolderRow
<1>0. At("files") /\ p \in pass.todo /\ pass.at \in Comparing
  BY DEF EnterFile, At, Comparing
<1>1. /\ SmbInv /\ TablesGood(db) /\ IsTree(proj) /\ IsPass(pass)
      /\ MappedFiles(db) \subseteq DOMAIN db.files /\ MappedFolders(db) \subseteq DOMAIN db.folders
      /\ \A r \in files : r \in DOMAIN db.files
  <2>1. /\ SmbInv /\ TablesGood(db) /\ IsTree(proj) /\ IsPass(pass)
        /\ MappedFiles(db) \subseteq DOMAIN db.files /\ MappedFolders(db) \subseteq DOMAIN db.folders
    BY <1>0, ComparingFacts DEF SmbInv, PassGood, Comparing, Synchronizing
  <2> QED BY <2>1 DEF MappedFiles, MappedAt
<1>2. p \in Leaves(pass.scan)
  BY <1>0, <1>1 DEF SmbInv, PassGood, At
<1>3. ASSUME NEW r \in files, Replace(r, p) PROVE AgreeInv'
  BY <1>0, <1>1, <1>3, ReplaceAgrees
<1>4. ASSUME NEW r \in files, db.maps[r].node = pass.scan[p], NEW parent \in ParentOrRoot(db, p),
             db' = Renaming(db, r, p, parent), Saw(p, r), UNCHANGED proj
      PROVE  AgreeInv'
  <2>1. /\ ParentOf(db, p) = {parent} /\ r \in DOMAIN db.maps \cap DOMAIN db.files
        /\ db.maps[r].path = p /\ parent \in {Root} \cup FolderRow
    BY <1>1, <1>4, MappedHere
  <2>2. /\ db'.folders = db.folders /\ DOMAIN db'.files = DOMAIN db.files
        /\ DOMAIN db'.maps = DOMAIN db.maps
        /\ db'.maps[r].node = db.maps[r].node /\ db'.maps[r].path = p
    BY <1>1, <1>4, <2>1, RenamingIs
  <2>3. \A s \in DOMAIN db.maps \ {r} : db'.maps[s] = db.maps[s]
    BY <1>1, <1>4, <2>1, RenamingSets
  <2>4. FileMappingSet(r) /\ MappedFiles(db') \subseteq DOMAIN db'.files
    BY <1>1, <2>2, <2>3 DEF FileMappingSet, MappedFiles
  <2>5. ASSUME Meeting PROVE p \in DOMAIN proj /\ proj[p] = pass.scan[p] /\ proj[p] \in FileNode
    BY <1>0, <2>1, <2>5, EntryThere
  <2>6. Saw(p, r) /\ proj' = proj
    BY <1>4
  <2>7. r \in FileRow /\ r \in DOMAIN db'.maps /\ db'.maps[r].path = p
    BY <2>1, <2>2
  <2>8. Meeting => /\ p \in DOMAIN proj /\ DOMAIN proj' = DOMAIN proj
                    /\ proj'[p] = db'.maps[r].node /\ proj'[p] \in FileNode
                    /\ \A q \in DOMAIN proj \ {p} : proj'[q] = proj[q]
    BY <1>4, <2>2, <2>5, <2>6
  <2> QED BY <1>0, <2>1, <2>4, <2>6, <2>7, <2>8, EntersFile
<1>5. CASE files = {} /\ folders = {} /\ Import(db, p)
  <2>1. MappedAt(db, p) = {}
    BY <1>1, <1>5, SmbKinds DEF MappedAt
  <2> QED BY <1>0, <1>5, <2>1, ImportAgrees
<1>6. ASSUME NEW r \in folders, db' = FolderDeleted(db, r), UNCHANGED <<proj, pass>>
      PROVE  AgreeInv'
  <2>1. r \in DOMAIN db.maps \cap FolderRow /\ db.maps[r].path = p /\ p[1] = Root /\ p[2] # Root
    <3>1. r \in DOMAIN db.maps \cap FolderRow /\ db.maps[r].path = p
      BY DEF MappedAt
    <3> QED BY <1>1, <3>1, MappingFacts, SmbSyncAssumption
  <2>2. /\ DOMAIN db'.maps = {s \in DOMAIN db.maps : db.maps[s].path # p /\ ~InDir(db.maps[s].path, p)}
        /\ \A s \in DOMAIN db'.maps : db'.maps[s] = db.maps[s]
    <3>1. PICK e : e = FolderDeleted(db, r) /\ e = db'
      BY <1>6
    <3>2. /\ DOMAIN e.maps \subseteq DOMAIN db.maps
          /\ \A s \in DOMAIN db.maps :
               s \in DOMAIN e.maps <=> /\ db.maps[s].path # db.maps[r].path
                                       /\ ~InDir(db.maps[s].path, db.maps[r].path)
          /\ \A s \in DOMAIN e.maps : e.maps[s] = db.maps[s]
      BY <1>1, <2>1, <3>1, FolderDeletedMaps
    <3> QED BY <2>1, <3>1, <3>2
  <2>3. MappedFiles(db') \subseteq DOMAIN db'.files
    BY <1>1, <1>6, <2>1, FolderDeletedFiles
  <2>4. ASSUME pass'.calm PROVE Meeting' /\ UnseenLeft'
    <3>1. Meeting
      BY <1>0, <1>6, <2>4, ComparingFacts
    <3>2. p \notin Dirs(pass.scan) /\ Unmet(p)
      BY <1>0, <1>2, ComparingFacts DEF Unmet, Leaves
    <3>3. \A s \in pass.seen : s \in DOMAIN db'.maps /\ db'.maps[s] = db.maps[s]
      <4> TAKE s \in pass.seen
      <4>1. PICK q \in DOMAIN proj : s \in DOMAIN db.maps /\ ~Unmet(q) /\ db.maps[s].path = q
        BY <3>1 DEF Meeting, SeenMet
      <4>2. q # p
        BY <3>2, <4>1
      <4>3. ~InDir(q, p)
        <5> SUFFICES ASSUME InDir(q, p) PROVE FALSE
          OBVIOUS
        <5>1. q[1] # Root /\ Top(q[1]) = p
          BY <1>1, <2>1, EntryFacts DEF InDir, Top, Path
        <5>2. p \in DOMAIN proj /\ proj[p] \in DirNode
          BY <1>1, <5>1, EntryFacts
        <5> QED BY <1>1, <3>1, <3>2, <5>2, MetDir
      <4> QED BY <2>2, <4>1, <4>2, <4>3
    <3>4. \A q \in Dirs(pass.scan) \ DOMAIN proj : MappedAt(db', q) \cap FolderRow = {}
      <4> TAKE q \in Dirs(pass.scan) \ DOMAIN proj
      <4>1. MappedAt(db, q) \cap FolderRow = {}
        BY <1>1, <3>1, MeetingDirs
      <4> QED BY <2>2, <4>1 DEF MappedAt
    <3>5. \A q \in DOMAIN pass.scan : Unmet(q)' <=> Unmet(q)
      BY <1>6 DEF Unmet, At
    <3>6. Meeting'
      BY <1>6, <3>1, <3>3, <3>4, <3>5, MeetsStill
    <3> QED BY <1>0, <1>6, <3>6 DEF UnseenLeft, At
  <2> QED BY <1>0, <1>6, <2>3, <2>4, AgreeCompared DEF Agreeing
<1>7. ASSUME NEW r \in folders, TornDeletion(FilesOf(db, r)) PROVE AgreeInv'
  BY <1>7, AgreeEnds DEF TornDeletion
<1> QED BY <1>1, <1>3, <1>4, <1>5, <1>6, <1>7 DEF EnterFile

-----------------------------------------------------------------------------
\* What was not seen is deleted.
LEMMA BeginDeletionsAgrees ==
  ASSUME Agreeing, BeginDeletions \/ BeginFolderDeletions
  PROVE  AgreeInv'
<1>0. /\ pass.at \in Comparing /\ pass.todo = {} /\ UNCHANGED <<db, proj>>
      /\ \/ At("files") /\ Goes("deletefiles", MappedFiles(db) \ pass.seen)
         \/ At("deletefiles") /\ Goes("deletefolders", MappedFolders(db) \ pass.seen)
  BY DEF BeginDeletions, BeginFolderDeletions, At, Comparing
<1>1. /\ SmbInv /\ SmbInv' /\ IsPass(pass) /\ MappedFiles(db) \subseteq DOMAIN db.files
      /\ \A q \in DOMAIN pass.scan : q \in Leaves(pass.scan) <=> q \notin Dirs(pass.scan)
  BY <1>0, ComparingFacts
<1>2. /\ pass'.scan = pass.scan /\ pass'.seen = pass.seen /\ pass'.calm = pass.calm
      /\ \/ At("files") /\ pass'.at = "deletefiles" /\ pass'.todo = MappedFiles(db) \ pass.seen
         \/ At("deletefiles") /\ pass'.at = "deletefolders" /\ pass'.todo = MappedFolders(db) \ pass.seen
  BY <1>0, <1>1, PassGoes
<1>3. ASSUME pass'.calm PROVE Meeting' /\ UnseenLeft'
  <2>1. Meeting /\ UnseenLeft
    BY <1>0, <1>2, <1>3, ComparingFacts
  <2>2. \A q \in DOMAIN pass.scan : Unmet(q)' <=> Unmet(q)
    <3>1. Dirs(pass'.scan) = Dirs(pass.scan)
      BY <1>2
    <3> QED BY <1>0, <1>2, <3>1 DEF Unmet, At
  <2>3. Meeting'
    <3>1. \A q \in Dirs(pass.scan) \ DOMAIN proj : MappedAt(db', q) \cap FolderRow = {}
      BY <1>0, <1>1, <2>1, MeetingDirs
    <3>2. \A s \in pass.seen : s \in DOMAIN db'.maps /\ db'.maps[s] = db.maps[s]
      BY <1>0, <2>1, SeenFacts
    <3> QED BY <1>0, <1>2, <2>1, <2>2, <3>1, <3>2, MeetsStill
  <2>4. UnseenLeft'
    <3>1. CASE At("files")
      BY <1>0, <1>2, <3>1 DEF UnseenLeft, At
    <3>2. CASE At("deletefiles")
      <4>1. MappedFiles(db) \subseteq pass.seen
        BY <1>0, <2>1, <3>2 DEF UnseenLeft
      <4> QED BY <1>0, <1>2, <3>2, <4>1 DEF UnseenLeft, At
    <3> QED BY <1>2, <3>1, <3>2
  <2> QED BY <2>3, <2>4
<1>4. pass'.at \in Comparing /\ MappedFiles(db') \subseteq DOMAIN db'.files
  BY <1>0, <1>1, <1>2 DEF Comparing
<1> QED BY <1>1, <1>3, <1>4, AgreeCompared

LEMMA UnseenDeleted ==
  ASSUME Agreeing, At("deletefiles") \/ At("deletefolders"), NEW r \in pass.todo, Did(r), UNCHANGED proj,
         MappedFiles(db') \subseteq DOMAIN db'.files,
         DOMAIN db'.maps \subseteq DOMAIN db.maps \ {r},
         \A s \in DOMAIN db'.maps : db'.maps[s] = db.maps[s],
         Meeting /\ UnseenLeft => pass.seen \subseteq DOMAIN db'.maps
  PROVE  AgreeInv'
<1>0. pass.at \in Comparing /\ (At("deletefiles") <=> ~At("deletefolders"))
  BY DEF At, Comparing
<1>1. SmbInv /\ SmbInv' /\ IsPass(pass)
  BY <1>0, ComparingFacts
<1>2. /\ pass'.at = pass.at /\ pass'.scan = pass.scan /\ pass'.seen = pass.seen /\ pass'.calm = pass.calm
      /\ pass'.todo = pass.todo \ {r}
  BY <1>1, PassDid
<1>3. ASSUME pass'.calm PROVE Meeting' /\ UnseenLeft'
  <2>1. Meeting /\ UnseenLeft
    BY <1>0, <1>2, <1>3, ComparingFacts
  <2>2. \A q \in DOMAIN pass.scan : Unmet(q)' <=> Unmet(q)
    <3>1. Dirs(pass'.scan) = Dirs(pass.scan)
      BY <1>2
    <3> QED BY <1>0, <1>2, <3>1 DEF Unmet, At
  <2>3. Meeting'
    <3>1. \A q \in Dirs(pass.scan) \ DOMAIN proj : MappedAt(db', q) \cap FolderRow = {}
      <4> TAKE q \in Dirs(pass.scan) \ DOMAIN proj
      <4>1. MappedAt(db, q) \cap FolderRow = {}
        BY <1>1, <2>1, MeetingDirs
      <4> QED BY <4>1 DEF MappedAt
    <3>2. \A s \in pass.seen : s \in DOMAIN db'.maps /\ db'.maps[s] = db.maps[s]
      BY <2>1
    <3> QED BY <1>2, <2>1, <2>2, <3>1, <3>2, MeetsStill
  <2>4. UnseenLeft'
    <3>1. /\ MappedFiles(db') \subseteq MappedFiles(db) \ {r}
          /\ MappedFolders(db') \subseteq MappedFolders(db) \ {r}
      BY DEF MappedFiles, MappedFolders
    <3> QED BY <1>0, <1>2, <2>1, <3>1 DEF UnseenLeft, At
  <2> QED BY <2>3, <2>4
<1> QED BY <1>0, <1>1, <1>2, <1>3, AgreeCompared

LEMMA DeleteUnseenFileAgrees ==
  ASSUME Agreeing, NEW r \in FileRow, DeleteUnseenFile(r)
  PROVE  AgreeInv'
<1>0. pass.at \in Comparing /\ At("deletefiles") /\ r \in pass.todo /\ UNCHANGED proj
  BY DEF DeleteUnseenFile, At, Comparing
<1>1. TablesGood(db) /\ MappedFiles(db) \subseteq DOMAIN db.files
  BY <1>0, ComparingFacts
<1>2. CASE EndsWithin
  BY <1>2, AgreeEnds
<1>3. CASE db' = FileDeleted(db, r) /\ Did(r)
  <2>1. db'.files = Without(db.files, {r}) /\ db'.maps = Without(db.maps, {r})
    BY <1>1, <1>3, FileDeletedGood
  <2>2. /\ DOMAIN db'.files = DOMAIN db.files \ {r} /\ DOMAIN db'.maps = DOMAIN db.maps \ {r}
        /\ \A s \in DOMAIN db'.maps : db'.maps[s] = db.maps[s]
    BY <2>1 DEF Without, Restrict
  <2>3. MappedFiles(db') \subseteq DOMAIN db'.files
    BY <1>1, <2>2 DEF MappedFiles
  <2>4. ASSUME Meeting, UnseenLeft PROVE pass.seen \subseteq DOMAIN db'.maps
    BY <1>0, <2>2, <2>4 DEF Meeting, SeenMet, UnseenLeft, At
  <2> QED BY <1>0, <1>3, <2>2, <2>3, <2>4, UnseenDeleted
<1> QED BY <1>2, <1>3 DEF DeleteUnseenFile

LEMMA DeleteUnseenFolderAgrees ==
  ASSUME Agreeing, NEW r \in FolderRow, DeleteUnseenFolder(r)
  PROVE  AgreeInv'
<1>0. pass.at \in Comparing /\ At("deletefolders") /\ r \in pass.todo /\ UNCHANGED proj
  BY DEF DeleteUnseenFolder, At, Comparing
<1>1. /\ SmbInv /\ TablesGood(db) /\ IsTree(proj) /\ MappedFiles(db) \subseteq DOMAIN db.files
      /\ r \in DOMAIN db.maps \cap FolderRow
  BY <1>0, ComparingFacts DEF SmbInv, PassGood, MappedFolders
<1>2. CASE EndsWithin
  BY <1>2, AgreeEnds
<1>3. CASE db' = FolderDeleted(db, r) /\ Did(r)
  <2>1. PICK d : d = FolderDeleted(db, r) /\ d = db'
    BY <1>3
  <2>2. /\ DOMAIN d.maps \subseteq DOMAIN db.maps
        /\ \A s \in DOMAIN db.maps :
             s \in DOMAIN d.maps <=> /\ db.maps[s].path # db.maps[r].path
                                     /\ ~InDir(db.maps[s].path, db.maps[r].path)
        /\ \A s \in DOMAIN d.maps : d.maps[s] = db.maps[s]
    BY <1>1, <2>1, FolderDeletedMaps
  <2>3. MappedFiles(db') \subseteq DOMAIN db'.files
    BY <1>1, <1>3, FolderDeletedFiles
  <2>4. ASSUME Meeting, UnseenLeft PROVE pass.seen \subseteq DOMAIN d.maps
    <3> SUFFICES ASSUME NEW s \in pass.seen PROVE s \in DOMAIN d.maps
      OBVIOUS
    <3>0. PathsUnique(db) /\ r \notin pass.seen
      BY <1>0, <1>1, <2>4 DEF TablesGood, MapsGood, UnseenLeft, At
    <3>1. PICK q \in DOMAIN proj : s \in DOMAIN db.maps /\ ~Unmet(q) /\ db.maps[s].path = q
      BY <2>4 DEF Meeting, SeenMet
    <3>2. q # db.maps[r].path
      BY <1>1, <3>0, <3>1 DEF PathsUnique
    <3>3. PICK p : p = db.maps[r].path
      OBVIOUS
    <3>4. p[1] = Root /\ p[2] # Root /\ p = Top(p[2])
      <4>1. p[1] = Root /\ p[2] \in Name /\ p = <<p[1], p[2]>>
        BY <1>1, <3>3, MappingFacts
      <4> QED BY <4>1, SmbSyncAssumption DEF Top
    <3>5. ~InDir(q, p)
      <4> SUFFICES ASSUME InDir(q, p) PROVE FALSE
        OBVIOUS
      <4>1. q[1] # Root /\ Top(q[1]) = p
        BY <3>4 DEF InDir
      <4>2. p \in DOMAIN proj /\ proj[p] \in DirNode
        BY <1>1, <4>1, EntryFacts
      <4>3. ~Unmet(p)
        BY <1>0 DEF Unmet, At
      <4>4. PICK t \in pass.seen : t \in DOMAIN db.maps /\ db.maps[t].path = p
        BY <1>1, <2>4, <4>2, <4>3, MetDir
      <4> QED BY <1>1, <3>0, <3>3, <4>4 DEF PathsUnique
    <3> QED BY <2>2, <3>1, <3>2, <3>3, <3>5
  <2> QED BY <1>0, <1>1, <1>3, <2>1, <2>2, <2>3, <2>4, UnseenDeleted
<1> QED BY <1>2, <1>3 DEF DeleteUnseenFolder, TornDeletion

-----------------------------------------------------------------------------
\* What is not mapped is projected.
LEMMA BeginProjectAgrees ==
  ASSUME Agreeing, BeginProject
  PROVE  AgreeInv'
<1>0. /\ pass.at \in Comparing /\ At("deletefolders") /\ pass.todo = {} /\ UNCHANGED <<db, proj>>
      /\ Goes("project", Rows(db) \ DOMAIN db.maps)
  BY DEF BeginProject, At, Comparing
<1>1. SmbInv' /\ IsPass(pass) /\ Orphans = {} /\ TablesGood(db)
  BY <1>0, ComparingFacts
<1>2. pass'.at = "project" /\ pass'.calm = pass.calm /\ pass'.todo = Rows(db) \ DOMAIN db.maps
  BY <1>0, <1>1, PassGoes
<1>3. Orphans' = {}
  BY <1>0, <1>1 DEF Orphans, Rows
<1>4. ASSUME pass'.calm PROVE Projected'
  <2>1. Meeting /\ MappedFiles(db) \cup MappedFolders(db) \subseteq pass.seen
    BY <1>0, <1>2, <1>4, ComparingFacts DEF UnseenLeft, At
  <2>2. ASSUME NEW r \in DOMAIN db.maps PROVE InPlace(r)
    <3>1. r \in FileRow \cup FolderRow
      BY <1>1, MappingFacts
    <3> QED BY <2>1, <3>1, SeenFacts DEF MappedFiles, MappedFolders
  <2>3. \A r \in DOMAIN db'.maps : InPlace(r)'
    BY <1>0, <2>2 DEF InPlace
  <2>4. ASSUME NEW p \in DOMAIN proj PROVE p \in {db.maps[r].path : r \in DOMAIN db.maps}
    <3>1. ~Unmet(p)
      BY <1>0 DEF Unmet, At
    <3> QED BY <2>1, <3>1 DEF Meeting, EntriesMet
  <2>5. \A r \in Rows(db') \ DOMAIN db'.maps : At("project")' /\ r \in pass'.todo
    BY <1>0, <1>2 DEF Rows, At
  <2> QED BY <1>0, <1>3, <2>3, <2>4, <2>5 DEF Projected
<1> QED BY <1>2, <1>3, <1>4 DEF AgreeInv, Comparing

LEMMA ProjectAgrees ==
  ASSUME Agreeing, At("project"), NEW r \in pass.todo, NEW dir \in DirOf(db, FolderOf(r)), NEW node,
         NameOf(r) \in Name, dir \in {Root} \cup Name, Project(r, dir, node)
  PROVE  AgreeInv'
<1>0. /\ SmbInv /\ IsPass(pass) /\ TablesGood(db) /\ db \in Tables
      /\ r \in Rows(db) \ DOMAIN db.maps /\ Orphans = {}
      /\ pass.calm => Projected
  BY DEF Agreeing, AgreeInv, SmbInv, PassGood, At, Synchronizing, TablesGood
<1>1. CASE Fails \/ EndsWithin
  BY <1>1, AgreeEnds
<1>2. ASSUME NEW p \in Allocated(dir, NameOf(r), {}), proj' = With(proj, p, node), Did(r),
             db' = [db EXCEPT !.maps = With(@, r, [path |-> p, node |-> node])]
      PROVE  AgreeInv'
  <2>1. p \in Path /\ NoConflict(p, {})
    BY <1>2, AllocatedFacts
  <2>2. p \notin DOMAIN proj
    BY <2>1 DEF NoConflict
  <2> DEFINE v == [path |-> p, node |-> node]
             M == With(db.maps, r, v)
  <2>3. db' = [db EXCEPT !.maps = M] /\ v.path = p /\ v.node = node
    BY <1>2
  <2> HIDE DEF v
  <2>4. DOMAIN M = DOMAIN db.maps \cup {r} /\ M[r] = v /\ \A s \in DOMAIN db.maps \ {r} : M[s] = db.maps[s]
    BY DEF With
  <2> HIDE DEF M
  <2>5. db'.files = db.files /\ db'.folders = db.folders /\ db'.maps = M
    BY <1>0, <2>3 DEF Tables
  <2>6. /\ DOMAIN db'.maps = DOMAIN db.maps \cup {r}
        /\ db'.maps[r].path = p /\ db'.maps[r].node = node
        /\ \A s \in DOMAIN db.maps : db'.maps[s] = db.maps[s]
    BY <1>0, <2>3, <2>4, <2>5
  <2>7. DOMAIN proj' = DOMAIN proj \cup {p} /\ proj'[p] = node /\ \A q \in DOMAIN proj : proj'[q] = proj[q]
    <3>1. proj' = With(proj, p, node)
      BY <1>2
    <3> QED BY <2>2, <3>1 DEF With
  <2>8. pass'.at = "project" /\ pass'.calm = pass.calm /\ pass'.todo = pass.todo \ {r}
    BY <1>0, <1>2, PassDid DEF At
  <2>9. Orphans' = {}
    BY <1>0, <2>5, <2>6 DEF Orphans, Rows
  <2>10. ASSUME pass'.calm PROVE Projected'
    <3>1. Projected
      BY <1>0, <2>8, <2>10
    <3>2. ASSUME NEW s \in DOMAIN db'.maps PROVE InPlace(s)'
      <4>1. CASE s = r
        BY <2>6, <2>7, <4>1 DEF InPlace
      <4>2. CASE s # r
        <5>1. s \in DOMAIN db.maps /\ InPlace(s)
          BY <2>6, <3>1, <4>2 DEF Projected
        <5> QED BY <2>6, <2>7, <5>1 DEF InPlace
      <4> QED BY <4>1, <4>2
    <3>3. ASSUME NEW q \in DOMAIN proj' PROVE \E s \in DOMAIN db'.maps : q = db'.maps[s].path
      <4>1. CASE q = p
        BY <2>6, <4>1
      <4>2. CASE q # p
        <5>1. PICK s \in DOMAIN db.maps : q = db.maps[s].path
          BY <2>7, <3>1, <4>2 DEF Projected
        <5> QED BY <2>6, <5>1
      <4> QED BY <4>1, <4>2
    <3>4. DOMAIN proj' \subseteq {db'.maps[s].path : s \in DOMAIN db'.maps}
      BY <3>3
    <3>5. \A s \in Rows(db') \ DOMAIN db'.maps : At("project")' /\ s \in pass'.todo
      BY <2>5, <2>6, <2>8, <3>1 DEF Rows, Projected, At
    <3> QED BY <2>9, <3>2, <3>4, <3>5 DEF Projected
  <2> QED BY <2>8, <2>9, <2>10 DEF AgreeInv, Comparing
<1> QED BY <1>1, <1>2 DEF Project

LEMMA ProjectsAgree ==
  ASSUME Agreeing
  PROVE  /\ \A r \in FolderRow, node \in DirNode : ProjectFolder(r, node) => AgreeInv'
         /\ \A r \in FileRow : ProjectFile(r) => AgreeInv'
<1>0. SmbInv /\ TablesGood(db) /\ db \in Tables
  BY DEF Agreeing, SmbInv, TablesGood
<1>1. ASSUME NEW r \in FolderRow, NEW node \in DirNode, ProjectFolder(r, node) PROVE AgreeInv'
  <2>1. Root \in DirOf(db, FolderOf(r))
    BY DEF FolderOf, DirOf
  <2>2. At("project") /\ r \in pass.todo /\ Project(r, Root, node)
    BY <1>1 DEF ProjectFolder
  <2>3. r \in DOMAIN db.folders
    BY <1>0, <2>2, TablesFields, SmbSyncAssumption DEF SmbInv, PassGood, At, Rows
  <2>4. NameOf(r) \in Name
    BY <1>0, <2>3, TablesFields DEF NameOf
  <2> QED BY <2>1, <2>2, <2>4, ProjectAgrees
<1>2. ASSUME NEW r \in FileRow, ProjectFile(r) PROVE AgreeInv'
  <2>0. At("project") /\ r \in pass.todo /\ r \notin FolderRow
    BY <1>2, SmbSyncAssumption DEF ProjectFile
  <2>1. r \in DOMAIN db.files
    BY <1>0, <2>0, TablesFields DEF SmbInv, PassGood, At, Rows
  <2>2. NameOf(r) \in Name /\ FolderOf(r) \in {Root} \cup FolderRow
    <3>1. db.files[r] \in FileRecord
      BY <1>0, <2>1, TablesFields
    <3> QED BY <2>0, <3>1 DEF NameOf, FolderOf, FileRecord
  <2>3. PICK dir \in DirOf(db, FolderOf(r)) :
          IF db.files[r].blob = NoData THEN Fails /\ UNCHANGED <<db, proj, events>>
          ELSE Project(r, dir, db.files[r].blob)
    BY <1>2 DEF ProjectFile
  <2>4. dir \in {Root} \cup Name
    <3>1. PICK q : q = <<dir, dir>>
      OBVIOUS
    <3> QED BY <1>0, <2>2, <2>3, <3>1, DirOfFacts
  <2>5. CASE db.files[r].blob = NoData
    BY <2>3, <2>5, AgreeEnds
  <2>6. CASE db.files[r].blob # NoData
    BY <2>0, <2>2, <2>3, <2>4, <2>6, ProjectAgrees
  <2> QED BY <2>5, <2>6
<1> QED BY <1>1, <1>2

LEMMA EndPassAgrees ==
  ASSUME Agreeing, EndPass
  PROVE  AgreeInv'
<1> DEFINE calm == pass.calm
<1>0. /\ At("project") /\ pass.at = "project" /\ pass.todo = {} /\ UNCHANGED <<db, proj>>
      /\ pass' = Rest("done", calm) /\ calm = pass.calm
  BY DEF EndPass, At
<1> HIDE DEF calm
<1>1. pass'.at = "done" /\ pass'.calm = pass.calm
  BY <1>0, RestIs
<1>2. ASSUME pass.calm PROVE Projected'
  <2>1. Projected
    BY <1>0, <1>2 DEF Agreeing, AgreeInv
  <2>2. \A r \in DOMAIN db'.maps : InPlace(r)'
    BY <1>0, <2>1 DEF Projected, InPlace
  <2>3. Rows(db') \ DOMAIN db'.maps = {} /\ Orphans' = {}
    BY <1>0, <2>1 DEF Projected, Rows, Orphans
  <2>4. DOMAIN proj' \subseteq {db'.maps[r].path : r \in DOMAIN db'.maps}
    BY <1>0, <2>1 DEF Projected
  <2> QED BY <2>2, <2>3, <2>4 DEF Projected
<1> QED BY <1>1, <1>2 DEF AgreeInv, Comparing, Synchronizing

-----------------------------------------------------------------------------
(* Agreement.                                                                *)

LEMMA AgreeStarts == SmbInit => AgreeInv
<1> SUFFICES ASSUME SmbInit PROVE AgreeInv
  OBVIOUS
<1>1. pass.at = "idle"
  <2>1. pass = Rest("idle", FALSE)
    BY DEF SmbInit
  <2> QED BY <2>1, RestIs
<1> QED BY <1>1 DEF AgreeInv, Comparing, Synchronizing

LEMMA AgreeStep ==
  ASSUME SmbInv, AgreeInv, SmbNext
  PROVE  AgreeInv'
<1>1. Agreeing /\ SmbAction
  BY SmbStep DEF Agreeing, SmbNext
<1> QED
  BY <1>1, ResetAgrees, EarlyAgrees, ScansAgree, StagesAgree, MoveFolderAgrees, MoveFileAgrees,
     EnterFolderAgrees, EnterFileAgrees, BeginDeletionsAgrees, DeleteUnseenFileAgrees,
     DeleteUnseenFolderAgrees, BeginProjectAgrees, ProjectsAgree, EndPassAgrees
     DEF SmbAction

LEMMA AgreeStutters == AgreeInv /\ UNCHANGED smbVars => AgreeInv'
<1> SUFFICES ASSUME AgreeInv, UNCHANGED smbVars PROVE AgreeInv'
  OBVIOUS
<1>1. UNCHANGED <<db, proj, pass>>
  BY DEF smbVars
<1>2. \A p : Unmet(p)' <=> Unmet(p)
  BY <1>1 DEF Unmet, At
<1>3. Orphans' = Orphans /\ (Projected' <=> Projected) /\ (UnseenLeft' <=> UnseenLeft)
  BY <1>1 DEF Orphans, Projected, InPlace, UnseenLeft, At
<1>4. Meeting => Meeting'
  BY <1>1, <1>2 DEF Meeting, EntriesMet, ScanMet, SeenMet
<1> QED BY <1>1, <1>3, <1>4 DEF AgreeInv

LEMMA AgreeHolds == FilesSpec => []AgreeInv
<1>1. FilesInit => AgreeInv
  BY AgreeStarts DEF FilesInit
<1>2. SmbInv /\ AgreeInv /\ [FilesNext]_fileVars => AgreeInv'
  BY AgreeStep, AgreeStutters DEF FilesNext, fileVars
<1> QED BY <1>1, <1>2, SmbHolds, PTL DEF FilesSpec

\* A pass that nothing disturbed leaves the database and the projection in agreement: every
\* row is mapped and every mapping is of a row, every entry is mapped and has the recorded
\* identity, a file lies in the directory of its folder and its stored data is the inode of
\* its entry, unless a user changed it while a pass ran (smb-sync-service.js:1083-1089).
THEOREM PassesAgree == FilesSpec => []Agreement
<1>1. SmbInv /\ AgreeInv /\ PlaceInv => Agreement
  <2> SUFFICES ASSUME SmbInv, AgreeInv, PlaceInv, pass.at = "done", pass.calm
               PROVE  /\ DOMAIN db.maps = Rows(db)
                      /\ DOMAIN proj = {db.maps[r].path : r \in DOMAIN db.maps}
                      /\ \A r \in DOMAIN db.maps : proj[db.maps[r].path] = db.maps[r].node
                      /\ \A r \in DOMAIN db.files :
                           /\ db.files[r].blob \in {db.maps[r].node, NoData} \/ db.maps[r].node \in raced
                           /\ ParentOf(db, db.maps[r].path) = {db.files[r].folder}
    BY DEF Agreement
  <2>1. Projected /\ ~At("project")
    BY DEF AgreeInv, At
  <2>2. DOMAIN db.maps = Rows(db)
    BY <2>1 DEF Projected, Orphans
  <2>3. DOMAIN proj = {db.maps[r].path : r \in DOMAIN db.maps}
    BY <2>1 DEF Projected, InPlace
  <2>4. \A r \in DOMAIN db.maps : proj[db.maps[r].path] = db.maps[r].node
    BY <2>1 DEF Projected, InPlace
  <2>5. ASSUME NEW r \in DOMAIN db.files
        PROVE  /\ db.files[r].blob \in {db.maps[r].node, NoData} \/ db.maps[r].node \in raced
               /\ ParentOf(db, db.maps[r].path) = {db.files[r].folder}
    <3>1. r \in DOMAIN db.maps
      BY <2>2 DEF Rows
    <3>2. ParentOf(db, db.maps[r].path) = {db.files[r].folder}
      BY <3>1 DEF SmbInv, TablesGood, Placed
    <3>3. db.files[r].blob \in {db.maps[r].node, NoData} \/ db.maps[r].node \in raced
      <4>1. r \in MappedFiles(db) \cap DOMAIN db.files
        BY <3>1, SmbKinds DEF MappedFiles
      <4> QED BY <4>1 DEF PlaceInv, ContentsRaced, DataRaced
    <3> QED BY <3>2, <3>3
  <2> QED BY <2>2, <2>3, <2>4, <2>5
<1> QED BY <1>1, SmbHolds, PlaceHolds, AgreeHolds, PTL
=============================================================================
