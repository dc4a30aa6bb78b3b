----------------------------- MODULE ProgressProofs -----------------------------
(***************************************************************************)
(* Proofs about the parts that MCProgress puts side by side and that have    *)
(* no proof module of their own: the browser's pane and transfers, the       *)
(* slots of previews and what they list, the listeners and the published     *)
(* share.  One part moves at a time and the others stay, so each is proved   *)
(* on its own steps.                                                         *)
(***************************************************************************)
EXTENDS MCProgress, FiniteSetTheorems, SequenceTheorems, TLAPS

-----------------------------------------------------------------------------
(* The transfer bar.  A bar that is busy is one that no timer will hide and   *)
(* no button can; that is what keeps it in view.                             *)

BarType ==
  [state : {"idle", "active", "success", "error", "canceled"}, busy : BOOLEAN, hidden : BOOLEAN,
   action : {"none", "cancel", "hide"}, hiding : BOOLEAN]
UploadType == [stage : {"none", "sending", "processing", "done"}, locked : BOOLEAN]

TransferInv ==
  /\ bar \in BarType /\ upload \in UploadType
  /\ download \in {"none", "receiving", "aborted"} /\ leaving \in BOOLEAN
  /\ BarFollowsTransfer
  /\ bar.busy => ~bar.hiding /\ bar.action # "hide"

LEMMA TransferStarts == ClientInit => TransferInv
<1> SUFFICES ASSUME ClientInit PROVE TransferInv
  OBVIOUS
<1>1. bar \in BarType /\ ~bar.busy /\ bar.action = "none"
  BY DEF ClientInit, BarType
<1>2. upload \in UploadType /\ upload.stage = "none" /\ ~upload.locked
  BY DEF ClientInit, UploadType, NoTransfer
<1> QED BY <1>1, <1>2 DEF ClientInit, TransferInv, BarFollowsTransfer, Uploading

LEMMA BarForms ==
  ASSUME bar \in BarType, NEW state \in {"success", "error", "canceled"}
  PROVE  /\ Started \in BarType /\ Started.busy /\ ~Started.hidden /\ Started.state = "active"
         /\ Started.action = "cancel" /\ ~Started.hiding
         /\ EndedBar(state) \in BarType /\ ~EndedBar(state).busy /\ EndedBar(state).action = "hide"
         /\ Hidden \in BarType /\ Hidden.busy = bar.busy /\ Hidden.action = bar.action
         /\ [Hidden EXCEPT !.busy = FALSE, !.action = "none"] \in BarType
         /\ ~[Hidden EXCEPT !.busy = FALSE, !.action = "none"].busy
         /\ [Hidden EXCEPT !.busy = FALSE, !.action = "none"].action = "none"
<1>1. /\ Started \in BarType /\ Started.busy /\ ~Started.hidden /\ Started.state = "active"
      /\ Started.action = "cancel" /\ ~Started.hiding
  BY DEF Started, BarType, TimerAfterStart
<1>2. EndedBar(state) \in BarType /\ ~EndedBar(state).busy /\ EndedBar(state).action = "hide"
  BY DEF EndedBar, BarType
<1>3. Hidden \in BarType /\ Hidden.busy = bar.busy /\ Hidden.action = bar.action
  BY DEF Hidden, BarType
<1>4. /\ [Hidden EXCEPT !.busy = FALSE, !.action = "none"] \in BarType
      /\ ~[Hidden EXCEPT !.busy = FALSE, !.action = "none"].busy
      /\ [Hidden EXCEPT !.busy = FALSE, !.action = "none"].action = "none"
  BY <1>3 DEF BarType
<1> QED BY <1>1, <1>2, <1>3, <1>4

LEMMA TransferKeeps == TransferInv /\ TransferStep => TransferInv'
<1> SUFFICES ASSUME TransferInv, TransferStep PROVE TransferInv'
  OBVIOUS
<1> USE DEF TransferInv, BarFollowsTransfer, Uploading
<1>1. CASE SubmitUpload
  <2>1. upload' \in UploadType /\ upload'.stage = "sending" /\ upload'.locked
    BY <1>1 DEF SubmitUpload, UploadType
  <2> QED BY <1>1, <2>1, BarForms DEF SubmitUpload
<1>2. CASE BodySent
  <2>1. upload' \in UploadType /\ upload'.stage = "processing" /\ upload'.locked = upload.locked
    BY <1>2 DEF BodySent, UploadType
  <2>2. /\ bar' \in BarType /\ bar'.action = "none" /\ bar'.busy = bar.busy
        /\ bar'.hidden = bar.hidden /\ bar'.state = bar.state /\ bar'.hiding = bar.hiding
    BY <1>2 DEF BodySent, BarType
  <2> QED BY <1>2, <2>1, <2>2 DEF BodySent
<1>3. CASE UploadSucceeds
  <2>1. upload' \in UploadType /\ upload'.stage = "done" /\ upload'.locked = upload.locked
    BY <1>3 DEF UploadSucceeds, UploadType
  <2> QED BY <1>3, <2>1, BarForms DEF UploadSucceeds
<1>4. CASE UploadFails
  <2>1. upload' \in UploadType /\ upload'.stage = "none" /\ ~upload'.locked
    BY <1>4 DEF UploadFails, UploadType, NoTransfer
  <2> QED BY <1>4, <2>1, BarForms DEF UploadFails
<1>5. CASE StartDownload
  BY <1>5, BarForms DEF StartDownload
<1>6. CASE DownloadEnds
  <2>1. bar' \in BarType /\ ~bar'.busy /\ bar'.action = "hide"
    BY <1>6, BarForms DEF DownloadEnds
  <2> QED BY <1>6, <2>1 DEF DownloadEnds
<1>7. CASE DownloadFails
  BY <1>7, BarForms DEF DownloadFails
<1>8. CASE ClickCancel
  <2>1. CASE upload.stage = "sending" /\ upload' = NoTransfer /\ bar' = EndedBar("canceled")
             /\ UNCHANGED download
    <3>1. upload' \in UploadType /\ upload'.stage = "none" /\ ~upload'.locked
      BY <2>1 DEF UploadType, NoTransfer
    <3> QED BY <1>8, <2>1, <3>1, BarForms DEF ClickCancel
  <2>2. CASE download = "receiving" /\ download' = "aborted" /\ UNCHANGED <<bar, upload>>
    BY <1>8, <2>2 DEF ClickCancel
  <2> QED BY <1>8, <2>1, <2>2 DEF ClickCancel
<1>9. CASE Hide
  BY <1>9, BarForms DEF Hide
<1>10. CASE Leave
  <2>1. upload' \in UploadType /\ upload'.stage = "none" /\ ~upload'.locked
    BY <1>10 DEF Leave, UploadType, NoTransfer
  <2> QED BY <1>10, <2>1, BarForms DEF Leave
<1> QED BY <1>1, <1>2, <1>3, <1>4, <1>5, <1>6, <1>7, <1>8, <1>9, <1>10 DEF TransferStep

-----------------------------------------------------------------------------
(* The pane.                                                                 *)

LoadType == [stage : {"idle", "fetching", "reading", "aborted", "empty"}, key : Key \cup {NoKey}]
PaneType == [what : {"hint", "loading", "content", "notice", "error"}, key : Key \cup {NoKey}]

\* A load that is under way is of some file.
Keyed(t) ==
  /\ t \in [Load -> LoadType]
  /\ \A l \in Load : t[l].stage # "idle" => t[l].key \in Key

PaneInv ==
  /\ selected \in Item \cup {NoItem} /\ controller \in Load \cup {NoLoad}
  /\ pane \in PaneType
  /\ loadedKey \in Key \cup {NoKey} /\ wanted \in Key \cup {NoKey}
  /\ Keyed(loads)
  /\ pane.what = "content" => pane.key \in Key
  /\ ContentIsOfSelection

LEMMA KeysNamed ==
  /\ Idle \in LoadType /\ NoKey \in Key \cup {NoKey}
  /\ \A what \in {"hint", "loading", "content", "notice", "error"}, key \in Key \cup {NoKey} :
       /\ Showing(what, key) \in PaneType
       /\ Showing(what, key).what = what /\ Showing(what, key).key = key
BY DEF Idle, LoadType, Showing, PaneType

LEMMA AbortedKeyed ==
  ASSUME Keyed(loads)
  PROVE  Keyed(Aborted)
<1>1. ASSUME NEW l \in Load
      PROVE  Aborted[l] \in LoadType /\ (Aborted[l].stage # "idle" => Aborted[l].key \in Key)
  <2>1. loads[l] \in LoadType /\ (loads[l].stage # "idle" => loads[l].key \in Key)
    BY DEF Keyed
  <2>2. CASE l # controller
    BY <2>1, <2>2 DEF Aborted
  <2>3. CASE l = controller
    <3> DEFINE s == CASE loads[l].stage = "fetching" -> "aborted"
                      [] loads[l].stage = "reading"  -> "empty"
                      [] OTHER                       -> loads[l].stage
    <3>1. Aborted[l] = [loads[l] EXCEPT !.stage = s]
      BY <2>3 DEF Aborted
    <3>2. /\ s \in {"idle", "fetching", "reading", "aborted", "empty"}
          /\ s = "idle" <=> loads[l].stage = "idle"
      BY <2>1 DEF LoadType
    <3> HIDE DEF s
    <3> QED BY <2>1, <3>1, <3>2 DEF LoadType
  <2> QED BY <2>2, <2>3
<1>2. Aborted = [l \in Load |-> Aborted[l]]
  BY DEF Aborted
<1> HIDE DEF Aborted
<1> QED BY <1>1, <1>2 DEF Keyed

LEMMA PaneStarts == ClientInit => PaneInv
<1> SUFFICES ASSUME ClientInit PROVE PaneInv
  OBVIOUS
<1>1. pane \in PaneType /\ pane.what = "hint"
  BY KeysNamed DEF ClientInit
<1>2. Keyed(loads)
  BY KeysNamed DEF ClientInit, Idle, Keyed
<1> QED BY <1>1, <1>2, KeysNamed DEF ClientInit, PaneInv, ContentIsOfSelection

\* A load takes its place in the table, or leaves it.
LEMMA LoadSet ==
  ASSUME NEW t, Keyed(t), NEW l \in Load, NEW v \in LoadType, v.stage # "idle" => v.key \in Key
  PROVE  Keyed([t EXCEPT ![l] = v])
BY DEF Keyed

LEMMA IdleSet ==
  ASSUME NEW t, Keyed(t), NEW l \in Load
  PROVE  Keyed([t EXCEPT ![l] = Idle])
<1>1. Idle \in LoadType /\ Idle.stage = "idle"
  BY DEF Idle, LoadType
<1> QED BY <1>1, LoadSet

LEMMA SelectKeeps ==
  ASSUME PaneInv, NEW i \in Item \cup {NoItem}, Select(i)
  PROVE  PaneInv'
<1>1. pane' = Showing("hint", NoKey) /\ controller' = NoLoad /\ selected' = i
      /\ loadedKey' = NoKey /\ wanted' = NoKey /\ loads' = Aborted
  BY DEF Select, Message
<1>2. pane' \in PaneType /\ pane'.what = "hint"
  BY <1>1, KeysNamed
<1>3. Keyed(loads')
  BY <1>1, AbortedKeyed DEF PaneInv
<1> QED BY <1>1, <1>2, <1>3, KeysNamed DEF PaneInv, ContentIsOfSelection

LEMMA OpenKeeps ==
  ASSUME PaneInv, NEW key \in Key, Open(key)
  PROVE  PaneInv'
<1>1. PICK l \in Load : loads' = [Aborted EXCEPT ![l] = [stage |-> "fetching", key |-> key]]
                        /\ controller' = l
  BY DEF Open
<1>2. Keyed(loads')
  <2> DEFINE v == [stage |-> "fetching", key |-> key]
  <2>1. v \in LoadType /\ v.key \in Key
    BY DEF LoadType
  <2>2. Keyed(Aborted)
    BY AbortedKeyed DEF PaneInv
  <2>3. loads' = [Aborted EXCEPT ![l] = v]
    BY <1>1
  <2> HIDE DEF v
  <2> QED BY <2>1, <2>2, <2>3, LoadSet
<1>3. pane' \in PaneType /\ pane'.what = "loading" /\ wanted' = key
      /\ UNCHANGED <<selected, loadedKey>>
  BY KeysNamed DEF Open
<1> QED BY <1>1, <1>2, <1>3 DEF PaneInv, ContentIsOfSelection

LEMMA OpenPdfKeeps ==
  ASSUME PaneInv, NEW key \in Key, key.item = selected, OpenPdf(key)
  PROVE  PaneInv'
<1>1. pane' \in PaneType /\ pane'.key = key
      /\ loadedKey' = key /\ wanted' = key
      /\ UNCHANGED <<selected, controller, loads>>
  BY KeysNamed DEF OpenPdf
<1> QED BY <1>1 DEF PaneInv, ContentIsOfSelection

LEMMA ClicksKeep ==
  ASSUME PaneInv, ClickTab \/ ClickSheet
  PROVE  PaneInv'
<1>1. CASE ClickTab
  <2> DEFINE key == [item |-> selected, sheet |-> FirstSheet]
  <2>1. selected \in Item
    BY <1>1 DEF ClickTab, PaneInv
  <2>2. key \in Key /\ key.item = selected
    BY <2>1, ClientAssumption DEF Key
  <2>3. OpenPdf(key) \/ Open(key)
    BY <1>1 DEF ClickTab
  <2> HIDE DEF key
  <2> QED BY <2>2, <2>3, OpenKeeps, OpenPdfKeeps
<1>2. CASE ClickSheet
  <2>1. PICK s \in Sheet : Open([item |-> pane.key.item, sheet |-> s])
    BY <1>2 DEF ClickSheet
  <2> DEFINE key == [item |-> pane.key.item, sheet |-> s]
  <2>2. pane.key.item = selected
    BY <1>2 DEF ClickSheet, PaneInv, ContentIsOfSelection
  <2>3. key \in Key
    BY <1>2 DEF ClickSheet, PaneInv, Key
  <2> QED BY <2>1, <2>3, OpenKeeps
<1> QED BY <1>1, <1>2

LEMMA LoadStepsKeep ==
  ASSUME PaneInv, NEW l \in Load,
         HeadersArrive(l) \/ PayloadArrives(l) \/ LoadFails(l) \/ AbortReported(l) \/ EmptyPayload(l)
  PROVE  PaneInv'
<1>0. Keyed(loads) /\ Keyed(Aborted)
  BY AbortedKeyed DEF PaneInv
\* The load that returns is idle again, whatever the others are.
<1>1. ASSUME NEW after, after = loads \/ after = Aborted, Return(l, after)
      PROVE  Keyed(loads') /\ controller' = NoLoad
  BY <1>0, <1>1, IdleSet DEF Return
<1>2. ASSUME ShowError(l), loads[l].stage # "idle"
      PROVE  PaneInv'
  <2>1. loads[l].key \in Key
    BY <1>0, <1>2 DEF Keyed
  <2>2. pane' \in PaneType /\ pane'.what = "error"
    BY <1>2, <2>1, KeysNamed DEF ShowError
  <2>3. Keyed(loads') /\ controller' = NoLoad
    BY <1>1, <1>2 DEF ShowError
  <2> QED BY <1>2, <2>2, <2>3 DEF ShowError, PaneInv, ContentIsOfSelection, NoKey
<1>3. CASE HeadersArrive(l)
  <2>1. loads[l] \in LoadType /\ loads[l].key \in Key
    BY <1>0, <1>3 DEF Keyed, HeadersArrive
  <2> DEFINE v == [loads[l] EXCEPT !.stage = "reading"]
  <2>2. v \in LoadType /\ v.key \in Key
    BY <2>1 DEF LoadType
  <2>3. loads' = [loads EXCEPT ![l] = v]
    BY <1>3 DEF HeadersArrive
  <2> HIDE DEF v
  <2>4. Keyed(loads')
    BY <1>0, <2>2, <2>3, LoadSet
  <2> QED BY <1>3, <2>4 DEF HeadersArrive, PaneInv, ContentIsOfSelection
<1>4. CASE PayloadArrives(l)
  <2>1. loads[l].key \in Key
    BY <1>0, <1>4 DEF PayloadArrives, Keyed
  <2>2. CASE StillSelected(l)
    <3>1. PICK what \in {"content", "notice"} :
            /\ pane' = Showing(what, loads[l].key)
            /\ loadedKey' = loads[l].key
            /\ Return(l, IF what = "notice" THEN Aborted ELSE loads)
      BY <1>4, <2>2 DEF PayloadArrives
    <3>2. pane' \in PaneType /\ pane'.key = loads[l].key /\ loadedKey' = loads[l].key
      BY <2>1, <3>1, KeysNamed
    <3>3. Keyed(loads') /\ controller' = NoLoad
      BY <1>1, <3>1
    <3> QED BY <1>4, <2>1, <2>2, <3>2, <3>3
            DEF PayloadArrives, PaneInv, ContentIsOfSelection, StillSelected
  <2>3. CASE ~StillSelected(l)
    <3>1. UNCHANGED <<pane, loadedKey, selected, wanted>> /\ Return(l, loads)
      BY <1>4, <2>3 DEF PayloadArrives
    <3> QED BY <1>1, <3>1 DEF PaneInv, ContentIsOfSelection
  <2> QED BY <2>2, <2>3
<1>5. CASE LoadFails(l)
  BY <1>2, <1>5 DEF LoadFails
<1>6. CASE AbortReported(l)
  BY <1>1, <1>6 DEF AbortReported, PaneInv, ContentIsOfSelection
<1>7. CASE EmptyPayload(l)
  <2>1. CASE ShowError(l)
    BY <1>2, <1>7, <2>1 DEF EmptyPayload
  <2>2. CASE Return(l, loads) /\ UNCHANGED <<selected, pane, loadedKey, wanted>>
    BY <1>1, <2>2 DEF PaneInv, ContentIsOfSelection
  <2> QED BY <1>7, <2>1, <2>2 DEF EmptyPayload
<1> QED BY <1>3, <1>4, <1>5, <1>6, <1>7

LEMMA PaneKeeps == PaneInv /\ PreviewStep => PaneInv'
<1> SUFFICES ASSUME PaneInv, PreviewStep PROVE PaneInv'
  OBVIOUS
<1>1. CASE \E i \in Item : Select(i)
  BY <1>1, SelectKeeps
<1>2. CASE ClearSelection
  BY <1>2, SelectKeeps DEF ClearSelection
<1>3. CASE ClickTab \/ ClickSheet
  BY <1>3, ClicksKeep
<1>4. CASE \E l \in Load : \/ HeadersArrive(l) \/ PayloadArrives(l) \/ LoadFails(l)
                           \/ AbortReported(l) \/ EmptyPayload(l)
  BY <1>4, LoadStepsKeep
<1> QED BY <1>1, <1>2, <1>3, <1>4 DEF PreviewStep

\* A page that is left takes the pane with it; other transfers leave it alone.
LEMMA PaneOutlivesTransfers == PaneInv /\ TransferStep => PaneInv'
<1> SUFFICES ASSUME PaneInv, TransferStep PROVE PaneInv'
  OBVIOUS
<1>1. CASE Leave
  <2>1. pane' \in PaneType /\ pane'.what = "hint"
    BY <1>1, KeysNamed DEF Leave
  <2>2. Keyed(loads')
    BY <1>1, KeysNamed DEF Leave, Idle, Keyed
  <2> QED BY <1>1, <2>1, <2>2, KeysNamed DEF Leave, PaneInv, ContentIsOfSelection
<1>2. CASE UNCHANGED previewVars
  BY <1>2 DEF previewVars, PaneInv, ContentIsOfSelection
<1> QED BY <1>1, <1>2 DEF TransferStep, SubmitUpload, BodySent, UploadSucceeds, UploadFails,
             StartDownload, DownloadEnds, DownloadFails, ClickCancel, Hide

LEMMA TransfersOutliveThePane == TransferInv /\ PreviewStep => TransferInv'
<1> SUFFICES ASSUME TransferInv, PreviewStep PROVE TransferInv'
  OBVIOUS
<1>1. UNCHANGED transferVars
  BY DEF PreviewStep, Select, ClearSelection, ClickTab, ClickSheet, Open, OpenPdf, HeadersArrive,
         PayloadArrives, LoadFails, ShowError, AbortReported, EmptyPayload
<1> QED BY <1>1 DEF transferVars, TransferInv, BarFollowsTransfer, Uploading

-----------------------------------------------------------------------------
(* The slots of previews.  Two requests that hold a descriptor hold two       *)
(* numbers, because each number names its holder's archive; a worker that has *)
(* sent its message reads no more.                                           *)

Events == {"metadata", "error", "exit", "handled"}

SlotTypes ==
  /\ stage \in [Archive -> {"new", "open", "parsing", "answered"}]
  /\ fdOf \in [Archive -> Number \cup {NoNumber}] /\ table \in [Number -> Archive \cup {NoFile}]
  /\ worker \in [Archive -> {"none", "running", "terminating", "gone"}]
  /\ inbox \in [Archive -> SUBSET Events]
  /\ seen \in [Archive -> SUBSET Archive]
  /\ answer \in [Archive -> {"none", "metadata", "error"}]
  /\ active \in Nat /\ IsFiniteSet(Parsing) /\ active = Cardinality(Parsing) /\ active <= SlotLimit

\* What is true of one request, by the stage it is in.
SlotOK(r) ==
  /\ stage[r] \in {"open", "parsing"} => fdOf[r] \in Number /\ table[fdOf[r]] = r
  /\ stage[r] \in {"new", "open"} =>
       worker[r] = "none" /\ inbox[r] = {} /\ seen[r] = {} /\ answer[r] = "none"
  /\ stage[r] = "parsing" =>
       /\ seen[r] \subseteq {r} /\ answer[r] = "none" /\ "handled" \notin inbox[r]
       /\ "metadata" \in inbox[r] => seen[r] # {}
  /\ stage[r] = "answered" => fdOf[r] \in Number
  /\ answer[r] = "metadata" => seen[r] = {r} /\ inbox[r] # {}

SlotInv == SlotTypes /\ \A r \in Archive : SlotOK(r)

\* A number that changes hands was free or its holder's own.
LEMMA OthersKeepTheirs ==
  ASSUME SlotInv, NEW r \in Archive, NEW fd \in Number, NEW v,
         table[fd] = NoFile \/ (table[fd] = r), table' = [table EXCEPT ![fd] = v],
         NEW s \in Archive, s # r, stage[s] \in {"open", "parsing"}
  PROVE  table'[fdOf[s]] = s
<1>1. fdOf[s] \in Number /\ table[fdOf[s]] = s
  BY DEF SlotInv, SlotOK
<1>2. fdOf[s] # fd
  BY <1>1, SlotAssumption
<1> QED BY <1>1, <1>2 DEF SlotInv, SlotTypes

\* The requests that a step leaves alone.
LEMMA OtherSlots ==
  ASSUME SlotInv, NEW r \in Archive, NEW s \in Archive, s # r,
         stage'[s] = stage[s], fdOf'[s] = fdOf[s], worker'[s] = worker[s],
         inbox'[s] = inbox[s], seen'[s] = seen[s], answer'[s] = answer[s],
         stage[s] \in {"open", "parsing"} => table'[fdOf[s]] = s
  PROVE  SlotOK(s)'
BY DEF SlotInv, SlotOK

LEMMA SlotStarts == SlotInit => SlotInv
<1> SUFFICES ASSUME SlotInit PROVE SlotInv
  OBVIOUS
<1>1. Parsing = {}
  BY DEF SlotInit, Parsing
<1>2. IsFiniteSet({}) /\ Cardinality({}) = 0
  BY FS_EmptySet
<1>3. SlotTypes
  BY <1>1, <1>2, SlotAssumption DEF SlotInit, SlotTypes
<1> QED BY <1>3 DEF SlotInit, SlotInv, SlotOK

\* A request begins to hold a slot, gives it back, or keeps what it has.
LEMMA SlotTaken ==
  ASSUME SlotTypes, NEW r \in Archive, stage[r] # "parsing", active < SlotLimit,
         stage' = [stage EXCEPT ![r] = "parsing"], active' = active + 1
  PROVE  /\ active' \in Nat /\ IsFiniteSet(Parsing') /\ active' = Cardinality(Parsing')
         /\ active' <= SlotLimit
<1>1. Parsing' = Parsing \cup {r} /\ r \notin Parsing
  BY DEF SlotTypes, Parsing
<1>2. IsFiniteSet(Parsing \cup {r}) /\ Cardinality(Parsing \cup {r}) = Cardinality(Parsing) + 1
  BY <1>1, FS_AddElement DEF SlotTypes
<1> QED BY <1>1, <1>2, SlotAssumption DEF SlotTypes

LEMMA SlotFreed ==
  ASSUME SlotTypes, NEW r \in Archive, stage[r] = "parsing", NEW v \in {"open", "answered"},
         stage' = [stage EXCEPT ![r] = v], active' = active - 1
  PROVE  /\ active' \in Nat /\ IsFiniteSet(Parsing') /\ active' = Cardinality(Parsing')
         /\ active' <= SlotLimit
<1>1. Parsing' = Parsing \ {r} /\ r \in Parsing
  BY DEF SlotTypes, Parsing
<1>2. IsFiniteSet(Parsing \ {r}) /\ Cardinality(Parsing \ {r}) = Cardinality(Parsing) - 1
  BY <1>1, FS_RemoveElement DEF SlotTypes
<1>3. Cardinality(Parsing \ {r}) \in Nat
  BY <1>2, FS_CardinalityType
<1> QED BY <1>1, <1>2, <1>3, SlotAssumption DEF SlotTypes

LEMMA SlotsKept ==
  ASSUME SlotTypes, NEW r \in Archive, stage[r] # "parsing", NEW v \in {"open", "answered"},
         stage' = [stage EXCEPT ![r] = v] \/ stage' = stage, active' = active
  PROVE  /\ active' \in Nat /\ IsFiniteSet(Parsing') /\ active' = Cardinality(Parsing')
         /\ active' <= SlotLimit
<1>1. Parsing' = Parsing
  BY DEF SlotTypes, Parsing
<1> QED BY <1>1 DEF SlotTypes

LEMMA OpenArchiveKeeps ==
  ASSUME SlotInv, NEW r \in Archive, OpenArchive(r)
  PROVE  SlotInv'
<1>1. PICK fd \in Number : /\ table[fd] = NoFile
                           /\ table' = [table EXCEPT ![fd] = r]
                           /\ fdOf' = [fdOf EXCEPT ![r] = fd]
  BY DEF OpenArchive
<1>2. /\ stage[r] = "new" /\ stage' = [stage EXCEPT ![r] = "open"]
      /\ UNCHANGED <<active, worker, inbox, seen, answer>>
  BY DEF OpenArchive
<1>3. SlotTypes'
  BY <1>1, <1>2, SlotsKept DEF SlotInv, SlotTypes
<1>4. ASSUME NEW s \in Archive PROVE SlotOK(s)'
  <2>1. CASE s = r
    BY <1>1, <1>2, <2>1 DEF SlotInv, SlotTypes, SlotOK
  <2>2. CASE s # r
    <3>1. stage'[s] = stage[s] /\ fdOf'[s] = fdOf[s]
      BY <1>1, <1>2, <2>2 DEF SlotInv, SlotTypes
    <3>2. stage[s] \in {"open", "parsing"} => table'[fdOf[s]] = s
      BY <1>1, <2>2, OthersKeepTheirs
    <3> QED BY <1>2, <2>2, <3>1, <3>2, OtherSlots
  <2> QED BY <2>1, <2>2
<1> QED BY <1>3, <1>4 DEF SlotInv

\* A reply closes the descriptor, whatever else it does.
LEMMA ReplyKeeps ==
  ASSUME SlotInv, NEW r \in Archive, NEW with \in {"metadata", "error"}, Reply(r, with),
         stage[r] \in {"open", "parsing"}, UNCHANGED <<fdOf, seen>>,
         worker' \in [Archive -> {"none", "running", "terminating", "gone"}],
         inbox' \in [Archive -> SUBSET Events],
         \A s \in Archive : s # r => worker'[s] = worker[s] /\ inbox'[s] = inbox[s],
         /\ active' \in Nat /\ IsFiniteSet(Parsing') /\ active' = Cardinality(Parsing')
         /\ active' <= SlotLimit,
         with = "metadata" => seen[r] = {r} /\ inbox'[r] # {}
  PROVE  SlotInv'
<1>1. fdOf[r] \in Number /\ table[fdOf[r]] = r
  BY DEF SlotInv, SlotOK
<1>2. /\ stage' = [stage EXCEPT ![r] = "answered"] /\ answer' = [answer EXCEPT ![r] = with]
      /\ table' = [table EXCEPT ![fdOf[r]] = NoFile]
  BY DEF Reply
<1>3. SlotTypes'
  <2>1. table' \in [Number -> Archive \cup {NoFile}]
    BY <1>1, <1>2 DEF SlotInv, SlotTypes
  <2>2. answer' \in [Archive -> {"none", "metadata", "error"}]
        /\ stage' \in [Archive -> {"new", "open", "parsing", "answered"}]
    BY <1>2 DEF SlotInv, SlotTypes
  <2> QED BY <2>1, <2>2 DEF SlotInv, SlotTypes
<1>4. ASSUME NEW s \in Archive PROVE SlotOK(s)'
  <2>1. CASE s = r
    <3>1. stage'[r] = "answered" /\ answer'[r] = with /\ fdOf'[r] = fdOf[r] /\ seen'[r] = seen[r]
      BY <1>2 DEF SlotInv, SlotTypes
    <3> QED BY <1>1, <2>1, <3>1 DEF SlotOK
  <2>2. CASE s # r
    <3>1. stage'[s] = stage[s] /\ answer'[s] = answer[s]
      BY <1>2, <2>2 DEF SlotInv, SlotTypes
    <3>2. stage[s] \in {"open", "parsing"} => table'[fdOf[s]] = s
      BY <1>1, <1>2, <2>2, OthersKeepTheirs
    <3> QED BY <2>2, <3>1, <3>2, OtherSlots
  <2> QED BY <2>1, <2>2
<1> QED BY <1>3, <1>4 DEF SlotInv

LEMMA RefusePreviewKeeps ==
  ASSUME SlotInv, NEW r \in Archive, RefusePreview(r)
  PROVE  SlotInv'
<1>1. stage[r] = "open" /\ Reply(r, "error") /\ UNCHANGED <<fdOf, active, worker, inbox, seen>>
  BY DEF RefusePreview
<1>2. /\ active' \in Nat /\ IsFiniteSet(Parsing') /\ active' = Cardinality(Parsing')
      /\ active' <= SlotLimit
  BY <1>1, SlotsKept DEF SlotInv, Reply
<1>3. /\ worker' \in [Archive -> {"none", "running", "terminating", "gone"}]
      /\ inbox' \in [Archive -> SUBSET Events]
  BY <1>1 DEF SlotInv, SlotTypes
<1> QED BY <1>1, <1>2, <1>3, ReplyKeeps

LEMMA StartWorkerKeeps ==
  ASSUME SlotInv, NEW r \in Archive, StartWorker(r)
  PROVE  SlotInv'
<1>1. /\ stage[r] = "open" /\ active < SlotLimit
      /\ stage' = [stage EXCEPT ![r] = "parsing"] /\ active' = active + 1
      /\ worker' = [worker EXCEPT ![r] = "running"]
      /\ UNCHANGED <<fdOf, table, inbox, seen, answer>>
  BY DEF StartWorker, SlotFree
<1>2. SlotTypes'
  <2>1. /\ active' \in Nat /\ IsFiniteSet(Parsing') /\ active' = Cardinality(Parsing')
        /\ active' <= SlotLimit
    BY <1>1, SlotTaken DEF SlotInv
  <2> QED BY <1>1, <2>1 DEF SlotInv, SlotTypes
<1>3. ASSUME NEW s \in Archive PROVE SlotOK(s)'
  BY <1>1 DEF SlotInv, SlotTypes, SlotOK
<1> QED BY <1>2, <1>3 DEF SlotInv

\* What a worker does on its own.
LEMMA WorkerKeeps ==
  ASSUME SlotInv, NEW r \in Archive, ReadArchive(r) \/ PostMessage(r) \/ WorkerEnds(r)
  PROVE  SlotInv'
<1>0. /\ Alive(r) /\ UNCHANGED <<stage, fdOf, table, active, answer>>
      /\ stage[r] \in {"parsing", "answered"} /\ fdOf[r] \in Number
  BY DEF SlotInv, SlotTypes, SlotOK, Alive, ReadArchive, PostMessage, WorkerEnds
<1>1. /\ active' \in Nat /\ IsFiniteSet(Parsing') /\ active' = Cardinality(Parsing')
      /\ active' <= SlotLimit
  BY <1>0 DEF SlotInv, SlotTypes, Parsing
<1>2. CASE ReadArchive(r)
  <2>1. /\ inbox[r] = {} /\ table[fdOf[r]] \in Archive
        /\ seen' = [seen EXCEPT ![r] = @ \cup {table[fdOf[r]]}]
        /\ UNCHANGED <<worker, inbox>>
    BY <1>0, <1>2 DEF ReadArchive, SlotInv, SlotTypes
  <2>2. SlotTypes'
    BY <1>0, <1>1, <2>1 DEF SlotInv, SlotTypes
  <2>3. ASSUME NEW s \in Archive PROVE SlotOK(s)'
    <3>1. CASE s = r
      <4>1. seen'[r] = seen[r] \cup {table[fdOf[r]]}
        BY <2>1 DEF SlotInv, SlotTypes
      <4> QED BY <1>0, <2>1, <3>1, <4>1 DEF SlotInv, SlotOK
    <3>2. CASE s # r
      BY <1>0, <2>1, <3>2 DEF SlotInv, SlotTypes, SlotOK
    <3> QED BY <3>1, <3>2
  <2> QED BY <2>2, <2>3 DEF SlotInv
<1>3. CASE PostMessage(r)
  <2>1. PICK event \in {"metadata", "error"} :
          /\ event = "metadata" => seen[r] # {}
          /\ inbox' = [inbox EXCEPT ![r] = {event}]
    BY <1>3 DEF PostMessage
  <2>2. inbox[r] = {} /\ UNCHANGED <<worker, seen>>
    BY <1>3 DEF PostMessage
  <2>3. SlotTypes'
    BY <1>0, <1>1, <2>1, <2>2 DEF SlotInv, SlotTypes, Events
  <2>4. ASSUME NEW s \in Archive PROVE SlotOK(s)'
    <3>1. CASE s = r
      <4>1. inbox'[r] = {event}
        BY <2>1 DEF SlotInv, SlotTypes
      <4> QED BY <1>0, <2>1, <2>2, <3>1, <4>1 DEF SlotInv, SlotOK
    <3>2. CASE s # r
      BY <1>0, <2>1, <2>2, <3>2 DEF SlotInv, SlotTypes, SlotOK
    <3> QED BY <3>1, <3>2
  <2> QED BY <2>3, <2>4 DEF SlotInv
<1>4. CASE WorkerEnds(r)
  <2>1. /\ worker' = [worker EXCEPT ![r] = "gone"] /\ UNCHANGED seen
        /\ inbox' = [inbox EXCEPT ![r] = IF @ = {} THEN {"exit"} ELSE @]
    BY <1>4 DEF WorkerEnds
  <2>2. SlotTypes'
    BY <1>0, <1>1, <2>1 DEF SlotInv, SlotTypes, Events
  <2>3. ASSUME NEW s \in Archive PROVE SlotOK(s)'
    <3>1. CASE s = r
      <4>1. inbox'[r] = {"exit"} \/ (inbox'[r] = inbox[r] /\ inbox[r] # {})
        BY <2>1 DEF SlotInv, SlotTypes
      <4> QED BY <1>0, <2>1, <3>1, <4>1 DEF SlotInv, SlotOK
    <3>2. CASE s # r
      BY <1>0, <2>1, <3>2 DEF SlotInv, SlotTypes, SlotOK
    <3> QED BY <3>1, <3>2
  <2> QED BY <2>2, <2>3 DEF SlotInv
<1> QED BY <1>2, <1>3, <1>4

\* The first event settles: by then the worker has read its own archive only.
LEMMA SettleKeeps ==
  ASSUME SlotInv, NEW r \in Archive, stage[r] = "parsing", NEW with \in {"metadata", "error"},
         Settle(r, with), inbox' \in [Archive -> SUBSET Events],
         \A s \in Archive : s # r => inbox'[s] = inbox[s],
         with = "metadata" => seen[r] = {r} /\ inbox'[r] # {}
  PROVE  SlotInv'
<1>1. /\ Reply(r, with) /\ active' = active - 1 /\ UNCHANGED <<fdOf, seen>>
      /\ worker' = [worker EXCEPT ![r] = IF @ = "running" THEN "terminating" ELSE @]
  BY DEF Settle
<1>2. /\ active' \in Nat /\ IsFiniteSet(Parsing') /\ active' = Cardinality(Parsing')
      /\ active' <= SlotLimit
  BY <1>1, SlotFreed DEF SlotInv, Reply
<1>3. /\ worker' \in [Archive -> {"none", "running", "terminating", "gone"}]
      /\ \A s \in Archive : s # r => worker'[s] = worker[s]
  BY <1>1 DEF SlotInv, SlotTypes
<1> QED BY <1>1, <1>2, <1>3, ReplyKeeps

LEMMA TimesOutKeeps ==
  ASSUME SlotInv, NEW r \in Archive, TimesOut(r)
  PROVE  SlotInv'
<1>1. stage[r] = "parsing" /\ Settle(r, "error") /\ inbox' = inbox
  BY DEF TimesOut
<1>2. inbox' \in [Archive -> SUBSET Events]
  BY <1>1 DEF SlotInv, SlotTypes
<1> QED BY <1>1, <1>2, SettleKeeps

LEMMA HandleEventKeeps ==
  ASSUME SlotInv, NEW r \in Archive, HandleEvent(r)
  PROVE  SlotInv'
<1>1. /\ inbox[r] # {} /\ inbox' = [inbox EXCEPT ![r] = {"handled"}]
      /\ inbox' \in [Archive -> SUBSET Events] /\ inbox'[r] = {"handled"}
      /\ \A s \in Archive : s # r => inbox'[s] = inbox[s]
  BY DEF HandleEvent, SlotInv, SlotTypes, Events
<1>2. CASE stage[r] = "parsing"
  <2>1. PICK with \in {"error"} \cup (inbox[r] \ {"exit"}) : Settle(r, with)
    BY <1>2 DEF HandleEvent
  <2>2. inbox[r] \subseteq Events /\ "handled" \notin inbox[r]
    BY DEF HandleEvent, SlotInv, SlotTypes
  <2>3. with \in {"metadata", "error"}
    BY <2>2 DEF Events
  <2>4. with = "metadata" => seen[r] = {r}
    BY <1>2, <2>1 DEF SlotInv, SlotOK
  <2> QED BY <1>1, <1>2, <2>1, <2>3, <2>4, SettleKeeps
<1>3. CASE stage[r] # "parsing"
  <2>1. UNCHANGED <<stage, fdOf, table, active, worker, seen, answer>>
    BY <1>3 DEF HandleEvent
  <2>2. SlotTypes'
    BY <1>1, <2>1 DEF SlotInv, SlotTypes, Parsing
  <2>3. ASSUME NEW s \in Archive PROVE SlotOK(s)'
    <3>1. CASE s = r
      BY <1>1, <1>3, <2>1, <3>1 DEF SlotInv, SlotTypes, SlotOK
    <3>2. CASE s # r
      BY <1>1, <2>1, <3>2 DEF SlotInv, SlotOK
    <3> QED BY <3>1, <3>2
  <2> QED BY <2>2, <2>3 DEF SlotInv
<1> QED BY <1>2, <1>3

LEMMA SlotsKeep == SlotInv /\ SlotNext => SlotInv'
BY OpenArchiveKeeps, RefusePreviewKeeps, StartWorkerKeeps, WorkerKeeps, TimesOutKeeps,
   HandleEventKeeps DEF SlotNext

LEMMA SlotsStutter == SlotInv /\ UNCHANGED slotVars => SlotInv'
BY DEF SlotInv, SlotTypes, SlotOK, Parsing, slotVars

-----------------------------------------------------------------------------
(* The listeners.                                                            *)

NetInv ==
  /\ NetTypeOK
  /\ handles \in [open : BOOLEAN, sync : BOOLEAN] /\ netEvents \in 0 .. MaxNetEvents
  /\ proc = "listening_https" => boot.https /\ listening = {}
  /\ proc = "listening_http" => listening = Servers(boot) \ {"http"}
  /\ proc \in Stopped => open = 0
  /\ proc \notin Stopped => handles.open

LEMMA NetStarts == NetInit => NetInv
<1> SUFFICES ASSUME NetInit PROVE NetInv
  OBVIOUS
<1>1. saved \in Settings /\ boot \in Settings
  BY DEF NetInit, Settings
<1>2. files \in Pairs /\ held \in Pairs /\ signature \in Pairs
  BY DEF NetInit, Pairs
<1>3. /\ proc = "down" /\ listening = {} /\ open = 0 /\ signals = {} /\ missed = FALSE
      /\ handles = [open |-> FALSE, sync |-> FALSE] /\ netEvents = 0
  BY DEF NetInit
<1>4. proc \in Stopped /\ proc \notin {"running", "reloading", "listening_https", "listening_http"}
      /\ open \in 0 .. MaxOpen /\ netEvents \in 0 .. MaxNetEvents /\ ~(open > 0)
  BY <1>3, NetAssumption DEF Stopped
<1>5. handles \in [open : BOOLEAN, sync : BOOLEAN]
  BY <1>3
<1> QED BY <1>1, <1>2, <1>3, <1>4, <1>5 DEF NetInv, NetTypeOK

LEMMA EventCounted ==
  ASSUME netEvents \in 0 .. MaxNetEvents, NetEvent
  PROVE  netEvents' \in 0 .. MaxNetEvents
BY NetAssumption DEF NetEvent

LEMMA FilesKeep ==
  ASSUME NetInv, \/ ReplaceFile \/ SaveSettings \/ TimerReload \/ ManualReload \/ RecordSignature
  PROVE  NetInv'
<1>1. CASE ReplaceFile
  <2>1. files' \in Pairs
    BY <1>1 DEF ReplaceFile, NetInv, NetTypeOK, Pairs
  <2>2. missed' \in BOOLEAN
    BY <1>1 DEF ReplaceFile, NetInv, NetTypeOK, Reading
  <2> QED BY <1>1, <2>1, <2>2, EventCounted DEF ReplaceFile, NetInv, NetTypeOK, Servers
<1>2. CASE SaveSettings
  BY <1>2, EventCounted DEF SaveSettings, NetInv, NetTypeOK, Servers
<1>3. CASE TimerReload
  BY <1>3 DEF TimerReload, NetInv, NetTypeOK, Servers, Stopped
<1>4. CASE ManualReload
  BY <1>4, EventCounted DEF ManualReload, NetInv, NetTypeOK, Servers, Stopped
<1>5. CASE RecordSignature
  BY <1>5 DEF RecordSignature, NetInv, NetTypeOK, Servers, Stopped
<1> QED BY <1>1, <1>2, <1>3, <1>4, <1>5

LEMMA StartupKeeps ==
  ASSUME NetInv, StartProcess \/ HttpsListens \/ HttpListens \/ ListenFails \/ StartAgain
  PROVE  NetInv'
<1>1. CASE StartProcess
  <2>1. saved \in Settings /\ saved.https \in BOOLEAN
    BY DEF NetInv, NetTypeOK, Settings
  <2>2. handles' = [open |-> TRUE, sync |-> TRUE] /\ handles'.open
    BY <1>1 DEF StartProcess
  <2>3. listening' = {} /\ proc' \in {"listening_https", "listening_http"}
        /\ (proc' = "listening_https" <=> saved.https)
    BY <1>1, <2>1 DEF StartProcess, NetInv, NetTypeOK, Stopped
  <2>4. boot' = saved /\ open = 0
    BY <1>1 DEF StartProcess, NetInv, Stopped
  <2>5. proc' = "listening_http" => listening' = Servers(boot') \ {"http"}
    BY <2>1, <2>3, <2>4 DEF Servers
  <2>6. handles' \in [open : BOOLEAN, sync : BOOLEAN]
    BY <2>2
  <2>7. proc' = "listening_https" => boot'.https
    BY <2>3, <2>4
  <2>8. proc' \notin Stopped \cup {"running", "reloading"}
    BY <2>3 DEF Stopped
  <2>9. signals' \subseteq Signal /\ missed' \in BOOLEAN /\ held' \in Pairs
    BY <1>1 DEF StartProcess, NetInv, NetTypeOK
  <2>10. UNCHANGED <<saved, files, signature, open, netEvents>>
    BY <1>1 DEF StartProcess
  <2> QED BY <2>1, <2>2, <2>3, <2>4, <2>5, <2>6, <2>7, <2>8, <2>9, <2>10
          DEF NetInv, NetTypeOK
<1>2. CASE HttpsListens
  <2>1. listening' = Servers(boot) \ {"http"}
    BY <1>2 DEF HttpsListens, NetInv, Servers
  <2> QED BY <1>2, <2>1 DEF HttpsListens, NetInv, NetTypeOK, Stopped, Servers
<1>3. CASE HttpListens
  <2>1. listening' = Servers(boot)
    BY <1>3 DEF HttpListens, NetInv, Servers
  <2> QED BY <1>3, <2>1 DEF HttpListens, NetInv, NetTypeOK, Stopped, Servers
<1>4. CASE ListenFails
  BY <1>4, EventCounted, NetAssumption DEF ListenFails, NetInv, NetTypeOK, Stopped
<1>5. CASE StartAgain
  BY <1>5, EventCounted DEF StartAgain, NetInv, NetTypeOK, Stopped
<1> QED BY <1>1, <1>2, <1>3, <1>4, <1>5

LEMMA ConnectionsKeep ==
  ASSUME NetInv, OpenConnection \/ CloseConnection
  PROVE  NetInv'
<1>1. open' \in 0 .. MaxOpen
  BY NetAssumption DEF OpenConnection, CloseConnection, NetInv, NetTypeOK
<1>2. CASE OpenConnection
  <2>1. proc \notin Stopped
    BY <1>2 DEF OpenConnection, NetInv, NetTypeOK
  <2> QED BY <1>1, <1>2, <2>1 DEF OpenConnection, NetInv, NetTypeOK, Servers
<1>3. CASE CloseConnection
  <2>1. open > 0 /\ proc \notin Stopped
    BY <1>3 DEF CloseConnection, NetInv, NetTypeOK
  <2> QED BY <1>1, <1>3, <2>1 DEF CloseConnection, NetInv, NetTypeOK, Servers
<1> QED BY <1>2, <1>3

LEMMA ShutdownKeeps ==
  ASSUME NetInv, NEW signal \in Signal,
         Shutdown(signal) \/ SignalAgain(signal) \/ CloseDatabase \/ ForceExit
  PROVE  NetInv'
<1>1. CASE Shutdown(signal)
  BY <1>1, EventCounted DEF Shutdown, NetInv, NetTypeOK, Stopped
<1>2. CASE SignalAgain(signal)
  <2>1. CASE signal \in signals
    BY <1>2, <2>1, EventCounted, NetAssumption DEF SignalAgain, NetInv, NetTypeOK, Stopped
  <2>2. CASE signal \notin signals
    BY <1>2, <2>2, EventCounted DEF SignalAgain, NetInv, NetTypeOK, Stopped
  <2> QED BY <2>1, <2>2
<1>3. CASE CloseDatabase
  BY <1>3 DEF CloseDatabase, ServersClosed, NetInv, NetTypeOK, Stopped
<1>4. CASE ForceExit
  BY <1>4, NetAssumption DEF ForceExit, NetInv, NetTypeOK, Stopped
<1> QED BY <1>1, <1>2, <1>3, <1>4

LEMMA NetKeeps == NetInv /\ NetNext => NetInv'
<1>1. "SIGINT" \in Signal
  BY DEF Signal
<1> QED BY <1>1, FilesKeep, StartupKeeps, ConnectionsKeep, ShutdownKeeps DEF NetNext

LEMMA NetStutters == NetInv /\ UNCHANGED netVars => NetInv'
BY DEF netVars, NetInv, NetTypeOK, Servers

-----------------------------------------------------------------------------
(* The share and its password.                                               *)

Commands == {<<>>} \cup {<<c>> : c \in MaybePassword}
UpdateType == [at : {"idle", "committed", "published", "commanded"}, old : RowType,
               command : Commands]
SambaType == [passdb : MaybePassword, account : BOOLEAN, serves : Access, up : BOOLEAN]
Consistent(r) == r.enabled <=> r.cred # NoPassword

\* The password the share will have once the commands that wait are applied.
Final(queue, db) == IF queue = <<>> THEN db ELSE queue[Len(queue)]

ShareTypes ==
  /\ row \in RowType /\ Consistent(row)
  /\ writes \in [setting : BOOLEAN, app : BOOLEAN, sidecar : BOOLEAN]
  /\ update \in UpdateType /\ Consistent(update.old)
  /\ manifest \in Access /\ commands \in Seq(MaybePassword) /\ samba \in SambaType
  /\ fresh \in BOOLEAN /\ lost \in BOOLEAN /\ faults \in 0 .. MaxShareEvents

\* Idle, the password to come is the row's; while an update runs it is still the
\* old row's, until the command has been written.
AwaitsRow ==
  /\ update.at = "idle" /\ ~lost => Final(commands, samba.passdb) = row.cred
  /\ update.at \in {"committed", "published"} =>
       /\ ~lost => Final(commands, samba.passdb) = update.old.cred
       /\ IF update.command = <<>> THEN row.cred = update.old.cred
          ELSE update.command[1] = row.cred
  /\ update.at = "commanded" =>
       /\ update.command # <<>>
       /\ commands # <<>> \/ ~lost => Final(commands, samba.passdb) = row.cred

AccountFollows ==
  commands = <<>> /\ ~lost => (samba.account <=> samba.passdb # NoPassword)

ShareInv == ShareTypes /\ AwaitsRow /\ AccountFollows

LEMMA AfterAppend ==
  ASSUME NEW S, NEW q \in Seq(S), NEW c \in S
  PROVE  /\ q \o <<c>> \in Seq(S) /\ q \o <<c>> # <<>>
         /\ (q \o <<c>>)[Len(q \o <<c>>)] = c
<1>1. <<c>> \in Seq(S) /\ Len(<<c>>) = 1 /\ <<c>>[1] = c
  OBVIOUS
<1>2. Len(q) \in Nat /\ Len(q \o <<c>>) = Len(q) + 1 /\ q \o <<c>> \in Seq(S)
  BY <1>1
<1>3. (q \o <<c>>)[Len(q) + 1] = <<c>>[Len(q) + 1 - Len(q)]
  BY <1>1, <1>2
<1> QED BY <1>1, <1>2, <1>3

LEMMA AfterTail ==
  ASSUME NEW S, NEW q \in Seq(S), q # <<>>
  PROVE  /\ Tail(q) \in Seq(S) /\ Head(q) \in S
         /\ Tail(q) = <<>> <=> Len(q) = 1
         /\ Tail(q) = <<>> => q[Len(q)] = Head(q)
         /\ Tail(q) # <<>> => Tail(q)[Len(Tail(q))] = q[Len(q)]
<1>1. /\ Tail(q) \in Seq(S) /\ Head(q) \in S /\ Len(Tail(q)) = Len(q) - 1
      /\ \A i \in 1 .. Len(Tail(q)) : Tail(q)[i] = q[i + 1]
  BY HeadTailProperties
<1>2. Len(q) \in Nat \ {0} /\ Head(q) = q[1]
  BY EmptySeq
<1>3. Tail(q) = <<>> <=> Len(Tail(q)) = 0
  BY <1>1, EmptySeq
<1> QED BY <1>1, <1>2, <1>3

LEMMA ShareEventCounted ==
  ASSUME faults \in 0 .. MaxShareEvents, Event
  PROVE  faults' \in 0 .. MaxShareEvents
BY SmbShareAssumption DEF Event

LEMMA ShareStarts == ShareInit => ShareInv
<1> SUFFICES ASSUME ShareInit PROVE ShareInv
  OBVIOUS
<1>1. row = [exists |-> TRUE, enabled |-> FALSE, readOnly |-> FALSE, cred |-> NoPassword]
  BY DEF ShareInit
<1>11. update = [at |-> "idle", old |-> row, command |-> <<>>]
  BY DEF ShareInit
<1>9. row \in RowType /\ Consistent(row)
  BY <1>1 DEF RowType, MaybePassword, Consistent
<1>10. <<>> \in Commands
  BY DEF Commands
<1>2. row \in RowType /\ Consistent(row) /\ update \in UpdateType /\ Consistent(update.old)
  <2>1. update.old = row
    BY <1>11
  <2>2. update \in UpdateType
    BY <1>9, <1>10, <1>11 DEF UpdateType
  <2> QED BY <1>9, <2>1, <2>2
<1>3. samba \in SambaType
  BY DEF ShareInit, SambaType, MaybePassword, Access
<1>4. writes \in [setting : BOOLEAN, app : BOOLEAN, sidecar : BOOLEAN]
  BY DEF ShareInit
<1>5. /\ manifest \in Access /\ fresh \in BOOLEAN /\ lost \in BOOLEAN
      /\ faults \in 0 .. MaxShareEvents
  <2>1. manifest = "none" /\ fresh = FALSE /\ lost = FALSE /\ faults = 0
    BY DEF ShareInit
  <2>2. faults \in 0 .. MaxShareEvents
    BY <2>1, SmbShareAssumption
  <2>3. manifest \in Access
    BY <2>1 DEF Access
  <2> QED BY <2>1, <2>2, <2>3
<1>6. commands = <<>> /\ commands \in Seq(MaybePassword)
  BY DEF ShareInit
<1>7. ShareTypes
  BY <1>2, <1>3, <1>4, <1>5, <1>6 DEF ShareTypes
<1>8. samba.passdb = NoPassword /\ samba.account = FALSE /\ row.cred = NoPassword
      /\ update.at = "idle"
  BY <1>1, <1>11 DEF ShareInit
<1> QED BY <1>6, <1>7, <1>8 DEF ShareInv, AwaitsRow, AccountFollows, Final

LEMMA WantedIsAccess ==
  ASSUME NEW r, NEW allowed
  PROVE  Wanted(r, allowed) \in Access /\ Forced(Wanted(r, allowed)) \in Access
BY DEF Wanted, Forced, Access

LEMMA NoCommand == <<>> \in Commands /\ \A c \in MaybePassword : <<c>> \in Commands /\ <<c>> # <<>>
BY DEF Commands

LEMMA SaveShareKeeps == ShareInv /\ SaveShare => ShareInv'
<1> SUFFICES ASSUME ShareInv, SaveShare PROVE ShareInv'
  OBVIOUS
<1> PICK form \in [enabled : BOOLEAN, readOnly : BOOLEAN], typed \in MaybePassword :
         LET password == IF form.enabled THEN typed ELSE NoPassword IN
         /\ Accepts(form, password)
         /\ row' = [exists |-> TRUE, enabled |-> form.enabled, readOnly |-> form.readOnly,
                    cred |-> IF ~form.enabled THEN NoPassword
                             ELSE IF password # NoPassword THEN password ELSE row.cred]
         /\ update' = [at |-> "committed", old |-> row, command |-> CommandOf(form, password)]
  BY DEF SaveShare
<1> DEFINE password == IF form.enabled THEN typed ELSE NoPassword
           cred == IF ~form.enabled THEN NoPassword
                   ELSE IF password # NoPassword THEN password ELSE row.cred
<1>1. Accepts(form, password)
  OBVIOUS
<1>2. row' = [exists |-> TRUE, enabled |-> form.enabled, readOnly |-> form.readOnly, cred |-> cred]
  OBVIOUS
<1>3. update' = [at |-> "committed", old |-> row, command |-> CommandOf(form, password)]
  OBVIOUS
<1>4. password \in MaybePassword /\ NoPassword \in MaybePassword /\ (~form.enabled => password = NoPassword)
  BY DEF MaybePassword
<1>5. row \in RowType /\ row.cred \in MaybePassword /\ Consistent(row)
  BY DEF ShareInv, ShareTypes, RowType
<1>6. cred = (IF ~form.enabled THEN NoPassword
              ELSE IF password # NoPassword THEN password ELSE row.cred)
  OBVIOUS
<1>7. form.enabled \in BOOLEAN /\ form.readOnly \in BOOLEAN
  OBVIOUS
<1>16. update.at = "idle" /\ UNCHANGED <<writes, manifest, commands, samba, fresh, lost>> /\ Event
  BY DEF SaveShare
<1> HIDE DEF password, cred
<1>8. cred \in MaybePassword /\ (form.enabled <=> cred # NoPassword)
  BY <1>1, <1>4, <1>5, <1>6, <1>7 DEF Accepts
<1>9. row' \in RowType /\ row'.cred = cred /\ row'.enabled = form.enabled
  BY <1>2, <1>7, <1>8 DEF RowType
<1>10. CommandOf(form, password) \in Commands
  BY <1>4, NoCommand DEF CommandOf
<1>11. CommandOf(form, password) = <<>> => cred = row.cred
  BY <1>4, <1>5, <1>6, NoCommand DEF CommandOf, Consistent
<1>12. CommandOf(form, password) # <<>> => CommandOf(form, password)[1] = cred
  BY <1>4, <1>6 DEF CommandOf
<1>13. /\ update' \in UpdateType /\ update'.old = row /\ update'.at = "committed"
       /\ update'.command = CommandOf(form, password)
  <2>1. update'.old = row /\ update'.at = "committed" /\ update'.command = CommandOf(form, password)
    BY <1>3
  <2>2. update' \in UpdateType
    BY <1>3, <1>5, <1>10 DEF UpdateType
  <2> QED BY <2>1, <2>2
<1>14. Final(commands, samba.passdb)' = Final(commands, samba.passdb)
  BY <1>16 DEF Final
<1>15. ShareTypes'
  BY <1>5, <1>8, <1>9, <1>13, <1>16, ShareEventCounted DEF ShareInv, ShareTypes, Consistent
<1>17. AwaitsRow'
  BY <1>9, <1>11, <1>12, <1>13, <1>14, <1>16 DEF ShareInv, AwaitsRow
<1> QED BY <1>15, <1>16, <1>17 DEF ShareInv, AccountFollows

LEMMA PublishManifestKeeps == ShareInv /\ PublishManifest => ShareInv'
<1> SUFFICES ASSUME ShareInv, PublishManifest PROVE ShareInv'
  OBVIOUS
<1>1. update \in UpdateType /\ update.at = "committed"
  BY DEF PublishManifest, ShareInv, ShareTypes
<1>2. /\ update' \in UpdateType /\ update'.at = "published" /\ update'.old = update.old
      /\ update'.command = update.command
  BY <1>1 DEF PublishManifest, UpdateType
<1>3. manifest' \in Access /\ UNCHANGED <<row, writes, commands, samba, fresh, lost, faults>>
  BY WantedIsAccess DEF PublishManifest
<1> QED BY <1>1, <1>2, <1>3 DEF ShareInv, ShareTypes, AwaitsRow, AccountFollows

LEMMA WriteCommandKeeps == ShareInv /\ WriteCommand => ShareInv'
<1> SUFFICES ASSUME ShareInv, WriteCommand PROVE ShareInv'
  OBVIOUS
<1>1. update \in UpdateType /\ update.at = "published" /\ update.command # <<>>
  BY DEF WriteCommand, ShareInv, ShareTypes
<1> PICK c \in MaybePassword : update.command = <<c>>
  BY <1>1 DEF UpdateType, Commands
<1>2. /\ update' \in UpdateType /\ update'.at = "commanded" /\ update'.old = update.old
      /\ update'.command = update.command
  BY <1>1 DEF WriteCommand, UpdateType
<1>3. c = row.cred
  <2>1. update.command[1] = row.cred
    BY <1>1 DEF ShareInv, AwaitsRow
  <2> QED BY <2>1
<1>4. commands' = commands \o <<c>> /\ UNCHANGED <<row, writes, manifest, samba, fresh, lost, faults>>
  BY DEF WriteCommand
<1>5. commands \in Seq(MaybePassword)
  BY DEF ShareInv, ShareTypes
<1>6. commands' \in Seq(MaybePassword) /\ commands' # <<>> /\ commands'[Len(commands')] = c
  BY <1>4, <1>5, AfterAppend
<1>7. Final(commands, samba.passdb)' = row.cred
  BY <1>3, <1>6 DEF Final
<1> QED BY <1>1, <1>2, <1>4, <1>6, <1>7 DEF ShareInv, ShareTypes, AwaitsRow, AccountFollows

LEMMA FinishUpdateKeeps == ShareInv /\ FinishUpdate => ShareInv'
<1> SUFFICES ASSUME ShareInv, FinishUpdate PROVE ShareInv'
  OBVIOUS
<1>1. row \in RowType /\ Consistent(row) /\ update.at \in {"published", "commanded"}
  BY DEF FinishUpdate, ShareInv, ShareTypes
<1>2. update' \in UpdateType /\ update'.at = "idle" /\ update'.old = row
  BY <1>1, NoCommand DEF FinishUpdate, NoUpdate, UpdateType
<1>3. /\ UNCHANGED <<row, writes, manifest, commands, samba, fresh, faults>>
      /\ \/ update.at = "published" /\ update.command = <<>> /\ lost' = lost
         \/ update.at = "commanded" /\ commands # <<>> /\ lost' = FALSE
  BY DEF FinishUpdate
<1>4. Final(commands, samba.passdb)' = Final(commands, samba.passdb)
  BY <1>3 DEF Final
<1>5. ~lost' => Final(commands, samba.passdb) = row.cred
  BY <1>3 DEF ShareInv, AwaitsRow
<1> QED BY <1>1, <1>2, <1>3, <1>4, <1>5 DEF ShareInv, ShareTypes, AwaitsRow, AccountFollows

LEMMA RollBackKeeps ==
  ASSUME ShareInv, RollBack, faults' \in 0 .. MaxShareEvents, lost' \in BOOLEAN,
         lost' = FALSE => lost = FALSE /\ update.at \in {"committed", "published"}
  PROVE  ShareInv'
<1>1. update \in UpdateType /\ update.old \in RowType /\ Consistent(update.old)
  BY DEF ShareInv, ShareTypes, UpdateType
<1>2. /\ update' \in UpdateType /\ update'.at = "idle" /\ update'.old = update.old
  BY <1>1, NoCommand DEF RollBack, UpdateType
<1>3. row' = update.old /\ manifest' \in {manifest, Wanted(update.old, writes.app)}
      /\ UNCHANGED <<writes, commands, samba, fresh>>
  BY DEF RollBack, Restored
<1>4. manifest' \in Access
  BY <1>3, WantedIsAccess DEF ShareInv, ShareTypes
<1>5. Final(commands, samba.passdb)' = Final(commands, samba.passdb)
  BY <1>3 DEF Final
<1>6. ~lost' => Final(commands, samba.passdb) = row'.cred
  BY <1>3 DEF ShareInv, AwaitsRow
<1>7. ShareTypes'
  BY <1>1, <1>2, <1>3, <1>4 DEF ShareInv, ShareTypes
<1>8. AwaitsRow'
  BY <1>2, <1>5, <1>6 DEF AwaitsRow
<1> QED BY <1>3, <1>7, <1>8 DEF ShareInv, AccountFollows


LEMMA UpdateFailsKeeps == ShareInv /\ (UpdateFails \/ CommandTakenEarly) => ShareInv'
<1> SUFFICES ASSUME ShareInv, UpdateFails \/ CommandTakenEarly PROVE ShareInv'
  OBVIOUS
<1>1. lost \in BOOLEAN /\ faults \in 0 .. MaxShareEvents
  BY DEF ShareInv, ShareTypes
<1>2. CASE UpdateFails
  BY <1>1, <1>2, RollBackKeeps, ShareEventCounted DEF UpdateFails
<1>3. CASE CommandTakenEarly
  BY <1>1, <1>3, RollBackKeeps DEF CommandTakenEarly
<1> QED BY <1>2, <1>3

LEMMA RewriteManifestKeeps == ShareInv /\ RewriteManifest => ShareInv'
<1> SUFFICES ASSUME ShareInv, RewriteManifest PROVE ShareInv'
  OBVIOUS
<1>1. manifest' \in Access /\ UNCHANGED <<row, writes, update, commands, samba, fresh, lost, faults>>
  BY WantedIsAccess DEF RewriteManifest
<1> QED BY <1>1 DEF ShareInv, ShareTypes, AwaitsRow, AccountFollows

LEMMA DeleteSharedRepositoryKeeps == ShareInv /\ DeleteSharedRepository => ShareInv'
<1> SUFFICES ASSUME ShareInv, DeleteSharedRepository PROVE ShareInv'
  OBVIOUS
<1>1. row \in RowType /\ Consistent(row) /\ update \in UpdateType /\ lost \in BOOLEAN
  BY DEF ShareInv, ShareTypes
<1>2. row' \in RowType /\ Consistent(row') /\ row'.cred = NoPassword
  BY <1>1 DEF DeleteSharedRepository, RowType, Consistent, MaybePassword
<1>3. update' \in UpdateType /\ update'.at = "idle" /\ update'.old = row'
  <2>1. update' = [update EXCEPT !.old = row'] /\ update.at = "idle"
    BY DEF DeleteSharedRepository
  <2> QED BY <1>1, <1>2, <2>1 DEF UpdateType
<1>4. /\ UNCHANGED <<writes, manifest, commands, samba, fresh>>
      /\ lost' = (lost \/ row.cred # NoPassword) /\ update.at = "idle" /\ Event
  BY DEF DeleteSharedRepository
<1>5. Final(commands, samba.passdb)' = Final(commands, samba.passdb)
  BY <1>4 DEF Final
<1>6. ~lost' => Final(commands, samba.passdb) = NoPassword
  BY <1>4 DEF ShareInv, AwaitsRow
<1>7. lost' \in BOOLEAN /\ (lost' = FALSE => lost = FALSE)
  BY <1>1, <1>4
<1>8. ShareTypes'
  BY <1>2, <1>3, <1>4, <1>7, ShareEventCounted DEF ShareInv, ShareTypes
<1>9. AwaitsRow'
  BY <1>2, <1>3, <1>5, <1>6 DEF AwaitsRow
<1> QED BY <1>1, <1>4, <1>7, <1>8, <1>9 DEF ShareInv, AccountFollows

LEMMA RestartAppKeeps == ShareInv /\ RestartApp => ShareInv'
<1> SUFFICES ASSUME ShareInv, RestartApp PROVE ShareInv'
  OBVIOUS
<1>1. row \in RowType /\ Consistent(row) /\ lost \in BOOLEAN /\ update \in UpdateType
  BY DEF ShareInv, ShareTypes
<1>2. update' \in UpdateType /\ update'.at = "idle" /\ update'.old = row
  BY <1>1, NoCommand DEF RestartApp, NoUpdate, UpdateType
<1>3. writes' \in [setting : BOOLEAN, app : BOOLEAN, sidecar : BOOLEAN]
  BY DEF RestartApp, ShareInv, ShareTypes
<1>4. /\ UNCHANGED <<row, manifest, commands, samba, fresh>> /\ Event
      /\ lost' = (lost \/ (update.at \in {"committed", "published"} /\ update.command # <<>>))
  BY DEF RestartApp
<1>5. Final(commands, samba.passdb)' = Final(commands, samba.passdb)
  BY <1>4 DEF Final
<1>6. lost' \in BOOLEAN /\ (~lost' => ~lost)
  BY <1>1, <1>4
<1>7. ~lost' => Final(commands, samba.passdb) = row.cred
  <2> SUFFICES ASSUME ~lost' PROVE Final(commands, samba.passdb) = row.cred
    OBVIOUS
  <2>1. update.at \in {"idle", "committed", "published", "commanded"}
    BY <1>1 DEF UpdateType
  <2> QED BY <1>4, <1>6, <2>1 DEF ShareInv, AwaitsRow
<1>8. ShareTypes'
  BY <1>1, <1>2, <1>3, <1>4, <1>6, ShareEventCounted DEF ShareInv, ShareTypes
<1>9. AwaitsRow'
  BY <1>2, <1>4, <1>5, <1>7 DEF AwaitsRow
<1> QED BY <1>4, <1>6, <1>8, <1>9 DEF ShareInv, AccountFollows

LEMMA ChangeSettingKeeps == ShareInv /\ (ChangeSetting \/ StatusExpires) => ShareInv'
<1> SUFFICES ASSUME ShareInv, ChangeSetting \/ StatusExpires PROVE ShareInv'
  OBVIOUS
<1>1. /\ UNCHANGED <<row, update, manifest, commands, samba, lost>>
      /\ faults' \in 0 .. MaxShareEvents /\ fresh' \in BOOLEAN
      /\ writes' \in [setting : BOOLEAN, app : BOOLEAN, sidecar : BOOLEAN]
  BY ShareEventCounted DEF ChangeSetting, StatusExpires, ShareInv, ShareTypes
<1> QED BY <1>1 DEF ShareInv, ShareTypes, AwaitsRow, AccountFollows

LEMMA StartSidecarKeeps == ShareInv /\ StartSidecar => ShareInv'
<1> SUFFICES ASSUME ShareInv, StartSidecar PROVE ShareInv'
  OBVIOUS
<1> PICK recreated \in BOOLEAN :
         /\ samba' = [samba EXCEPT !.up = TRUE, !.serves = "none", !.account = @ /\ ~recreated]
         /\ writes' = IF recreated THEN [writes EXCEPT !.sidecar = writes.setting] ELSE writes
         /\ lost' = (lost \/ (recreated /\ samba.account))
  BY DEF StartSidecar
<1>1. samba \in SambaType /\ lost \in BOOLEAN
      /\ writes \in [setting : BOOLEAN, app : BOOLEAN, sidecar : BOOLEAN]
  BY DEF ShareInv, ShareTypes
<1>2. samba' \in SambaType /\ samba'.passdb = samba.passdb
      /\ samba'.account = (samba.account /\ ~recreated)
  BY <1>1 DEF SambaType, Access
<1>3. writes' \in [setting : BOOLEAN, app : BOOLEAN, sidecar : BOOLEAN]
  BY <1>1
<1>4. UNCHANGED <<row, update, manifest, commands, faults>> /\ fresh' = TRUE
  BY DEF StartSidecar
<1>5. lost' \in BOOLEAN /\ (~lost' => ~lost /\ samba'.account = samba.account)
  BY <1>1, <1>2 DEF SambaType
<1>6. Final(commands, samba.passdb)' = Final(commands, samba.passdb)
  BY <1>2, <1>4 DEF Final
<1>7. ShareTypes'
  BY <1>2, <1>3, <1>4, <1>5 DEF ShareInv, ShareTypes
<1>8. AwaitsRow'
  BY <1>4, <1>5, <1>6 DEF ShareInv, AwaitsRow
<1> QED BY <1>2, <1>4, <1>5, <1>7, <1>8 DEF ShareInv, AccountFollows

LEMMA AppliedIs ==
  ASSUME samba \in SambaType, NEW c \in MaybePassword
  PROVE  /\ Applied(c) \in SambaType /\ Applied(c).passdb = c
         /\ Applied(c).account <=> c # NoPassword
BY DEF Applied, SambaType

LEMMA StopSidecarKeeps == ShareInv /\ StopSidecar => ShareInv'
<1> SUFFICES ASSUME ShareInv, StopSidecar PROVE ShareInv'
  OBVIOUS
<1>1. samba \in SambaType /\ commands \in Seq(MaybePassword)
  BY DEF ShareInv, ShareTypes
<1>2. PICK s \in {samba} \cup (IF commands = <<>> THEN {} ELSE {Applied(Head(commands))}) :
        samba' = [s EXCEPT !.up = FALSE, !.serves = "none"]
  BY DEF StopSidecar
<1>3. s \in SambaType /\ (commands = <<>> => s = samba)
  BY <1>1, <1>2, AppliedIs, AfterTail
<1>4. samba' \in SambaType /\ samba'.passdb = s.passdb /\ samba'.account = s.account
  BY <1>2, <1>3 DEF SambaType, Access
<1>5. UNCHANGED <<row, writes, update, manifest, commands, fresh, lost>> /\ Event
  BY DEF StopSidecar
<1>6. Final(commands, samba.passdb)' = Final(commands, samba.passdb)
  BY <1>3, <1>4, <1>5 DEF Final
<1>7. ShareTypes'
  BY <1>4, <1>5, ShareEventCounted DEF ShareInv, ShareTypes
<1>8. AwaitsRow'
  BY <1>5, <1>6 DEF ShareInv, AwaitsRow
<1> QED BY <1>3, <1>4, <1>5, <1>7, <1>8 DEF ShareInv, AccountFollows

LEMMA ConsumeCommandKeeps == ShareInv /\ ConsumeCommand => ShareInv'
<1> SUFFICES ASSUME ShareInv, ConsumeCommand PROVE ShareInv'
  OBVIOUS
<1>1. samba \in SambaType /\ commands \in Seq(MaybePassword) /\ commands # <<>>
  BY DEF ConsumeCommand, ShareInv, ShareTypes
<1>2. samba' = Applied(Head(commands)) /\ commands' = Tail(commands)
      /\ UNCHANGED <<row, writes, update, manifest, fresh, lost, faults>>
  BY DEF ConsumeCommand
<1>3. /\ samba' \in SambaType /\ samba'.passdb = Head(commands)
      /\ samba'.account <=> samba'.passdb # NoPassword
  BY <1>1, <1>2, AppliedIs, AfterTail
<1>4. commands' \in Seq(MaybePassword)
  BY <1>1, <1>2, AfterTail
<1>5. Final(commands, samba.passdb)' = Final(commands, samba.passdb)
  BY <1>1, <1>2, <1>3, AfterTail DEF Final
<1>6. ShareTypes'
  BY <1>2, <1>3, <1>4 DEF ShareInv, ShareTypes
<1>7. AwaitsRow'
  BY <1>1, <1>2, <1>5 DEF ShareInv, AwaitsRow
<1> QED BY <1>3, <1>6, <1>7 DEF ShareInv, AccountFollows

LEMMA CommandFailsKeeps == ShareInv /\ CommandFails => ShareInv'
<1> SUFFICES ASSUME ShareInv, CommandFails PROVE ShareInv'
  OBVIOUS
<1>1. samba \in SambaType /\ commands \in Seq(MaybePassword) /\ commands # <<>> /\ lost \in BOOLEAN
  BY DEF CommandFails, ShareInv, ShareTypes
<1>2. /\ samba' \in {samba, [samba EXCEPT !.account = TRUE]} /\ commands' = Tail(commands)
      /\ lost' = (lost \/ Len(commands) = 1) /\ Event
      /\ UNCHANGED <<row, writes, update, manifest, fresh>>
  BY DEF CommandFails
<1>3. samba' \in SambaType /\ commands' \in Seq(MaybePassword) /\ lost' \in BOOLEAN
  BY <1>1, <1>2, AfterTail DEF SambaType
<1>4. ~lost' => ~lost /\ commands' # <<>>
  BY <1>1, <1>2, AfterTail
<1>5. commands' # <<>> => Final(commands, samba.passdb)' = Final(commands, samba.passdb)
  BY <1>1, <1>2, AfterTail DEF Final
<1>6. ShareTypes'
  BY <1>2, <1>3, ShareEventCounted DEF ShareInv, ShareTypes
<1>7. AwaitsRow'
  BY <1>1, <1>2, <1>4, <1>5 DEF ShareInv, AwaitsRow
<1> QED BY <1>4, <1>6, <1>7 DEF ShareInv, AccountFollows

LEMMA GenerateSharesKeeps == ShareInv /\ GenerateShares => ShareInv'
<1> SUFFICES ASSUME ShareInv, GenerateShares PROVE ShareInv'
  OBVIOUS
<1>1. samba \in SambaType /\ manifest \in Access
  BY DEF ShareInv, ShareTypes
<1>2. Forced(manifest) \in Access
  BY <1>1 DEF Forced, Access
<1>3. samba' \in SambaType /\ samba'.passdb = samba.passdb /\ samba'.account = samba.account
  BY <1>1, <1>2 DEF GenerateShares, SambaType
<1>4. UNCHANGED <<row, writes, update, manifest, commands, fresh, lost, faults>>
  BY DEF GenerateShares
<1> QED BY <1>3, <1>4 DEF ShareInv, ShareTypes, AwaitsRow, AccountFollows

LEMMA ShareKeeps == ShareInv /\ ShareNext => ShareInv'
BY SaveShareKeeps, PublishManifestKeeps, WriteCommandKeeps, FinishUpdateKeeps, UpdateFailsKeeps,
   RewriteManifestKeeps, DeleteSharedRepositoryKeeps, RestartAppKeeps, ChangeSettingKeeps,
   StartSidecarKeeps, StopSidecarKeeps, ConsumeCommandKeeps, CommandFailsKeeps,
   GenerateSharesKeeps DEF ShareNext

LEMMA ShareStutters == ShareInv /\ UNCHANGED shareVars => ShareInv'
BY DEF shareVars, ShareInv, ShareTypes, AwaitsRow, AccountFollows

LEMMA ShareInvImplies == ShareInv => ShareTypeOK /\ CredentialFollowsRow
<1> SUFFICES ASSUME ShareInv PROVE ShareTypeOK /\ CredentialFollowsRow
  OBVIOUS
<1>1. /\ update.at \in {"idle", "committed", "published", "commanded"}
      /\ update.old \in RowType /\ update.command \in Commands
  BY DEF ShareInv, ShareTypes, UpdateType
<1>2. ShareTypeOK
  BY <1>1 DEF ShareInv, ShareTypes, ShareTypeOK, Consistent, Commands, SambaType
<1>3. CredentialFollowsRow
  BY DEF CredentialFollowsRow, ShareInv, AwaitsRow, AccountFollows, Final
<1> QED BY <1>2, <1>3

-----------------------------------------------------------------------------
(* What a preview lists.  While it collects, the list is within every budget,  *)
(* and the archive or the worksheet so far is all in it unless something was    *)
(* left out and noted.                                                         *)

ListingTypes ==
  /\ kind \in {"zip", "7z", "xlsx"} /\ omitted \in BOOLEAN /\ taken \in Nat
  /\ kind # "xlsx" => read \in Seq(Listed) /\ shown \in Seq(Listed)
  /\ kind = "xlsx" => read \in Seq(Nat) /\ shown \in Seq(Nat)
  /\ listing = NoListing \/ listing.is \in {"error", "listing", "sheet"}

ArchiveCollects ==
  /\ Len(shown) <= MaxVisible /\ taken <= MaxNames /\ AddUpTo(Sizes(shown), taken)
  /\ ~omitted /\ (kind = "zip" => ~Locked) => shown = read
  /\ kind = "zip" =>
       /\ IsFiniteSet(nodes) /\ Cardinality(nodes) <= MaxNodes
       /\ \A i \in DOMAIN shown : Steps(shown[i]) \subseteq nodes
       /\ \A i \in DOMAIN read : ~read[i].anti

SheetCollects ==
  /\ taken <= MaxText /\ AddUpTo(shown, taken)
  /\ read = <<>> => shown = <<>>
  /\ ~omitted => \A n \in DOMAIN shown \cap DOMAIN read : shown[n] = read[n]

ListingInv ==
  /\ ListingTypes
  /\ ~Answered => IF kind = "xlsx" THEN SheetCollects ELSE ArchiveCollects
  /\ ListingIsHonest

\* Entries and limits are numbers.
LEMMA ListingNumbers ==
  /\ \A e \in Listed : e.bytes \in Nat /\ e.path \in Seq(Nat)
  /\ MaxEntries \in Nat /\ MaxVisible \in Nat /\ MaxNames \in Nat /\ MaxNodes \in Nat
  /\ MaxRows \in Nat \ {0} /\ MaxCell \in Nat /\ MaxText \in Nat
BY ListingAssumption DEF EntryType

LEMMA NothingAddsUp == AddUpTo(<<>>, 0)
<1> DEFINE sum == [i \in 0..0 |-> 0]
<1>1. Len(<<>>) = 0
  OBVIOUS
<1>2. sum \in [0..0 -> 0..0] /\ sum[0] = 0
  OBVIOUS
<1> HIDE DEF sum
<1> QED BY <1>1, <1>2 DEF AddUpTo

LEMMA OneMoreAddsUp ==
  ASSUME NEW s \in Seq(Nat), NEW n \in Nat, AddUpTo(s, n), NEW x \in Nat
  PROVE  AddUpTo(Append(s, x), n + x)
<1>1. PICK sum \in [0..Len(s) -> 0..n] :
        /\ sum[0] = 0 /\ sum[Len(s)] = n
        /\ \A i \in 1..Len(s) : sum[i] = sum[i - 1] + s[i]
  BY DEF AddUpTo
<1> DEFINE t == Append(s, x)
           more == [i \in 0..Len(t) |-> IF i <= Len(s) THEN sum[i] ELSE n + x]
<1>2. /\ Len(s) \in Nat /\ Len(t) = Len(s) + 1 /\ t[Len(t)] = x
      /\ \A i \in 1..Len(s) : t[i] = s[i]
  <2>1. Len(s) \in Nat
    OBVIOUS
  <2>2. Len(t) = Len(s) + 1
    BY AppendProperties
  <2>3. t[Len(t)] = x
    BY <2>2, AppendProperties
  <2>4. \A i \in 1..Len(s) : t[i] = s[i]
    BY AppendProperties
  <2> HIDE DEF t
  <2> QED BY <2>1, <2>2, <2>3, <2>4
<1> HIDE DEF t
<1>3. \A i \in 0..Len(s) : more[i] = sum[i] /\ sum[i] \in 0..n
  <2> TAKE i \in 0..Len(s)
  <2>1. sum[i] \in 0..n
    BY <1>1
  <2>2. i \in 0..Len(t) /\ i <= Len(s)
    BY <1>2
  <2>3. more[i] = sum[i]
    BY <2>2
  <2> QED BY <2>1, <2>3
<1>4. more[Len(t)] = n + x
  BY <1>2
<1>5. more \in [0..Len(t) -> 0..(n + x)]
  BY <1>2, <1>3
<1> HIDE DEF more
<1>6. more[0] = 0
  BY <1>1, <1>2, <1>3
<1>7. ASSUME NEW i \in 1..Len(t) PROVE more[i] = more[i - 1] + t[i]
  <2>1. CASE i = Len(t)
    <3>1. i - 1 = Len(s) /\ Len(s) \in 0..Len(s)
      BY <1>2, <2>1
    <3> QED BY <1>1, <1>2, <1>3, <1>4, <2>1, <3>1
  <2>2. CASE i # Len(t)
    <3>1. i \in 1..Len(s) /\ i \in 0..Len(s) /\ i - 1 \in 0..Len(s)
      BY <1>2, <2>2
    <3> QED BY <1>1, <1>2, <1>3, <3>1
  <2> QED BY <2>1, <2>2
<1>8. AddUpTo(t, n + x)
  BY <1>4, <1>5, <1>6, <1>7 DEF AddUpTo
<1> QED BY <1>8 DEF t

LEMMA SizesOfMore ==
  ASSUME NEW s \in Seq(Listed), NEW e \in Listed
  PROVE  /\ Sizes(s) \in Seq(Nat) /\ Len(Sizes(s)) = Len(s)
         /\ Sizes(Append(s, e)) = Append(Sizes(s), e.bytes)
<1>1. /\ Len(s) \in Nat /\ DOMAIN s = 1..Len(s) /\ Len(Append(s, e)) = Len(s) + 1
      /\ DOMAIN Append(s, e) = 1..(Len(s) + 1) /\ Append(s, e)[Len(s) + 1] = e
      /\ \A i \in 1..Len(s) : Append(s, e)[i] = s[i] /\ s[i] \in Listed
  <2> DEFINE t == Append(s, e)
  <2>1. Len(s) \in Nat /\ DOMAIN s = 1..Len(s) /\ \A i \in 1..Len(s) : s[i] \in Listed
    OBVIOUS
  <2>2. t \in Seq(Listed) /\ Len(t) = Len(s) + 1
    BY AppendProperties
  <2>3. t[Len(s) + 1] = e /\ \A i \in 1..Len(s) : t[i] = s[i]
    BY AppendProperties
  <2> HIDE DEF t
  <2>4. DOMAIN t = 1..(Len(s) + 1)
    BY <2>2
  <2>5. /\ Len(s) \in Nat /\ DOMAIN s = 1..Len(s) /\ Len(t) = Len(s) + 1
        /\ DOMAIN t = 1..(Len(s) + 1) /\ t[Len(s) + 1] = e
        /\ \A i \in 1..Len(s) : t[i] = s[i] /\ s[i] \in Listed
    BY <2>1, <2>2, <2>3, <2>4
  <2> QED BY Zenon, <2>5 DEF t
<1>2. Sizes(s) \in [1..Len(s) -> Nat] /\ \A i \in 1..Len(s) : Sizes(s)[i] = s[i].bytes
  BY <1>1, ListingNumbers DEF Sizes
<1>3. Sizes(s) \in Seq(Nat) /\ Len(Sizes(s)) = Len(s)
  BY <1>1, <1>2
<1>4. /\ Append(Sizes(s), e.bytes) \in [1..(Len(s) + 1) -> Nat]
      /\ Append(Sizes(s), e.bytes)[Len(s) + 1] = e.bytes
      /\ \A i \in 1..Len(s) : Append(Sizes(s), e.bytes)[i] = Sizes(s)[i]
  <2> DEFINE t == Append(Sizes(s), e.bytes)
  <2>1. e.bytes \in Nat
    BY ListingNumbers
  <2>2. t \in Seq(Nat) /\ Len(t) = Len(s) + 1
    BY <1>3, <2>1, AppendProperties
  <2>3. t[Len(s) + 1] = e.bytes /\ \A i \in 1..Len(s) : t[i] = Sizes(s)[i]
    BY <1>3, <2>1, AppendProperties
  <2> HIDE DEF t
  <2>4. t \in [1..(Len(s) + 1) -> Nat]
    BY <2>2
  <2> QED BY <2>3, <2>4 DEF t
<1>5. Sizes(Append(s, e)) \in [1..(Len(s) + 1) -> Nat]
  BY <1>1, ListingNumbers DEF Sizes
<1>6. ASSUME NEW i \in 1..(Len(s) + 1) PROVE Sizes(Append(s, e))[i] = Append(Sizes(s), e.bytes)[i]
  <2>1. Sizes(Append(s, e))[i] = Append(s, e)[i].bytes
    BY <1>1 DEF Sizes
  <2>2. CASE i = Len(s) + 1
    BY <1>1, <1>4, <2>1, <2>2
  <2>3. CASE i # Len(s) + 1
    <3>1. i \in 1..Len(s)
      BY <1>1, <2>3
    <3> QED BY <1>1, <1>2, <1>4, <2>1, <3>1
  <2> QED BY <2>2, <2>3
<1>7. Sizes(Append(s, e)) = Append(Sizes(s), e.bytes)
  BY <1>4, <1>5, <1>6
<1> QED BY <1>3, <1>7

LEMMA FromOne ==
  ASSUME NEW n \in Nat
  PROVE  IsFiniteSet(1..n) /\ Cardinality(1..n) = n
BY FS_Interval

LEMMA StepsAreFinite ==
  ASSUME NEW e \in Listed
  PROVE  IsFiniteSet(Steps(e))
<1> DEFINE p == e.path
           f == [l \in 0..Len(p) |-> SubSeq(p, 1, l)]
<1>1. Len(p) \in Nat
  BY ListingNumbers
<1>2. f \in Surjection(0..Len(p), Prefixes(p))
  BY DEF Surjection, Prefixes
<1>3. IsFiniteSet(Prefixes(p))
  <2>1. IsFiniteSet(0..Len(p))
    BY <1>1, FS_Interval
  <2> HIDE DEF f
  <2> QED BY <1>2, <2>1, FS_Surjection
<1> QED BY <1>3, FS_Subset DEF Steps

\* A sequence that has one more element.
LEMMA OneMoreIs ==
  ASSUME NEW S, NEW s \in Seq(S), NEW x \in S, NEW t, t = Append(s, x)
  PROVE  /\ t \in Seq(S) /\ Len(s) \in Nat /\ Len(t) = Len(s) + 1
         /\ DOMAIN s = 1..Len(s) /\ DOMAIN t = 1..(Len(s) + 1)
         /\ \A i \in 1..Len(s) : t[i] = s[i]
         /\ t[Len(s) + 1] = x
<1>1. t \in Seq(S) /\ Len(t) = Len(s) + 1
  BY AppendProperties
<1>2. t[Len(s) + 1] = x /\ \A i \in 1..Len(s) : t[i] = s[i]
  BY AppendProperties
<1>3. Len(s) \in Nat /\ DOMAIN s = 1..Len(s) /\ DOMAIN t = 1..Len(t)
  BY <1>1
<1> QED BY <1>1, <1>2, <1>3

LEMMA ReadOne ==
  ASSUME read \in Seq(Listed), NEW e \in Listed, read' = Append(read, e)
  PROVE  /\ read' \in Seq(Listed)
         /\ Locked' <=> Locked \/ e.locked
         /\ (\A i \in DOMAIN read : ~read[i].anti) /\ ~e.anti => \A i \in DOMAIN read' : ~read'[i].anti
<1>1. /\ read' \in Seq(Listed) /\ Len(read) \in Nat
      /\ DOMAIN read = 1..Len(read) /\ DOMAIN read' = 1..(Len(read) + 1)
      /\ \A i \in 1..Len(read) : read'[i] = read[i]
      /\ read'[Len(read) + 1] = e
  BY OneMoreIs
<1>2. DOMAIN read' = DOMAIN read \cup {Len(read) + 1}
  BY <1>1
<1>3. Locked' <=> Locked \/ e.locked
  <2>1. Locked => Locked'
    BY <1>1, <1>2, Zenon DEF Locked
  <2>2. e.locked => Locked'
    BY <1>1, <1>2, Zenon DEF Locked
  <2>3. Locked' => Locked \/ e.locked
    BY <1>1, <1>2, Zenon DEF Locked
  <2> QED BY <2>1, <2>2, <2>3
<1> QED BY <1>1, <1>2, <1>3

LEMMA ShowOne ==
  ASSUME shown \in Seq(Listed), taken \in Nat, AddUpTo(Sizes(shown), taken),
         NEW e \in Listed, HasRoomFor(e), Show(e)
  PROVE  /\ shown' \in Seq(Listed) /\ taken' \in Nat
         /\ Len(shown') <= MaxVisible /\ taken' <= MaxNames /\ AddUpTo(Sizes(shown'), taken')
         /\ \A i \in DOMAIN shown' : shown'[i] = e \/ (i \in DOMAIN shown /\ shown'[i] = shown[i])
<1>1. /\ shown' \in Seq(Listed) /\ Len(shown) \in Nat /\ Len(shown') = Len(shown) + 1
      /\ DOMAIN shown = 1..Len(shown) /\ DOMAIN shown' = 1..(Len(shown) + 1)
      /\ \A i \in 1..Len(shown) : shown'[i] = shown[i]
      /\ shown'[Len(shown) + 1] = e
  BY OneMoreIs DEF Show
<1>2. taken' = taken + e.bytes /\ e.bytes \in Nat
  BY ListingNumbers DEF Show
<1>3. Len(shown') <= MaxVisible /\ taken' <= MaxNames /\ taken' \in Nat
  BY <1>1, <1>2, ListingNumbers DEF HasRoomFor
<1>4. AddUpTo(Sizes(shown'), taken')
  <2>1. Sizes(shown) \in Seq(Nat) /\ Sizes(shown') = Append(Sizes(shown), e.bytes)
    BY SizesOfMore DEF Show
  <2>2. AddUpTo(Append(Sizes(shown), e.bytes), taken + e.bytes)
    BY <1>2, <2>1, OneMoreAddsUp
  <2> QED BY <1>2, <2>1, <2>2
<1>5. \A i \in DOMAIN shown' : shown'[i] = e \/ (i \in DOMAIN shown /\ shown'[i] = shown[i])
  BY <1>1
<1> QED BY <1>1, <1>3, <1>4, <1>5

\* Nothing is answered yet.
LEMMA CollectingOn ==
  ASSUME ListingTypes', UNCHANGED listing, ~Answered,
         IF kind' = "xlsx" THEN SheetCollects' ELSE ArchiveCollects'
  PROVE  ListingInv'
<1>1. listing'.is = "none"
  BY DEF Answered, NoListing
<1> QED BY <1>1 DEF ListingInv, ListingIsHonest, ArchiveIsHonest, SheetIsHonest, Answered

LEMMA AnsweredNow ==
  ASSUME ListingInv, UNCHANGED <<kind, read, shown, taken, omitted>>,
         listing'.is \in {"error", "listing", "sheet"}, ListingIsHonest'
  PROVE  ListingInv'
BY DEF ListingInv, ListingTypes, Answered, NoListing

LEMMA RefusedNow ==
  ASSUME ListingInv, ListingTypes', listing' = Refused
  PROVE  ListingInv'
<1>1. listing'.is = "error"
  BY DEF Refused
<1> QED BY <1>1 DEF ListingInv, ListingIsHonest, ArchiveIsHonest, SheetIsHonest, Answered, NoListing

LEMMA ZipCollectKeeps ==
  ASSUME ListingInv, NEW e \in Listed, kind = "zip", ~Answered, ~e.anti, read' = Append(read, e),
         UNCHANGED <<kind, listing>>, ~Locked, ~e.locked, ZipCollect(e)
  PROVE  ListingInv'
<1>0. /\ ListingTypes /\ ArchiveCollects /\ read \in Seq(Listed) /\ shown \in Seq(Listed)
      /\ (~omitted => shown = read)
  BY DEF ListingInv, ListingTypes, ArchiveCollects
<1>1. /\ read' \in Seq(Listed) /\ \A i \in DOMAIN read' : ~read'[i].anti
  BY <1>0, ReadOne DEF ArchiveCollects
<1>2. CASE /\ Normal(e) /\ Reservable(e) /\ nodes' = nodes \cup Steps(e)
           /\ HasRoomFor(e) /\ Show(e) /\ omitted' = omitted
  <2>1. /\ shown' \in Seq(Listed) /\ taken' \in Nat
        /\ Len(shown') <= MaxVisible /\ taken' <= MaxNames /\ AddUpTo(Sizes(shown'), taken')
        /\ \A i \in DOMAIN shown' : shown'[i] = e \/ (i \in DOMAIN shown /\ shown'[i] = shown[i])
    BY <1>0, <1>2, ShowOne DEF ArchiveCollects, ListingTypes
  <2>2. IsFiniteSet(nodes') /\ Cardinality(nodes') <= MaxNodes
    <3>1. IsFiniteSet(nodes \cup Steps(e))
      BY <1>0, StepsAreFinite, FS_Union DEF ArchiveCollects
    <3> QED BY <1>2, <3>1 DEF Reservable
  <2>3. \A i \in DOMAIN shown' : Steps(shown'[i]) \subseteq nodes'
    BY <1>0, <1>2, <2>1 DEF ArchiveCollects
  <2>4. ~omitted' => shown' = read'
    BY <1>0, <1>2 DEF Show
  <2>5. ArchiveCollects'
    BY <1>1, <2>1, <2>2, <2>3, <2>4 DEF ArchiveCollects
  <2>6. ListingTypes'
    BY <1>0, <1>1, <1>2, <2>1 DEF ListingTypes
  <2> QED BY <2>5, <2>6, CollectingOn
<1>3. CASE omitted' = TRUE /\ ShowNothing /\ nodes' \in {nodes} \cup
           (IF Reservable(e) THEN {nodes \cup Steps(e)} ELSE {})
  <2>1. IsFiniteSet(nodes') /\ Cardinality(nodes') <= MaxNodes /\ nodes \subseteq nodes'
    <3>1. IsFiniteSet(nodes \cup Steps(e))
      BY <1>0, StepsAreFinite, FS_Union DEF ArchiveCollects
    <3> QED BY <1>0, <1>3, <3>1 DEF ArchiveCollects, Reservable
  <2>2. ArchiveCollects'
    BY <1>0, <1>1, <1>3, <2>1 DEF ArchiveCollects, ShowNothing
  <2>3. ListingTypes'
    BY <1>0, <1>1, <1>3 DEF ListingTypes, ShowNothing
  <2> QED BY <2>2, <2>3, CollectingOn
<1>4. omitted \in BOOLEAN
  BY <1>0 DEF ListingTypes
<1>5. CASE Normal(e) /\ Reservable(e)
  <2>1. nodes' = nodes \cup Steps(e) /\ omitted' = (omitted \/ ~HasRoomFor(e))
        /\ (IF HasRoomFor(e) THEN Show(e) ELSE ShowNothing)
    BY <1>5 DEF ZipCollect
  <2>2. CASE HasRoomFor(e)
    <3>1. omitted' = omitted
      BY <1>4, <2>1, <2>2
    <3> QED BY <1>2, <1>5, <2>1, <2>2, <3>1
  <2>3. CASE ~HasRoomFor(e)
    BY <1>3, <1>5, <2>1, <2>3
  <2> QED BY <2>2, <2>3
<1>6. CASE ~(Normal(e) /\ Reservable(e))
  BY <1>3, <1>6 DEF ZipCollect
<1> QED BY <1>5, <1>6

LEMMA ZipEntryKeeps ==
  ASSUME ListingInv, NEW e \in Listed, ZipEntry(e)
  PROVE  ListingInv'
<1>0. /\ ListingTypes /\ ArchiveCollects /\ read \in Seq(Listed) /\ shown \in Seq(Listed)
      /\ kind = "zip" /\ kind' = kind /\ ~Answered /\ ~e.anti /\ read' = Append(read, e)
  BY DEF ListingInv, ListingTypes, ZipEntry, Delivered
<1>1. /\ read' \in Seq(Listed) /\ (Locked' <=> Locked \/ e.locked)
      /\ \A i \in DOMAIN read' : ~read'[i].anti
  BY <1>0, ReadOne DEF ArchiveCollects
<1>2. CASE listing' = Refused /\ ShowNothing /\ UNCHANGED <<nodes, omitted>>
  <2>1. ListingTypes'
    BY <1>0, <1>1, <1>2 DEF ListingTypes, ShowNothing, Refused
  <2> QED BY <1>2, <2>1, RefusedNow
<1>3. CASE UNCHANGED listing /\ (Locked \/ e.locked) /\ ShowNothing /\ UNCHANGED <<nodes, omitted>>
  <2>1. ListingTypes'
    BY <1>0, <1>1, <1>3 DEF ListingTypes, ShowNothing
  <2>2. ArchiveCollects'
    BY <1>0, <1>1, <1>3 DEF ArchiveCollects, ShowNothing
  <2> QED BY <1>0, <1>3, <2>1, <2>2, CollectingOn
<1>4. CASE UNCHANGED listing /\ ~(Locked \/ e.locked) /\ ZipCollect(e)
  BY <1>0, <1>4, ZipCollectKeeps
<1> QED BY <1>2, <1>3, <1>4 DEF ZipEntry

LEMMA SevenEntryKeeps ==
  ASSUME ListingInv, NEW e \in Listed, SevenEntry(e)
  PROVE  ListingInv'
<1>0. /\ ListingTypes /\ ArchiveCollects /\ read \in Seq(Listed) /\ shown \in Seq(Listed)
      /\ kind = "7z" /\ kind' = kind /\ ~Answered /\ read' = Append(read, e)
      /\ UNCHANGED <<nodes, listing>>
  BY DEF ListingInv, ListingTypes, SevenEntry, Delivered
<1>1. read' \in Seq(Listed)
  BY <1>0, ReadOne
<1>2. CASE HasRoomFor(e) /\ Show(e) /\ UNCHANGED omitted
  <2>1. /\ shown' \in Seq(Listed) /\ taken' \in Nat
        /\ Len(shown') <= MaxVisible /\ taken' <= MaxNames /\ AddUpTo(Sizes(shown'), taken')
    BY <1>0, <1>2, ShowOne DEF ArchiveCollects, ListingTypes
  <2>2. ~omitted' => shown' = read'
    BY <1>0, <1>2 DEF ArchiveCollects, Show
  <2>3. ListingTypes' /\ ArchiveCollects'
    BY <1>0, <1>1, <1>2, <2>1, <2>2 DEF ListingTypes, ArchiveCollects
  <2> QED BY <1>0, <2>3, CollectingOn
<1>3. CASE omitted' = TRUE /\ ShowNothing
  <2>1. ListingTypes' /\ ArchiveCollects'
    BY <1>0, <1>1, <1>3 DEF ListingTypes, ArchiveCollects, ShowNothing
  <2> QED BY <1>0, <2>1, CollectingOn
<1> QED BY <1>2, <1>3 DEF SevenEntry

LEMMA ProtectedIsHonest ==
  ASSUME ListingInv, NEW total, listing' = Protected(total),
         UNCHANGED <<kind, read, shown, taken, omitted>>
  PROVE  ListingInv'
<1>1. /\ listing'.is = "listing" /\ listing'.entries = <<>> /\ listing'.protected /\ ~listing'.exact
  BY DEF Protected
<1>2. /\ DOMAIN listing'.entries = {} /\ Len(listing'.entries) = 0 /\ Sizes(listing'.entries) = <<>>
  BY <1>1 DEF Sizes
<1>3. SumWithin(Sizes(listing'.entries), MaxNames)
  BY <1>2, NothingAddsUp, ListingNumbers DEF SumWithin
<1>4. Cardinality(UNION {Steps(listing'.entries[i]) : i \in DOMAIN listing'.entries}) <= MaxNodes
  <2>1. UNION {Steps(listing'.entries[i]) : i \in DOMAIN listing'.entries} = {}
    BY <1>2
  <2>2. Cardinality({}) <= MaxNodes
    BY FS_EmptySet, ListingNumbers
  <2> QED BY Zenon, <2>1, <2>2
<1>5. ListingIsHonest'
  BY <1>1, <1>2, <1>3, <1>4, ListingNumbers DEF ListingIsHonest, ArchiveIsHonest, SheetIsHonest
<1> QED BY <1>1, <1>5, AnsweredNow

LEMMA ListIsHonest ==
  ASSUME ListingInv, kind # "xlsx", ~Answered, ~Locked,
         Cardinality(UNION {Steps(shown[i]) : i \in DOMAIN shown}) <= MaxNodes,
         NEW total, NEW exact \in BOOLEAN, NEW truncated \in BOOLEAN,
         omitted => truncated,
         exact => total = Cardinality({i \in DOMAIN read : ~read[i].anti}),
         listing' = Listing(total, exact, truncated), UNCHANGED <<kind, read, shown, taken, omitted>>
  PROVE  ListingInv'
<1>1. /\ listing'.is = "listing" /\ listing'.entries = shown /\ ~listing'.protected
      /\ listing'.exact = exact /\ listing'.total = total /\ listing'.truncated = truncated
  BY DEF Listing
<1>2. ArchiveCollects /\ taken \in Nat
  BY DEF ListingInv, ListingTypes
<1>3. SumWithin(Sizes(shown), MaxNames)
  BY <1>2, ListingNumbers DEF ArchiveCollects, SumWithin
<1>4. ~Locked' /\ (~truncated => shown = read)
  BY <1>2 DEF ArchiveCollects, Locked
<1>5. ListingIsHonest'
  BY <1>1, <1>2, <1>3, <1>4 DEF ListingIsHonest, ArchiveIsHonest, SheetIsHonest, ArchiveCollects
<1> QED BY <1>1, <1>5, AnsweredNow

LEMMA ZipEndKeeps ==
  ASSUME ListingInv, ZipEnd
  PROVE  ListingInv'
<1>0. /\ ListingTypes /\ ArchiveCollects /\ kind = "zip" /\ ~Answered /\ read \in Seq(Listed)
      /\ UNCHANGED <<kind, read, shown, taken, omitted>>
  BY DEF ListingInv, ListingTypes, ZipEnd, ShowNothing
<1>1. CASE Locked
  BY <1>0, <1>1, ProtectedIsHonest DEF ZipEnd
<1>2. CASE ~Locked
  <2> DEFINE truncated == omitted \/ Len(read) > Len(shown)
  <2>1. listing' = Listing(Len(read), TRUE, truncated)
    BY <1>2 DEF ZipEnd
  <2>2. Cardinality(UNION {Steps(shown[i]) : i \in DOMAIN shown}) <= MaxNodes
    <3> DEFINE U == UNION {Steps(shown[i]) : i \in DOMAIN shown}
    <3>1. U \subseteq nodes /\ IsFiniteSet(nodes) /\ Cardinality(nodes) <= MaxNodes
      BY <1>0 DEF ArchiveCollects
    <3> HIDE DEF U
    <3>2. IsFiniteSet(U) /\ Cardinality(U) <= Cardinality(nodes)
      BY <3>1, FS_Subset
    <3>3. Cardinality(U) \in Nat /\ Cardinality(nodes) \in Nat
      BY <3>1, <3>2, FS_CardinalityType
    <3> QED BY <3>1, <3>2, <3>3, ListingNumbers DEF U
  <2>3. Len(read) = Cardinality({i \in DOMAIN read : ~read[i].anti})
    <3>1. {i \in DOMAIN read : ~read[i].anti} = 1..Len(read)
      BY <1>0 DEF ArchiveCollects
    <3>2. Len(read) \in Nat
      BY <1>0
    <3>3. Cardinality(1..Len(read)) = Len(read)
      BY <3>2, FromOne
    <3> QED BY Zenon, <3>1, <3>3
  <2>4. truncated \in BOOLEAN /\ (omitted => truncated)
    BY <1>0 DEF ListingTypes
  <2> HIDE DEF truncated
  <2> QED BY <1>0, <1>2, <2>1, <2>2, <2>3, <2>4, ListIsHonest
<1> QED BY <1>1, <1>2

LEMMA ZipErrorKeeps ==
  ASSUME ListingInv, ZipError
  PROVE  ListingInv'
<1>0. UNCHANGED <<kind, read, shown, taken, omitted>>
  BY DEF ZipError, ShowNothing
<1>1. CASE listing' = Refused
  <2>1. ListingTypes'
    BY <1>0, <1>1 DEF ListingInv, ListingTypes, Refused
  <2> QED BY <1>1, <2>1, RefusedNow
<1>2. CASE listing' = Protected(Len(read))
  BY <1>0, <1>2, ProtectedIsHonest
<1> QED BY <1>1, <1>2 DEF ZipError

LEMMA SevenEndKeeps ==
  ASSUME ListingInv, SevenEnd
  PROVE  ListingInv'
<1>0. /\ ListingTypes /\ kind = "7z" /\ ~Answered /\ read \in Seq(Listed)
      /\ UNCHANGED <<kind, read, shown, taken, omitted>>
  BY DEF ListingInv, ListingTypes, SevenEnd, ShowNothing
<1>1. CASE Locked
  BY <1>0, <1>1, ProtectedIsHonest DEF SevenEnd
<1>2. CASE ~Locked /\ ~Valid
  <2>1. listing' = Refused
    BY <1>2 DEF SevenEnd
  <2>2. ListingTypes'
    BY <1>0, <2>1 DEF ListingTypes, Refused
  <2> QED BY <2>1, <2>2, RefusedNow
<1>3. CASE ~Locked /\ Valid
  <2> DEFINE truncated == omitted \/ Len(shown) < Counted
             exact == Len(read) <= MaxEntries
  <2>1. listing' = Listing(Counted, exact, truncated)
    BY <1>3 DEF SevenEnd
  <2>2. Cardinality(UNION {Steps(shown[i]) : i \in DOMAIN shown}) <= MaxNodes
    BY <1>3 DEF Valid
  <2>3. exact => Counted = Cardinality({i \in DOMAIN read : ~read[i].anti})
    <3>1. Len(read) \in Nat /\ DOMAIN read = 1..Len(read)
      BY <1>0
    <3>2. exact => Scanned7z = Len(read)
      <4>1. CASE Len(read) < MaxEntries
        BY <4>1 DEF Scanned7z
      <4>2. CASE ~(Len(read) < MaxEntries)
        <5>1. Scanned7z = MaxEntries
          BY <4>2 DEF Scanned7z
        <5>2. Len(read) \in Nat /\ MaxEntries \in Nat
          BY <3>1, ListingNumbers
        <5> HIDE DEF exact
        <5>3. exact => Len(read) <= MaxEntries
          BY DEF exact
        <5> QED BY <4>2, <5>1, <5>2, <5>3
      <4> QED BY <4>1, <4>2
    <3> QED BY <3>1, <3>2 DEF Counted
  <2>4. truncated \in BOOLEAN /\ exact \in BOOLEAN /\ (omitted => truncated)
    BY <1>0 DEF ListingTypes
  <2> HIDE DEF truncated, exact
  <2> QED BY <1>0, <1>3, <2>1, <2>2, <2>3, <2>4, ListIsHonest
<1> QED BY <1>1, <1>2, <1>3

-----------------------------------------------------------------------------
(* Worksheets.                                                               *)

LEMMA CutIs ==
  ASSUME NEW size \in Nat, NEW max \in Nat
  PROVE  /\ Cut(size, max) \in Nat /\ Cut(size, max) <= max /\ Cut(size, max) <= size
<1>1. 2 * (max \div 2) \in Nat /\ 2 * (max \div 2) <= max
  OBVIOUS
<1>2. CASE size <= max
  BY <1>2 DEF Cut
<1>3. CASE size > max
  BY <1>1, <1>3 DEF Cut
<1> QED BY <1>2, <1>3

LEMMA ActualRowsAre ==
  ASSUME read \in Seq(Nat)
  PROVE  /\ ActualRows \in Nat /\ IsFiniteSet({n \in DOMAIN read : read[n] > 0})
<1>1. IsFiniteSet(1..Len(read)) /\ DOMAIN read = 1..Len(read)
  BY FS_Interval
<1>2. IsFiniteSet({n \in DOMAIN read : read[n] > 0})
  BY <1>1, FS_Subset
<1> QED BY <1>2, FS_CardinalityType DEF ActualRows

LEMMA ReadRowKeeps ==
  ASSUME ListingInv, ReadRow
  PROVE  ListingInv'
<1> DEFINE size == IF Len(shown) < Len(read) THEN read[Len(shown) + 1] ELSE 0
           cell == Cut(size, MaxCell)
           fits == Cut(cell, MaxText - taken)
<1>0. /\ ListingTypes /\ SheetCollects /\ kind = "xlsx" /\ kind' = kind /\ ~Answered
      /\ read \in Seq(Nat) /\ shown \in Seq(Nat) /\ taken \in Nat /\ omitted \in BOOLEAN
      /\ UNCHANGED <<read, listing>>
  BY DEF ListingInv, ListingTypes, ReadRow
<1>1. /\ shown' = Append(shown, fits) /\ taken' = taken + fits
      /\ omitted' = (omitted \/ cell < size \/ fits < cell)
  BY DEF ReadRow
<1>2. size \in Nat /\ (Len(shown) + 1 \in DOMAIN read => size = read[Len(shown) + 1])
  BY <1>0
<1> HIDE DEF size
<1>3. cell \in Nat /\ cell <= size
  BY <1>2, CutIs, ListingNumbers
<1> HIDE DEF cell
<1>4. MaxText - taken \in Nat
  BY <1>0, ListingNumbers DEF SheetCollects
<1>5. fits \in Nat /\ fits <= MaxText - taken /\ fits <= cell
  BY <1>3, <1>4, CutIs
<1> HIDE DEF fits
<1>6. /\ shown' \in Seq(Nat) /\ Len(shown) \in Nat /\ Len(shown') = Len(shown) + 1
      /\ DOMAIN shown = 1..Len(shown) /\ DOMAIN shown' = 1..(Len(shown) + 1)
      /\ \A i \in 1..Len(shown) : shown'[i] = shown[i]
      /\ shown'[Len(shown) + 1] = fits
  BY <1>0, <1>1, <1>5, OneMoreIs
<1>7. taken' \in Nat /\ taken' <= MaxText /\ omitted' \in BOOLEAN
  BY <1>0, <1>1, <1>5, ListingNumbers
<1>8. AddUpTo(shown', taken')
  BY <1>0, <1>1, <1>5, OneMoreAddsUp DEF SheetCollects
<1>9. ASSUME ~omitted', NEW n \in DOMAIN shown' \cap DOMAIN read PROVE shown'[n] = read[n]
  <2>1. ~omitted /\ size = cell /\ cell = fits
    <3>1. ~omitted /\ ~(cell < size) /\ ~(fits < cell)
      BY <1>0, <1>1, <1>9, Zenon
    <3> QED BY <1>2, <1>3, <1>5, <3>1
  <2>2. CASE n = Len(shown) + 1
    BY <1>2, <1>6, <1>9, <2>1, <2>2
  <2>3. CASE n # Len(shown) + 1
    <3>1. n \in DOMAIN shown \cap DOMAIN read /\ shown'[n] = shown[n]
      BY <1>6, <1>9, <2>3
    <3> QED BY <1>0, <2>1, <3>1 DEF SheetCollects
  <2> QED BY <2>2, <2>3
<1>10. SheetCollects'
  <2>1. read' # <<>>
    BY <1>0 DEF ReadRow
  <2> QED BY <1>0, <1>7, <1>8, <1>9, <2>1 DEF SheetCollects
<1>11. ListingTypes'
  BY <1>0, <1>6, <1>7 DEF ListingTypes
<1> QED BY <1>0, <1>10, <1>11, CollectingOn

LEMMA LoadSheetKeeps ==
  ASSUME ListingInv, LoadSheet
  PROVE  ListingInv'
<1>0. /\ ListingTypes /\ SheetCollects /\ kind = "xlsx" /\ kind' = kind /\ ~Answered /\ read = <<>>
      /\ UNCHANGED <<shown, taken, omitted, listing>>
  BY DEF ListingInv, LoadSheet, ShowNothing
<1>1. read' \in Seq(Nat)
  <2>1. PICK m \in 0..MaxRead : read' \in [1..m -> {0, 2, MaxCell + 2}]
    BY DEF LoadSheet, BoundedSeq, SeqOf
  <2>2. read' \in [1..m -> Nat] /\ m \in Nat
    BY <2>1, ListingNumbers, ListingAssumption
  <2> QED BY <2>2
<1>2. ListingTypes'
  BY <1>0, <1>1 DEF ListingTypes
\* No row is collected before the sheet is there.
<1>3. shown' = <<>> /\ DOMAIN shown' = {}
  BY <1>0 DEF SheetCollects
<1>4. SheetCollects'
  BY <1>0, <1>3 DEF SheetCollects
<1> QED BY <1>0, <1>2, <1>4, CollectingOn

LEMMA RefuseSheetKeeps ==
  ASSUME ListingInv, RefuseSheet
  PROVE  ListingInv'
<1>1. ListingTypes' /\ listing' = Refused
  BY DEF ListingInv, ListingTypes, RefuseSheet, ShowNothing, Refused
<1> QED BY <1>1, RefusedNow

LEMMA SheetEndKeeps ==
  ASSUME ListingInv, SheetEnd
  PROVE  ListingInv'
<1>0. /\ ListingTypes /\ SheetCollects /\ kind = "xlsx" /\ ~Answered /\ taken \in Nat
      /\ read \in Seq(Nat) /\ shown \in Seq(Nat) /\ Len(shown) = VisibleRows
      /\ UNCHANGED <<kind, read, shown, taken, omitted>>
  BY DEF ListingInv, ListingTypes, SheetEnd, ShowNothing
<1>1. /\ listing'.is = "sheet" /\ listing'.content = omitted
      /\ listing'.rows = (ActualRows > VisibleRows)
  BY DEF SheetEnd
<1>2. SumWithin(shown, MaxText)
  BY <1>0, ListingNumbers DEF SheetCollects, SumWithin
<1>3. ASSUME ActualRows <= VisibleRows, \A n \in 1..ActualRows : read[n] > 0,
             NEW n \in DOMAIN read, read[n] > 0
      PROVE  n \in DOMAIN shown
  <2> DEFINE filled == {i \in DOMAIN read : read[i] > 0}
  <2>1. ActualRows \in Nat /\ IsFiniteSet(filled) /\ Cardinality(filled) = ActualRows
    BY <1>0, ActualRowsAre DEF ActualRows
  <2>2. ActualRows <= Len(read)
    <3>1. IsFiniteSet(1..Len(read)) /\ Cardinality(1..Len(read)) = Len(read) /\ Len(read) \in Nat
      BY <1>0, FromOne
    <3>2. filled \subseteq 1..Len(read)
      BY <1>0
    <3> HIDE DEF filled
    <3> QED BY <2>1, <3>1, <3>2, FS_Subset
  <2>3. 1..ActualRows \subseteq filled
    BY <1>0, <1>3, <2>1, <2>2
  <2>4. Cardinality(1..ActualRows) = ActualRows
    BY <2>1, FS_Interval
  <2>5. n \in filled
    BY <1>3
  <2> HIDE DEF filled
  <2>6. 1..ActualRows = filled
    BY <2>1, <2>3, <2>4, FS_Subset
  <2>7. Len(shown) \in Nat /\ DOMAIN shown = 1..Len(shown)
    BY <1>0
  <2> QED BY <1>0, <1>3, <2>1, <2>5, <2>6, <2>7
<1>4. ~(ActualRows > VisibleRows) => ActualRows <= VisibleRows
  <2>1. ActualRows \in Nat /\ VisibleRows \in Nat
    BY <1>0, ActualRowsAre
  <2> QED BY <2>1
<1>5. SheetIsHonest'
  <2>1. ActualRows' = ActualRows
    BY <1>0 DEF ActualRows
  <2> QED BY <1>0, <1>1, <1>2, <1>3, <1>4, <2>1 DEF SheetIsHonest, SheetCollects
<1>6. ListingIsHonest'
  BY <1>1, <1>5 DEF ListingIsHonest, ArchiveIsHonest
<1> QED BY <1>0, <1>1, <1>6, AnsweredNow

LEMMA ListingStarts == ListingInit => ListingInv
<1> SUFFICES ASSUME ListingInit PROVE ListingInv
  OBVIOUS
<1>1. /\ ListingTypes /\ listing.is = "none" /\ ~omitted /\ taken = 0 /\ read = <<>> /\ shown = <<>>
      /\ nodes = {}
  <2>1. <<>> \in Seq(Listed) /\ <<>> \in Seq(Nat)
    OBVIOUS
  <2>2. /\ kind \in {"zip", "7z", "xlsx"} /\ listing = NoListing /\ omitted = FALSE
        /\ taken = 0 /\ read = <<>> /\ shown = <<>> /\ nodes = {}
    BY DEF ListingInit
  <2>3. listing.is = "none"
    BY <2>2 DEF NoListing
  <2> QED BY <2>1, <2>2, <2>3 DEF ListingTypes
<1>2. Sizes(shown) = <<>> /\ DOMAIN shown = {} /\ Len(shown) = 0 /\ DOMAIN read = {}
  BY <1>1 DEF Sizes
<1>3. ArchiveCollects /\ SheetCollects
  BY <1>1, <1>2, NothingAddsUp, FS_EmptySet, ListingNumbers DEF ArchiveCollects, SheetCollects
<1>4. ListingIsHonest
  BY <1>1 DEF ListingIsHonest, ArchiveIsHonest, SheetIsHonest
<1> QED BY <1>1, <1>3, <1>4 DEF ListingInv

LEMMA ListingKeeps == ListingInv /\ ListingNext => ListingInv'
BY ZipEntryKeeps, SevenEntryKeeps, ZipEndKeeps, ZipErrorKeeps, SevenEndKeeps, RefuseSheetKeeps,
   LoadSheetKeeps, ReadRowKeeps, SheetEndKeeps DEF ListingNext

LEMMA ListingStutters == ListingInv /\ UNCHANGED listingVars => ListingInv'
BY DEF listingVars, ListingInv, ListingTypes, ArchiveCollects, SheetCollects, ListingIsHonest,
   ArchiveIsHonest, SheetIsHonest, Answered, Locked, ActualRows

-----------------------------------------------------------------------------
(* The parts side by side.                                                   *)

LEMMA ClientStutters ==
  UNCHANGED clientVars => (TransferInv => TransferInv') /\ (PaneInv => PaneInv')
BY DEF clientVars, previewVars, transferVars, TransferInv, PaneInv, BarFollowsTransfer, Uploading,
       ContentIsOfSelection

LEMMA ClientHolds == ProgressSpec => [](TransferInv /\ PaneInv)
<1>1. ProgressInit => TransferInv /\ PaneInv
  BY TransferStarts, PaneStarts DEF ProgressInit
<1>2. TransferInv /\ PaneInv /\ [ProgressNext]_progressVars => (TransferInv /\ PaneInv)'
  <2> SUFFICES ASSUME TransferInv, PaneInv, [ProgressNext]_progressVars
               PROVE  (TransferInv /\ PaneInv)'
    OBVIOUS
  <2>1. PreviewStep \/ TransferStep \/ UNCHANGED clientVars
    BY DEF ProgressNext, Others, progressVars
  <2> QED BY <2>1, ClientStutters, PaneKeeps, TransferKeeps, PaneOutlivesTransfers,
             TransfersOutliveThePane
<1> QED BY <1>1, <1>2, PTL DEF ProgressSpec

LEMMA SlotsHold == ProgressSpec => []SlotInv
<1>1. ProgressInit => SlotInv
  BY SlotStarts DEF ProgressInit
<1>2. SlotInv /\ [ProgressNext]_progressVars => SlotInv'
  <2> SUFFICES ASSUME SlotInv, [ProgressNext]_progressVars
               PROVE  SlotInv'
    OBVIOUS
  <2>1. SlotNext \/ UNCHANGED slotVars
    BY DEF ProgressNext, Others, progressVars
  <2> QED BY <2>1, SlotsKeep, SlotsStutter
<1> QED BY <1>1, <1>2, PTL DEF ProgressSpec

\* One transfer at a time on a bar that stays in view until it ends, a form locked until its
\* upload failed or the page changes, no way to cancel what the server may be committing
\* (app.js:59-140, 235-326), whatever timers, buttons and answers come in between.
THEOREM BarStaysWithItsTransfer == ProgressSpec => []BarFollowsTransfer
<1>1. TransferInv => BarFollowsTransfer
  BY DEF TransferInv
<1> QED BY <1>1, ClientHolds, PTL

\* However many loads overlap and in whatever order their answers arrive, content on the pane is
\* of the file that is selected, and the key that spares a load is its own (app.js:974-1060).
THEOREM PaneShowsItsSelection == ProgressSpec => []ContentIsOfSelection
<1>1. PaneInv => ContentIsOfSelection
  BY DEF PaneInv
<1> QED BY <1>1, ClientHolds, PTL

\* For any number of previews, slots and descriptor numbers: what a worker read after its number
\* was given to another file is never anybody's answer (file-preview.js:597-660).
THEOREM MetadataIsOfItsArchive == ProgressSpec => []MetadataOfItsArchive
<1>1. SlotInv => MetadataOfItsArchive
  BY DEF SlotInv, SlotOK, MetadataOfItsArchive
<1> QED BY <1>1, SlotsHold, PTL

LEMMA NetHolds == ProgressSpec => []NetInv
<1>1. ProgressInit => NetInv
  BY NetStarts DEF ProgressInit
<1>2. NetInv /\ [ProgressNext]_progressVars => NetInv'
  <2> SUFFICES ASSUME NetInv, [ProgressNext]_progressVars
               PROVE  NetInv'
    OBVIOUS
  <2>1. NetNext \/ UNCHANGED netVars
    BY DEF ProgressNext, Others, progressVars
  <2> QED BY <2>1, NetKeeps, NetStutters
<1> QED BY <1>1, <1>2, PTL DEF ProgressSpec

LEMMA ListingHolds == ProgressSpec => []ListingInv
<1>1. ProgressInit => ListingInv
  BY ListingStarts DEF ProgressInit
<1>2. ListingInv /\ [ProgressNext]_progressVars => ListingInv'
  <2> SUFFICES ASSUME ListingInv, [ProgressNext]_progressVars
               PROVE  ListingInv'
    OBVIOUS
  <2>1. ListingNext \/ UNCHANGED listingVars
    BY DEF ProgressNext, Others, progressVars
  <2> QED BY <2>1, ListingKeeps, ListingStutters
<1> QED BY <1>1, <1>2, PTL DEF ProgressSpec

LEMMA ShareHolds == ProgressSpec => []ShareInv
<1>1. ProgressInit => ShareInv
  BY ShareStarts DEF ProgressInit
<1>2. ShareInv /\ [ProgressNext]_progressVars => ShareInv'
  <2> SUFFICES ASSUME ShareInv, [ProgressNext]_progressVars
               PROVE  ShareInv'
    OBVIOUS
  <2>1. ShareNext \/ UNCHANGED shareVars
    BY DEF ProgressNext, Others, progressVars
  <2> QED BY <2>1, ShareKeeps, ShareStutters
<1> QED BY <1>1, <1>2, PTL DEF ProgressSpec

\* Every part keeps its types, and with them: a share has a password exactly if it is enabled, a
\* process listens on all it started with or nothing and serves no connection with the database
\* closed, slots in use are counted and within the limit, a descriptor names its request's file.
THEOREM PartsTypeCorrect == ProgressSpec => []PartsTypeOK
<1>1. SlotInv => SlotTypeOK
  BY DEF SlotInv, SlotTypes, SlotOK, SlotTypeOK, Events
<1>2. TransferInv /\ PaneInv => ClientTypeOK
  <2> SUFFICES ASSUME TransferInv, PaneInv PROVE ClientTypeOK
    OBVIOUS
  <2>1. /\ bar.state \in {"idle", "active", "success", "error", "canceled"}
        /\ bar.action \in {"none", "cancel", "hide"}
        /\ upload.stage \in {"none", "sending", "processing", "done"}
    BY DEF TransferInv, BarType, UploadType
  <2>2. pane.what \in {"hint", "loading", "content", "notice", "error"}
        /\ pane.key \in Key \cup {NoKey}
    BY DEF PaneInv, PaneType
  <2>3. \A l \in Load : /\ loads[l].stage \in {"idle", "fetching", "reading", "aborted", "empty"}
                        /\ loads[l].key \in Key \cup {NoKey}
    BY DEF PaneInv, Keyed, LoadType
  <2> QED BY <2>1, <2>2, <2>3 DEF ClientTypeOK, TransferInv, PaneInv
<1>3. NetInv => NetTypeOK
  BY DEF NetInv
<1>4. ShareInv /\ NetInv /\ SlotInv /\ TransferInv /\ PaneInv => PartsTypeOK
  BY <1>1, <1>2, <1>3, ShareInvImplies DEF PartsTypeOK
<1> QED BY <1>4, ShareHolds, NetHolds, SlotsHold, ClientHolds, PTL

\* Whatever an archive or a worksheet holds, and for all values of the limits: what a preview
\* shows is within every budget, it says when it leaves something out, counts exactly what it
\* claims to count, and shows no name of an archive in which it met an encrypted entry
\* (file-preview.js:296-325, 371-436, 458-526, seven-zip-parser-worker.js:544-632).
THEOREM ListingsAreHonest == ProgressSpec => []ListingIsHonest
<1>1. ListingInv => ListingIsHonest
  BY DEF ListingInv
<1> QED BY <1>1, ListingHolds, PTL

\* Whatever is queued, repeated, refused or rolled back, and wherever either process stops: with
\* every command consumed, and outside the faults that "lost" names, the password that opens a
\* share is the one its row stands for (smb-settings.js:226-330, entrypoint.sh).
THEOREM PasswordFollowsRow == ProgressSpec => []CredentialFollowsRow
BY ShareHolds, ShareInvImplies, PTL
=============================================================================
