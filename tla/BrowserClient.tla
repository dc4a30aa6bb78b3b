---------------------------- MODULE BrowserClient ----------------------------
(* The repository page in the browser (public/js/app.js): the preview pane,  *)
(* whose loads overlap as the user clicks on, and the bar of the one upload  *)
(* or download that runs.  What the server answers, and when, is open.       *)
EXTENDS Naturals

CONSTANTS Item,        \* files of the page; each has a preview the user may see
          Pdf,         \* those the browser itself displays
          Sheet,       \* worksheets of a file
          Load,        \* bound on loads in flight
          NoItem, NoLoad,
          FirstSheet,  \* what the Preview tab opens
          ServerFails  \* the server may answer a preview with an error

ASSUME ClientAssumption ==
  /\ Pdf \subseteq Item /\ FirstSheet \in Sheet /\ ServerFails \in BOOLEAN
  /\ NoItem \notin Item /\ NoLoad \notin Load

VARIABLES selected,    \* selectedItem
          pane,        \* what the pane shows, and of what
          loadedKey,   \* loadedPreviewKey
          controller,  \* the load that previewController aborts
          loads,       \* load -> where its promise is
          wanted,      \* history: the preview the user opened last
          bar,         \* the transfer bar
          upload,      \* the XMLHttpRequest of the upload form
          download,    \* the fetch of a download
          leaving      \* the page is about to follow a redirect

previewVars == <<selected, pane, loadedKey, controller, loads, wanted>>
transferVars == <<bar, upload, download, leaving>>
clientVars == <<previewVars, transferVars>>

Key == [item : Item, sheet : Sheet]
NoKey == [item |-> NoItem, sheet |-> FirstSheet]
Idle == [stage |-> "idle", key |-> NoKey]
NoTransfer == [stage |-> "none", locked |-> FALSE]
Showing(what, key) == [what |-> what, key |-> key]

ClientInit ==
  /\ selected = NoItem /\ pane = Showing("hint", NoKey)
  /\ loadedKey = NoKey /\ controller = NoLoad
  /\ loads = [l \in Load |-> Idle] /\ wanted = NoKey
  /\ bar = [state |-> "idle", busy |-> FALSE, hidden |-> TRUE, action |-> "none",
            hiding |-> FALSE]
  /\ upload = NoTransfer
  /\ download = "none" /\ leaving = FALSE

-----------------------------------------------------------------------------
(* The preview pane.                                                         *)

\* previewController.abort(): a fetch is rejected; a body being read is, too, but
\* fetchPreviewJson takes that for a response without a payload.
Aborted ==
  [l \in Load |->
     IF l # controller THEN loads[l]
     ELSE [loads[l] EXCEPT !.stage = CASE @ = "fetching" -> "aborted"
                                       [] @ = "reading"  -> "empty"
                                       [] OTHER          -> @]]

\* showPreviewMessage: whatever is being loaded is given up.
Message(what, key) == pane' = Showing(what, key) /\ controller' = NoLoad

Select(i) ==
  /\ selected # i
  /\ selected' = i /\ loadedKey' = NoKey /\ wanted' = NoKey
  /\ loads' = Aborted /\ Message("hint", NoKey)
  /\ UNCHANGED transferVars

\* Escape, the close button, a cleared check box, a filter that hides the file.
ClearSelection == selected # NoItem /\ Select(NoItem)

\* loadFilePreview, unless that preview is on display.
Open(key) ==
  /\ key.item = selected
  /\ ~(loadedKey = key /\ pane.what = "content")
  /\ \E l \in Load : /\ loads[l] = Idle
                     /\ loads' = [Aborted EXCEPT ![l] = [stage |-> "fetching", key |-> key]]
                     /\ controller' = l
  /\ pane' = Showing("loading", key) /\ wanted' = key
  /\ UNCHANGED <<selected, loadedKey>> /\ UNCHANGED transferVars

\* A PDF is a frame: the content is there at once, nothing is aborted.
OpenPdf(key) ==
  /\ ~(loadedKey = key /\ pane.what = "content")
  /\ pane' = Showing("content", key) /\ loadedKey' = key /\ wanted' = key
  /\ UNCHANGED <<selected, controller, loads>> /\ UNCHANGED transferVars

ClickTab ==
  /\ selected # NoItem
  /\ LET key == [item |-> selected, sheet |-> FirstSheet]
     IN  \/ selected \in Pdf /\ OpenPdf(key)
         \/ selected \notin Pdf /\ Open(key)

\* The buttons are part of the content and name its file.
ClickSheet ==
  /\ pane.what = "content" /\ pane.key.item \notin Pdf
  /\ \E s \in Sheet : Open([item |-> pane.key.item, sheet |-> s])

HeadersArrive(l) ==
  /\ loads[l].stage = "fetching"
  /\ loads' = [loads EXCEPT ![l].stage = "reading"]
  /\ UNCHANGED <<selected, pane, loadedKey, controller, wanted>> /\ UNCHANGED transferVars

\* finally: the controller is dropped, whoever's it is.
Return(l, after) == loads' = [after EXCEPT ![l] = Idle] /\ controller' = NoLoad

\* Deviation: a payload is shown without asking what is selected by now.
WhoeverIsSelected(l) == TRUE

StillSelected(l) == loads[l].key.item = selected

\* A notice: an encrypted or empty archive, through showPreviewMessage.
PayloadArrives(l) ==
  /\ loads[l].stage = "reading"
  /\ IF StillSelected(l)
     THEN \E what \in {"content", "notice"} :
            /\ pane' = Showing(what, loads[l].key)
            /\ loadedKey' = loads[l].key
            /\ Return(l, IF what = "notice" THEN Aborted ELSE loads)
     ELSE UNCHANGED <<pane, loadedKey>> /\ Return(l, loads)
  /\ UNCHANGED <<selected, wanted>> /\ UNCHANGED transferVars

ShowError(l) ==
  /\ pane' = Showing("error", loads[l].key) /\ loadedKey' = NoKey
  /\ Return(l, Aborted)
  /\ UNCHANGED <<selected, wanted>> /\ UNCHANGED transferVars

\* An error status, read to its end or not, or a broken connection; nothing asks
\* what is selected.
LoadFails(l) ==
  /\ ServerFails /\ loads[l].stage \in {"fetching", "reading", "empty"}
  /\ ShowError(l)

\* AbortError is silent.
AbortReported(l) ==
  /\ loads[l].stage = "aborted"
  /\ Return(l, loads)
  /\ UNCHANGED <<selected, pane, loadedKey, wanted>> /\ UNCHANGED transferVars

\* A payload of null: dropped for another file, a TypeError for the same one.
EmptyPayload(l) ==
  /\ loads[l].stage = "empty"
  /\ IF loads[l].key.item = selected
     THEN ShowError(l)
     ELSE /\ Return(l, loads)
          /\ UNCHANGED <<selected, pane, loadedKey, wanted>> /\ UNCHANGED transferVars

-----------------------------------------------------------------------------
(* Uploads and downloads.                                                    *)

\* Deviation: start() leaves the timer of the transfer before.
TimerLeft == bar.hiding

\* start() clears it.
TimerAfterStart == FALSE

Started ==
  [state |-> "active", busy |-> TRUE, hidden |-> FALSE, action |-> "cancel",
   hiding |-> TimerAfterStart]
\* complete, cancel and fail; only a failure stays until it is dismissed.
EndedBar(state) ==
  [bar EXCEPT !.state = state, !.busy = FALSE, !.action = "hide", !.hiding = @ \/ state # "error"]
Hidden == [bar EXCEPT !.state = "idle", !.hidden = TRUE, !.hiding = FALSE]

SubmitUpload ==
  /\ ~upload.locked /\ ~bar.busy
  /\ upload' = [stage |-> "sending", locked |-> TRUE] /\ bar' = Started
  /\ UNCHANGED <<download, leaving>> /\ UNCHANGED previewVars

\* The body has left: the server may be committing, there is no cancelling any more.
BodySent ==
  /\ upload.stage = "sending"
  /\ upload' = [upload EXCEPT !.stage = "processing"]
  /\ bar' = [bar EXCEPT !.action = "none"]
  /\ UNCHANGED <<download, leaving>> /\ UNCHANGED previewVars

\* The form stays locked until the redirect.
UploadSucceeds ==
  /\ upload.stage = "processing"
  /\ upload' = [upload EXCEPT !.stage = "done"]
  /\ bar' = EndedBar("success") /\ leaving' = TRUE
  /\ UNCHANGED download /\ UNCHANGED previewVars

\* An error, before or after the body was read, or a lost session with its redirect.
UploadFails ==
  /\ upload.stage \in {"sending", "processing"}
  /\ upload' = NoTransfer
  /\ bar' = EndedBar("error") /\ leaving' \in {leaving, TRUE}
  /\ UNCHANGED download /\ UNCHANGED previewVars

StartDownload ==
  /\ ~bar.busy
  /\ download' = "receiving" /\ bar' = Started
  /\ UNCHANGED <<upload, leaving>> /\ UNCHANGED previewVars

DownloadEnds ==
  /\ download # "none" /\ download' = "none"
  /\ bar' = EndedBar(IF download = "aborted" THEN "canceled" ELSE "success")
  /\ UNCHANGED <<upload, leaving>> /\ UNCHANGED previewVars

\* A cancelled one, too, when the answer that was cut short was an error.
DownloadFails ==
  /\ download # "none" /\ download' = "none"
  /\ bar' = EndedBar("error") /\ leaving' \in {leaving, leaving \/ download = "receiving"}
  /\ UNCHANGED upload /\ UNCHANGED previewVars

\* xhr.abort() reports at once, controller.abort() through the rejected fetch.
ClickCancel ==
  /\ bar.action = "cancel"
  /\ \/ /\ upload.stage = "sending"
        /\ upload' = NoTransfer /\ bar' = EndedBar("canceled")
        /\ UNCHANGED download
     \/ /\ download = "receiving" /\ download' = "aborted"
        /\ UNCHANGED <<bar, upload>>
  /\ UNCHANGED leaving /\ UNCHANGED previewVars

Hide ==
  /\ bar.hiding \/ (bar.action = "hide" /\ ~bar.hidden)
  /\ bar' = Hidden
  /\ UNCHANGED <<upload, download, leaving>> /\ UNCHANGED previewVars

\* The page is replaced with everything on it; what still runs is cut.
Leave ==
  /\ leaving
  /\ selected' = NoItem /\ pane' = Showing("hint", NoKey)
  /\ loadedKey' = NoKey /\ controller' = NoLoad
  /\ loads' = [l \in Load |-> Idle] /\ wanted' = NoKey
  /\ bar' = [Hidden EXCEPT !.busy = FALSE, !.action = "none"]
  /\ upload' = NoTransfer /\ download' = "none" /\ leaving' = FALSE

PreviewStep ==
  \/ \E i \in Item : Select(i)
  \/ ClearSelection \/ ClickTab \/ ClickSheet
  \/ \E l \in Load : \/ HeadersArrive(l) \/ PayloadArrives(l) \/ LoadFails(l)
                     \/ AbortReported(l) \/ EmptyPayload(l)

TransferStep ==
  \/ SubmitUpload \/ BodySent \/ UploadSucceeds \/ UploadFails
  \/ StartDownload \/ DownloadEnds \/ DownloadFails \/ ClickCancel \/ Hide \/ Leave

ClientNext == PreviewStep \/ TransferStep

\* The pane alone: all a transfer does to it is a new page.
PreviewSpec == ClientInit /\ [][PreviewStep]_clientVars

-----------------------------------------------------------------------------
(* Properties.                                                               *)

\* Types.
ClientTypeOK ==
  /\ selected \in Item \cup {NoItem} /\ controller \in Load \cup {NoLoad}
  /\ pane.what \in {"hint", "loading", "content", "notice", "error"}
  /\ {pane.key, loadedKey, wanted} \subseteq Key \cup {NoKey}
  /\ \A l \in Load : /\ loads[l].stage \in {"idle", "fetching", "reading", "aborted", "empty"}
                     /\ loads[l].key \in Key \cup {NoKey}
  /\ bar.state \in {"idle", "active", "success", "error", "canceled"}
  /\ bar.action \in {"none", "cancel", "hide"}
  /\ upload.stage \in {"none", "sending", "processing", "done"}
  /\ download \in {"none", "receiving", "aborted"} /\ leaving \in BOOLEAN

\* Whatever overlaps and however late it arrives, the pane shows content of the
\* file that is selected, and the key that spares a second load is that of the
\* content on display (app.js:974, app.js:985).
ContentIsOfSelection ==
  pane.what = "content" => pane.key = loadedKey /\ pane.key.item = selected

Uploading == upload.stage \in {"sending", "processing"}

\* One transfer at a time, on a bar that stays in view until it ends, a form that
\* is locked until its upload has failed or the page changes, and no way to cancel
\* an upload that the server may be committing (app.js:59-140, 235-326).
BarFollowsTransfer ==
  /\ bar.busy <=> (Uploading \/ download # "none")
  /\ Uploading => download = "none"
  /\ bar.busy => ~bar.hidden /\ bar.state = "active"
  /\ upload.locked <=> upload.stage # "none"
  /\ upload.stage = "done" => leaving
  /\ bar.action = "cancel" => upload.stage # "processing"

\* README.md:13-17: opening the Preview tab shows the file's preview.  When every
\* load has ended, and the server refused none, the pane shows what was opened last.
OpenedPreviewIsShown ==
  wanted # NoKey /\ (\A l \in Load : loads[l] = Idle)
    => pane.what \in {"content", "notice"} /\ pane.key = wanted
=============================================================================
