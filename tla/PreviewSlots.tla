---------------------------- MODULE PreviewSlots ----------------------------
(* 7z previews (file-preview.js): a fixed number of slots, a worker thread   *)
(* per preview that reads the archive through the number of the request's    *)
(* file descriptor, and a timer.  The first of timer, message, error and     *)
(* exit settles a preview; the request then frees its slot and closes its    *)
(* descriptor while the worker may still be on its way out and read on, from *)
(* whatever file that number names by then.                                  *)
EXTENDS Naturals, FiniteSets

CONSTANTS Archive,   \* preview requests, each of one archive
          Number,    \* descriptor numbers
          NoNumber,  \* no descriptor
          NoFile,    \* what a free number names
          SlotLimit  \* PREVIEW_CONCURRENCY_LIMITS["7z"]

ASSUME SlotAssumption ==
  NoNumber \notin Number /\ NoFile \notin Archive /\ SlotLimit \in Nat \ {0}

VARIABLES stage,   \* request -> where it is
          fdOf,    \* request -> the number it was given, also its worker's
          table,   \* number -> the request whose archive it names
          active,  \* activePreviews["7z"]
          worker,  \* request -> its worker thread
          inbox,   \* request -> the worker's events not handled yet
          seen,    \* request -> whose archives its worker has read
          answer   \* request -> what it was answered

slotVars == <<stage, fdOf, table, active, worker, inbox, seen, answer>>

Parsing == {r \in Archive : stage[r] = "parsing"}
Alive(r) == worker[r] \in {"running", "terminating"}

SlotInit ==
  /\ stage = [r \in Archive |-> "new"] /\ fdOf = [r \in Archive |-> NoNumber]
  /\ table = [fd \in Number |-> NoFile] /\ active = 0
  /\ worker = [r \in Archive |-> "none"] /\ inbox = [r \in Archive |-> {}]
  /\ seen = [r \in Archive |-> {}] /\ answer = [r \in Archive |-> "none"]

-----------------------------------------------------------------------------
(* The request.                                                              *)

\* Any free number: the system hands out the lowest, other files come and go.
OpenArchive(r) ==
  /\ stage[r] = "new"
  /\ \E fd \in Number : /\ table[fd] = NoFile
                        /\ table' = [table EXCEPT ![fd] = r]
                        /\ fdOf' = [fdOf EXCEPT ![r] = fd]
  /\ stage' = [stage EXCEPT ![r] = "open"]
  /\ UNCHANGED <<active, worker, inbox, seen, answer>>

Reply(r, with) ==
  /\ stage' = [stage EXCEPT ![r] = "answered"]
  /\ answer' = [answer EXCEPT ![r] = with]
  /\ table' = [table EXCEPT ![fdOf[r]] = NoFile]

SlotFree == active < SlotLimit

\* Not authorized, too large, disabled, or no slot: PREVIEW_BUSY.
RefusePreview(r) ==
  /\ stage[r] = "open"
  /\ Reply(r, "error")
  /\ UNCHANGED <<fdOf, active, worker, inbox, seen>>

StartWorker(r) ==
  /\ stage[r] = "open" /\ SlotFree
  /\ stage' = [stage EXCEPT ![r] = "parsing"]
  /\ active' = active + 1
  /\ worker' = [worker EXCEPT ![r] = "running"]
  /\ UNCHANGED <<fdOf, table, inbox, seen, answer>>

-----------------------------------------------------------------------------
(* The worker; one that is being terminated may still run a while.           *)

\* The message is the last thing a worker sends: it reads before.
ReadArchive(r) ==
  /\ Alive(r) /\ inbox[r] = {} /\ table[fdOf[r]] # NoFile
  /\ seen' = [seen EXCEPT ![r] = @ \cup {table[fdOf[r]]}]
  /\ UNCHANGED <<stage, fdOf, table, active, worker, inbox, answer>>

\* Metadata once it has read anything; an error at any time (EBADF included).
PostMessage(r) ==
  /\ Alive(r) /\ inbox[r] = {}
  /\ \E event \in {"metadata", "error"} :
       /\ event = "metadata" => seen[r] # {}
       /\ inbox' = [inbox EXCEPT ![r] = {event}]
  /\ UNCHANGED <<stage, fdOf, table, active, worker, seen, answer>>

\* It ends, out of memory or by itself; without a message its exit is the event.
WorkerEnds(r) ==
  /\ Alive(r)
  /\ worker' = [worker EXCEPT ![r] = "gone"]
  /\ inbox' = [inbox EXCEPT ![r] = IF @ = {} THEN {"exit"} ELSE @]
  /\ UNCHANGED <<stage, fdOf, table, active, seen, answer>>

-----------------------------------------------------------------------------
(* The main thread.                                                          *)

\* finish(): the first event settles the promise; the finally blocks free the
\* slot and close the descriptor, terminate() has only been asked for.
Settle(r, with) ==
  /\ Reply(r, with)
  /\ active' = active - 1
  /\ worker' = [worker EXCEPT ![r] = IF @ = "running" THEN "terminating" ELSE @]
  /\ UNCHANGED <<fdOf, seen>>

\* Deviation: a timeout answers at once and leaves the promise to the worker.
TimesOutUnsettled(r) ==
  /\ stage[r] = "parsing" /\ answer[r] = "none"
  /\ answer' = [answer EXCEPT ![r] = "error"]
  /\ table' = [table EXCEPT ![fdOf[r]] = NoFile]
  /\ UNCHANGED <<stage, fdOf, active, worker, inbox, seen>>

TimesOut(r) ==
  /\ stage[r] = "parsing"
  /\ Settle(r, "error")
  /\ UNCHANGED inbox

\* Metadata is not answered if the authorization was lost meanwhile.
HandleEvent(r) ==
  /\ inbox[r] # {} /\ inbox' = [inbox EXCEPT ![r] = {"handled"}]
  /\ "handled" \notin inbox[r]
  /\ IF stage[r] = "parsing"
     THEN \E with \in {"error"} \cup (inbox[r] \ {"exit"}) : Settle(r, with)
     ELSE UNCHANGED <<stage, fdOf, table, active, worker, seen, answer>>

SlotNext ==
  \E r \in Archive :
    \/ OpenArchive(r) \/ RefusePreview(r) \/ StartWorker(r)
    \/ ReadArchive(r) \/ PostMessage(r) \/ WorkerEnds(r)
    \/ TimesOut(r) \/ HandleEvent(r)

\* Timers and events are handled; a worker may parse on for ever.
SlotFairness == \A r \in Archive : WF_slotVars(TimesOut(r)) /\ WF_slotVars(HandleEvent(r))

SlotSpec == SlotInit /\ [][SlotNext]_slotVars /\ SlotFairness

-----------------------------------------------------------------------------
(* Properties.                                                               *)

\* Types; the counter is the number of previews that hold a slot, never past
\* the limit, through every way a preview can end (file-preview.js:50-62).
SlotTypeOK ==
  /\ stage \in [Archive -> {"new", "open", "parsing", "answered"}]
  /\ fdOf \in [Archive -> Number \cup {NoNumber}] /\ table \in [Number -> Archive \cup {NoFile}]
  /\ worker \in [Archive -> {"none", "running", "terminating", "gone"}]
  /\ inbox \in [Archive -> SUBSET {"metadata", "error", "exit", "handled"}]
  /\ seen \in [Archive -> SUBSET Archive]
  /\ answer \in [Archive -> {"none", "metadata", "error"}]
  /\ active = Cardinality(Parsing) /\ active <= SlotLimit
  /\ \A r \in Archive : stage[r] \in {"open", "parsing"} => table[fdOf[r]] = r

\* No preview shows another file's metadata: what a worker reads after its
\* descriptor's number was given away is never anybody's answer
\* (file-preview.js:597-660, repositories.js:871-914).
MetadataOfItsArchive ==
  \A r \in Archive : answer[r] = "metadata" => seen[r] = {r}

\* Every preview that took a slot is answered and gives it back, however long
\* its worker parses.
EveryPreviewEnds == \A r \in Archive : stage[r] = "parsing" ~> stage[r] = "answered"
=============================================================================
