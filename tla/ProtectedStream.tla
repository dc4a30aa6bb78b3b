--------------------------- MODULE ProtectedStream ---------------------------
(***************************************************************************)
(* Disclosure of stored files: downloads and PDF previews are pumped from  *)
(* an open descriptor, structured previews are generated from one and then *)
(* pumped from memory.  Every step below is one run of the event loop      *)
(* between two awaits of the pump; the interval timer, the client, the     *)
(* network and whoever revokes an authorization come in between.           *)
(***************************************************************************)
EXTENDS Naturals, FiniteSets

CONSTANTS
  Stream,        \* requests
  Fd,            \* descriptor numbers, reused by the system once closed
  Kinds,         \* kinds of request a client makes: subset of {"file", "json"}
  Chunks,        \* chunks of a response
  NoStream, NoFd

ASSUME KindAssumption == Kinds \subseteq {"file", "json"}
ASSUME ChunkAssumption == Chunks \in Nat
ASSUME NullAssumption == NoStream \notin Stream /\ NoFd \notin Fd

VARIABLES
  streams,     \* the requests
  fds,         \* the request whose file is open at a number
  authorized   \* what createFileDisclosureAuthorizer would say of a request

vars == <<streams, fds, authorized>>

\* stage: where the request waits; generating: for its preview, reading: in readChunk,
\* draining: in waitForDrainOrStop.  final: finalize was called.
\* out: the response; destroyed means that its close event is still to come.
Request ==
  [kind : {"file", "json"},
   stage : {"new", "generating", "reading", "draining", "done"},
   fd : Fd \cup {NoFd}, left : 0..Chunks,
   timer : BOOLEAN, stopped : BOOLEAN, final : BOOLEAN,
   out : {"open", "ended", "destroyed", "closed"}]

Fresh(k, n) ==
  [kind |-> k, stage |-> "new", fd |-> NoFd, left |-> n, timer |-> FALSE,
   stopped |-> FALSE, final |-> FALSE, out |-> "open"]

\* A file may be empty, a structured preview never is.
Asked ==
  {q \in {Fresh(k, n) : k \in Kinds, n \in 0..Chunks} : q.kind = "json" => q.left > 0}

Init ==
  /\ streams \in [Stream -> Asked]
  /\ fds = [d \in Fd |-> NoStream]
  /\ authorized = [s \in Stream |-> TRUE]

-----------------------------------------------------------------------------
(* The pump, as functions on a request.  ok is the answer of                *)
(* verifyAuthorization.                                                     *)

\* finalize: the timer stops; Become closes the descriptor.
Finalized(q) == [q EXCEPT !.final = TRUE, !.timer = FALSE]

\* The pump leaves its loop.
Finished(q) == [Finalized(q) EXCEPT !.stage = "done"]

Gone(out) == IF out = "closed" THEN out ELSE "destroyed"

\* terminateForRevocation.
Terminated(q) ==
  IF q.stopped \/ q.final THEN q
  ELSE [q EXCEPT !.stopped = TRUE, !.out = Gone(@)]

Ended(q) == Finished([q EXCEPT !.out = "ended"])

Written(q, n) == [q EXCEPT !.left = @ - n]

\* streamProtectedFile from the top of its loop to the next await.
FileLoop(q, ok) ==
  IF q.stopped THEN Finished(q)
  ELSE IF q.left = 0 THEN Ended(q)
  ELSE IF ok THEN [q EXCEPT !.stage = "reading"]
  ELSE Finished(Terminated(q))

\* streamProtectedBuffer from the top of its loop to the next await: n chunks pass
\* their check and are written before the response is full, a check says no, or the
\* buffer ends.  write on a response that is gone takes nothing and asks to wait.
BufferLoop(q, n, then) ==
  IF q.stopped THEN Finished(q)
  ELSE IF q.left = 0 THEN Ended(q)
  ELSE IF q.out # "open" /\ then # "refused" THEN [q EXCEPT !.stage = "draining"]
  ELSE CASE then = "full"    -> [Written(q, n) EXCEPT !.stage = "draining"]
         [] then = "refused" -> Finished(Terminated(Written(q, n)))
         [] then = "all"     -> Ended(Written(q, n))

Outcome == {"full", "refused", "all"}

\* The descriptor of a request is closed, whoever has it by now.
Closed(table, q) ==
  IF q.fd = NoFd THEN table ELSE [table EXCEPT ![q.fd] = NoStream]

Free(d) == fds[d] = NoStream

\* A check says yes only to an authorized request, and no if the database fails.
Answer(s, ok) == ok => authorized[s]

\* What n chunks and then an outcome need.
Outcomes(s, n, then) ==
  /\ n \in 0..streams[s].left
  /\ n > 0 => authorized[s]
  /\ then = "full" => n > 0
  /\ then = "refused" => n < streams[s].left
  /\ then = "all" => n = streams[s].left

\* Request s becomes q; finalize closes the descriptor of a file stream.
Become(s, q) ==
  /\ streams' = [streams EXCEPT ![s] = q]
  /\ fds' = IF q.kind = "file" /\ q.final /\ ~streams[s].final THEN Closed(fds, q) ELSE fds

-----------------------------------------------------------------------------
(* Routes.                                                                  *)

\* A download or a PDF preview: open, check, and start the pump, or close again.
Download(s, d, ok) ==
  LET q == [streams[s] EXCEPT !.fd = d]
  IN  /\ q.stage = "new" /\ q.kind = "file"
      /\ Free(d) /\ Answer(s, ok)
      /\ IF ok /\ q.left > 0
         THEN /\ streams' = [streams EXCEPT ![s] = FileLoop([q EXCEPT !.timer = TRUE], TRUE)]
              /\ fds' = [fds EXCEPT ![d] = s]
         ELSE /\ streams' = [streams EXCEPT ![s] = Ended(q)]
              /\ UNCHANGED fds
      /\ UNCHANGED authorized

\* A structured preview: open, check, and wait for the parser.
Preview(s, d, ok) ==
  LET q == [streams[s] EXCEPT !.fd = d]
  IN  /\ q.stage = "new" /\ q.kind = "json"
      /\ Free(d) /\ Answer(s, ok)
      /\ streams' = [streams EXCEPT ![s] =
           IF ok THEN [q EXCEPT !.stage = "generating"] ELSE Ended(q)]
      /\ fds' = IF ok THEN [fds EXCEPT ![d] = s] ELSE fds
      /\ UNCHANGED authorized

\* The parser failed or was too slow, or the request is no longer authorized: an error
\* is sent, and the descriptor is closed.
PreviewFails(s) ==
  /\ streams[s].stage = "generating"
  /\ streams' = [streams EXCEPT ![s] = Ended(@)]
  /\ fds' = Closed(fds, streams[s])
  /\ UNCHANGED authorized

\* The parser is done: check, start the pump, and close the descriptor.  The
\* close event of a response that is gone by now has passed.
PreviewReady(s, n, then) ==
  /\ streams[s].stage = "generating"
  /\ authorized[s] /\ Outcomes(s, n, then)
  /\ streams' = [streams EXCEPT ![s] =
       BufferLoop([@ EXCEPT !.timer = TRUE], n, then)]
  /\ fds' = Closed(fds, streams[s])
  /\ UNCHANGED authorized

-----------------------------------------------------------------------------
(* The pump waits, and goes on.                                             *)

\* Deviation: the decision of the last check is still good enough.
ReadUnchecked(s, full, ok) ==
  LET q == streams[s]
  IN  /\ q.stage = "reading" /\ ok
      /\ Become(s, IF q.stopped THEN Finished(q)
                   ELSE IF full THEN [Written(q, 1) EXCEPT !.stage = "draining"]
                   ELSE FileLoop(Written(q, 1), TRUE))
      /\ UNCHANGED authorized

\* readChunk is done: leave if something stopped the stream meanwhile; check, write.
Read(s, full, ok) ==
  LET q == streams[s]
  IN  /\ q.stage = "reading" /\ Answer(s, ok)
      /\ Become(s, IF q.stopped THEN Finished(q)
                   ELSE IF ~ok THEN Finished(Terminated(q))
                   ELSE IF full THEN [Written(q, 1) EXCEPT !.stage = "draining"]
                   ELSE FileLoop(Written(q, 1), TRUE))
      /\ UNCHANGED authorized

\* The file is shorter than it was, or cannot be read.
ReadEnds(s, failed) ==
  LET q == streams[s]
  IN  /\ q.stage = "reading"
      /\ Become(s, IF failed THEN Finished([q EXCEPT !.stopped = TRUE, !.out = Gone(@)])
                   ELSE IF q.stopped THEN Finished(q) ELSE Ended(q))
      /\ UNCHANGED authorized

\* The drain event.  The check before the next read may be answered from the cache.
Drain(s, n, then, ok) ==
  LET q == streams[s]
  IN  /\ q.stage = "draining" /\ q.out = "open"
      /\ \/ q.kind = "file" /\ Become(s, FileLoop(q, ok))
         \/ /\ q.kind = "json" /\ Outcomes(s, n, then)
            /\ Become(s, BufferLoop(q, n, then))
      /\ UNCHANGED authorized

\* Deviation: a pump that waits hears the drain event only.
CloseEventUnheard(q) ==
  IF q.stage \in {"new", "generating"} THEN [q EXCEPT !.out = "closed"]
  ELSE [q EXCEPT !.out = "closed", !.stopped = TRUE]

\* The close event: the stream is stopped, and a pump that waits goes on to its end.
CloseEvent(q) ==
  LET c == [q EXCEPT !.out = "closed", !.stopped = TRUE]
  IN  CASE q.stage \in {"new", "generating"} -> [q EXCEPT !.out = "closed"]
        [] q.stage = "draining" -> Finished(c)
        [] OTHER -> c

\* The client goes away, or the response fails.
Disconnect(s) ==
  /\ streams[s].stage \in {"generating", "reading", "draining"} /\ streams[s].out = "open"
  /\ Become(s, CloseEvent(streams[s]))
  /\ UNCHANGED authorized

\* The response that was destroyed emits close.
Destroyed(s) ==
  /\ streams[s].out = "destroyed"
  /\ Become(s, CloseEvent(streams[s]))
  /\ UNCHANGED authorized

\* Deviation: the timer ends the stream itself, without waiting for the pump.
RecheckFinalizes(s, ok) ==
  /\ streams[s].timer /\ Answer(s, ok)
  /\ Become(s, IF ok \/ streams[s].stopped THEN streams[s]
               ELSE Finalized(Terminated(streams[s])))
  /\ UNCHANGED authorized

\* The interval timer.
Recheck(s, ok) ==
  /\ streams[s].timer /\ Answer(s, ok)
  /\ Become(s, IF ok THEN streams[s] ELSE Terminated(streams[s]))
  /\ UNCHANGED authorized

\* A session, a permission, a file, a repository or an account goes or comes back.
Authorize(s) ==
  /\ authorized' = [authorized EXCEPT ![s] = ~@]
  /\ UNCHANGED <<streams, fds>>

\* The next request of a client.
Again(s, q) ==
  /\ streams[s].stage = "done" /\ streams[s].out # "destroyed"
  /\ streams' = [streams EXCEPT ![s] = q]
  /\ UNCHANGED <<fds, authorized>>

-----------------------------------------------------------------------------
Route(s) == \E d \in Fd, ok \in BOOLEAN : Download(s, d, ok) \/ Preview(s, d, ok)

Parsed(s) ==
  PreviewFails(s) \/ \E n \in 0..Chunks, then \in Outcome : PreviewReady(s, n, then)

ReadStep(s) == \E b, ok \in BOOLEAN : Read(s, b, ok) \/ ReadEnds(s, b)

Network(s) ==
  \/ \E n \in 0..Chunks, then \in Outcome, ok \in BOOLEAN : Drain(s, n, then, ok)
  \/ Disconnect(s)

Next ==
  \E s \in Stream :
    \/ Route(s) \/ Parsed(s) \/ ReadStep(s) \/ Network(s) \/ Destroyed(s)
    \/ Authorize(s)
    \/ \E ok \in BOOLEAN : Recheck(s, ok)
    \/ \E q \in Asked : Again(s, q)

\* Reads and parsers end, the timer fires, and a destroyed response emits close.  A
\* client need not read, nor ask, nor go.
Spec ==
  /\ Init /\ [][Next]_vars
  /\ \A s \in Stream :
       /\ WF_vars(Parsed(s)) /\ WF_vars(ReadStep(s)) /\ WF_vars(Destroyed(s))
       /\ WF_vars(~authorized[s] /\ Recheck(s, FALSE))

-----------------------------------------------------------------------------
\* The type of each variable; a stream is finalized when its pump is done, and its
\* timer never outlives that (finalize).
TypeOK ==
  /\ streams \in [Stream -> Request]
  /\ fds \in [Fd -> Stream \cup {NoStream}]
  /\ authorized \in [Stream -> BOOLEAN]
  /\ \A s \in Stream : /\ streams[s].final <=> streams[s].stage = "done"
                       /\ streams[s].timer => streams[s].stage \in {"reading", "draining"}

Holds(s) ==
  \/ streams[s].stage = "generating"
  \/ streams[s].kind = "file" /\ streams[s].stage \in {"reading", "draining"}

\* Descriptor numbers are reused: a request that still reads has its own file open at
\* its number, so no number is closed twice or while a read is in flight, and
\* whatever is open belongs to a request that will close it (finalize, the finally of
\* the preview route).
DescriptorsAreOwned ==
  /\ \A s \in Stream : Holds(s) => streams[s].fd \in Fd /\ fds[streams[s].fd] = s
  /\ \A d \in Fd : fds[d] # NoStream => Holds(fds[d]) /\ streams[fds[d]].fd = d

\* No chunk leaves without an authorization at that moment, nor after a stream was
\* stopped, whether or not the authorization has come back (verifyAuthorization(true)
\* before each write).
DisclosureIsAuthorized ==
  [][\A s \in Stream :
       streams[s].stage # "done" /\ streams'[s].left < streams[s].left =>
         authorized[s] /\ ~streams[s].stopped]_vars

\* A stream whose authorization is gone for good ends, even if its client stopped
\* reading and never goes away (the interval timer).
RevocationEndsStream ==
  \A s \in Stream :
    <>[]~authorized[s] => []<>(streams[s].stage \in {"new", "done"})

\* Where clients read on or go away, every stream reports its completion: the done
\* promise resolves, the timer stops and the descriptor is closed.
CompletionIsReported ==
  (\A s \in Stream : WF_vars(Network(s))) =>
    \A s \in Stream : streams[s].stage # "new" ~> streams[s].stage = "done"
=============================================================================
