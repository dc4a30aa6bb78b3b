---------------------------- MODULE NetworkServer ----------------------------
(* The listeners of the process: startup, the TLS certificate and shutdown   *)
(* (server.js, network-server.js).  The settings the process started with    *)
(* and the saved ones drift apart as an administrator saves new ones; a      *)
(* renewal replaces certificate and key on disk, one file after the other,   *)
(* while the server starts, runs or reloads.                                 *)
EXTENDS Naturals

CONSTANTS MaxNetEvents, \* bound on files replaced, settings saved, failures, signals
          MaxOpen       \* bound on connections open at once

ASSUME NetAssumption == MaxNetEvents \in Nat /\ MaxOpen \in Nat

VARIABLES proc,       \* where the process is
          saved,      \* the settings in the database
          boot,       \* the settings the process started with
          files,      \* versions of the certificate and key files
          held,       \* the pair the HTTPS server uses
          signature,  \* the pair whose modification times were recorded
          listening,  \* the servers that listen
          open,       \* connections
          signals,    \* signals whose handler has run
          handles,    \* the database handle and the SMB timer are open
          missed,     \* history: files replaced between being read and being recorded
          netEvents

netVars == <<proc, saved, boot, files, held, signature, listening, open, signals, handles,
             missed, netEvents>>

Settings == [https : BOOLEAN, auto : BOOLEAN, port : {1, 2}]
Pairs == [cert : Nat, key : Nat]
Signal == {"SIGINT", "SIGTERM"}
Matching(pair) == pair.cert = pair.key
Stopped == {"down", "exited"}
Servers(s) == IF s.https THEN {"http", "https"} ELSE {"http"}

NetInit ==
  /\ proc = "down"
  /\ \E https, auto \in BOOLEAN : saved = [https |-> https, auto |-> auto, port |-> 1]
  /\ boot = saved
  /\ files = [cert |-> 0, key |-> 0] /\ held = files /\ signature = files
  /\ listening = {} /\ open = 0 /\ signals = {} /\ handles = [open |-> FALSE, sync |-> FALSE]
  /\ missed = FALSE /\ netEvents = 0

NetEvent == netEvents < MaxNetEvents /\ netEvents' = netEvents + 1

-----------------------------------------------------------------------------
(* The disk and the saved settings.                                          *)

Reading == proc \in {"listening_https", "reloading"}

ReplaceFile ==
  /\ NetEvent
  /\ files' \in {[files EXCEPT !.cert = @ + 1], [files EXCEPT !.key = @ + 1]}
  /\ missed' = (missed \/ Reading)
  /\ UNCHANGED <<proc, saved, boot, held, signature, listening, open, signals, handles>>

\* POST /admin/tls: valid settings are saved, nothing that runs changes.
SaveSettings ==
  /\ NetEvent /\ proc = "running"
  /\ saved' \in Settings
  /\ saved'.https => Matching(files)
  /\ UNCHANGED <<proc, boot, files, held, signature, listening, open, signals, handles, missed>>

-----------------------------------------------------------------------------
(* Startup.                                                                  *)

\* createApplication, the settings read and validated, the options built: the
\* files are read here, the HTTPS server starts to listen.
StartProcess ==
  /\ proc = "down"
  /\ saved.https => Matching(files)
  /\ boot' = saved
  /\ held' = files /\ missed' = FALSE
  /\ proc' = IF saved.https THEN "listening_https" ELSE "listening_http"
  /\ handles' = [open |-> TRUE, sync |-> TRUE] /\ signals' = {}
  /\ UNCHANGED <<saved, files, signature, listening, open, netEvents>>

\* Only now are the files' modification times recorded.
HttpsListens ==
  /\ proc = "listening_https"
  /\ listening' = listening \cup {"https"}
  /\ signature' = files
  /\ proc' = "listening_http"
  /\ UNCHANGED <<saved, boot, files, held, open, signals, handles, missed, netEvents>>

HttpListens ==
  /\ proc = "listening_http"
  /\ listening' = listening \cup {"http"}
  /\ proc' = "running"
  /\ UNCHANGED <<saved, boot, files, held, signature, open, signals, handles, missed, netEvents>>

\* A port is taken: what listens already is closed and the process exits; the
\* connections it accepted meanwhile go with it.
ListenFails ==
  /\ NetEvent /\ proc \in {"listening_https", "listening_http"}
  /\ listening' = {} /\ open' = 0
  /\ proc' = "down" /\ handles' = [open |-> FALSE, sync |-> FALSE]
  /\ UNCHANGED <<saved, boot, files, held, signature, signals, missed>>

-----------------------------------------------------------------------------
(* The certificate.                                                          *)

\* What reloadTlsCertificate checks of the saved settings.
MayReload == boot.https /\ saved.https /\ saved.port = boot.port /\ Matching(files)

\* Deviation: sizes are compared without times, and a renewed pair keeps its sizes.
SizesChanged == FALSE

FilesChanged == files # signature

\* The files are read and the context set ...
TimerReload ==
  /\ proc = "running" /\ boot.auto /\ saved.auto /\ FilesChanged /\ MayReload
  /\ held' = files
  /\ proc' = "reloading" /\ missed' = FALSE
  /\ UNCHANGED <<saved, boot, files, signature, listening, open, signals, handles, netEvents>>

\* POST /admin/tls/reload, whatever changed.
ManualReload ==
  /\ NetEvent /\ proc = "running" /\ MayReload
  /\ held' = files
  /\ proc' = "reloading" /\ missed' = FALSE
  /\ UNCHANGED <<saved, boot, files, signature, listening, open, signals, handles>>

\* ... and then their modification times are read.
RecordSignature ==
  /\ proc = "reloading"
  /\ signature' = files /\ proc' = "running"
  /\ UNCHANGED <<saved, boot, files, held, listening, open, signals, handles, missed, netEvents>>

-----------------------------------------------------------------------------
(* Connections and shutdown.                                                 *)

OpenConnection ==
  /\ listening # {} /\ open < MaxOpen /\ open' = open + 1
  /\ UNCHANGED <<proc, saved, boot, files, held, signature, listening, signals, handles,
                 missed, netEvents>>

CloseConnection ==
  /\ open > 0 /\ open' = open - 1
  /\ UNCHANGED <<proc, saved, boot, files, held, signature, listening, signals, handles,
                 missed, netEvents>>

\* The first signal of either kind: the timer stops, the servers stop accepting.
Shutdown(signal) ==
  /\ NetEvent /\ proc = "running" /\ signals = {}
  /\ signals' = {signal}
  /\ listening' = {} /\ proc' = "closing"
  /\ UNCHANGED <<saved, boot, files, held, signature, open, handles, missed>>

\* The other signal is ignored; the same one again has no handler left.
SignalAgain(signal) ==
  /\ NetEvent /\ proc = "closing"
  /\ IF signal \in signals
     THEN proc' = "exited" /\ open' = 0 /\ signals' = signals
     ELSE signals' = signals \cup {signal} /\ UNCHANGED <<proc, open>>
  /\ UNCHANGED <<saved, boot, files, held, signature, listening, handles, missed>>

\* Deviation: the database is closed without waiting for the servers.
NoWait == TRUE

ServersClosed == open = 0

\* Every connection has ended: the SMB service and the database are closed.
CloseDatabase ==
  /\ proc = "closing" /\ ServersClosed
  /\ handles' = [open |-> FALSE, sync |-> FALSE] /\ proc' = "exited"
  /\ UNCHANGED <<saved, boot, files, held, signature, listening, open, signals,
                 missed, netEvents>>

\* SHUTDOWN_TIMEOUT_MS: the process exits with connections still open.
ForceExit ==
  /\ proc = "closing"
  /\ proc' = "exited" /\ open' = 0
  /\ UNCHANGED <<saved, boot, files, held, signature, listening, signals, handles, missed,
                 netEvents>>

\* The service manager starts the process again.
StartAgain ==
  /\ proc = "exited" /\ NetEvent
  /\ proc' = "down" /\ handles' = [open |-> FALSE, sync |-> FALSE]
  /\ UNCHANGED <<saved, boot, files, held, signature, listening, open, signals, missed>>

NetNext ==
  \/ ReplaceFile \/ SaveSettings \/ StartProcess \/ HttpsListens \/ HttpListens \/ ListenFails
  \/ TimerReload \/ ManualReload \/ RecordSignature \/ OpenConnection \/ CloseConnection
  \/ \E signal \in Signal : Shutdown(signal) \/ SignalAgain(signal)
  \/ CloseDatabase \/ ForceExit \/ StartAgain

\* Listening, timers and one synchronous handler; nobody has to disconnect.
NetFairness ==
  /\ WF_netVars(HttpsListens) /\ WF_netVars(HttpListens)
  /\ WF_netVars(TimerReload) /\ WF_netVars(RecordSignature) /\ WF_netVars(ForceExit)

NetSpec == NetInit /\ [][NetNext]_netVars /\ NetFairness

-----------------------------------------------------------------------------
(* Properties.                                                               *)

\* Types; a process that is not up listens on nothing, one that runs listens on all
\* it started with (network-server.js:108-141: all listeners or none), and no
\* connection is served with the database closed (server.js:26-31).
NetTypeOK ==
  /\ proc \in {"down", "listening_https", "listening_http", "running", "reloading",
               "closing", "exited"}
  /\ saved \in Settings /\ boot \in Settings
  /\ files \in Pairs /\ held \in Pairs /\ signature \in Pairs
  /\ open \in 0 .. MaxOpen /\ signals \subseteq Signal /\ missed \in BOOLEAN
  /\ proc \in Stopped \cup {"closing"} => listening = {}
  /\ proc \in {"running", "reloading"} => listening = Servers(boot)
  /\ open > 0 => handles.open

\* A matching pair on disk that automatic reload may use.
Renewable ==
  proc = "running" /\ boot.https /\ boot.auto /\ saved = boot /\ Matching(files)

\* A matching pair that stays on disk comes into use under automatic reload,
\* provided the saved settings still agree with the running ones.  "missed" leaves
\* out a pair replaced between being read and being recorded (network-server.js:143-180).
CertificateCatchesUp ==
  <>[](Renewable /\ ~missed) => <>[](held = files)

\* README.md:297 without that exception.
ReplacementIsLoaded ==
  <>[]Renewable => <>[](held = files)

\* A signal ends the process, whoever keeps a connection open (server.js:21-24).
ShutdownEnds == proc = "closing" ~> proc \in Stopped
=============================================================================
