------------------------------ MODULE SmbShare ------------------------------
(* How one repository is published over SMB, by two processes that share     *)
(* only files.  RecordDrive (smb-settings.js) commits the share's settings,  *)
(* rewrites the manifest shares.json and leaves a credential command; its    *)
(* synchronization pass rewrites the manifest from the rows every second.    *)
(* The Samba sidecar (smb/entrypoint.sh) consumes the commands and           *)
(* regenerates the Samba shares from the manifest in a loop of its own.      *)
(* RecordDrive is one thread: while an update runs it does nothing else, but *)
(* the sidecar steps between any two file operations, and either process may *)
(* stop anywhere.                                                            *)
EXTENDS Naturals, Sequences

CONSTANTS Password,      \* the passwords an owner may choose
          NoPassword,    \* no password; as a command: delete the user
          MaxShareEvents \* bound on settings saved, faults and restarts

ASSUME SmbShareAssumption == NoPassword \notin Password /\ MaxShareEvents \in Nat

VARIABLES row,      \* the repository's row: exists, enabled, readOnly, and cred,
                    \* the password its smb_credential_updated_at stands for
          writes,   \* SMB_ALLOW_WRITES: as set, as each process read it at its start
          update,   \* the settings update that runs: step, row before, command
          manifest, \* what shares.json grants
          commands, \* the credential commands waiting in the control directory
          samba,    \* passdb entry, Unix account, the share smbd serves, sidecar up
          fresh,    \* status.json is at most 30 seconds old
          lost,     \* history: a fault separated the passdb from the row
          faults    \* events so far, up to MaxShareEvents

shareVars == <<row, writes, update, manifest, commands, samba, fresh, lost, faults>>

Access == {"none", "readonly", "writable"}
MaybePassword == Password \cup {NoPassword}
RowType == [exists : BOOLEAN, enabled : BOOLEAN, readOnly : BOOLEAN, cred : MaybePassword]

Wanted(r, allowed) ==
  IF ~r.enabled THEN "none" ELSE IF r.readOnly \/ ~allowed THEN "readonly" ELSE "writable"

Forced(access) ==
  IF access = "writable" /\ ~writes.sidecar THEN "readonly" ELSE access

NoUpdate == [at |-> "idle", old |-> row, command |-> <<>>]

ShareInit ==
  /\ row = [exists |-> TRUE, enabled |-> FALSE, readOnly |-> FALSE, cred |-> NoPassword]
  /\ \E allowed \in BOOLEAN :
       writes = [setting |-> allowed, app |-> allowed, sidecar |-> allowed]
  /\ update = [at |-> "idle", old |-> row, command |-> <<>>]
  /\ manifest = "none" /\ commands = <<>>
  /\ samba = [passdb |-> NoPassword, account |-> FALSE, serves |-> "none", up |-> FALSE]
  /\ fresh = FALSE /\ lost = FALSE /\ faults = 0

Event == faults < MaxShareEvents /\ faults' = faults + 1

-----------------------------------------------------------------------------
(* RecordDrive.                                                              *)

Accepts(form, password) ==
  form.enabled => /\ form.readOnly \/ writes.app
                  /\ fresh
                  /\ row.cred # NoPassword \/ password # NoPassword

CommandOf(form, password) ==
  IF password # NoPassword THEN <<password>>
  ELSE IF ~form.enabled /\ row.enabled THEN <<NoPassword>> ELSE <<>>

\* Checks and the committed UPDATE; the password of a disabled form is ignored.
SaveShare ==
  /\ Event /\ update.at = "idle" /\ row.exists
  /\ \E form \in [enabled : BOOLEAN, readOnly : BOOLEAN], typed \in MaybePassword :
       LET password == IF form.enabled THEN typed ELSE NoPassword IN
       /\ Accepts(form, password)
       /\ row' = [exists |-> TRUE, enabled |-> form.enabled, readOnly |-> form.readOnly,
                  cred |-> IF ~form.enabled THEN NoPassword
                           ELSE IF password # NoPassword THEN password ELSE row.cred]
       /\ update' = [at |-> "committed", old |-> row, command |-> CommandOf(form, password)]
  /\ UNCHANGED <<writes, manifest, commands, samba, fresh, lost>>

PublishManifest ==
  /\ update.at = "committed"
  /\ manifest' = Wanted(row, writes.app)
  /\ update' = [update EXCEPT !.at = "published"]
  /\ UNCHANGED <<row, writes, commands, samba, fresh, lost, faults>>

\* atomicWriteJson renames the command into place; its last chmod comes after.
WriteCommand ==
  /\ update.at = "published" /\ update.command # <<>>
  /\ commands' = commands \o update.command
  /\ update' = [update EXCEPT !.at = "commanded"]
  /\ UNCHANGED <<row, writes, manifest, samba, fresh, lost, faults>>

\* The chmod finds the command still there (it is the last of the queue).
FinishUpdate ==
  /\ \/ update.at = "published" /\ update.command = <<>> /\ lost' = lost
     \/ update.at = "commanded" /\ commands # <<>> /\ lost' = FALSE
  /\ update' = NoUpdate
  /\ UNCHANGED <<row, writes, manifest, commands, samba, fresh, faults>>

Restored == update.old

\* The catch: the old row back, the manifest rewritten (or not, if that fails).
RollBack ==
  /\ row' = Restored
  /\ manifest' \in {manifest, Wanted(update.old, writes.app)}
  /\ update' = [at |-> "idle", old |-> update.old, command |-> <<>>]
  /\ UNCHANGED <<writes, commands, samba, fresh>>

\* The manifest or the command cannot be written.
UpdateFails ==
  /\ Event /\ update.at \in {"committed", "published"}
  /\ update.at = "published" => update.command # <<>>
  /\ lost' = lost
  /\ RollBack

\* The sidecar consumed the command before the chmod, which now fails.
CommandTakenEarly ==
  /\ update.at = "commanded" /\ commands = <<>>
  /\ lost' = TRUE /\ faults' = faults
  /\ RollBack

\* Deviation: a pass with no enabled repository has nothing to publish.
RewriteSharedManifest ==
  /\ update.at = "idle" /\ row.enabled
  /\ manifest' = Wanted(row, writes.app)
  /\ UNCHANGED <<row, writes, update, commands, samba, fresh, lost, faults>>

\* A synchronization pass, at the timer or after a saved form.
RewriteManifest ==
  /\ update.at = "idle"
  /\ manifest' = Wanted(row, writes.app)
  /\ UNCHANGED <<row, writes, update, commands, samba, fresh, lost, faults>>

\* Nothing tells the sidecar: the passdb entry outlives the repository.
DeleteSharedRepository ==
  /\ Event /\ update.at = "idle" /\ row.exists
  /\ row' = [row EXCEPT !.exists = FALSE, !.enabled = FALSE, !.cred = NoPassword]
  /\ update' = [update EXCEPT !.old = row']
  /\ lost' = (lost \/ row.cred # NoPassword)
  /\ UNCHANGED <<writes, manifest, commands, samba, fresh>>

\* A crash or a restart of RecordDrive: the settings stay as committed.
RestartApp ==
  /\ Event
  /\ update' = NoUpdate
  /\ lost' = (lost \/ (update.at \in {"committed", "published"} /\ update.command # <<>>))
  /\ writes' = [writes EXCEPT !.app = writes.setting]
  /\ UNCHANGED <<row, manifest, commands, samba, fresh>>

-----------------------------------------------------------------------------
(* The sidecar.                                                              *)

ChangeSetting ==
  /\ Event
  /\ writes' = [writes EXCEPT !.setting = ~@]
  /\ UNCHANGED <<row, update, manifest, commands, samba, fresh, lost>>

\* The container starts again; a recreated one reads the setting and has lost
\* the Unix accounts.  The share list starts empty in either case.
StartSidecar ==
  /\ ~samba.up
  /\ \E recreated \in BOOLEAN :
       /\ samba' = [samba EXCEPT !.up = TRUE, !.serves = "none",
                                 !.account = @ /\ ~recreated]
       /\ writes' = IF recreated THEN [writes EXCEPT !.sidecar = writes.setting] ELSE writes
       /\ lost' = (lost \/ (recreated /\ samba.account))
  /\ fresh' = TRUE
  /\ UNCHANGED <<row, update, manifest, commands, faults>>

Applied(c) == [samba EXCEPT !.passdb = c, !.account = (c # NoPassword)]

\* The sidecar may stop after it applied a command and before it removed it.
StopSidecar ==
  /\ Event /\ samba.up
  /\ samba' \in {[s EXCEPT !.up = FALSE, !.serves = "none"] :
                   s \in {samba} \cup (IF commands = <<>> THEN {} ELSE {Applied(Head(commands))})}
  /\ UNCHANGED <<row, writes, update, manifest, commands, fresh, lost>>

StatusExpires ==
  /\ ~samba.up /\ fresh /\ fresh' = FALSE
  /\ UNCHANGED <<row, writes, update, manifest, commands, samba, lost, faults>>

ConsumeCommand ==
  /\ samba.up /\ commands # <<>>
  /\ samba' = Applied(Head(commands))
  /\ commands' = Tail(commands)
  /\ UNCHANGED <<row, writes, update, manifest, fresh, lost, faults>>

\* smbpasswd refuses: the command is set aside as .failed and never retried.
CommandFails ==
  /\ Event /\ samba.up /\ commands # <<>> /\ Head(commands) # NoPassword
  /\ samba' \in {samba, [samba EXCEPT !.account = TRUE]}
  /\ commands' = Tail(commands)
  /\ lost' = (lost \/ Len(commands) = 1)
  /\ UNCHANGED <<row, writes, update, manifest, fresh>>

\* A configuration that testparm refuses leaves the served one: no step.
GenerateShares ==
  /\ samba.up
  /\ samba' = [samba EXCEPT !.serves = Forced(manifest)]
  /\ UNCHANGED <<row, writes, update, manifest, commands, fresh, lost, faults>>

ShareNext ==
  \/ SaveShare \/ PublishManifest \/ WriteCommand \/ FinishUpdate
  \/ UpdateFails \/ CommandTakenEarly \/ RewriteManifest
  \/ DeleteSharedRepository \/ RestartApp \/ ChangeSetting
  \/ StartSidecar \/ StopSidecar \/ StatusExpires
  \/ ConsumeCommand \/ CommandFails \/ GenerateShares

\* The handler runs on; timers and the container's restart policy drive the rest.
ShareFairness ==
  /\ WF_shareVars(PublishManifest) /\ WF_shareVars(WriteCommand)
  /\ WF_shareVars(FinishUpdate) /\ WF_shareVars(CommandTakenEarly)
  /\ WF_shareVars(RewriteManifest)
  /\ WF_shareVars(StartSidecar)
  /\ WF_shareVars(ConsumeCommand) /\ WF_shareVars(GenerateShares)

ShareSpec == ShareInit /\ [][ShareNext]_shareVars /\ ShareFairness

-----------------------------------------------------------------------------
(* Properties.                                                               *)

\* Types; an enabled share has a password and a disabled one has none, also
\* after the rollback of a half-done update (smb-settings.js:267-272, 300-313).
ShareTypeOK ==
  /\ row \in RowType
  /\ row.enabled <=> row.cred # NoPassword
  /\ writes \in [setting : BOOLEAN, app : BOOLEAN, sidecar : BOOLEAN]
  /\ update.at \in {"idle", "committed", "published", "commanded"}
  /\ update.old \in RowType /\ update.command \in {<<>>} \cup {<<c>> : c \in MaybePassword}
  /\ manifest \in Access /\ commands \in Seq(MaybePassword)
  /\ samba \in [passdb : MaybePassword, account : BOOLEAN, serves : Access, up : BOOLEAN]
  /\ fresh \in BOOLEAN /\ lost \in BOOLEAN /\ faults \in 0 .. MaxShareEvents

\* Once every command is consumed, the one password that opens the share is the
\* one the row stands for, and a disabled share has no Samba user, whatever
\* was queued, repeated or rolled back on the way (smb-settings.js:290-322).
\* Outside it lie the faults "lost" names: a crash between COMMIT and command,
\* a command refused or taken before its chmod, a recreated sidecar, a deleted
\* repository.
CredentialFollowsRow ==
  (update.at = "idle" /\ commands = <<>> /\ ~lost) =>
    /\ samba.passdb = row.cred
    /\ samba.account <=> row.cred # NoPassword

\* When settings and faults stop, Samba ends up serving exactly what the row
\* grants and no command is left over: the pass repairs a manifest that a crash
\* or a failed rollback left behind (smb-sync-service.js:1118-1137).
ShareFollowsRow ==
  <>[](samba.serves = Forced(Wanted(row, writes.app)) /\ commands = <<>>)
=============================================================================
