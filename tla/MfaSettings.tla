------------------------------- MODULE MfaSettings -------------------------------
(***************************************************************************)
(* How a signed-in user changes second factors (routes/settings.js): TOTP   *)
(* enrolment, recovery keys, passkeys, and the page that shows the secret   *)
(* and the new keys.  All of it needs a password verification or sign-in    *)
(* that is at most SECURITY_VERIFICATION_MAX_AGE_MS old.                    *)
(*                                                                         *)
(* Four routes wait in the middle: confirming a TOTP code, both steps of a  *)
(* passkey registration, and the page itself while it draws a QR code.      *)
(* They hold a copy of the session, and what they write back replaces what  *)
(* other requests of the session wrote meanwhile.  The other routes run     *)
(* from load to save without a pause.                                       *)
(***************************************************************************)
EXTENDS SecondFactor

CONSTANTS
  Browser,       \* session identifiers of the account
  NoRegistration,
  Handler,       \* requests that can wait at the same time
  VerifiedFor,        \* SECURITY_VERIFICATION_MAX_AGE_MS = ENROLLMENT_MAX_AGE_MS
  LastTime       \* bound on the clock

ASSUME SettingsAssumption ==
  /\ NoRegistration \notin Challenge
  /\ VerifiedFor \in Nat
  /\ LastTime \in Nat \ {0}

VARIABLES
  time,       \* Date.now()
  factors,    \* rows of users, recovery_codes, webauthn_credentials
  issued,     \* rows of webauthn_challenges
  sessions,   \* stored sessions of the account
  handlers,   \* requests that await
  overdue     \* history: what was done after the verification had lapsed

settingsVars == <<time, factors, issued, sessions, handlers, overdue>>

-----------------------------------------------------------------------------
\* A session: authenticatedAt, securityVerifiedAt (0 for none), webAuthnRegistration
\* and its time, pendingTotpEnrollment and newRecoveryCodesEncrypted, each with its
\* disclosure limit (0 for none).
Signed == [state : {"unused", "live", "gone"}, at : Nat, verified : Nat,
           challenge : Challenge \cup {NoRegistration}, asked : Nat,
           secret : Secret \cup {NoSecret}, secretUntil : Nat,
           fresh : SUBSET Code, freshUntil : Nat]

Blank == [state |-> "unused", at |-> 0, verified |-> 0, challenge |-> NoRegistration,
          asked |-> 0, secret |-> NoSecret, secretUntil |-> 0, fresh |-> {},
          freshUntil |-> 0]

Handling == [at : {"confirm", "options", "register", "view"}, sid : Browser, copy : Signed]

Resting == [at |-> "idle"]

\* Types.
SettingsTypeOK ==
  /\ time \in 1..LastTime
  /\ factors \in AccountRow
  /\ issued \subseteq [id : Challenge, sid : Browser, purpose : {"registration"},
                       expires : Nat]
  /\ sessions \in [Browser -> Signed]
  /\ DOMAIN handlers = Handler
  /\ \A h \in Handler : handlers[h] \in Handling \cup {Resting}
  /\ overdue \subseteq {"change", "disclosure"}

SettingsInit ==
  /\ time = 1
  /\ factors = NewAccount
  /\ issued = {}
  /\ sessions = [s \in Browser |-> Blank]
  /\ handlers = [h \in Handler |-> Resting]
  /\ overdue = {}

-----------------------------------------------------------------------------
(* sensitive-session-material.js *)

\* activeSecurityVerificationExpiresAt: 0 when no timestamp is recent.
VerifiedUntil(c) ==
  LET recent == {t \in {c.at, c.verified} : t > 0 /\ time - t <= VerifiedFor}
  IN  IF recent = {} THEN 0 ELSE (CHOOSE t \in recent : \A u \in recent : u <= t) + VerifiedFor

\* isSecurityRecentlyVerified
Verified(c) == VerifiedUntil(c) > 0

\* Deviation: what was checked before the await still holds.
StillVerified(c) == TRUE

\* The check after an await.
VerifiedAgain(c) == Verified(c)

\* canDiscloseSensitiveSessionMaterial
Disclosable(c, until) == until > 0 /\ time <= until /\ Verified(c)

\* pendingTotpFromSession.  The limit set by totp/start is never later than ten
\* minutes after it, so the check of createdAt adds nothing.
HasEnrolment(c) == c.secret # NoSecret /\ Disclosable(c, c.secretUntil)

WithoutEnrolment(c) == [c EXCEPT !.secret = NoSecret, !.secretUntil = 0]

WithoutFresh(c) == [c EXCEPT !.fresh = {}, !.freshUntil = 0]

\* storeNewRecoveryCodes
WithFresh(c, B) ==
  IF B = {} THEN WithoutFresh(c) ELSE [c EXCEPT !.fresh = B, !.freshUntil = VerifiedUntil(c)]

-----------------------------------------------------------------------------
\* A revoked session is not written back.
Stored(all, s, c) == [all EXCEPT ![s] = IF @.state = "gone" THEN @ ELSE c]

\* purgeUserSessions(..., req.sessionID, ...)
RevokedOthers(all, s) ==
  [t \in Browser |->
     IF t # s /\ all[t].state = "live" THEN [Blank EXCEPT !.state = "gone"] ELSE all[t]]

\* A change of the factors: the other sessions end, this one is written.
ChangeFactors(s, copy, a, c) ==
  /\ factors' = a
  /\ sessions' = Stored(RevokedOthers(sessions, s), s, c)
  /\ overdue' = overdue \cup (IF VerifiedUntil(copy) < time THEN {"change"} ELSE {})

\* A page that shows the TOTP secret or recovery keys.
Disclose(copy) ==
  overdue' = overdue \cup (IF VerifiedUntil(copy) < time THEN {"disclosure"} ELSE {})

Live(s) == sessions[s].state = "live"

\* requireAuth and requireRecentSecurityVerification.
MayChange(s) == Live(s) /\ Verified(sessions[s])

Write(s, c) == sessions' = Stored(sessions, s, c)

Await(h, at, s, copy) ==
  /\ handlers[h] = Resting
  /\ handlers' = [handlers EXCEPT ![h] = [at |-> at, sid |-> s, copy |-> copy]]

Ends(h) == handlers' = [handlers EXCEPT ![h] = Resting]

Waits(h, at) == handlers[h].at = at

NeedsCodes(a) == a.codes = {}

\* The account and the session after the first keys were made, if any were needed.
WithFirstCodes(before, after, c) ==
  IF NeedsCodes(before)
  THEN {<<WithCodes(after, B), WithFresh(c, B)>> : B \in Batches(after, {})}
  ELSE {<<after, c>>}

-----------------------------------------------------------------------------
\* Sign-in, with every factor the account has (MfaLogin).
SignIn(s) ==
  /\ sessions[s].state = "unused"
  /\ sessions' = [sessions EXCEPT ![s] = [Blank EXCEPT !.state = "live", !.at = time]]
  /\ UNCHANGED <<time, factors, issued, handlers, overdue>>

\* A recovery key is used for a sign-in elsewhere.
CodeUsed(c) ==
  /\ c \in factors.codes
  /\ factors' = WithoutCode(factors, c)
  /\ UNCHANGED <<time, issued, sessions, handlers, overdue>>

\* completeSecurityReauthentication: a new identifier, which keeps four fields.
VerifyPassword(s, t) ==
  /\ Live(s) /\ sessions[t].state = "unused"
  /\ sessions' = [sessions EXCEPT
       ![s] = [Blank EXCEPT !.state = "gone"],
       ![t] = [Blank EXCEPT !.state = "live", !.at = sessions[s].at, !.verified = time]]
  /\ UNCHANGED <<time, factors, issued, handlers, overdue>>

-----------------------------------------------------------------------------
(* TOTP *)

StartTotp(s, secret) ==
  /\ MayChange(s)
  /\ Write(s, [sessions[s] EXCEPT !.secret = secret,
                                  !.secretUntil = VerifiedUntil(sessions[s])])
  /\ UNCHANGED <<time, factors, issued, handlers, overdue>>

CancelTotp(s) ==
  /\ MayChange(s)
  /\ Write(s, WithoutEnrolment(sessions[s]))
  /\ UNCHANGED <<time, factors, issued, handlers, overdue>>

BeginConfirm(h, s) ==
  /\ MayChange(s) /\ HasEnrolment(sessions[s])
  /\ Await(h, "confirm", s, sessions[s])
  /\ UNCHANGED <<time, factors, issued, sessions, overdue>>

\* The code is right.
ConfirmTotp(h) ==
  LET s == handlers[h].sid
      c == WithoutEnrolment(handlers[h].copy)
      a == WithTotp(factors, handlers[h].copy.secret, time)
  IN
  /\ Waits(h, "confirm")
  /\ VerifiedAgain(handlers[h].copy)
  /\ \E r \in WithFirstCodes(factors, a, c) : ChangeFactors(s, c, r[1], r[2])
  /\ Ends(h)
  /\ UNCHANGED <<time, issued>>

\* The code is wrong, or the verification lapsed while it was checked.
FailConfirm(h) ==
  /\ Waits(h, "confirm")
  /\ Write(handlers[h].sid, IF VerifiedAgain(handlers[h].copy) THEN handlers[h].copy
                            ELSE WithoutEnrolment(handlers[h].copy))
  /\ Ends(h)
  /\ UNCHANGED <<time, factors, issued, overdue>>

DisableTotp(s) ==
  /\ MayChange(s)
  /\ ChangeFactors(s, sessions[s], WithoutTotp(factors), WithoutEnrolment(sessions[s]))
  /\ UNCHANGED <<time, issued, handlers>>

-----------------------------------------------------------------------------
(* Recovery keys *)

AddCodes(s) ==
  /\ MayChange(s) /\ Enabled(factors) /\ NewCodeCount(factors) > 0
  /\ \E B \in Batches(factors, {}) :
       ChangeFactors(s, sessions[s], WithCodes(factors, B), WithFresh(sessions[s], B))
  /\ UNCHANGED <<time, issued, handlers>>

RegenerateCodes(s) ==
  /\ MayChange(s) /\ Enabled(factors)
  /\ \E B \in Replacements(factors, {}) :
       ChangeFactors(s, sessions[s], WithReplaced(factors, B), WithFresh(sessions[s], B))
  /\ UNCHANGED <<time, issued, handlers>>

-----------------------------------------------------------------------------
(* Passkeys *)

BeginOptionsRequest(h, s) ==
  /\ MayChange(s)
  /\ Await(h, "options", s, sessions[s])
  /\ UNCHANGED <<time, factors, issued, sessions, overdue>>

NewRegistration(id) ==
  /\ id \notin Ids(issued)
  /\ \A s \in Browser : sessions[s].challenge # id
  /\ \A h \in Handler : handlers[h] # Resting => handlers[h].copy.challenge # id

IssueRegistration(h, id) ==
  LET s == handlers[h].sid IN
  /\ Waits(h, "options") /\ NewRegistration(id)
  /\ issued' = Issue(issued, ChallengeRow(id, s, "registration", time + VerifiedFor), time)
  /\ Write(s, [handlers[h].copy EXCEPT !.challenge = id, !.asked = time])
  /\ Ends(h)
  /\ UNCHANGED <<time, factors, overdue>>

Asked(s) == MayChange(s) /\ sessions[s].challenge # NoRegistration

InTime(s) == time - sessions[s].asked <= VerifiedFor

Redeemable(s) == Matching(issued, sessions[s].challenge, s, "registration", time) # {}

Redeem(s) == issued' = Consume(issued, sessions[s].challenge, s, "registration", time)

Answered(c) == [c EXCEPT !.challenge = NoRegistration, !.asked = 0]

BeginRegister(h, s) ==
  /\ Asked(s) /\ InTime(s) /\ Redeemable(s)
  /\ Redeem(s)
  /\ Await(h, "register", s, Answered(sessions[s]))
  /\ UNCHANGED <<time, factors, sessions, overdue>>

\* Too late, or the challenge was redeemed or replaced by another request.
RefuseRegister(s) ==
  /\ Asked(s) /\ ~(InTime(s) /\ Redeemable(s))
  /\ Write(s, Answered(sessions[s]))
  /\ UNCHANGED <<time, factors, issued, handlers, overdue>>

\* The response is right and the passkey is not registered yet.
RegisterKey(h, k) ==
  LET s == handlers[h].sid
      c == handlers[h].copy
  IN
  /\ Waits(h, "register")
  /\ VerifiedAgain(c) /\ ~HasKey(factors, k)
  /\ \E r \in WithFirstCodes(factors, WithKey(factors, k, 0), c) :
       ChangeFactors(s, c, r[1], r[2])
  /\ Ends(h)
  /\ UNCHANGED <<time, issued>>

FailRegister(h) ==
  /\ Waits(h, "register")
  /\ Write(handlers[h].sid, handlers[h].copy)
  /\ Ends(h)
  /\ UNCHANGED <<time, factors, issued, overdue>>

DeleteKey(s, k) ==
  /\ MayChange(s) /\ HasKey(factors, k)
  /\ ChangeFactors(s, sessions[s], WithoutKey(factors, k), sessions[s])
  /\ UNCHANGED <<time, issued, handlers>>

-----------------------------------------------------------------------------
(* GET /settings *)

\* consumeNewRecoveryCodes takes the keys out of the session, shown or not.
ShowsCodes(c) == c.fresh # {} /\ Disclosable(c, c.freshUntil)

ViewPlain(s) ==
  /\ Live(s) /\ ~HasEnrolment(sessions[s])
  /\ IF ShowsCodes(sessions[s]) THEN Disclose(sessions[s]) ELSE UNCHANGED overdue
  /\ Write(s, WithoutFresh(WithoutEnrolment(sessions[s])))
  /\ UNCHANGED <<time, factors, issued, handlers>>

BeginView(h, s) ==
  /\ Live(s) /\ HasEnrolment(sessions[s])
  /\ Await(h, "view", s, sessions[s])
  /\ UNCHANGED <<time, factors, issued, sessions, overdue>>

\* The QR code is drawn; what may be shown is decided again.
EndView(h) ==
  LET c == handlers[h].copy
      keep == Disclosable(c, c.secretUntil)
  IN
  /\ Waits(h, "view")
  /\ IF ShowsCodes(c) \/ keep THEN Disclose(c) ELSE UNCHANGED overdue
  /\ Write(handlers[h].sid, WithoutFresh(IF keep THEN c ELSE WithoutEnrolment(c)))
  /\ Ends(h)
  /\ UNCHANGED <<time, factors, issued>>

SettingsTick ==
  /\ time < LastTime
  /\ time' = time + 1
  /\ UNCHANGED <<factors, issued, sessions, handlers, overdue>>

SettingsNext ==
  \/ SettingsTick
  \/ \E c \in Code : CodeUsed(c)
  \/ \E s \in Browser :
       \/ SignIn(s) \/ CancelTotp(s) \/ DisableTotp(s) \/ AddCodes(s)
       \/ RegenerateCodes(s) \/ RefuseRegister(s) \/ ViewPlain(s)
       \/ \E t \in Browser : VerifyPassword(s, t)
       \/ \E secret \in Secret : StartTotp(s, secret)
       \/ \E k \in Passkey : DeleteKey(s, k)
       \/ \E h \in Handler : \/ BeginConfirm(h, s) \/ BeginOptionsRequest(h, s)
                             \/ BeginRegister(h, s) \/ BeginView(h, s)
  \/ \E h \in Handler :
       \/ ConfirmTotp(h) \/ FailConfirm(h) \/ FailRegister(h) \/ EndView(h)
       \/ \E id \in Challenge : IssueRegistration(h, id)
       \/ \E k \in Passkey : RegisterKey(h, k)

SettingsSpec == SettingsInit /\ [][SettingsNext]_settingsVars

-----------------------------------------------------------------------------
(* Properties *)

\* No factor is changed, and neither a TOTP secret nor a recovery key is shown, once
\* the verification of the session has lapsed, also when it lapses while the request
\* waits for a library.
VerificationHolds == overdue = {}

\* The first method an account gets comes with recovery keys, whichever requests
\* added and removed methods and keys while its confirmation was under way.
FirstFactorBringsCodes ==
  [][~Enabled(factors) /\ Enabled(factors') => factors'.codes # {}]_settingsVars
=============================================================================
