-------------------------------- MODULE MfaLogin --------------------------------
(***************************************************************************)
(* The second step of a sign-in (routes/auth.js): TOTP codes, recovery keys *)
(* and passkeys, against requests in flight and against changes of the      *)
(* factors from the settings of another session.                            *)
(*                                                                         *)
(* A handler that awaits nothing loads its session, acts and writes the     *)
(* session back in one action.  One that awaits (otplib, SimpleWebAuthn) is *)
(* a flight with a copy of its session; what it writes at the end replaces  *)
(* what other requests wrote meanwhile.  The attempt limiter is RateLimiter *)
(* and the sessions of signed-in users are SessionStore.                    *)
(***************************************************************************)
EXTENDS SecondFactor

CONSTANTS
  Sid,         \* sessions that wait for the second step
  NoChallenge,
  Flight,      \* requests that can wait for a library at the same time
  LoginWindow, \* MFA_CHALLENGE_MAX_AGE_MS
  MaxTime,     \* bound on the clock
  MaxCounter,  \* bound on signature counters
  MaxEpoch     \* bound on the number of TOTP enrolments

ASSUME LoginAssumption ==
  /\ NoChallenge \notin Challenge
  /\ LoginWindow \in Nat
  /\ MaxTime \in Nat \ {0}
  /\ MaxCounter \in Nat
  /\ MaxEpoch \in Nat \ {0}

VARIABLES
  now,         \* Date.now(), in steps of the authenticator (30 seconds)
  account,     \* rows of users, recovery_codes, webauthn_credentials
  challenges,  \* rows of webauthn_challenges
  pending,     \* the stored sessions with pendingMfa
  flights,     \* requests that await
  epoch,       \* history: how often TOTP was enrolled
  spent,       \* history: the tokens that completed a sign-in
  logins       \* history: the number of sign-ins completed

loginVars == <<now, account, challenges, pending, flights, epoch, spent, logins>>

-----------------------------------------------------------------------------
\* pendingMfa of a session and its webAuthnAuthentication: the challenge and the
\* time it was issued.  "gone": regenerated, revoked, expired or signed in.
PendingLogin == [state : {"unused", "waiting", "gone"}, at : Nat,
            challenge : Challenge \cup {NoChallenge}, issued : Nat]

Unused == [state |-> "unused", at |-> 0, challenge |-> NoChallenge, issued |-> 0]

Gone == [Unused EXCEPT !.state = "gone"]

InFlight == [at : {"idle", "totp", "options", "passkey"}, sid : Sid, copy : PendingLogin,
             secret : Secret \cup {NoSecret}, key : Passkey \cup {NoKey}, counter : Nat,
             challenge : Challenge \cup {NoChallenge}]

\* The tokens of OneTime.  A step counts once for each time TOTP was enrolled.
StepToken(n) == <<"step", epoch, n>>
CodeToken(c) == <<"code", c>>
ChallengeToken(id) == <<"challenge", id>>

Tokens ==
  ({"step"} \X Nat \X Nat) \cup ({"code"} \X Code) \cup ({"challenge"} \X Challenge)

\* Types.
LoginTypeOK ==
  /\ now \in 1..MaxTime
  /\ account \in AccountRow
  /\ challenges \subseteq [id : Challenge, sid : Sid, purpose : {"authentication"},
                           expires : Nat]
  /\ pending \in [Sid -> PendingLogin]
  /\ DOMAIN flights = Flight
  /\ \A f \in Flight : flights[f].at = "idle" \/ flights[f] \in InFlight
  /\ epoch \in Nat
  /\ spent \subseteq Tokens
  /\ logins \in Nat

NoFlight == [at |-> "idle"]

LoginInit ==
  /\ now = 1
  /\ account = NewAccount
  /\ challenges = {}
  /\ pending = [s \in Sid |-> Unused]
  /\ flights = [f \in Flight |-> NoFlight]
  /\ epoch = 0
  /\ spent = {}
  /\ logins = 0

-----------------------------------------------------------------------------
\* getPendingMfa: a session that still waits for the second step.
StillPending(p) == p.state = "waiting" /\ now - p.at <= LoginWindow

\* clearPendingAuthentication and completeLogin: the identifier is revoked.
Complete(s, token) ==
  /\ pending' = [pending EXCEPT ![s] = Gone]
  /\ spent' = spent \cup {token}
  /\ logins' = logins + 1

\* The session a request writes back at its end; a revoked identifier refuses.
Save(s, copy) ==
  pending' = [pending EXCEPT ![s] = IF @.state = "gone" THEN @ ELSE copy]

NoLogin == UNCHANGED <<spent, logins>>

Land(f) == flights' = [flights EXCEPT ![f] = NoFlight]

Launch(f, at, s, copy, secret, key, counter, challenge) ==
  /\ flights[f].at = "idle"
  /\ flights' = [flights EXCEPT ![f] =
       [at |-> at, sid |-> s, copy |-> copy, secret |-> secret, key |-> key,
        counter |-> counter, challenge |-> challenge]]

\* POST /login with the right password, for an account with a second factor.
StartSignIn(s) ==
  /\ pending[s].state = "unused"
  /\ Enabled(account)
  /\ pending' = [pending EXCEPT ![s] = [Unused EXCEPT !.state = "waiting", !.at = now]]
  /\ UNCHANGED <<now, account, challenges, flights, epoch>> /\ NoLogin

\* Any request of a session whose second step came too late.
DropPending(s) ==
  /\ pending[s].state = "waiting" /\ ~StillPending(pending[s])
  /\ pending' = [pending EXCEPT ![s] = Gone]
  /\ UNCHANGED <<now, account, challenges, flights, epoch>> /\ NoLogin

-----------------------------------------------------------------------------
(* POST /login/mfa/totp: the secret is read, otplib is awaited, the step is  *)
(* taken.                                                                    *)

BeginTotp(f, s) ==
  /\ StillPending(pending[s])
  /\ HasTotp(account)
  /\ Launch(f, "totp", s, pending[s], account.secret, NoKey, 0, NoChallenge)
  /\ UNCHANGED <<now, account, challenges, pending, epoch>> /\ NoLogin

\* epochTolerance 30: the code of a neighbouring step passes.
Tolerated == {n \in 0..(MaxTime + 1) : n \in (now - 1)..(now + 1)}

\* The code belongs to step n of the secret that was read.
AcceptTotp(f, n) ==
  LET s == flights[f].sid IN
  /\ flights[f].at = "totp"
  /\ AcceptsStep(account, n)
  /\ account' = WithStep(account, n)
  /\ Complete(s, StepToken(n))
  /\ Land(f)
  /\ UNCHANGED <<now, challenges, epoch>>

\* The code is wrong or the update hit no row; renderMfa.
RejectTotp(f) ==
  /\ flights[f].at = "totp"
  /\ Land(f)
  /\ UNCHANGED <<now, account, challenges, pending, epoch>> /\ NoLogin

\* POST /login/mfa/recovery with an active key, which is deleted.
Recovery(s, c) ==
  /\ StillPending(pending[s])
  /\ c \in account.codes
  /\ account' = WithoutCode(account, c)
  /\ Complete(s, CodeToken(c))
  /\ UNCHANGED <<now, challenges, flights, epoch>>

-----------------------------------------------------------------------------
(* Passkeys.  POST .../passkey/options awaits the library and then issues.   *)

BeginOptions(f, s) ==
  /\ StillPending(pending[s])
  /\ \E k \in Passkey : HasKey(account, k)
  /\ Launch(f, "options", s, pending[s], NoSecret, NoKey, 0, NoChallenge)
  /\ UNCHANGED <<now, account, challenges, pending, epoch>> /\ NoLogin

\* An identifier is 32 random bytes: not one that anybody still knows.
FreshChallenge(id) ==
  /\ id \notin Ids(challenges)
  /\ ChallengeToken(id) \notin spent
  /\ \A s \in Sid : pending[s].challenge # id
  /\ \A f \in Flight : flights[f].at # "idle" =>
       flights[f].challenge # id /\ flights[f].copy.challenge # id

IssueOptions(f, id) ==
  LET s == flights[f].sid IN
  /\ flights[f].at = "options"
  /\ FreshChallenge(id)
  /\ challenges' = Issue(challenges,
                         ChallengeRow(id, s, "authentication", now + LoginWindow), now)
  /\ Save(s, [flights[f].copy EXCEPT !.challenge = id, !.issued = now])
  /\ Land(f)
  /\ UNCHANGED <<now, account, epoch>> /\ NoLogin

\* What POST .../passkey/verify finds in its session.
HasChallenge(p) == StillPending(p) /\ p.challenge # NoChallenge /\ now - p.issued <= LoginWindow

Answers(s) ==
  Matching(challenges, pending[s].challenge, s, "authentication", now) # {}

WithoutChallenge(p) == [p EXCEPT !.challenge = NoChallenge, !.issued = 0]

ConsumeChallenge(s) ==
  challenges' = Consume(challenges, pending[s].challenge, s, "authentication", now)

\* The challenge is consumed, the passkey's row is read, the library is awaited.
\* The session is written when the request ends.
BeginPasskey(f, s, k) ==
  /\ HasChallenge(pending[s])
  /\ Answers(s)
  /\ HasKey(account, k)
  /\ ConsumeChallenge(s)
  /\ Launch(f, "passkey", s, WithoutChallenge(pending[s]), NoSecret, k,
            account.keys[k], pending[s].challenge)
  /\ UNCHANGED <<now, account, pending, epoch>> /\ NoLogin

\* The challenge was used or has expired, or the response names no passkey of
\* the account.
RefusePasskey(s) ==
  /\ HasChallenge(pending[s])
  /\ ConsumeChallenge(s)
  /\ Save(s, WithoutChallenge(pending[s]))
  /\ UNCHANGED <<now, account, flights, epoch>> /\ NoLogin

\* The assertion answers the challenge, and its counter is one above the one read.
AcceptPasskey(f, counter) ==
  LET fl == flights[f] IN
  /\ fl.at = "passkey"
  /\ CounterGrows(fl.counter, counter)
  /\ CounterUnchanged(account, fl.key, fl.counter)
  /\ account' = WithKey(account, fl.key, counter)
  /\ Complete(fl.sid, ChallengeToken(fl.challenge))
  /\ Land(f)
  /\ UNCHANGED <<now, challenges, epoch>>

RejectPasskey(f) ==
  /\ flights[f].at = "passkey"
  /\ Save(flights[f].sid, flights[f].copy)
  /\ Land(f)
  /\ UNCHANGED <<now, account, challenges, epoch>> /\ NoLogin

-----------------------------------------------------------------------------
(* Settings changed from a session that is signed in (MfaSettings).  Each     *)
(* change of a factor revokes the other sessions, also those that wait here.  *)

RevokeWaiting ==
  pending' = [s \in Sid |-> IF pending[s].state = "waiting" THEN Gone ELSE pending[s]]

UsedCodes == {c \in Code : CodeToken(c) \in spent}

FirstCodes(a) ==
  IF a.codes = {} THEN {WithCodes(a, B) : B \in Batches(a, UsedCodes)} ELSE {a}

EnrolTotp(secret, n) ==
  /\ epoch < MaxEpoch
  /\ n \in Tolerated \ {0}
  /\ account' \in FirstCodes(WithTotp(account, secret, n))
  /\ epoch' = epoch + 1
  /\ RevokeWaiting
  /\ UNCHANGED <<now, challenges, flights>> /\ NoLogin

EnrolKey(k, counter) ==
  /\ ~HasKey(account, k)
  /\ account' \in FirstCodes(WithKey(account, k, counter))
  /\ RevokeWaiting
  /\ UNCHANGED <<now, challenges, flights, epoch>> /\ NoLogin

RemoveFactor ==
  /\ account' \in {WithoutTotp(account)} \cup {WithoutKey(account, k) : k \in Passkey}
  /\ account' # account
  /\ RevokeWaiting
  /\ UNCHANGED <<now, challenges, flights, epoch>> /\ NoLogin

RenewCodes ==
  /\ Enabled(account)
  /\ \/ \E B \in Batches(account, UsedCodes) : account' = WithCodes(account, B)
     \/ \E B \in Replacements(account, UsedCodes) : account' = WithReplaced(account, B)
  /\ RevokeWaiting
  /\ UNCHANGED <<now, challenges, flights, epoch>> /\ NoLogin

LoginTick ==
  /\ now < MaxTime
  /\ now' = now + 1
  /\ UNCHANGED <<account, challenges, pending, flights, epoch>> /\ NoLogin

LoginNext ==
  \/ LoginTick
  \/ \E s \in Sid :
       \/ StartSignIn(s) \/ DropPending(s) \/ RefusePasskey(s)
       \/ \E c \in Code : Recovery(s, c)
       \/ \E f \in Flight : BeginTotp(f, s) \/ BeginOptions(f, s)
       \/ \E f \in Flight, k \in Passkey : BeginPasskey(f, s, k)
  \/ \E f \in Flight :
       \/ RejectTotp(f) \/ RejectPasskey(f)
       \/ \E n \in Tolerated : AcceptTotp(f, n)
       \/ \E id \in Challenge : IssueOptions(f, id)
       \/ \E counter \in 0..MaxCounter : AcceptPasskey(f, counter)
  \/ \E secret \in Secret, n \in Tolerated : EnrolTotp(secret, n)
  \/ \E k \in Passkey, counter \in 0..MaxCounter : EnrolKey(k, counter)
  \/ RemoveFactor \/ RenewCodes

LoginSpec == LoginInit /\ [][LoginNext]_loginVars
-----------------------------------------------------------------------------
(* Properties *)

\* What can be accepted now: later steps of the TOTP secret, recovery keys, and
\* challenges that were issued and not answered.
OpenTokens ==
  {StepToken(n) : n \in {m \in 1..(MaxTime + 1) : AcceptsStep(account, m)}}
  \cup {CodeToken(c) : c \in account.codes}
  \cup {ChallengeToken(id) : id \in Ids(challenges)}
  \cup {ChallengeToken(flights[f].challenge) :
          f \in {g \in Flight : flights[g].at = "passkey"}}

Promise == INSTANCE OneTime WITH
  Token <- Tokens, open <- OpenTokens, spent <- spent, uses <- logins

\* MfaLogin implements OneTime: whatever requests are in flight, each code,
\* recovery key and passkey challenge completes at most one sign-in, although
\* secrets, challenges and counters are read before an await and used after it,
\* and sessions are written back as old copies.
AcceptedOnce == Promise!Spec

\* A sign-in that waited for a library while the factors were removed does not
\* complete: at the moment it does, the account has a second factor.  Nor does the
\* counter of a registered passkey ever go back, although two assertions may have
\* been verified against the same one (auth.js:410-432).
FactorsAreCurrent ==
  [][/\ logins' # logins => Enabled(account)
     /\ \A k \in Passkey : HasKey(account, k) /\ HasKey(account', k) =>
          account'.keys[k] >= account.keys[k]]_loginVars
=============================================================================
