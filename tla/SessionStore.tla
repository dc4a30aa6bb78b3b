------------------------------ MODULE SessionStore ------------------------------
(***************************************************************************)
(* The server-side sessions of RecordDrive: the SQLite store behind        *)
(* express-session, the tombstones of revoked identifiers, and the         *)
(* requests that hold a copy of a session while they wait for bcrypt, the  *)
(* disk or the client.                                                     *)
(*                                                                         *)
(* Node runs one callback at a time and node:sqlite is synchronous, so the *)
(* code between two awaits is one action.  A request is: load and admit    *)
(* (Begin...), any number of handler steps, and the write express-session  *)
(* makes when the response ends (End...).  Other requests, the cleanup     *)
(* timer and a restart of the process may come between any two of them.    *)
(***************************************************************************)
EXTENDS Integers, FiniteSets

CONSTANTS
  Sid,               \* session identifiers the generator can hand out
  NoSid,             \* no identifier stored yet (saveUninitialized: false)
  User,
  Admin,             \* the users whose role is ADMIN
  NoUser,
  Request,           \* requests that can be in flight together
  NoRow, NoRequest,
  IdleTtl,           \* SESSION_IDLE_HOURS
  AbsoluteTtl,       \* SESSION_ABSOLUTE_HOURS
  MinRevocationTtl,  \* MINIMUM_REVOCATION_TTL_MS
  SessionLimit,      \* MAX_SESSIONS_PER_USER
  MaxTime            \* bound on the clock

ASSUME TtlAssumption ==
  /\ IdleTtl \in Nat \ {0}
  /\ AbsoluteTtl \in Nat \ {0}
  /\ MinRevocationTtl \in Nat \ {0}
ASSUME BoundAssumption ==
  /\ SessionLimit \in Nat \ {0}
  /\ MaxTime \in Nat \ {0}
ASSUME UserAssumption == Admin \subseteq User
ASSUME NullAssumption ==
  /\ NoSid \notin Sid
  /\ NoUser \notin User

VARIABLES
  now,            \* Date.now()
  store,          \* tables sessions (rows) and revoked_sessions (tombs)
  issued,         \* identifiers handed out so far
  requests,       \* the requests in flight and their copy of a session
  accounts,       \* the rows of table users
  adminDisabled   \* ADMIN_ACCESS_DISABLED of the running process

vars == <<now, store, issued, requests, accounts, adminDisabled>>

-----------------------------------------------------------------------------
(* Session contents.  createdAt is what authenticatedSessionCreatedAt       *)
(* returns, 0 for none.  loginAt is history: the time of the login behind    *)
(* the session.                                                             *)

Kind == {"anonymous", "flow", "pending", "authenticated"}

Session == [kind : Kind, user : User \cup {NoUser}, createdAt : Nat,
            loginAt : Nat]

Anonymous == [kind |-> "anonymous", user |-> NoUser, createdAt |-> 0,
              loginAt |-> 0]

\* A session that carries a right: it is signed in, or one factor short of it.
Usable(c) == c.kind \in {"pending", "authenticated"}

Row == [sess : Session, expires : Nat]
ASSUME RowAssumption == NoRow \notin Row

Store == [rows : [Sid -> Row \cup {NoRow}], tombs : [Sid -> Nat], ended : SUBSET Sid]

\* A request: the identifier it works under and its copy of the session; whether
\* the client's cookie names another identifier (renewed); the account it tries to
\* sign in to; whether the account row was found on entry; whether its route is
\* through.
InFlight == [sid : Sid \cup {NoSid}, sess : Session, renewed : BOOLEAN,
             login : User \cup {NoUser}, found : BOOLEAN, done : BOOLEAN]

Later(a, b) == IF a >= b THEN a ELSE b

-----------------------------------------------------------------------------
(* The store.  Each operator maps the tables before a call to the tables    *)
(* after it.  "ended" is history: the identifiers revoked so far.           *)

\* Deviation: tombstones that last as long as an idle session.
IdleTombstone == IdleTtl

\* Math.max of the floor, the store's revocationTtlMs and the cookie's maxAge.
RevocationTtl == Later(MinRevocationTtl, Later(IdleTtl, AbsoluteTtl))

HasRow(st, s) == st.rows[s] # NoRow

StoredExpiry(st) == [s \in Sid |-> IF HasRow(st, s) THEN st.rows[s].expires ELSE 0]

\* revoked_sessions holds a row for s that has not lapsed.
Tombstoned(st, s) == st.tombs[s] >= now

PastAbsolute(c) == c.createdAt > 0 /\ now - c.createdAt > AbsoluteTtl

DropRows(st, S) ==
  [st EXCEPT !.rows = [s \in Sid |-> IF s \in S THEN NoRow ELSE st.rows[s]]]

\* revokeStoredSession on each member of S; expiry is the options.expires passed.
Revoke(st, S, expiry) ==
  [rows  |-> [s \in Sid |-> IF s \in S THEN NoRow ELSE st.rows[s]],
   tombs |-> [s \in Sid |->
                IF s \in S
                THEN Later(st.tombs[s], Later(now + RevocationTtl, expiry[s]))
                ELSE st.tombs[s]],
   ended |-> st.ended \cup S]

NoExpiry == [s \in Sid |-> 0]

StoreDestroy(st, s) ==
  IF s = NoSid THEN st ELSE Revoke(st, {s}, StoredExpiry(st))

StoreSet(st, s, c) ==
  IF PastAbsolute(c) THEN Revoke(st, {s}, NoExpiry)
  ELSE IF Tombstoned(st, s) THEN DropRows(st, {s})
  ELSE [st EXCEPT !.rows[s] = [sess |-> c, expires |-> now + IdleTtl]]

StoreTouch(st, s, c) ==
  IF PastAbsolute(c) THEN Revoke(st, {s}, NoExpiry)
  ELSE IF Tombstoned(st, s) \/ ~HasRow(st, s) THEN DropRows(st, {s})
  ELSE [st EXCEPT !.rows[s] = [sess |-> st.rows[s].sess, expires |-> now + IdleTtl]]

\* What get returns a session for.
Live(st, s) == HasRow(st, s) /\ st.rows[s].expires >= now /\ ~Tombstoned(st, s)

\* get deletes a row it will not serve and a tombstone that has lapsed.
StoreGet(st, s) ==
  [st EXCEPT !.rows[s]  = IF Live(st, s) THEN @ ELSE NoRow,
             !.tombs[s] = IF Tombstoned(st, s) THEN @ ELSE 0]

\* One run of the cleanup timer.
Sweep(st) ==
  [rows  |-> [s \in Sid |-> IF HasRow(st, s) /\ st.rows[s].expires < now
                            THEN NoRow ELSE st.rows[s]],
   tombs |-> [s \in Sid |-> IF Tombstoned(st, s) THEN st.tombs[s] ELSE 0],
   ended |-> st.ended]

Lapsed(st) == {s \in Sid : HasRow(st, s) /\ st.rows[s].expires <= now}

UserSids(st, u) == {s \in Sid : HasRow(st, s) /\ st.rows[s].sess.user = u}

\* purgeUserSessions: lapsed rows go without a tombstone, before anything else.
Purge(st, u, except) ==
  LET swept == DropRows(st, Lapsed(st))
  IN  Revoke(swept, UserSids(swept, u) \ {except}, StoredExpiry(swept))

\* sessionActivityTime: expires is one of the candidates of the maximum.
ActivityTime(row) == Later(row.expires, row.sess.createdAt)

\* Deviation: the session that just signed in has no precedence.
KeptByActivityOnly(st, u, current) ==
  LET mine == UserSids(st, u)
  IN  {keep \in SUBSET mine :
        /\ Cardinality(keep) = IF Cardinality(mine) <= SessionLimit
                               THEN Cardinality(mine) ELSE SessionLimit
        /\ \A k \in keep, d \in mine \ keep :
             ActivityTime(st.rows[k]) >= ActivityTime(st.rows[d])}

\* What pruneUserSessions may keep: the current session, then the most recently
\* active ones; the order of the digests decides between equals.
Kept(st, u, current) ==
  LET mine == UserSids(st, u)
  IN  {keep \in SUBSET mine :
        /\ current \in mine => current \in keep
        /\ Cardinality(keep) = IF Cardinality(mine) <= SessionLimit
                               THEN Cardinality(mine) ELSE SessionLimit
        /\ \A k \in keep \ {current}, d \in mine \ keep :
             ActivityTime(st.rows[k]) >= ActivityTime(st.rows[d])}

Prune(st, u, keep) ==
  LET swept == DropRows(st, Lapsed(st))
  IN  Revoke(swept, UserSids(swept, u) \ keep, StoredExpiry(swept))

\* req.session.regenerate followed by req.session.save under a new identifier.
Renew(st, old, fresh, c) == StoreSet(StoreDestroy(st, old), fresh, c)

-----------------------------------------------------------------------------
Init ==
  /\ now = 1
  /\ store = [rows |-> [s \in Sid |-> NoRow], tombs |-> [s \in Sid |-> 0], ended |-> {}]
  /\ issued = {}
  /\ requests = [r \in Request |-> NoRequest]
  /\ accounts = User
  /\ adminDisabled = FALSE

Blocked(u) == adminDisabled /\ u \in Admin

Tick ==
  /\ now < MaxTime
  /\ now' = now + 1
  /\ UNCHANGED <<store, issued, requests, accounts, adminDisabled>>

Cleanup ==
  /\ store' = Sweep(store)
  /\ UNCHANGED <<now, issued, requests, accounts, adminDisabled>>

-----------------------------------------------------------------------------
(* A request enters.  login is the account its body names, if it is a       *)
(* sign-in.  The handlers that await bcrypt or a second factor read the     *)
(* account's row before they do, hence found.                               *)

\* Deviation: the account's row itself, undefined when there is none.
MissingRows(u) == IF u \in accounts THEN u ELSE NoRow

Found(u) == u \in accounts

Enter(r, s, c, login) ==
  requests' = [requests EXCEPT ![r] =
    [sid |-> s, sess |-> c, renewed |-> s = NoSid, login |-> login,
     found |-> Found(IF login # NoUser THEN login ELSE c.user), done |-> FALSE]]

Targets == accounts \cup {NoUser}

BeginWithoutCookie(r, login) ==
  /\ requests[r] = NoRequest
  /\ Enter(r, NoSid, Anonymous, login)
  /\ UNCHANGED <<now, store, issued, accounts, adminDisabled>>

\* get returned null: express-session continues with an empty session.
BeginRefused(r, s, login) ==
  /\ requests[r] = NoRequest
  /\ ~Live(store, s)
  /\ store' = StoreGet(store, s)
  /\ Enter(r, NoSid, Anonymous, login)
  /\ UNCHANGED <<now, issued, accounts, adminDisabled>>

\* The absolute-lifetime middleware regenerates a session that is too old.
BeginExpired(r, s, login) ==
  /\ requests[r] = NoRequest
  /\ Live(store, s)
  /\ LET c == store.rows[s].sess
     IN  c.user # NoUser /\ PastAbsolute(c)
  /\ store' = StoreDestroy(StoreGet(store, s), s)
  /\ Enter(r, NoSid, Anonymous, login)
  /\ UNCHANGED <<now, issued, accounts, adminDisabled>>

\* blockDisabledAdministratorSession destroys the session and answers.
BeginBlocked(r, s) ==
  /\ requests[r] = NoRequest
  /\ Live(store, s)
  /\ LET c == store.rows[s].sess
     IN  /\ ~(c.user # NoUser /\ PastAbsolute(c))
         /\ c.kind = "authenticated" /\ c.user \in accounts /\ Blocked(c.user)
  /\ store' = StoreDestroy(StoreGet(store, s), s)
  /\ UNCHANGED <<now, issued, requests, accounts, adminDisabled>>

\* The copy a handler sees: userId goes when its account is gone.
Admitted(c) ==
  IF c.kind = "authenticated" /\ c.user \notin accounts
  THEN [c EXCEPT !.kind = "anonymous", !.user = NoUser]
  ELSE c

BeginAdmitted(r, s, login) ==
  /\ requests[r] = NoRequest
  /\ Live(store, s)
  /\ LET c == store.rows[s].sess
     IN  /\ ~(c.user # NoUser /\ PastAbsolute(c))
         /\ ~(c.kind = "authenticated" /\ c.user \in accounts /\ Blocked(c.user))
         /\ Enter(r, s, Admitted(c), login)
  /\ store' = StoreGet(store, s)
  /\ UNCHANGED <<now, issued, accounts, adminDisabled>>

-----------------------------------------------------------------------------
(* Handler steps, each after the last await of its route.                   *)

Active(r) == requests[r] # NoRequest
Handling(r) == Active(r) /\ ~requests[r].done
Signed(r) ==
  /\ Handling(r)
  /\ requests[r].sess.kind = "authenticated" /\ requests[r].login = NoUser

\* Request r goes on under the new identifier f with session c.
GoOn(r, f, c) ==
  /\ issued' = issued \cup {f}
  /\ requests' = [requests EXCEPT ![r].sid = f, ![r].sess = c,
                                  ![r].renewed = TRUE, ![r].done = TRUE]

\* Request r has nothing left to do but to answer.
Done(r) == requests' = [requests EXCEPT ![r].done = TRUE]

\* saveLimitedAuthenticationSession: regenerate, save, then prune to the limit.
SaveLimited(r, f, c) ==
  LET saved == Renew(store, requests[r].sid, f, c)
  IN  /\ \E keep \in Kept(DropRows(saved, Lapsed(saved)), c.user, f) :
           store' = Prune(saved, c.user, keep)
      /\ GoOn(r, f, c)

\* Deviation: signing in writes into the session the client came with.
LoginInPlace(r, f, mfa) ==
  LET s == IF requests[r].sid = NoSid THEN f ELSE requests[r].sid
      c == [kind |-> IF mfa THEN "pending" ELSE "authenticated",
            user |-> requests[r].login, createdAt |-> now,
            loginAt |-> now]
  IN  /\ Handling(r) /\ requests[r].login # NoUser
      /\ f \in Sid \ issued
      /\ ~Blocked(requests[r].login)
      /\ store' = StoreSet(store, s, c)
      /\ GoOn(r, s, c)
      /\ UNCHANGED <<now, accounts, adminDisabled>>

\* The password matched the hash read on entry; mfa is the account's MFA state.
Login(r, f, mfa) ==
  /\ Handling(r) /\ requests[r].login # NoUser
  /\ f \in Sid \ issued
  /\ ~Blocked(requests[r].login)
  /\ SaveLimited(r, f, [kind |-> IF mfa THEN "pending" ELSE "authenticated",
                        user |-> requests[r].login, createdAt |-> now,
                        loginAt |-> now])
  /\ UNCHANGED <<now, accounts, adminDisabled>>

\* The second factor was accepted: completeLogin.  getPendingMfa found the account
\* before the await.
CompleteMfa(r, f) ==
  /\ Handling(r) /\ requests[r].sess.kind = "pending" /\ requests[r].login = NoUser
  /\ requests[r].found
  /\ f \in Sid \ issued
  /\ ~Blocked(requests[r].sess.user)
  /\ SaveLimited(r, f, [kind |-> "authenticated", user |-> requests[r].sess.user,
                        createdAt |-> now, loginAt |-> now])
  /\ UNCHANGED <<now, accounts, adminDisabled>>

\* A rejected sign-in or a lapsed MFA challenge: only a reference to the account
\* is left, dated by the session, or by the clock when authenticatedAt was cleared.
Demote(r, cleared) ==
  /\ Handling(r) /\ requests[r].sess.user # NoUser
  /\ requests' = [requests EXCEPT
       ![r].sess.kind = "flow",
       ![r].sess.createdAt = IF cleared THEN now ELSE @,
       ![r].done = TRUE]
  /\ UNCHANGED <<now, store, issued, accounts, adminDisabled>>

\* Deviation: confirming the password restarts the absolute lifetime.
ReauthenticateRestarted(r, f) ==
  /\ Signed(r) /\ f \in Sid \ issued
  /\ LET c == [requests[r].sess EXCEPT !.createdAt = now]
     IN  store' = Renew(store, requests[r].sid, f, c) /\ GoOn(r, f, c)
  /\ UNCHANGED <<now, accounts, adminDisabled>>

\* completeSecurityReauthentication keeps the times of the original login.
Reauthenticate(r, f) ==
  /\ Signed(r) /\ f \in Sid \ issued
  /\ store' = Renew(store, requests[r].sid, f, requests[r].sess)
  /\ GoOn(r, f, requests[r].sess)
  /\ UNCHANGED <<now, accounts, adminDisabled>>

\* The new hash is stored, completePasswordChange ends the user's other sessions
\* and rotates this one.
ChangePassword(r, f) ==
  LET u == requests[r].sess.user
      c == [kind |-> "authenticated", user |-> u, createdAt |-> now, loginAt |-> now]
  IN  /\ Signed(r) /\ f \in Sid \ issued
      /\ store' = Renew(Purge(store, u, requests[r].sid), requests[r].sid, f, c)
      /\ GoOn(r, f, c)
      /\ UNCHANGED <<now, accounts, adminDisabled>>

\* revokeOtherUserSessions after a change of the account's second factors.
RevokeOthers(r) ==
  /\ Signed(r)
  /\ store' = Purge(store, requests[r].sess.user, requests[r].sid)
  /\ Done(r)
  /\ UNCHANGED <<now, issued, accounts, adminDisabled>>

Logout(r) ==
  /\ Handling(r)
  /\ store' = StoreDestroy(store, requests[r].sid)
  /\ requests' = [requests EXCEPT ![r] = NoRequest]
  /\ UNCHANGED <<now, issued, accounts, adminDisabled>>

\* An administrator deletes a regular account: its sessions first, then its row.
DeleteAccount(r, u) ==
  /\ Signed(r) /\ requests[r].sess.user \in Admin
  /\ u \in accounts \ Admin
  /\ store' = Purge(store, u, NoSid)
  /\ accounts' = accounts \ {u}
  /\ Done(r)
  /\ UNCHANGED <<now, issued, adminDisabled>>

-----------------------------------------------------------------------------
(* The response ends: express-session writes the session back.              *)

Leave(r) == requests' = [requests EXCEPT ![r] = NoRequest]

\* The session was modified, or runs under an identifier the client does not know.
EndSave(r) ==
  /\ Active(r) /\ requests[r].sid # NoSid
  /\ store' = StoreSet(store, requests[r].sid, requests[r].sess)
  /\ Leave(r)
  /\ UNCHANGED <<now, issued, accounts, adminDisabled>>

\* Unmodified, and under the identifier of the client's cookie.
EndTouch(r) ==
  /\ Active(r) /\ requests[r].sid # NoSid /\ ~requests[r].renewed
  /\ store' = StoreTouch(store, requests[r].sid, requests[r].sess)
  /\ Leave(r)
  /\ UNCHANGED <<now, issued, accounts, adminDisabled>>

\* A session that was never stored: kept only if a handler wrote to it.
EndNew(r, f) ==
  /\ Active(r) /\ requests[r].sid = NoSid
  /\ f \in Sid \ issued
  /\ issued' = issued \cup {f}
  /\ store' = StoreSet(store, f, requests[r].sess)
  /\ Leave(r)
  /\ UNCHANGED <<now, accounts, adminDisabled>>

EndUnsaved(r) ==
  /\ Active(r) /\ requests[r].sid = NoSid
  /\ Leave(r)
  /\ UNCHANGED <<now, store, issued, accounts, adminDisabled>>

-----------------------------------------------------------------------------
(* The process stops and starts again.  The tables survive, the requests do *)
(* not, and ADMIN_ACCESS_DISABLED may have changed.                         *)

\* Deviation: the purge at startup looks at signed-in sessions only.
SignedInAdminSids(st) ==
  {s \in Sid : HasRow(st, s) /\ st.rows[s].sess.kind = "authenticated"
                             /\ st.rows[s].sess.user \in Admin}

\* purgeAdministratorSessions: every row that refers to an administrator.
AdminSids(st) == {s \in Sid : HasRow(st, s) /\ st.rows[s].sess.user \in Admin}

StartWith(st, disabled) ==
  /\ store' = IF disabled THEN Revoke(st, AdminSids(st), StoredExpiry(st)) ELSE st
  /\ requests' = [r \in Request |-> NoRequest]
  /\ adminDisabled' = disabled
  /\ UNCHANGED <<now, issued, accounts>>

Restart(disabled) == StartWith(store, disabled)

\* The tombstone of s was written and the process died before its row was deleted.
TombstoneOnly(st, s) == [Revoke(st, {s}, StoredExpiry(st)) EXCEPT !.rows = st.rows]

CrashInRevocation(s, disabled) ==
  /\ HasRow(store, s) \/ \E r \in Request : Active(r) /\ requests[r].sid = s
  /\ StartWith(TombstoneOnly(store, s), disabled)

\* The process died in the loop of a purge: only the sessions in ended are revoked.
CrashInPurge(r, ended, disabled) ==
  /\ Signed(r)
  /\ ended \subseteq UserSids(store, requests[r].sess.user) \ {requests[r].sid}
  /\ StartWith(Revoke(store, ended, StoredExpiry(store)), disabled)

-----------------------------------------------------------------------------
Begin ==
  \E r \in Request, login \in Targets :
    \/ BeginWithoutCookie(r, login)
    \/ \E s \in issued : \/ BeginRefused(r, s, login)
                         \/ BeginExpired(r, s, login)
                         \/ BeginBlocked(r, s)
                         \/ BeginAdmitted(r, s, login)

Handle ==
  \E r \in Request :
    \/ \E f \in Sid, mfa \in BOOLEAN : Login(r, f, mfa)
    \/ \E f \in Sid : CompleteMfa(r, f) \/ Reauthenticate(r, f) \/ ChangePassword(r, f)
    \/ \E cleared \in BOOLEAN : Demote(r, cleared)
    \/ RevokeOthers(r)
    \/ Logout(r)
    \/ \E u \in User : DeleteAccount(r, u)

End ==
  \E r \in Request :
    \/ EndSave(r) \/ EndTouch(r) \/ EndUnsaved(r)
    \/ \E f \in Sid : EndNew(r, f)

Stop ==
  \E disabled \in BOOLEAN :
    \/ Restart(disabled)
    \/ \E s \in issued : CrashInRevocation(s, disabled)
    \/ \E r \in Request, ended \in SUBSET Sid : CrashInPurge(r, ended, disabled)

Next == Tick \/ Cleanup \/ Begin \/ Handle \/ End \/ Stop

\* setInterval runs the cleanup for as long as the process does.
Spec == Init /\ [][Next]_vars /\ WF_vars(Cleanup)

-----------------------------------------------------------------------------
\* The type of each variable.
TypeOK ==
  /\ now \in Nat \ {0}
  /\ store \in Store
  /\ issued \subseteq Sid
  /\ requests \in [Request -> InFlight \cup {NoRequest}]
  /\ accounts \subseteq User
  /\ adminDisabled \in BOOLEAN

\* A revoked identifier never serves a signed-in or half-signed-in session again,
\* whatever a request that was in flight at the revocation writes back, however
\* long it runs, and although tombstones are deleted when they lapse
\* (revokeStoredSession, set, touch and the cleanup timer).
NoResurrection ==
  \A s \in store.ended : ~(Live(store, s) /\ Usable(store.rows[s].sess))

\* Everything known under one identifier, the stored row and the copies of the
\* requests in flight, belongs to one login: signing in always moves to a new
\* identifier (the regenerate calls of completeLogin and POST /login).
SidNamesOneLogin ==
  \A s \in Sid :
    LET contents == {store.rows[s].sess : t \in {x \in {s} : HasRow(store, x)}}
          \cup {requests[r].sess : r \in {x \in Request : Active(x) /\ requests[x].sid = s}}
    IN  \A c, d \in contents :
          Usable(c) /\ Usable(d) => c.user = d.user /\ c.loginAt = d.loginAt

\* While administrator access is disabled no stored session refers to an
\* administrator: the purge at startup found them all, half-signed-in ones and
\* those a crash left half-revoked included, and no request adds one.
NoAdministratorSession ==
  adminDisabled =>
    \A s \in Sid : HasRow(store, s) => store.rows[s].sess.user \notin Admin

\* A request is served as a user only within SESSION_ABSOLUTE_HOURS of the login
\* behind it, through any number of password re-confirmations that rotate the
\* identifier (the lifetime middleware of app.js, completeSecurityReauthentication).
AbsoluteLifetime ==
  [][\A r \in Request :
       /\ requests[r] = NoRequest /\ requests'[r] # NoRequest
       /\ Usable(requests'[r].sess)
       => now - requests'[r].sess.loginAt <= AbsoluteTtl]_vars

UsableSids(st, u) ==
  {s \in Sid : Live(st, s) /\ Usable(st.rows[s].sess) /\ st.rows[s].sess.user = u}

\* A sign-in leaves its own session live and, with it, at most
\* MAX_SESSIONS_PER_USER live sessions of the account (pruneUserSessions).
LimitAfterSignIn ==
  [][\A r \in Request, f \in Sid \ issued :
       /\ Active(r) /\ f \in issued' /\ requests'[r] # NoRequest
       /\ requests'[r].sid = f
       /\ requests[r].login # NoUser \/ requests[r].sess.kind = "pending"
       => LET u == requests'[r].sess.user
          IN  /\ f \in UsableSids(store', u)
              /\ Cardinality(UsableSids(store', u)) <= SessionLimit]_vars

\* Lapsed rows and lapsed tombstones do not pile up: the cleanup timer removes
\* each one unless a request renews it first.
LapsedIsSwept ==
  \A s \in Sid :
    /\ (HasRow(store, s) /\ store.rows[s].expires < now)
         ~> (~HasRow(store, s) \/ store.rows[s].expires >= now)
    /\ (store.tombs[s] > 0 /\ ~Tombstoned(store, s))
         ~> (store.tombs[s] = 0 \/ Tombstoned(store, s))

\* README.md, "Password changes ... revoke every other active session": a request
\* whose session was revoked while it was in flight does not go on signed in under
\* another identifier.
RevokedSessionIsNotContinued ==
  [][\A r \in Request :
       /\ Signed(r) /\ requests[r].sid \in store.ended
       /\ requests'[r] # NoRequest
       => requests'[r].sid = requests[r].sid]_vars
=============================================================================
