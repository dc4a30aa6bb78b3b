------------------------------ MODULE SecondFactor ------------------------------
(***************************************************************************)
(* What the database keeps about the second factors of one account, and    *)
(* the statements that change it: security-service.js, the passkey rows,    *)
(* and the table of WebAuthn challenges (webauthn-challenge-store.js).      *)
(*                                                                         *)
(* Every operator is one SQL statement or one transaction, so each is       *)
(* atomic; MfaLogin and MfaSettings say what happens between them.          *)
(* Encryption, hashing and the form of a code are left out: a secret, a     *)
(* recovery code and a challenge are values that cannot be guessed.         *)
(***************************************************************************)
EXTENDS Integers, FiniteSets

CONSTANTS
  Secret, NoSecret,  \* TOTP secrets; the column is NULL
  Code,              \* recovery codes the generator can hand out
  Passkey, NoKey,    \* no row of webauthn_credentials
  Challenge,         \* identifiers of WebAuthn challenges
  MaxCodes,          \* MAX_ACTIVE_RECOVERY_CODES
  BatchSize          \* DEFAULT_RECOVERY_CODE_COUNT

ASSUME FactorAssumption ==
  /\ NoSecret \notin Secret
  /\ NoKey \notin Nat
  /\ IsFiniteSet(Code)      \* texts of one fixed length
  /\ MaxCodes \in Nat \ {0}
  /\ BatchSize \in Nat \ {0}

-----------------------------------------------------------------------------
(* One account: its TOTP secret and the last step accepted (0 for NULL), its *)
(* active recovery codes, and the signature counter of each passkey.         *)

AccountRow == [secret : Secret \cup {NoSecret}, last : Nat, codes : SUBSET Code,
               keys : [Passkey -> Nat \cup {NoKey}]]

NewAccount == [secret |-> NoSecret, last |-> 0, codes |-> {},
               keys |-> [k \in Passkey |-> NoKey]]

HasTotp(a) == a.secret # NoSecret

HasKey(a, k) == a.keys[k] # NoKey

\* getMfaState(db, userId).enabled
Enabled(a) == HasTotp(a) \/ (\E k \in Passkey : HasKey(a, k))

-----------------------------------------------------------------------------
(* TOTP *)

\* Deviation: the update asks only whether the method is enabled.
AcceptsAnyStep(a, step) == HasTotp(a)

\* The condition of the UPDATE in verifyAndConsumeTotp.
AcceptsStep(a, step) == HasTotp(a) /\ a.last < step

WithStep(a, step) == [a EXCEPT !.last = step]

\* totp/confirm: the code that confirms the enrolment counts as used.
WithTotp(a, secret, step) == [a EXCEPT !.secret = secret, !.last = step]

\* Deviation: a method is removed and the codes stay.
KeepCodes(a) == a

\* Both routes that remove a method drop the codes with the last one.
DropUselessCodes(a) == IF Enabled(a) THEN a ELSE [a EXCEPT !.codes = {}]

WithoutTotp(a) ==
  DropUselessCodes([a EXCEPT !.secret = NoSecret, !.last = 0])

-----------------------------------------------------------------------------
(* Recovery codes *)

\* Deviation: the last slot is never used.
KeepsASlot(a) ==
  LET free == MaxCodes - 1 - Cardinality(a.codes)
  IN  IF free >= BatchSize THEN BatchSize ELSE IF free >= 0 THEN free ELSE 0

\* Math.min(requestedCount, availableSlots)
NewCodeCount(a) ==
  LET free == MaxCodes - Cardinality(a.codes)
  IN  IF free >= BatchSize THEN BatchSize ELSE IF free >= 0 THEN free ELSE 0

\* createRecoveryCodes: the batches it may make.  Codes in use are refused by
\* the UNIQUE constraint; `spent` are values the generator does not repeat.
Batches(a, spent) ==
  {B \in SUBSET (Code \ (a.codes \cup spent)) : Cardinality(B) = NewCodeCount(a)}

WithCodes(a, B) == [a EXCEPT !.codes = @ \cup B]

\* replaceRecoveryCodes, in one transaction with the deletion.
Replacements(a, spent) == Batches([a EXCEPT !.codes = {}], spent \cup a.codes)

WithReplaced(a, B) == [a EXCEPT !.codes = B]

WithoutCode(a, c) == [a EXCEPT !.codes = @ \ {c}]

-----------------------------------------------------------------------------
(* Passkeys *)

\* The library refuses a counter that does not grow, unless neither side counts.
CounterGrows(stored, counter) == counter > stored \/ (counter = 0 /\ stored = 0)

\* Deviation: UPDATE without "AND counter = ?", as before the replay hardening.
KeyStillThere(a, k, counter) == HasKey(a, k)

\* The condition of the UPDATE after a passkey was verified against `counter`.
CounterUnchanged(a, k, counter) == HasKey(a, k) /\ a.keys[k] = counter

WithKey(a, k, counter) == [a EXCEPT !.keys[k] = counter]

WithoutKey(a, k) == DropUselessCodes(WithKey(a, k, NoKey))

-----------------------------------------------------------------------------
(* WebAuthn challenges: a set of rows.  The user is that of the session.    *)

ChallengeRow(id, sid, purpose, expires) ==
  [id |-> id, sid |-> sid, purpose |-> purpose, expires |-> expires]

\* issueWebAuthnChallenge: drops what has expired and the session's former
\* challenge for this purpose, then inserts, in one transaction.
Issue(rows, row, time) ==
  {r \in rows : r.expires >= time /\ ~(r.sid = row.sid /\ r.purpose = row.purpose)}
    \cup {row}

\* The rows the DELETE of consumeWebAuthnChallenge hits.
Matching(rows, id, sid, purpose, time) ==
  {r \in rows : r.id = id /\ r.sid = sid /\ r.purpose = purpose /\ r.expires >= time}

Consume(rows, id, sid, purpose, time) ==
  rows \ Matching(rows, id, sid, purpose, time)

Ids(rows) == {r.id : r \in rows}

-----------------------------------------------------------------------------
(* Properties *)

\* There are never more than MAX_ACTIVE_RECOVERY_CODES recovery keys, and none
\* without a method they can stand in for, whichever routes added and removed
\* methods and keys (security-service.js:168-221, settings.js:496-581).
CodesStandIn(a) ==
  /\ Cardinality(a.codes) <= MaxCodes
  /\ a.codes # {} => Enabled(a)
=============================================================================
