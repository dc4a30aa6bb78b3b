----------------------------- MODULE RateLimiter -----------------------------
(***************************************************************************)
(* The attempt limiter of RecordDrive, used three times: for passwords at  *)
(* sign-in, for second factors, and for password confirmations.  An        *)
(* attempt reserves a place at its client address and at its account       *)
(* before the credential is verified, waits for the verification, and is   *)
(* then counted as a failure, cleared as a success, or released.           *)
(*                                                                         *)
(* A record is a JavaScript object shared by the map and the reservations. *)
(* `detached` says which reservations point at an object that the map no   *)
(* longer holds.  Only the age of a record matters, so time is unbounded.  *)
(***************************************************************************)
EXTENDS Naturals, FiniteSets, FiniteSetsExt

CONSTANTS
  Ip, Account,              \* keys of the two maps
  Request,                  \* requests that can hold a reservation together
  MaxPerIp, MaxPerAccount,  \* MAX_..._FAILURES_PER_IP, ..._PER_ACCOUNT or _USER
  Window,                   \* ..._WINDOW_MS, in ticks
  MaxTrackedKeys,           \* MAX_TRACKED_KEYS
  SecondFactor,             \* TRUE: the maps of checkMfaRateLimit
  NoRecord, NoAttempt

Key == Ip \cup Account

ASSUME KeyAssumption == Ip \cap Account = {} /\ IsFiniteSet(Request)
ASSUME LimitAssumption ==
  /\ MaxPerIp \in Nat \ {0} /\ MaxPerAccount \in Nat \ {0}
  /\ Window \in Nat \ {0} /\ MaxTrackedKeys \in Nat
  /\ SecondFactor \in BOOLEAN

VARIABLES
  records,    \* both maps of failures
  attempts,   \* active reservations
  detached,   \* reservations whose record left the map
  failures    \* history: failed attempts by key and age, cleared by a success

vars == <<records, attempts, detached, failures>>

Record == [count : Nat, inFlight : Nat, age : 0..Window]

ASSUME NullAssumption ==
  NoRecord \notin Record /\ NoAttempt \notin [ip : Ip, account : Account]

Maximum(k) == IF k \in Ip THEN MaxPerIp ELSE MaxPerAccount

Keys(q) == IF attempts[q] = NoAttempt THEN {} ELSE {attempts[q].ip, attempts[q].account}

-----------------------------------------------------------------------------
(* One record.                                                              *)

\* Deviation: an expired record goes, whoever holds it.
ExpiredForgotten(rec) ==
  IF rec = NoRecord \/ rec.age < Window THEN rec ELSE NoRecord

\* The window starts anew for attempts that are still in flight.
Rolled(rec) == [count |-> 0, inFlight |-> rec.inFlight, age |-> 0]

\* activeRecord.
Current(rec) ==
  IF rec = NoRecord \/ rec.age < Window THEN rec
  ELSE IF rec.inFlight > 0 THEN Rolled(rec) ELSE NoRecord

Reserved(rec) ==
  IF rec = NoRecord THEN [count |-> 0, inFlight |-> 1, age |-> 0]
  ELSE [rec EXCEPT !.inFlight = @ + 1]

\* recordFailure.
Counted(rec) ==
  IF Current(rec) = NoRecord THEN [count |-> 1, inFlight |-> 0, age |-> 0]
  ELSE [Current(rec) EXCEPT !.count = @ + 1]

Renewed(rec) == IF rec.age >= Window THEN Rolled(rec) ELSE rec

Left(rec, failed) ==
  LET r == Renewed(rec)
  IN  [count    |-> IF failed THEN r.count + 1 ELSE r.count,
       inFlight |-> IF r.inFlight = 0 THEN 0 ELSE r.inFlight - 1,
       age      |-> r.age]

\* Deviation: only a failure gives its place back.
SettledIfFailed(rec, failed) ==
  IF failed THEN Left(rec, failed) ELSE Renewed(rec)

\* One entry of completeReservation.
Settled(rec, failed) ==
  IF Left(rec, failed).count = 0 /\ Left(rec, failed).inFlight = 0 THEN NoRecord
  ELSE Left(rec, failed)

\* clearFailures.
Cleared(rec) ==
  IF rec = NoRecord \/ rec.inFlight = 0 THEN NoRecord ELSE [rec EXCEPT !.count = 0]

-----------------------------------------------------------------------------
(* The maps.                                                                *)

Swept == [k \in Key |-> Current(records[k])]

\* Deviation: attempts that are still being verified do not count.
FullOfFailures(table, k) == table[k] # NoRecord /\ table[k].count >= Maximum(k)

\* limitState.
Full(table, k) ==
  table[k] # NoRecord /\ table[k].count + table[k].inFlight >= Maximum(k)

Idle(table) == {k \in Key : table[k] # NoRecord /\ table[k].inFlight = 0}

Excess(table, M) == LET n == Cardinality({k \in M : table[k] # NoRecord})
                    IN  IF n > MaxTrackedKeys THEN n - MaxTrackedKeys ELSE 0

\* enforceMapLimit on the maps of the keys K: idle records go, whichever, until the
\* map is small enough (the code takes them in the order of their insertion).
Trimmed(table, K) ==
  LET Enough(S, M) ==
        Cardinality(S \cap M) =
          IF K \cap M = {} THEN 0
          ELSE Min({Cardinality(Idle(table) \cap M), Excess(table, M)})
  IN  {[k \in Key |-> IF k \in gone THEN NoRecord ELSE table[k]] :
         gone \in {S \in SUBSET Idle(table) : Enough(S, Ip) /\ Enough(S, Account)}}

\* Reservations whose record is in the map before and not after.
Orphaned(before, after) ==
  {p \in Request \X Key : /\ p[2] \in Keys(p[1])
                          /\ before[p[2]] # NoRecord /\ after[p[2]] = NoRecord}

-----------------------------------------------------------------------------
NoFailures == [age \in 0..(Window - 1) |-> 0]

Init ==
  /\ records = [k \in Key |-> NoRecord]
  /\ attempts = [q \in Request |-> NoAttempt]
  /\ detached = {}
  /\ failures = [k \in Key |-> NoFailures]

\* deleteExpired, and reserveAttempts lets the attempt through.
Reserve(q, i, a) ==
  LET added == [k \in Key |-> IF k \in {i, a} THEN Reserved(Swept[k]) ELSE Swept[k]]
  IN  /\ attempts[q] = NoAttempt
      /\ ~Full(Swept, i) /\ ~Full(Swept, a)
      /\ attempts' = [attempts EXCEPT ![q] = [ip |-> i, account |-> a]]
      /\ \E kept \in Trimmed(added, {i, a}) :
           /\ records' = kept
           /\ detached' = detached \cup Orphaned(records, Swept) \cup Orphaned(added, kept)
      /\ UNCHANGED failures

\* deleteExpired, and the attempt is refused; or the limit is only looked at.
Check(i, a) ==
  /\ SecondFactor \/ Full(Swept, i) \/ Full(Swept, a)
  /\ records' = Swept
  /\ detached' = detached \cup Orphaned(records, Swept)
  /\ UNCHANGED <<attempts, failures>>

Stale(q) == {k \in Keys(q) : <<q, k>> \in detached}

\* completeReservation, entry by entry.
Completed(q, failed) ==
  [k \in Key |-> IF k \notin Keys(q) THEN records[k]
                 ELSE IF k \notin Stale(q) THEN Settled(records[k], failed)
                 ELSE IF failed THEN Counted(records[k]) ELSE records[k]]

\* The reservation of q ends and leaves the maps as in table.
End(q, table) ==
  /\ records' = table
  /\ attempts' = [attempts EXCEPT ![q] = NoAttempt]
  /\ detached' = (detached \cup Orphaned(records, table)) \ ({q} \X Key)

\* recordLoginFailure, recordMfaFailure, recordSecurityPasswordFailure.
Fail(q) ==
  /\ attempts[q] # NoAttempt
  /\ \E kept \in Trimmed(Completed(q, TRUE), Stale(q)) : End(q, kept)
  /\ failures' = [k \in Key |-> IF k \in Keys(q) THEN [failures[k] EXCEPT ![0] = @ + 1]
                                ELSE failures[k]]

\* releaseLoginAttempt and its two siblings.
Release(q) ==
  /\ attempts[q] # NoAttempt
  /\ End(q, Completed(q, FALSE))
  /\ UNCHANGED failures

\* clearLoginAttempts and its two siblings.
Succeed(q) ==
  /\ attempts[q] # NoAttempt
  /\ LET a == attempts[q].account
     IN  /\ End(q, [Completed(q, FALSE) EXCEPT ![a] = Cleared(@)])
         /\ failures' = [failures EXCEPT ![a] = NoFailures]

\* clearMfaAttempts of a sign-in that needed no second factor.
Forget(a) ==
  /\ SecondFactor
  /\ LET table == [records EXCEPT ![a] = Cleared(@)]
     IN  records' = table /\ detached' = detached \cup Orphaned(records, table)
  /\ failures' = [failures EXCEPT ![a] = NoFailures]
  /\ UNCHANGED attempts

Tick ==
  /\ records' = [k \in Key |->
       IF records[k] = NoRecord THEN NoRecord
       ELSE [records[k] EXCEPT !.age = IF @ = Window THEN @ ELSE @ + 1]]
  /\ failures' = [k \in Key |->
       [age \in 0..(Window - 1) |-> IF age = 0 THEN 0 ELSE failures[k][age - 1]]]
  /\ UNCHANGED <<attempts, detached>>

\* The process starts again with empty maps.
Restart ==
  /\ records' = [k \in Key |-> NoRecord]
  /\ attempts' = [q \in Request |-> NoAttempt]
  /\ detached' = {}
  /\ failures' = [k \in Key |-> NoFailures]

Finish(q) == Fail(q) \/ Release(q) \/ Succeed(q)

Next ==
  \/ \E i \in Ip, a \in Account : Check(i, a) \/ \E q \in Request : Reserve(q, i, a)
  \/ \E q \in Request : Finish(q)
  \/ \E a \in Account : Forget(a)
  \/ Tick \/ Restart

\* Time passes, and every handler settles its reservation on each of its paths.
Spec == Init /\ [][Next]_vars /\ WF_vars(Tick) /\ \A q \in Request : WF_vars(Finish(q))

-----------------------------------------------------------------------------
\* The type of each variable; a record is only kept while it counts something
\* (completeReservation, clearFailures).
TypeOK ==
  /\ records \in [Key -> Record \cup {NoRecord}]
  /\ \A k \in Key : records[k] # NoRecord => records[k].count + records[k].inFlight > 0
  /\ attempts \in [Request -> [ip : Ip, account : Account] \cup {NoAttempt}]
  /\ detached \subseteq Request \X Key
  /\ failures \in [Key -> [0..(Window - 1) -> Nat]]

Pending(k) == {q \in Request : k \in Keys(q)}

\* Every reservation points at the record its key has now, and a record counts each
\* of them once: neither expiry, nor eviction, nor a success of another request
\* takes a record away from an attempt in flight, and a refused attempt leaves no
\* trace (activeRecord, enforceMapLimit, clearFailures, reserveAttempts).
ReservationsAreCounted ==
  /\ detached = {}
  /\ \A k \in Key :
       Cardinality(Pending(k)) = IF records[k] = NoRecord THEN 0 ELSE records[k].inFlight

\* However many attempts are verified at the same time, and whenever the window rolls
\* over, failures and attempts in flight of a key never exceed its maximum
\* (limitState, completeReservation).
LimitHolds ==
  \A k \in Key : records[k] # NoRecord =>
    records[k].count + records[k].inFlight <= Maximum(k)

\* What the fixed windows promise for a sliding one: during the time of one window a
\* key has at most twice its maximum of failures since its last success, and a
\* success does not help its address (recordLoginFailure and its siblings).
FailuresInAnyWindow ==
  \A k \in Key :
    MapThenSumSet(LAMBDA age : failures[k][age], 0..(Window - 1)) <= 2 * Maximum(k)

\* No key stays blocked for ever.
BlockedForAWhile == \A k \in Key : Full(Swept, k) ~> ~Full(Swept, k)
=============================================================================
