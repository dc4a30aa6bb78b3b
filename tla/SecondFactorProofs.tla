--------------------------- MODULE SecondFactorProofs ---------------------------
(***************************************************************************)
(* MfaLogin implements OneTime, what MfaSettings promises, and what the    *)
(* limiter of attempts counts, for every set of sessions, requests,        *)
(* addresses, codes, passkeys and challenges and every bound.              *)
(*                                                                         *)
(* Sign-in: an open token was never spent.  A TOTP step is spent only at   *)
(* or below the last step of the present enrolment (StepsBehind); a code   *)
(* of the account is not spent (CodesUnspent); a challenge is either a row *)
(* or in the hands of one request, never both, and unspent in either place *)
(* (ChallengesApart).  So each step opens unspent tokens only, and the     *)
(* three steps that complete a sign-in close the token they spend.         *)
(*                                                                         *)
(* Settings: a handler that changes or discloses something checks the      *)
(* verification of its own copy in the same step, and one that is recent   *)
(* has not lapsed.  A batch of recovery keys is as large as the free       *)
(* places, so the first one an account gets is not empty.                  *)
(*                                                                         *)
(* The limiter: types are kept, each reservation is counted exactly once   *)
(* in the record its key has now, and no key exceeds its maximum.  The     *)
(* history of failures is a set of marks; a record has those of its own    *)
(* time, and those before it are as many as its predecessor counted.       *)
(*                                                                         *)
(* Together: the steps of one part leave the others alone, so the          *)
(* invariants of all parts hold in the composition that TLC explores.      *)
(***************************************************************************)
EXTENDS MCSecondFactors, FiniteSetTheorems, WellFoundedInduction, TLAPS

-----------------------------------------------------------------------------
(* The limiter.  A record counts the reservations of its key, so one that    *)
(* leaves the map (expired, evicted, cleared: all only with inFlight = 0)    *)
(* has none, and no reservation is ever detached.  A failure moves one place *)
(* from inFlight to count, which needs inFlight to be positive: that is      *)
(* where the exact counting is used.                                         *)

Bounded(rec, k) ==
  \/ rec = NoRecord
  \/ /\ rec \in Record
     /\ rec.count + rec.inFlight > 0
     /\ rec.count + rec.inFlight <= Maximum(k)

Places(rec) == IF rec = NoRecord THEN 0 ELSE rec.inFlight

GoodTable(table) ==
  /\ table = [k \in Key |-> table[k]]
  /\ \A k \in Key : Bounded(table[k], k)

Exact(table) == \A k \in Key : Cardinality(Pending(k)) = Places(table[k])

AttemptsOK == attempts \in [Request -> [ip : Ip, account : Account] \cup {NoAttempt}]

FailuresOK == failures \in [Key -> [0..(Window - 1) -> Nat]]

LimiterInv ==
  /\ GoodTable(records) /\ Exact(records) /\ detached = {}
  /\ AttemptsOK /\ FailuresOK

-----------------------------------------------------------------------------
(* One record.                                                              *)

LEMMA MaximumIsPositive == ASSUME NEW k \in Key PROVE Maximum(k) \in Nat \ {0}
  BY LimitAssumption DEF LimitAssumption, Maximum

\* Expiry keeps the places of attempts in flight.
LEMMA CurrentBounded ==
  ASSUME NEW k \in Key, NEW rec, Bounded(rec, k)
  PROVE  Bounded(Current(rec), k) /\ Places(Current(rec)) = Places(rec)
<1>1. CASE rec = NoRecord \/ rec.age < Window
  BY <1>1 DEF Current
<1>2. CASE rec # NoRecord /\ ~(rec.age < Window) /\ rec.inFlight > 0
  <2>1. Current(rec) = [count |-> 0, inFlight |-> rec.inFlight, age |-> 0]
    BY <1>2 DEF Current, Rolled
  <2>2. /\ Current(rec) \in Record
        /\ Current(rec).count = 0 /\ Current(rec).inFlight = rec.inFlight
    BY <1>2, <2>1, LimitAssumption DEF Bounded, Record, LimitAssumption
  <2>3. Current(rec) # NoRecord
    BY <2>2, NullAssumption DEF NullAssumption
  <2> QED
    BY <1>2, <2>2, <2>3, MaximumIsPositive DEF Bounded, Places, Record
<1>3. CASE rec # NoRecord /\ ~(rec.age < Window) /\ ~(rec.inFlight > 0)
  <2>1. Current(rec) = NoRecord
    BY <1>3 DEF Current
  <2>2. rec.inFlight = 0
    BY <1>3 DEF Bounded, Record
  <2> QED
    BY <1>3, <2>1, <2>2 DEF Bounded, Places
<1> QED
  BY <1>1, <1>2, <1>3

\* A reservation below the maximum stays within it.
LEMMA ReservedBounded ==
  ASSUME NEW k \in Key, NEW rec, Bounded(rec, k),
         rec # NoRecord => rec.count + rec.inFlight < Maximum(k)
  PROVE  Bounded(Reserved(rec), k) /\ Places(Reserved(rec)) = Places(rec) + 1
         /\ Reserved(rec) # NoRecord
  BY MaximumIsPositive, NullAssumption, LimitAssumption
     DEF Bounded, Reserved, Places, Record, NullAssumption, LimitAssumption

\* The end of an attempt gives back one place and adds at most one failure.
LEMMA SettledBounded ==
  ASSUME NEW k \in Key, NEW rec, Bounded(rec, k), Places(rec) > 0, NEW failed \in BOOLEAN
  PROVE  Bounded(Settled(rec, failed), k) /\ Places(Settled(rec, failed)) = Places(rec) - 1
<1>1. rec \in Record /\ rec.inFlight > 0 /\ rec.count + rec.inFlight <= Maximum(k)
  BY DEF Bounded, Places
<1> DEFINE rn == Renewed(rec)
<1>0. rn \in Record /\ rn.inFlight = rec.inFlight /\ rn.count <= rec.count
  <2>1. CASE rec.age >= Window
    <3>1. rn = [count |-> 0, inFlight |-> rec.inFlight, age |-> 0]
      BY <2>1 DEF Renewed, Rolled
    <3> QED
      BY <1>1, <3>1, LimitAssumption DEF Record, LimitAssumption
  <2>2. CASE ~(rec.age >= Window)
    BY <1>1, <2>2 DEF Renewed, Record
  <2> QED
    BY <2>1, <2>2
<1>2. Left(rec, failed) \in Record
  <2> HIDE DEF rn
  <2>1. Left(rec, failed) = [count |-> IF failed THEN rn.count + 1 ELSE rn.count,
                             inFlight |-> IF rn.inFlight = 0 THEN 0 ELSE rn.inFlight - 1,
                             age |-> rn.age]
    BY DEF Left, rn
  <2> QED
    BY <1>1, <1>0, <2>1 DEF Record
<1>3. /\ Left(rec, failed).inFlight = rec.inFlight - 1
      /\ Left(rec, failed).count <= rec.count + (IF failed THEN 1 ELSE 0)
  BY <1>1, <1>0 DEF Left, Record
<1>4. Left(rec, failed) # NoRecord
  BY <1>2, NullAssumption DEF NullAssumption
<1>5. rec # NoRecord
  BY <1>1, NullAssumption DEF NullAssumption
<1> QED
  BY <1>1, <1>2, <1>3, <1>4, <1>5, MaximumIsPositive DEF Settled, Bounded, Places, Record

\* A success of another request keeps the places of attempts in flight.
LEMMA ClearedBounded ==
  ASSUME NEW k \in Key, NEW rec, Bounded(rec, k)
  PROVE  Bounded(Cleared(rec), k) /\ Places(Cleared(rec)) = Places(rec)
  BY MaximumIsPositive, NullAssumption
     DEF Bounded, Cleared, Places, Record, NullAssumption

-----------------------------------------------------------------------------
(* The maps and the reservations.                                           *)

LEMMA PendingFinite ==
  ASSUME NEW k PROVE IsFiniteSet(Pending(k)) /\ Cardinality(Pending(k)) \in Nat
<1>1. IsFiniteSet(Pending(k))
  BY KeyAssumption, FS_Subset DEF KeyAssumption, Pending
<1> QED
  BY <1>1, FS_CardinalityType

LEMMA KeysOfAttempt ==
  ASSUME AttemptsOK, NEW q \in Request, attempts[q] # NoAttempt
  PROVE  Keys(q) \subseteq Key /\ attempts[q].ip \in Ip /\ attempts[q].account \in Account
  BY DEF AttemptsOK, Keys, Key

\* Sweeping keeps the invariant.
LEMMA SweptGood ==
  ASSUME GoodTable(records), Exact(records)
  PROVE  GoodTable(Swept) /\ Exact(Swept)
<1>1. \A k \in Key : Swept[k] = Current(records[k])
  BY DEF Swept
<1>2. \A k \in Key : Bounded(Swept[k], k) /\ Places(Swept[k]) = Places(records[k])
  BY <1>1, CurrentBounded DEF GoodTable
<1> QED
  BY <1>2 DEF GoodTable, Exact, Swept

\* Eviction takes records without attempts only.
LEMMA TrimmedIsIdle ==
  ASSUME NEW table, NEW K, NEW kept \in Trimmed(table, K)
  PROVE  /\ kept = [k \in Key |-> kept[k]]
         /\ \A k \in Key : \/ kept[k] = table[k]
                           \/ kept[k] = NoRecord /\ k \in Idle(table)
<1>1. PICK gone \in SUBSET Idle(table) :
        kept = [k \in Key |-> IF k \in gone THEN NoRecord ELSE table[k]]
  BY Zenon DEF Trimmed
<1> QED
  BY <1>1

LEMMA TrimmedGood ==
  ASSUME NEW table, GoodTable(table), NEW K, NEW kept \in Trimmed(table, K)
  PROVE  GoodTable(kept) /\ \A k \in Key : Places(kept[k]) = Places(table[k])
  BY TrimmedIsIdle DEF GoodTable, Bounded, Places, Idle

\* A key without a record has no attempts, so nobody loses one.
LEMMA NoOrphans ==
  ASSUME NEW before, NEW after,
         \A k \in Key : after[k] = NoRecord => Pending(k) = {}
  PROVE  Orphaned(before, after) = {}
  BY DEF Orphaned, Pending

LEMMA NoPlacesNoPending ==
  ASSUME NEW table, Exact(table), NEW k \in Key, table[k] = NoRecord
  PROVE  Pending(k) = {}
<1>1. Cardinality(Pending(k)) = 0
  BY DEF Exact, Places
<1> QED
  BY <1>1, PendingFinite, FS_EmptySet

-----------------------------------------------------------------------------
(* The end of an attempt.                                                   *)

\* With no reservation detached, completeReservation settles each entry.
LEMMA CompletedGood ==
  ASSUME LimiterInv, NEW q \in Request, attempts[q] # NoAttempt, NEW failed \in BOOLEAN
  PROVE  /\ GoodTable(Completed(q, failed))
         /\ \A k \in Key : Places(Completed(q, failed)[k]) = Cardinality(Pending(k) \ {q})
<1> DEFINE done == Completed(q, failed)
<1>1. done = [k \in Key |-> IF k \in Keys(q) THEN Settled(records[k], failed) ELSE records[k]]
  BY DEF LimiterInv, Completed, Stale
<1>2. ASSUME NEW k \in Key
      PROVE  /\ Bounded(done[k], k)
             /\ Places(done[k]) = Cardinality(Pending(k) \ {q})
  <2>1. Bounded(records[k], k) /\ Places(records[k]) = Cardinality(Pending(k))
    BY DEF LimiterInv, GoodTable, Exact
  <2>2. CASE k \in Keys(q)
    <3>1. q \in Pending(k)
      BY <2>2 DEF Pending
    <3>2. Cardinality(Pending(k) \ {q}) = Cardinality(Pending(k)) - 1
      BY <3>1, PendingFinite, FS_RemoveElement
    <3>3. Pending(k) # {}
      BY <3>1
    <3>4. Places(records[k]) > 0
      BY <2>1, <3>3, PendingFinite, FS_EmptySet
    <3>5. done[k] = Settled(records[k], failed)
      BY <1>1, <2>2
    <3> QED
      BY <2>1, <3>2, <3>4, <3>5, SettledBounded
  <2>3. CASE k \notin Keys(q)
    <3>1. Pending(k) \ {q} = Pending(k)
      BY <2>3 DEF Pending
    <3>2. done[k] = records[k]
      BY <1>1, <2>3
    <3> QED
      BY <2>1, <3>1, <3>2
  <2> QED
    BY <2>2, <2>3
<1> QED
  BY <1>1, <1>2 DEF GoodTable

\* End, with a table that has the places of the remaining attempts.
LEMMA EndKeepsCounts ==
  ASSUME LimiterInv, NEW q \in Request, attempts[q] # NoAttempt, NEW table,
         GoodTable(table), End(q, table),
         \A k \in Key : Places(table[k]) = Cardinality(Pending(k) \ {q})
  PROVE  GoodTable(records') /\ Exact(records)' /\ detached' = {} /\ AttemptsOK'
<1>1. GoodTable(records')
  BY DEF End
<1>2. AttemptsOK'
  BY DEF LimiterInv, AttemptsOK, End
<1>3. ASSUME NEW k \in Key PROVE Pending(k)' = Pending(k) \ {q}
  BY DEF LimiterInv, AttemptsOK, End, Pending, Keys
<1>4. Exact(records)'
  BY <1>3 DEF End, Exact
<1>5. ASSUME NEW k \in Key, table[k] = NoRecord PROVE Pending(k) \ {q} = {}
  <2>1. IsFiniteSet(Pending(k) \ {q})
    BY PendingFinite, FS_RemoveElement
  <2>2. Cardinality(Pending(k) \ {q}) = 0
    BY <1>5 DEF Places
  <2> QED
    BY <2>1, <2>2, FS_EmptySet
<1>6. detached' = {}
  BY <1>5 DEF LimiterInv, End, Orphaned, Pending
<1> QED
  BY <1>1, <1>2, <1>4, <1>6

-----------------------------------------------------------------------------
(* The actions.                                                             *)

LEMMA ReserveKeeps ==
  ASSUME LimiterInv, NEW q \in Request, NEW i \in Ip, NEW a \in Account, Reserve(q, i, a)
  PROVE  LimiterInv'
<1> DEFINE added == [k \in Key |-> IF k \in {i, a} THEN Reserved(Swept[k]) ELSE Swept[k]]
<1>1. /\ attempts[q] = NoAttempt /\ ~Full(Swept, i) /\ ~Full(Swept, a)
      /\ attempts' = [attempts EXCEPT ![q] = [ip |-> i, account |-> a]]
      /\ failures' = failures
  BY DEF Reserve
<1>2. PICK kept \in Trimmed(added, {i, a}) :
        /\ records' = kept
        /\ detached' = detached \cup Orphaned(records, Swept) \cup Orphaned(added, kept)
  BY Zenon DEF Reserve
<1>3. GoodTable(Swept) /\ Exact(Swept)
  BY SweptGood DEF LimiterInv
<1>4. i \in Key /\ a \in Key /\ i # a
  BY KeyAssumption DEF Key, KeyAssumption
<1>5. ASSUME NEW k \in {i, a}
      PROVE  /\ Bounded(Reserved(Swept[k]), k)
             /\ Places(Reserved(Swept[k])) = Places(Swept[k]) + 1
             /\ Reserved(Swept[k]) # NoRecord
  <2>1. Bounded(Swept[k], k) /\ k \in Key
    BY <1>3, <1>4 DEF GoodTable
  <2>2. Swept[k] # NoRecord => Swept[k].count + Swept[k].inFlight < Maximum(k)
    <3>1. ~Full(Swept, k)
      BY <1>1
    <3>2. Swept[k] # NoRecord => Swept[k] \in Record
      BY <2>1 DEF Bounded
    <3> QED
      BY <2>1, <3>1, <3>2, MaximumIsPositive DEF Full, Record
  <2> QED
    BY <2>1, <2>2, ReservedBounded
<1>6. GoodTable(added)
  BY <1>3, <1>5 DEF GoodTable
<1>7. /\ GoodTable(kept)
      /\ \A k \in Key : Places(kept[k]) = Places(added[k])
  <2> HIDE DEF added
  <2> QED
    BY <1>2, <1>6, TrimmedGood
<1>8. ASSUME NEW k \in Key
      PROVE  Pending(k)' = IF k \in {i, a} THEN Pending(k) \cup {q} ELSE Pending(k)
  <2>1. ASSUME NEW p \in Request
        PROVE  Keys(p)' = IF p = q THEN {i, a} ELSE Keys(p)
    <3>1. attempts'[p] = IF p = q THEN [ip |-> i, account |-> a] ELSE attempts[p]
      BY <1>1 DEF LimiterInv, AttemptsOK
    <3>2. [ip |-> i, account |-> a] # NoAttempt
      BY NullAssumption DEF NullAssumption
    <3> QED
      BY <3>1, <3>2 DEF Keys
  <2>2. Keys(q) = {}
    BY <1>1 DEF Keys
  <2> QED
    BY <2>1, <2>2 DEF Pending
<1>9. ASSUME NEW k \in Key PROVE q \notin Pending(k)
  BY <1>1 DEF Pending, Keys
<1>10. Exact(records)'
  <2>1. ASSUME NEW k \in Key PROVE Cardinality(Pending(k)') = Places(kept[k])
    <3>1. Cardinality(Pending(k)) = Places(Swept[k]) /\ Cardinality(Pending(k)) \in Nat
      BY <1>3, PendingFinite DEF Exact
    <3>2. CASE k \in {i, a}
      <4>1. Cardinality(Pending(k) \cup {q}) = Cardinality(Pending(k)) + 1
        BY <1>9, PendingFinite, FS_AddElement
      <4> QED
        BY <1>5, <1>7, <1>8, <3>1, <3>2, <4>1
    <3>3. CASE k \notin {i, a}
      BY <1>7, <1>8, <3>1, <3>3
    <3> QED
      BY <3>2, <3>3
  <2> QED
    BY <1>2, <2>1 DEF Exact
<1>11. Orphaned(records, Swept) = {}
  BY <1>3, NoPlacesNoPending, NoOrphans
<1>12. ASSUME NEW k \in Key, kept[k] = NoRecord PROVE Pending(k) = {}
  <2>1. Places(added[k]) = 0
    BY <1>7, <1>12 DEF Places
  <2>2. k \notin {i, a}
    <3> SUFFICES ASSUME k \in {i, a} PROVE FALSE
      OBVIOUS
    <3>1. Places(Swept[k]) \in Nat
      BY <1>3, PendingFinite DEF Exact
    <3> QED
      BY <1>5, <2>1, <3>1
  <2>3. Cardinality(Pending(k)) = 0
    BY <1>3, <2>1, <2>2 DEF Exact
  <2> QED
    BY <2>3, PendingFinite, FS_EmptySet
<1>13. Orphaned(added, kept) = {}
  <2> HIDE DEF added
  <2> QED
    BY <1>12, NoOrphans
<1>14. detached' = {}
  BY <1>2, <1>11, <1>13 DEF LimiterInv
<1>15. AttemptsOK' /\ FailuresOK'
  BY <1>1 DEF LimiterInv, AttemptsOK, FailuresOK
<1> QED
  BY <1>2, <1>7, <1>10, <1>14, <1>15 DEF LimiterInv, GoodTable

\* A step that only rewrites records without disturbing the attempts in flight.
LEMMA RewriteKeeps ==
  ASSUME LimiterInv, NEW table, GoodTable(table),
         \A k \in Key : Places(table[k]) = Places(records[k]),
         records' = table, detached' = detached \cup Orphaned(records, table),
         UNCHANGED attempts
  PROVE  GoodTable(records') /\ Exact(records)' /\ detached' = {} /\ AttemptsOK'
<1>1. \A k \in Key : Pending(k)' = Pending(k)
  BY DEF Pending, Keys
<1>2. Exact(table)
  BY DEF LimiterInv, Exact
<1>3. Exact(records)'
  BY <1>1, <1>2 DEF Exact
<1>4. Orphaned(records, table) = {}
  BY <1>2, NoPlacesNoPending, NoOrphans
<1> QED
  BY <1>3, <1>4 DEF LimiterInv, AttemptsOK

LEMMA CheckKeeps ==
  ASSUME LimiterInv, NEW i \in Ip, NEW a \in Account, Check(i, a)
  PROVE  LimiterInv'
<1>1. /\ records' = Swept /\ detached' = detached \cup Orphaned(records, Swept)
      /\ UNCHANGED <<attempts, failures>>
  BY DEF Check
<1>2. GoodTable(Swept) /\ Exact(Swept)
  BY SweptGood DEF LimiterInv
<1>3. \A k \in Key : Places(Swept[k]) = Places(records[k])
  BY <1>2 DEF LimiterInv, Exact
<1>4. GoodTable(records') /\ Exact(records)' /\ detached' = {} /\ AttemptsOK'
  BY <1>1, <1>2, <1>3, RewriteKeeps
<1> QED
  BY <1>1, <1>4 DEF LimiterInv, FailuresOK, GoodTable

LEMMA FailKeeps ==
  ASSUME LimiterInv, NEW q \in Request, Fail(q)
  PROVE  LimiterInv'
<1> DEFINE done == Completed(q, TRUE)
<1>1. /\ attempts[q] # NoAttempt
      /\ failures' = [k \in Key |-> IF k \in Keys(q) THEN [failures[k] EXCEPT ![0] = @ + 1]
                                    ELSE failures[k]]
  BY DEF Fail
<1>2. PICK kept \in Trimmed(done, Stale(q)) : End(q, kept)
  BY Zenon DEF Fail
<1>3. /\ GoodTable(done)
      /\ \A k \in Key : Places(done[k]) = Cardinality(Pending(k) \ {q})
  BY <1>1, CompletedGood
<1>4. /\ GoodTable(kept)
      /\ \A k \in Key : Places(kept[k]) = Places(done[k])
  <2> HIDE DEF done
  <2> QED
    BY <1>2, <1>3, TrimmedGood
<1>5. GoodTable(records') /\ Exact(records)' /\ detached' = {} /\ AttemptsOK'
  <2> HIDE DEF done
  <2> QED
    BY <1>1, <1>2, <1>3, <1>4, EndKeepsCounts
<1>6. FailuresOK'
  BY <1>1, LimitAssumption DEF LimiterInv, FailuresOK, LimitAssumption
<1> QED
  BY <1>5, <1>6 DEF LimiterInv, GoodTable

LEMMA ReleaseKeeps ==
  ASSUME LimiterInv, NEW q \in Request, Release(q)
  PROVE  LimiterInv'
<1>1. attempts[q] # NoAttempt /\ End(q, Completed(q, FALSE)) /\ failures' = failures
  BY DEF Release
<1>2. GoodTable(records') /\ Exact(records)' /\ detached' = {} /\ AttemptsOK'
  BY <1>1, CompletedGood, EndKeepsCounts
<1> QED
  BY <1>1, <1>2 DEF LimiterInv, FailuresOK, GoodTable

LEMMA SucceedKeeps ==
  ASSUME LimiterInv, NEW q \in Request, Succeed(q)
  PROVE  LimiterInv'
<1> DEFINE a == attempts[q].account
           done == Completed(q, FALSE)
           table == [done EXCEPT ![a] = Cleared(@)]
<1>1. /\ attempts[q] # NoAttempt /\ End(q, table)
      /\ failures' = [failures EXCEPT ![a] = NoFailures]
  BY DEF Succeed
<1>2. /\ GoodTable(done)
      /\ \A k \in Key : Places(done[k]) = Cardinality(Pending(k) \ {q})
  BY <1>1, CompletedGood
<1>3. a \in Key
  BY <1>1, KeysOfAttempt DEF LimiterInv, Key
<1>4. Bounded(Cleared(done[a]), a) /\ Places(Cleared(done[a])) = Places(done[a])
  <2>1. Bounded(done[a], a)
    BY <1>2, <1>3 DEF GoodTable
  <2> QED
    BY <1>3, <2>1, ClearedBounded
<1>5. \A k \in Key : table[k] = IF k = a THEN Cleared(done[a]) ELSE done[k]
  <2> HIDE DEF done, a
  <2> QED
    BY <1>2, <1>3 DEF GoodTable
<1>6. GoodTable(table)
  <2>1. table = [k \in Key |-> table[k]]
    <3> HIDE DEF done, a
    <3> QED
      BY <1>2 DEF GoodTable
  <2> HIDE DEF table, done, a
  <2> QED
    BY <1>2, <1>4, <1>5, <2>1 DEF GoodTable
<1>7. \A k \in Key : Places(table[k]) = Cardinality(Pending(k) \ {q})
  <2> HIDE DEF table, done, a
  <2> QED
    BY <1>2, <1>4, <1>5
<1>8. GoodTable(records') /\ Exact(records)' /\ detached' = {} /\ AttemptsOK'
  <2> HIDE DEF table
  <2> QED
    BY <1>1, <1>6, <1>7, EndKeepsCounts
<1>9. FailuresOK'
  BY <1>1, LimitAssumption DEF LimiterInv, FailuresOK, NoFailures, LimitAssumption
<1> QED
  BY <1>8, <1>9 DEF LimiterInv, GoodTable

LEMMA ForgetKeeps ==
  ASSUME LimiterInv, NEW a \in Account, Forget(a)
  PROVE  LimiterInv'
<1> DEFINE table == [records EXCEPT ![a] = Cleared(@)]
<1>1. /\ records' = table /\ detached' = detached \cup Orphaned(records, table)
      /\ failures' = [failures EXCEPT ![a] = NoFailures] /\ UNCHANGED attempts
  BY DEF Forget
<1>2. a \in Key
  BY DEF Key
<1>3. Bounded(Cleared(records[a]), a) /\ Places(Cleared(records[a])) = Places(records[a])
  <2>1. Bounded(records[a], a)
    BY <1>2 DEF LimiterInv, GoodTable
  <2> QED
    BY <1>2, <2>1, ClearedBounded
<1>4. \A k \in Key : table[k] = IF k = a THEN Cleared(records[a]) ELSE records[k]
  BY <1>2 DEF LimiterInv, GoodTable
<1>5. table = [k \in Key |-> table[k]]
  BY DEF LimiterInv, GoodTable
<1>6. GoodTable(table) /\ \A k \in Key : Places(table[k]) = Places(records[k])
  <2> HIDE DEF table
  <2> QED
    BY <1>3, <1>4, <1>5 DEF LimiterInv, GoodTable
<1>7. GoodTable(records') /\ Exact(records)' /\ detached' = {} /\ AttemptsOK'
  <2> HIDE DEF table
  <2> QED
    BY <1>1, <1>6, RewriteKeeps
<1>8. FailuresOK'
  BY <1>1 DEF LimiterInv, FailuresOK, NoFailures
<1> QED
  BY <1>7, <1>8 DEF LimiterInv, GoodTable

LEMMA TickKeeps == ASSUME LimiterInv, Tick PROVE LimiterInv'
<1>1. \A k \in Key : Pending(k)' = Pending(k)
  BY DEF Tick, Pending, Keys
<1>2. ASSUME NEW k \in Key
      PROVE  Bounded(records'[k], k) /\ Places(records'[k]) = Places(records[k])
  <2>1. records'[k] = IF records[k] = NoRecord THEN NoRecord
                      ELSE [records[k] EXCEPT !.age = IF @ = Window THEN @ ELSE @ + 1]
    BY DEF Tick
  <2>2. Bounded(records[k], k)
    BY DEF LimiterInv, GoodTable
  <2>3. CASE records[k] = NoRecord
    BY <2>1, <2>3 DEF Bounded, Places
  <2>4. CASE records[k] # NoRecord
    <3>1. /\ records'[k] \in Record
          /\ records'[k].count = records[k].count
          /\ records'[k].inFlight = records[k].inFlight
      BY <2>1, <2>2, <2>4, LimitAssumption DEF Bounded, Record, LimitAssumption
    <3>2. records'[k] # NoRecord
      BY <3>1, NullAssumption DEF NullAssumption
    <3> QED
      BY <2>2, <2>4, <3>1, <3>2 DEF Bounded, Places
  <2> QED
    BY <2>3, <2>4
<1>3. records' = [k \in Key |-> records'[k]]
  BY DEF Tick
<1>4. FailuresOK'
  <2>1. ASSUME NEW k \in Key, NEW age \in 0..(Window - 1)
        PROVE  (IF age = 0 THEN 0 ELSE failures[k][age - 1]) \in Nat
    <3>1. CASE age = 0
      BY <3>1
    <3>2. CASE age # 0
      <4>1. age - 1 \in 0..(Window - 1)
        BY <3>2, LimitAssumption DEF LimitAssumption
      <4>2. failures[k] \in [0..(Window - 1) -> Nat]
        BY DEF LimiterInv, FailuresOK
      <4> QED
        BY <3>2, <4>1, <4>2
    <3> QED
      BY <3>1, <3>2
  <2> QED
    BY <2>1 DEF Tick, FailuresOK
<1> QED
  BY <1>1, <1>2, <1>3, <1>4 DEF LimiterInv, Tick, GoodTable, Exact, AttemptsOK

\* Empty maps, at the start and after a restart.
LEMMA EmptyIsGood ==
  ASSUME attempts = [q \in Request |-> NoAttempt], records = [k \in Key |-> NoRecord],
         detached = {}, failures = [k \in Key |-> NoFailures]
  PROVE  LimiterInv
<1>1. \A k \in Key : Pending(k) = {}
  BY DEF Pending, Keys
<1>2. \A k \in Key : Cardinality(Pending(k)) = 0
  BY <1>1, FS_EmptySet
<1> QED
  BY <1>2, LimitAssumption
     DEF LimiterInv, GoodTable, Bounded, Exact, Places, AttemptsOK, FailuresOK, NoFailures,
         LimitAssumption

LEMMA NextKeeps == ASSUME LimiterInv, [Next]_vars PROVE LimiterInv'
<1>1. ASSUME NEW i \in Ip, NEW a \in Account, NEW q \in Request, Reserve(q, i, a) PROVE LimiterInv'
  BY <1>1, ReserveKeeps
<1>2. ASSUME NEW i \in Ip, NEW a \in Account, Check(i, a) PROVE LimiterInv'
  BY <1>2, CheckKeeps
<1>3. ASSUME NEW q \in Request, Finish(q) PROVE LimiterInv'
  BY <1>3, FailKeeps, ReleaseKeeps, SucceedKeeps DEF Finish
<1>4. ASSUME NEW a \in Account, Forget(a) PROVE LimiterInv'
  BY <1>4, ForgetKeeps
<1>5. CASE Tick
  BY <1>5, TickKeeps
<1>6. CASE Restart
  <2>1. \A k \in Key : Pending(k)' = {}
    BY <1>6 DEF Restart, Pending, Keys
  <2>2. \A k \in Key : Cardinality(Pending(k)') = 0
    BY <2>1, FS_EmptySet
  <2> QED
    BY <1>6, <2>2, LimitAssumption
       DEF Restart, LimiterInv, GoodTable, Bounded, Exact, Places, AttemptsOK, FailuresOK,
           NoFailures, LimitAssumption
<1>7. CASE UNCHANGED vars
  <2>1. \A k \in Key : Pending(k)' = Pending(k)
    BY <1>7 DEF vars, Pending, Keys
  <2> QED
    BY <1>7, <2>1 DEF vars, LimiterInv, GoodTable, Exact, AttemptsOK, FailuresOK
<1> QED
  BY <1>1, <1>2, <1>3, <1>4, <1>5, <1>6, <1>7 DEF Next

LEMMA LimiterInvariance == Spec => []LimiterInv
<1>1. Init => LimiterInv
  BY EmptyIsGood DEF Init
<1>2. LimiterInv /\ [Next]_vars => LimiterInv'
  BY NextKeeps
<1> QED
  BY <1>1, <1>2, PTL DEF Spec

-----------------------------------------------------------------------------
\* Types are kept, and no record is kept that counts nothing.
THEOREM LimiterTypeCorrect == Spec => []TypeOK
<1>1. LimiterInv => TypeOK
  BY DEF LimiterInv, TypeOK, GoodTable, Bounded, AttemptsOK, FailuresOK
<1> QED
  BY <1>1, LimiterInvariance, PTL

\* No reservation loses its record, and each is counted exactly once at its keys.
THEOREM CountingIsExact == Spec => []ReservationsAreCounted
<1>1. LimiterInv => ReservationsAreCounted
  BY DEF LimiterInv, ReservationsAreCounted, Exact, Places
<1> QED
  BY <1>1, LimiterInvariance, PTL

\* Failures and attempts in flight never exceed the maximum of their key.
THEOREM LimitIsKept == Spec => []LimitHolds
<1>1. LimiterInv => LimitHolds
  BY DEF LimiterInv, LimitHolds, GoodTable, Bounded
<1> QED
  BY <1>1, LimiterInvariance, PTL

-----------------------------------------------------------------------------
(* Failures in a window.  A history is a finite set of marks, one for each   *)
(* failure, so that sums of it are cardinalities.                            *)

Ages == 0..(Window - 1)
History == [Ages -> Nat]

Marks(f, A) == {p \in Ages \X Nat : p[1] \in A /\ p[2] < f[p[1]]}

LEMMA MarksOfAge ==
  ASSUME NEW f \in History, NEW age \in Ages
  PROVE  IsFiniteSet(Marks(f, {age})) /\ Cardinality(Marks(f, {age})) = f[age]
<1> DEFINE T == 0..(f[age] - 1)
           g == [n \in T |-> <<age, n>>]
<1>1. f[age] \in Nat
  BY DEF History
<1>2. IsFiniteSet(T) /\ Cardinality(T) = f[age]
  <2> DEFINE n == f[age] - 1
  <2>1. 0 \in Int /\ n \in Int
    BY <1>1
  <2> HIDE DEF n
  <2>2. IsFiniteSet(0..n) /\ Cardinality(0..n) = IF 0 > n THEN 0 ELSE n - 0 + 1
    BY <2>1, FS_Interval
  <2> QED BY <1>1, <2>1, <2>2 DEF n
<1>3. g \in Bijection(T, Marks(f, {age}))
  <2>1. g \in [T -> Marks(f, {age})]
    BY <1>1 DEF Marks
  <2>2. \A m, n \in T : g[m] = g[n] => m = n
    OBVIOUS
  <2>3. \A p \in Marks(f, {age}) : \E n \in T : g[n] = p
    <3> SUFFICES ASSUME NEW p \in Marks(f, {age}) PROVE \E n \in T : g[n] = p
      OBVIOUS
    <3>1. p = <<age, p[2]>> /\ p[2] \in T
      BY <1>1 DEF Marks
    <3> QED BY <3>1
  <2> HIDE DEF g, T
  <2> QED BY <2>1, <2>2, <2>3 DEF Bijection, Injection, Surjection, IsInjective
<1> HIDE DEF g, T
<1> QED BY <1>2, <1>3, FS_Bijection DEF ExistsBijection

LEMMA MarksJoin ==
  ASSUME NEW f, NEW A, NEW B, IsFiniteSet(Marks(f, A)), IsFiniteSet(Marks(f, B)), A \cap B = {}
  PROVE  /\ IsFiniteSet(Marks(f, A \cup B))
         /\ Cardinality(Marks(f, A \cup B)) = Cardinality(Marks(f, A)) + Cardinality(Marks(f, B))
         /\ Cardinality(Marks(f, A)) \in Nat /\ Cardinality(Marks(f, B)) \in Nat
<1>1. Marks(f, A \cup B) = Marks(f, A) \cup Marks(f, B)
  BY DEF Marks
<1>2. Marks(f, A) \cap Marks(f, B) = {}
  BY DEF Marks
<1>3. Cardinality(Marks(f, A)) \in Nat /\ Cardinality(Marks(f, B)) \in Nat
  BY FS_CardinalityType
<1>4. /\ IsFiniteSet(Marks(f, A) \cup Marks(f, B))
      /\ Cardinality(Marks(f, A) \cup Marks(f, B))
           = Cardinality(Marks(f, A)) + Cardinality(Marks(f, B)) - Cardinality(Marks(f, A) \cap Marks(f, B))
  BY FS_Union
<1>5. Cardinality(Marks(f, A) \cap Marks(f, B)) = 0
  BY <1>2, FS_EmptySet
<1>6. Cardinality(Marks(f, A) \cup Marks(f, B)) = Cardinality(Marks(f, A)) + Cardinality(Marks(f, B))
  <2> DEFINE a == Cardinality(Marks(f, A))
             b == Cardinality(Marks(f, B))
  <2> HIDE DEF a, b
  <2>1. a \in Nat /\ b \in Nat
    BY <1>3 DEF a, b
  <2>2. Cardinality(Marks(f, A) \cup Marks(f, B)) = a + b - 0
    BY <1>4, <1>5 DEF a, b
  <2>3. Cardinality(Marks(f, A) \cup Marks(f, B)) = a + b
    BY <2>1, <2>2
  <2> QED BY <2>3 DEF a, b
<1> QED BY <1>1, <1>3, <1>4, <1>6

\* Induction on finite sets: no counterexample is the least.
LEMMA NoLeastSet ==
  ASSUME NEW S, IsFiniteSet(S), NEW B \in SUBSET (SUBSET S),
         \A s \in B : \E t \in B : t \subseteq s /\ t # s
  PROVE  B = {}
<1> DEFINE R == StrictSubsetOrdering(S)
           F == FiniteSubsetsOf(S)
<1> SUFFICES ASSUME B # {} PROVE FALSE
  OBVIOUS
<1>1. IsWellFoundedOn(R, F)
  BY FS_StrictSubsetOrderingWellFounded
<1>2. B \subseteq F
  BY FS_Subset DEF FiniteSubsetsOf
<1>3. \E m \in B : \A t \in B : <<t, m>> \notin R
  <2> HIDE DEF R, F
  <2> QED BY <1>1, <1>2, WFMin
<1>4. PICK m \in B : \A t \in B : <<t, m>> \notin R
  BY <1>3
<1>5. PICK t \in B : t \subseteq m /\ t # m
  OBVIOUS
<1> QED BY <1>4, <1>5 DEF StrictSubsetOrdering

First(s) == CHOOSE x \in s : TRUE

\* What the sum does with the ages that are left.
Added(f, s, it) == IF s = {} THEN 0 ELSE f[First(s)] + it[s \ {First(s)}]
Adding(f, it) == it = [s \in SUBSET Ages |-> Added(f, s, it)]

LEMMA AgesFinite == IsFiniteSet(Ages) /\ \A s \in SUBSET Ages : IsFiniteSet(s)
<1>1. 0 \in Int /\ Window - 1 \in Int
  BY LimitAssumption DEF LimitAssumption
<1>2. IsFiniteSet(Ages)
  BY <1>1, FS_Interval DEF Ages
<1> QED BY <1>2, FS_Subset

\* Without one of its ages, a set has as many marks less.
LEMMA MarksWithout ==
  ASSUME NEW f \in History, NEW s \in SUBSET Ages, NEW age \in s, IsFiniteSet(Marks(f, s \ {age}))
  PROVE  /\ IsFiniteSet(Marks(f, s))
         /\ Cardinality(Marks(f, s)) = f[age] + Cardinality(Marks(f, s \ {age}))
<1>1. /\ IsFiniteSet(Marks(f, {age})) /\ Cardinality(Marks(f, {age})) = f[age]
      /\ f[age] \in Nat
  BY MarksOfAge DEF History
<1>2. s = (s \ {age}) \cup {age} /\ (s \ {age}) \cap {age} = {}
  OBVIOUS
<1> QED BY <1>1, <1>2, MarksJoin

LEMMA MarksFinite ==
  ASSUME NEW f \in History, NEW A
  PROVE  IsFiniteSet(Marks(f, A)) /\ Cardinality(Marks(f, A)) \in Nat
<1> DEFINE B == {s \in SUBSET Ages : ~IsFiniteSet(Marks(f, s))}
<1>1. ASSUME NEW s \in B PROVE \E t \in B : t \subseteq s /\ t # s
  <2>1. s # {}
    <3>1. Marks(f, {}) = {}
      BY DEF Marks
    <3> QED BY <3>1, FS_EmptySet
  <2>2. PICK age \in s : TRUE
    BY <2>1
  <2>3. s \ {age} \in B
    BY <2>2, MarksWithout
  <2> QED BY <2>2, <2>3
<1>2. B = {}
  <2> HIDE DEF B
  <2>1. B \in SUBSET (SUBSET Ages)
    BY DEF B
  <2> QED BY <1>1, <2>1, AgesFinite, NoLeastSet
<1>3. IsFiniteSet(Marks(f, Ages))
  BY <1>2
<1>4. Marks(f, A) \subseteq Marks(f, Ages)
  BY DEF Marks
<1> QED BY <1>3, <1>4, FS_Subset, FS_CardinalityType

LEMMA CountedMarks == ASSUME NEW f \in History
                      PROVE  Adding(f, [s \in SUBSET Ages |-> Cardinality(Marks(f, s))])
<1> DEFINE it == [s \in SUBSET Ages |-> Cardinality(Marks(f, s))]
<1>1. ASSUME NEW s \in SUBSET Ages PROVE it[s] = Added(f, s, it)
  <2>1. CASE s = {}
    <3>1. Marks(f, {}) = {}
      BY DEF Marks
    <3> QED BY <2>1, <3>1, FS_EmptySet DEF Added
  <2>2. CASE s # {}
    <3>1. First(s) \in s
      BY <2>2 DEF First
    <3>2. Cardinality(Marks(f, s)) = f[First(s)] + Cardinality(Marks(f, s \ {First(s)}))
      BY <3>1, MarksFinite, MarksWithout
    <3>3. s \ {First(s)} \in SUBSET Ages
      OBVIOUS
    <3> QED BY <2>2, <3>2, <3>3 DEF Added
  <2> QED BY <2>1, <2>2
<1>2. it = [s \in SUBSET Ages |-> it[s]]
  OBVIOUS
<1> HIDE DEF it
<1>3. Adding(f, it)
  BY <1>1, <1>2, Zenon DEF Adding
<1> QED BY <1>3 DEF it

LEMMA SumsAgree ==
  ASSUME NEW f, NEW i, NEW j, Adding(f, i), Adding(f, j), NEW S \in SUBSET Ages
  PROVE  i[S] = j[S]
<1> DEFINE B == {s \in SUBSET Ages : i[s] # j[s]}
<1>1. \A s \in SUBSET Ages : i[s] = Added(f, s, i) /\ j[s] = Added(f, s, j)
  BY Zenon DEF Adding
<1>2. ASSUME NEW s \in B PROVE \E t \in B : t \subseteq s /\ t # s
  <2>1. s # {}
    <3>1. Added(f, {}, i) = 0 /\ Added(f, {}, j) = 0
      BY DEF Added
    <3> QED BY <1>1, <3>1, Zenon
  <2>2. First(s) \in s
    BY <2>1 DEF First
  <2>3. i[s] = f[First(s)] + i[s \ {First(s)}] /\ j[s] = f[First(s)] + j[s \ {First(s)}]
    BY <1>1, <2>1, Zenon DEF Added
  <2>4. s \ {First(s)} \in SUBSET Ages /\ s \ {First(s)} \subseteq s /\ s \ {First(s)} # s
    BY <2>2
  <2>5. i[s \ {First(s)}] # j[s \ {First(s)}]
    BY <2>3, Zenon
  <2> QED BY <2>4, <2>5
<1>3. B = {}
  <2> HIDE DEF B
  <2>1. B \in SUBSET (SUBSET Ages)
    BY DEF B
  <2> QED BY <1>2, <2>1, AgesFinite, NoLeastSet
<1> QED BY <1>3

\* The sum over a window counts the marks.
LEMMA SumCountsMarks ==
  ASSUME NEW f \in History
  PROVE  MapThenSumSet(LAMBDA age : f[age], Ages) = Cardinality(Marks(f, Ages))
<1>1. MapThenSumSet(LAMBDA age : f[age], Ages) = (CHOOSE it : Adding(f, it))[Ages]
  BY Zenon DEF MapThenSumSet, MapThenFoldSet, First, Added, Adding
<1> DEFINE g == [s \in SUBSET Ages |-> Cardinality(Marks(f, s))]
<1>2. Adding(f, g)
  BY CountedMarks
<1>3. PICK it : it = (CHOOSE i : Adding(f, i))
  OBVIOUS
<1>4. Adding(f, it)
  BY <1>2, <1>3
<1>5. it[Ages] = g[Ages]
  <2> HIDE DEF g
  <2> QED BY <1>2, <1>4, SumsAgree
<1> QED BY <1>1, <1>3, <1>5

-----------------------------------------------------------------------------
(* What a step does to the marks.                                           *)

LEMMA NoMarks == \A A : Marks(NoFailures, A) = {} /\ Cardinality(Marks(NoFailures, A)) = 0
<1>1. \A A : Marks(NoFailures, A) = {}
  BY DEF Marks, NoFailures, Ages
<1> QED BY <1>1, FS_EmptySet

LEMMA FewerMarks ==
  ASSUME NEW f \in History, NEW A, NEW B, \A n \in A \cap Ages : n \in B
  PROVE  Cardinality(Marks(f, A)) <= Cardinality(Marks(f, B))
<1>1. Marks(f, A) \subseteq Marks(f, B)
  BY DEF Marks
<1> QED BY <1>1, MarksFinite, FS_Subset

\* One more failure, now.
FailedNow(f) == [f EXCEPT ![0] = @ + 1]

LEMMA OneMoreMark ==
  ASSUME NEW f \in History, NEW A
  PROVE  /\ FailedNow(f) \in History
         /\ 0 \in A => Cardinality(Marks(FailedNow(f), A)) = Cardinality(Marks(f, A)) + 1
         /\ 0 \notin A => Marks(FailedNow(f), A) = Marks(f, A)
<1>1. 0 \in Ages /\ f[0] \in Nat
  BY LimitAssumption DEF LimitAssumption, Ages, History
<1>2. /\ FailedNow(f) \in History
      /\ \A n \in Ages : FailedNow(f)[n] = IF n = 0 THEN f[0] + 1 ELSE f[n]
  BY <1>1 DEF FailedNow, History
<1>3. ASSUME 0 \in A PROVE Marks(FailedNow(f), A) = Marks(f, A) \cup {<<0, f[0]>>}
  <2>1. ASSUME NEW p \in Ages \X Nat
        PROVE  p \in Marks(FailedNow(f), A) <=> p \in Marks(f, A) \/ p = <<0, f[0]>>
    <3>1. p = <<p[1], p[2]>> /\ p[1] \in Ages /\ p[2] \in Nat
      OBVIOUS
    <3>2. p = <<0, f[0]>> <=> p[1] = 0 /\ p[2] = f[0]
      BY <3>1
    <3>3. CASE p[1] = 0
      <4>1. p \in Marks(FailedNow(f), A) <=> p[2] < f[0] + 1
        BY <1>2, <1>3, <3>1, <3>3 DEF Marks
      <4>2. p \in Marks(f, A) <=> p[2] < f[0]
        BY <1>3, <3>1, <3>3 DEF Marks
      <4> QED BY <1>1, <3>1, <3>2, <3>3, <4>1, <4>2
    <3>4. CASE p[1] # 0
      BY <1>2, <3>1, <3>2, <3>4 DEF Marks
    <3> QED BY <3>3, <3>4
  <2>2. <<0, f[0]>> \in Ages \X Nat
    BY <1>1
  <2>3. Marks(FailedNow(f), A) \subseteq Ages \X Nat /\ Marks(f, A) \subseteq Ages \X Nat
    BY DEF Marks
  <2> QED BY <2>1, <2>2, <2>3
<1>4. <<0, f[0]>> \notin Marks(f, A)
  BY <1>1 DEF Marks
<1>5. 0 \in A => Cardinality(Marks(FailedNow(f), A)) = Cardinality(Marks(f, A)) + 1
  BY <1>3, <1>4, MarksFinite, FS_AddElement
<1>6. ASSUME 0 \notin A PROVE Marks(FailedNow(f), A) = Marks(f, A)
  <2>1. \A n \in Ages : n \in A => FailedNow(f)[n] = f[n]
    BY <1>2, <1>6
  <2> QED BY <2>1 DEF Marks
<1> QED BY <1>2, <1>5, <1>6

\* Time passes, and what is a window old is forgotten.
Older(f) == [age \in Ages |-> IF age = 0 THEN 0 ELSE f[age - 1]]

LEMMA OlderIsHistory == ASSUME NEW f \in History PROVE Older(f) \in History
<1>1. \A n \in Ages : n # 0 => n - 1 \in Ages
  BY LimitAssumption DEF LimitAssumption, Ages
<1> QED BY <1>1 DEF Older, History

LEMMA OlderMarks ==
  ASSUME NEW f \in History, NEW A, NEW B, \A n \in B \cap Ages : n = 0 \/ n - 1 \in A
  PROVE  Cardinality(Marks(Older(f), B)) <= Cardinality(Marks(f, A))
<1>1. \A n \in Ages : n # 0 => n - 1 \in Ages
  BY LimitAssumption DEF LimitAssumption, Ages
<1>3. \A n \in Ages : Older(f)[n] = IF n = 0 THEN 0 ELSE f[n - 1]
  BY DEF Older
<1> DEFINE S == Marks(Older(f), B)
           T == Marks(f, A)
           g == [p \in S |-> <<p[1] - 1, p[2]>>]
<1>4. ASSUME NEW p \in S PROVE <<p[1] - 1, p[2]>> \in T
  <2>1. p[1] \in Ages /\ p[2] \in Nat /\ p[1] \in B /\ p[2] < Older(f)[p[1]]
    BY DEF Marks
  <2>2. p[1] # 0
    BY <1>3, <2>1
  <2>3. p[1] - 1 \in Ages /\ p[1] - 1 \in A /\ Older(f)[p[1]] = f[p[1] - 1]
    BY <1>1, <1>3, <2>1, <2>2
  <2> QED BY <2>1, <2>3 DEF Marks
<1>5. g \in [S -> T]
  BY <1>4
<1>6. ASSUME NEW p \in S, NEW r \in S, g[p] = g[r] PROVE p = r
  <2>1. p[1] - 1 = r[1] - 1 /\ p[2] = r[2]
    BY <1>6
  <2>2. p = <<p[1], p[2]>> /\ r = <<r[1], r[2]>> /\ p[1] \in Int /\ r[1] \in Int
    BY DEF Marks, Ages
  <2>3. p[1] = r[1]
    BY <2>1, <2>2
  <2> QED BY <2>1, <2>2, <2>3, Zenon
<1>7. g \in Injection(S, T)
  <2> HIDE DEF g, S, T
  <2> QED BY <1>5, <1>6 DEF Injection, IsInjective
<1>8. Cardinality(S) <= Cardinality(T)
  <2>1. IsFiniteSet(T)
    BY MarksFinite
  <2> HIDE DEF g, S, T
  <2> QED BY <1>7, <2>1, FS_Injection
<1> QED BY <1>8

\* A window is what a record counts and what came before it.
LEMMA MarksSplit ==
  ASSUME NEW f \in History, NEW a \in Nat
  PROVE  Cardinality(Marks(f, Ages))
           = Cardinality(Marks(f, 0..a)) + Cardinality(Marks(f, (a + 1)..(Window - 1)))
<1>1. (0..a) \cap ((a + 1)..(Window - 1)) = {}
  BY LimitAssumption DEF LimitAssumption
<1>2. \A n \in Ages : n \in (0..a) \cup ((a + 1)..(Window - 1))
  BY LimitAssumption DEF LimitAssumption, Ages
<1>3. Marks(f, Ages) = Marks(f, (0..a) \cup ((a + 1)..(Window - 1)))
  BY <1>2 DEF Marks
<1> DEFINE A == 0..a
           B == (a + 1)..(Window - 1)
<1> HIDE DEF A, B
<1>4. IsFiniteSet(Marks(f, A)) /\ IsFiniteSet(Marks(f, B)) /\ A \cap B = {}
  BY <1>1, MarksFinite DEF A, B
<1>5. Cardinality(Marks(f, A \cup B)) = Cardinality(Marks(f, A)) + Cardinality(Marks(f, B))
  BY <1>4, MarksJoin
<1> QED BY <1>3, <1>5 DEF A, B

-----------------------------------------------------------------------------
(* A record has all failures of its window, and before it there were no more *)
(* than the maximum: that many a record counts at most when it goes.         *)

Accounted(rec, f, k) ==
  IF rec = NoRecord
  THEN f[0] = 0 /\ Cardinality(Marks(f, Ages)) <= Maximum(k)
  ELSE /\ Cardinality(Marks(f, 0..rec.age)) <= rec.count
       /\ rec.age = Window => f[0] = 0
       /\ Cardinality(Marks(f, (rec.age + 1)..(Window - 1))) <= Maximum(k)

WindowInv == \A k \in Key : Accounted(records[k], failures[k], k)

LEMMA FirstAge ==
  ASSUME NEW f \in History
  PROVE  /\ 0 \in Ages /\ f[0] \in Nat
         /\ Cardinality(Marks(f, 0..0)) = f[0]
         /\ \A a \in Nat : f[0] <= Cardinality(Marks(f, 0..a))
<1>1. 0 \in Ages /\ f[0] \in Nat
  BY LimitAssumption DEF LimitAssumption, Ages, History
<1>2. 0..0 = {0}
  OBVIOUS
<1>3. Cardinality(Marks(f, 0..0)) = f[0]
  BY <1>1, <1>2, MarksOfAge
<1>4. ASSUME NEW a \in Nat PROVE Cardinality(Marks(f, 0..0)) <= Cardinality(Marks(f, 0..a))
  <2>1. \A n \in (0..0) \cap Ages : n \in 0..a
    BY <1>4
  <2> QED BY <2>1, FewerMarks
<1> QED BY <1>1, <1>3, <1>4

\* A record that goes: its window is over, or it counts no failure.
LEMMA GoneAccounted ==
  ASSUME NEW f \in History, NEW k \in Key, NEW rec \in Record, Bounded(rec, k),
         Accounted(rec, f, k), rec.age = Window \/ rec.count = 0
  PROVE  Accounted(NoRecord, f, k)
<1>1. rec # NoRecord /\ rec.age \in Nat /\ rec.count \in Nat /\ rec.inFlight \in Nat
  BY NullAssumption, LimitAssumption DEF NullAssumption, LimitAssumption, Record
<1>2. /\ Cardinality(Marks(f, 0..rec.age)) <= rec.count
      /\ rec.age = Window => f[0] = 0
      /\ Cardinality(Marks(f, (rec.age + 1)..(Window - 1))) <= Maximum(k)
  BY <1>1 DEF Accounted
<1>3. rec.count <= Maximum(k) /\ Maximum(k) \in Nat
  <2>1. rec.count + rec.inFlight <= Maximum(k)
    BY <1>1 DEF Bounded
  <2> QED BY <1>1, <2>1, MaximumIsPositive
<1>4. f[0] = 0
  <2>1. f[0] \in Nat /\ f[0] <= Cardinality(Marks(f, 0..rec.age))
    BY <1>1, FirstAge
  <2>2. Cardinality(Marks(f, 0..rec.age)) \in Nat
    BY MarksFinite
  <2> QED BY <1>1, <1>2, <2>1, <2>2
<1>5. Cardinality(Marks(f, Ages)) <= Maximum(k)
  <2>1. Cardinality(Marks(f, Ages))
          = Cardinality(Marks(f, 0..rec.age)) + Cardinality(Marks(f, (rec.age + 1)..(Window - 1)))
    BY <1>1, MarksSplit
  <2>2. /\ Cardinality(Marks(f, 0..rec.age)) \in Nat
        /\ Cardinality(Marks(f, (rec.age + 1)..(Window - 1))) \in Nat
    BY MarksFinite
  <2>3. CASE rec.count = 0
    BY <1>1, <1>2, <1>3, <2>1, <2>2, <2>3
  <2>4. CASE rec.age = Window
    <3>1. (rec.age + 1)..(Window - 1) = {}
      BY <2>4, LimitAssumption DEF LimitAssumption
    <3>2. Cardinality(Marks(f, (rec.age + 1)..(Window - 1))) = 0
      BY <3>1, FS_EmptySet DEF Marks
    <3> QED BY <1>1, <1>2, <1>3, <2>1, <2>2, <3>2
  <2> QED BY <2>3, <2>4
<1> QED BY <1>4, <1>5 DEF Accounted

\* A record that begins when nothing has failed at this time.
LEMMA BegunAccounted ==
  ASSUME NEW f \in History, NEW k \in Key, Accounted(NoRecord, f, k),
         NEW rec \in Record, rec.count = 0, rec.age = 0
  PROVE  Accounted(rec, f, k)
<1>1. rec # NoRecord /\ Window # 0
  BY NullAssumption, LimitAssumption DEF NullAssumption, LimitAssumption
<1>2. f[0] = 0 /\ Cardinality(Marks(f, Ages)) <= Maximum(k)
  BY DEF Accounted
<1>3. Cardinality(Marks(f, 0..0)) = 0
  BY <1>2, FirstAge
<1>4. Cardinality(Marks(f, (0 + 1)..(Window - 1))) <= Maximum(k)
  <2>1. Cardinality(Marks(f, (0 + 1)..(Window - 1))) <= Cardinality(Marks(f, Ages))
    BY FewerMarks
  <2> QED BY <1>2, <2>1, MarksFinite, MaximumIsPositive
<1> QED BY <1>1, <1>2, <1>3, <1>4 DEF Accounted

LEMMA RolledAccounted ==
  ASSUME NEW f \in History, NEW k \in Key, NEW rec \in Record, Bounded(rec, k),
         Accounted(rec, f, k), rec.age = Window
  PROVE  Accounted(Rolled(rec), f, k)
<1>1. Accounted(NoRecord, f, k)
  BY GoneAccounted
<1>2. Rolled(rec) \in Record /\ Rolled(rec).count = 0 /\ Rolled(rec).age = 0
  BY LimitAssumption DEF LimitAssumption, Rolled, Record
<1> QED BY <1>1, <1>2, BegunAccounted

LEMMA CurrentAccounted ==
  ASSUME NEW f \in History, NEW k \in Key, NEW rec, Bounded(rec, k), Accounted(rec, f, k)
  PROVE  Accounted(Current(rec), f, k)
<1>1. CASE rec = NoRecord \/ rec.age < Window
  BY <1>1 DEF Current
<1>2. CASE rec # NoRecord /\ ~(rec.age < Window)
  <2>1. rec \in Record /\ rec.age = Window
    BY <1>2, LimitAssumption DEF Bounded, Record, LimitAssumption
  <2>2. Accounted(Rolled(rec), f, k) /\ Accounted(NoRecord, f, k)
    BY <2>1, RolledAccounted, GoneAccounted
  <2>3. Current(rec) = Rolled(rec) \/ Current(rec) = NoRecord
    BY <1>2 DEF Current
  <2> QED BY <2>2, <2>3
<1> QED BY <1>1, <1>2

LEMMA ReservedAccounted ==
  ASSUME NEW f \in History, NEW k \in Key, NEW rec, Bounded(rec, k), Accounted(rec, f, k)
  PROVE  Accounted(Reserved(rec), f, k)
<1>1. CASE rec = NoRecord
  <2>1. Reserved(rec) \in Record /\ Reserved(rec).count = 0 /\ Reserved(rec).age = 0
    BY <1>1, LimitAssumption DEF LimitAssumption, Reserved, Record
  <2> QED BY <1>1, <2>1, BegunAccounted
<1>2. CASE rec # NoRecord
  <2>1. /\ Reserved(rec) \in Record
        /\ Reserved(rec).count = rec.count /\ Reserved(rec).age = rec.age
    BY <1>2 DEF Bounded, Reserved, Record
  <2>2. Reserved(rec) # NoRecord
    BY <2>1, NullAssumption DEF NullAssumption
  <2> QED BY <1>2, <2>1, <2>2, Zenon DEF Accounted
<1> QED BY <1>1, <1>2

\* A failure is counted in the record and in the history alike.
LEMMA SettledAccounted ==
  ASSUME NEW f \in History, NEW k \in Key, NEW rec \in Record, Bounded(rec, k),
         Accounted(rec, f, k), rec.inFlight > 0, NEW failed \in BOOLEAN
  PROVE  Accounted(Settled(rec, failed), IF failed THEN FailedNow(f) ELSE f, k)
<1> DEFINE r == Renewed(rec)
           left == Left(rec, failed)
<1>1. /\ r \in Record /\ r.age < Window /\ r.inFlight = rec.inFlight
      /\ r.count + r.inFlight <= Maximum(k) /\ Accounted(r, f, k)
  <2>0. rec.count + rec.inFlight <= Maximum(k) /\ rec # NoRecord
    BY NullAssumption DEF NullAssumption, Bounded
  <2>1. CASE rec.age >= Window
    <3>1. rec.age = Window
      BY <2>1, LimitAssumption DEF Record, LimitAssumption
    <3>2. r = [count |-> 0, inFlight |-> rec.inFlight, age |-> 0] /\ r = Rolled(rec)
      BY <2>1 DEF Renewed, Rolled
    <3>3. Accounted(r, f, k)
      BY <3>1, <3>2, RolledAccounted
    <3>4. r.count + r.inFlight <= Maximum(k)
      BY <2>0, <3>2, MaximumIsPositive DEF Record
    <3> QED BY <3>2, <3>3, <3>4, LimitAssumption DEF LimitAssumption, Record
  <2>2. CASE ~(rec.age >= Window)
    <3>1. r = rec
      BY <2>2 DEF Renewed
    <3>2. rec.age < Window
      BY <2>2, LimitAssumption DEF Record, LimitAssumption
    <3> QED BY <2>0, <3>1, <3>2
  <2> QED BY <2>1, <2>2
<1> HIDE DEF r
<1>2. left = [count |-> IF failed THEN r.count + 1 ELSE r.count,
              inFlight |-> IF r.inFlight = 0 THEN 0 ELSE r.inFlight - 1, age |-> r.age]
  BY DEF Left, r
<1>3. /\ left \in Record /\ left.age = r.age
      /\ left.count = (IF failed THEN r.count + 1 ELSE r.count)
      /\ left.count + left.inFlight <= Maximum(k)
  BY <1>1, <1>2, MaximumIsPositive DEF Record
<1> HIDE DEF left
<1>4. r # NoRecord /\ left # NoRecord /\ r.age \in Nat /\ r.age # Window /\ r.count \in Nat
  BY <1>1, <1>3, NullAssumption, LimitAssumption DEF NullAssumption, LimitAssumption, Record
<1>5. /\ Cardinality(Marks(f, 0..r.age)) <= r.count
      /\ Cardinality(Marks(f, (r.age + 1)..(Window - 1))) <= Maximum(k)
  BY <1>1, <1>4 DEF Accounted
<1>6. CASE failed
  <2>1. 0 \in 0..r.age /\ 0 \notin (r.age + 1)..(Window - 1)
    BY <1>4
  <2>2. Cardinality(Marks(FailedNow(f), 0..r.age)) = Cardinality(Marks(f, 0..r.age)) + 1
    BY <2>1, OneMoreMark
  <2>3. Marks(FailedNow(f), (r.age + 1)..(Window - 1)) = Marks(f, (r.age + 1)..(Window - 1))
    BY <2>1, OneMoreMark
  <2>4. Cardinality(Marks(f, 0..r.age)) \in Nat
    BY MarksFinite
  <2>5. Cardinality(Marks(FailedNow(f), 0..r.age)) <= left.count
    BY <1>3, <1>4, <1>5, <1>6, <2>2, <2>4
  <2>6. Accounted(left, FailedNow(f), k)
    BY <1>3, <1>4, <1>5, <2>3, <2>5 DEF Accounted
  <2>7. Settled(rec, failed) = left
    <3>1. left.count # 0
      BY <1>3, <1>4, <1>6
    <3> QED BY <3>1, Zenon DEF Settled, left
  <2> QED BY <1>6, <2>6, <2>7
<1>7. CASE ~failed
  <2>1. Accounted(left, f, k)
    BY <1>3, <1>4, <1>5, <1>7 DEF Accounted
  <2>2. CASE left.count = 0 /\ left.inFlight = 0
    <3>1. Settled(rec, failed) = NoRecord
      BY <2>2 DEF Settled, left
    <3>2. Accounted(NoRecord, f, k)
      <4>1. f[0] = 0
        <5>1. f[0] \in Nat /\ f[0] <= Cardinality(Marks(f, 0..r.age))
          BY <1>4, FirstAge
        <5>2. Cardinality(Marks(f, 0..r.age)) = 0
          BY <1>3, <1>5, <1>7, <2>2, MarksFinite
        <5> QED BY <5>1, <5>2
      <4>2. Cardinality(Marks(f, Ages)) <= Maximum(k)
        <5>1. Cardinality(Marks(f, Ages))
                = Cardinality(Marks(f, 0..r.age)) + Cardinality(Marks(f, (r.age + 1)..(Window - 1)))
          BY <1>4, MarksSplit
        <5>2. Cardinality(Marks(f, 0..r.age)) = 0
          BY <1>3, <1>5, <1>7, <2>2, MarksFinite
        <5>3. Cardinality(Marks(f, (r.age + 1)..(Window - 1))) \in Nat
          BY MarksFinite
        <5> QED BY <1>5, <5>1, <5>2, <5>3
      <4> QED BY <4>1, <4>2 DEF Accounted
    <3> QED BY <1>7, <3>1, <3>2
  <2>3. CASE ~(left.count = 0 /\ left.inFlight = 0)
    <3>1. Settled(rec, failed) = left
      BY <2>3 DEF Settled, left
    <3> QED BY <1>7, <2>1, <3>1
  <2> QED BY <2>2, <2>3
<1> QED BY <1>6, <1>7

\* With no failure to account for, any record does.
LEMMA NothingToAccount ==
  ASSUME NEW k \in Key, NEW rec, Bounded(rec, k)
  PROVE  Accounted(rec, NoFailures, k) /\ NoFailures \in History
<1>1. NoFailures[0] = 0 /\ NoFailures \in History
  BY LimitAssumption DEF LimitAssumption, NoFailures, History, Ages
<1>2. \A A : Cardinality(Marks(NoFailures, A)) = 0
  BY NoMarks
<1>3. rec # NoRecord => rec.count \in Nat
  BY DEF Bounded, Record
<1> QED BY <1>1, <1>2, <1>3, MaximumIsPositive DEF Accounted

\* As time passes.
LEMMA OlderAccounted ==
  ASSUME NEW f \in History, NEW k \in Key, NEW rec, Bounded(rec, k), Accounted(rec, f, k)
  PROVE  /\ rec = NoRecord => Accounted(NoRecord, Older(f), k)
         /\ rec # NoRecord =>
              Accounted([rec EXCEPT !.age = IF @ = Window THEN @ ELSE @ + 1], Older(f), k)
<1>0. Older(f)[0] = 0 /\ Maximum(k) \in Nat
  BY FirstAge, MaximumIsPositive DEF Older
<1>1. ASSUME rec = NoRecord PROVE Accounted(NoRecord, Older(f), k)
  <2>1. Cardinality(Marks(Older(f), Ages)) <= Cardinality(Marks(f, Ages))
    <3>1. \A n \in Ages \cap Ages : n = 0 \/ n - 1 \in Ages
      BY LimitAssumption DEF LimitAssumption, Ages
    <3> QED BY <3>1, OlderMarks
  <2>2. Cardinality(Marks(f, Ages)) <= Maximum(k) /\ Cardinality(Marks(f, Ages)) \in Nat
    BY <1>1, MarksFinite DEF Accounted
  <2>3. Cardinality(Marks(Older(f), Ages)) \in Nat
    BY OlderIsHistory, MarksFinite
  <2> QED BY <1>0, <2>1, <2>2, <2>3 DEF Accounted
<1>2. ASSUME rec # NoRecord
      PROVE  Accounted([rec EXCEPT !.age = IF @ = Window THEN @ ELSE @ + 1], Older(f), k)
  <2> DEFINE next == [rec EXCEPT !.age = IF @ = Window THEN @ ELSE @ + 1]
  <2>1. rec \in Record
    BY <1>2 DEF Bounded
  <2>2. /\ next \in Record /\ next.count = rec.count
        /\ next.age = IF rec.age = Window THEN rec.age ELSE rec.age + 1
    BY <2>1, LimitAssumption DEF LimitAssumption, Record
  <2> HIDE DEF next
  <2>3. next # NoRecord /\ rec.age \in Nat /\ next.age \in Nat /\ rec.count \in Nat
    BY <2>1, <2>2, NullAssumption, LimitAssumption DEF NullAssumption, LimitAssumption, Record
  <2>4. /\ Cardinality(Marks(f, 0..rec.age)) <= rec.count
        /\ Cardinality(Marks(f, (rec.age + 1)..(Window - 1))) <= Maximum(k)
    BY <1>2 DEF Accounted
  <2>5. Cardinality(Marks(Older(f), 0..next.age)) <= Cardinality(Marks(f, 0..rec.age))
    <3>1. \A n \in (0..next.age) \cap Ages : n = 0 \/ n - 1 \in 0..rec.age
      BY <2>2, <2>3, LimitAssumption DEF LimitAssumption, Ages
    <3> QED BY <3>1, OlderMarks
  <2>6. Cardinality(Marks(Older(f), (next.age + 1)..(Window - 1)))
          <= Cardinality(Marks(f, (rec.age + 1)..(Window - 1)))
    <3>1. \A n \in ((next.age + 1)..(Window - 1)) \cap Ages :
            n = 0 \/ n - 1 \in (rec.age + 1)..(Window - 1)
      BY <2>2, <2>3, LimitAssumption DEF LimitAssumption, Ages
    <3> QED BY <3>1, OlderMarks
  <2>7. /\ Cardinality(Marks(f, 0..rec.age)) \in Nat
        /\ Cardinality(Marks(f, (rec.age + 1)..(Window - 1))) \in Nat
        /\ Cardinality(Marks(Older(f), 0..next.age)) \in Nat
        /\ Cardinality(Marks(Older(f), (next.age + 1)..(Window - 1))) \in Nat
    <3>1. Older(f) \in History
      BY OlderIsHistory
    <3> QED BY <3>1, MarksFinite
  <2>8. Accounted(next, Older(f), k)
    BY <1>0, <2>2, <2>3, <2>4, <2>5, <2>6, <2>7 DEF Accounted
  <2> QED BY <2>8 DEF next
<1> QED BY <1>1, <1>2

-----------------------------------------------------------------------------
(* Eviction forgets failures.  It does not happen as long as each map has     *)
(* room for the keys it tracks and one more.                                 *)

Tracked(table, M) == {k \in M : table[k] # NoRecord}

RoomLeft ==
  \A M \in {Ip, Account} :
    /\ IsFiniteSet(Tracked(records, M))
    /\ \A k \in M : Cardinality(Tracked(records, M) \cup {k}) <= MaxTrackedKeys

LEMMA MinWithZero == ASSUME NEW n \in Nat PROVE Min({n, 0}) = 0
  BY DEF Min

LEMMA NothingTrimmed ==
  ASSUME NEW table, NEW K, NEW kept \in Trimmed(table, K),
         \A M \in {Ip, Account} :
           /\ IsFiniteSet(Tracked(table, M))
           /\ K \cap M = {} \/ Cardinality(Tracked(table, M)) <= MaxTrackedKeys
  PROVE  \A k \in Key : kept[k] = table[k]
<1> DEFINE Enough(S, M) ==
             Cardinality(S \cap M) =
               IF K \cap M = {} THEN 0
               ELSE Min({Cardinality(Idle(table) \cap M), Excess(table, M)})
<1>1. PICK gone \in SUBSET Idle(table) :
        /\ Enough(gone, Ip) /\ Enough(gone, Account)
        /\ kept = [k \in Key |-> IF k \in gone THEN NoRecord ELSE table[k]]
  BY Zenon DEF Trimmed
<1>2. ASSUME NEW M \in {Ip, Account} PROVE gone \cap M = {}
  <2>1. Idle(table) \cap M \subseteq Tracked(table, M)
    BY DEF Idle, Tracked
  <2>2. IsFiniteSet(Idle(table) \cap M) /\ IsFiniteSet(gone \cap M)
    <3>1. gone \cap M \subseteq Tracked(table, M)
      BY <2>1
    <3> QED BY <2>1, <3>1, FS_Subset
  <2>3. Enough(gone, M)
    BY <1>1
  <2>4. Cardinality(gone \cap M) = 0
    <3>1. CASE K \cap M = {}
      BY <2>3, <3>1
    <3>2. CASE K \cap M # {}
      <4>1. Cardinality(Tracked(table, M)) <= MaxTrackedKeys /\ Cardinality(Tracked(table, M)) \in Nat
        BY <3>2, FS_CardinalityType
      <4>2. Excess(table, M) = 0
        <5>1. Excess(table, M) = IF Cardinality(Tracked(table, M)) > MaxTrackedKeys
                                 THEN Cardinality(Tracked(table, M)) - MaxTrackedKeys ELSE 0
          BY DEF Excess, Tracked
        <5> HIDE DEF Tracked
        <5> QED BY <4>1, <5>1, LimitAssumption DEF LimitAssumption
      <4>3. Min({Cardinality(Idle(table) \cap M), Excess(table, M)}) = 0
        BY <2>2, <4>2, FS_CardinalityType, MinWithZero
      <4> QED BY <2>3, <3>2, <4>3
    <3> QED BY <3>1, <3>2
  <2> QED BY <2>2, <2>4, FS_EmptySet
<1>3. gone = {}
  BY <1>2 DEF Idle, Key
<1> QED BY <1>1, <1>3

-----------------------------------------------------------------------------
(* The actions.                                                             *)

LEMMA SweptAccounted ==
  ASSUME LimiterInv, WindowInv, NEW k \in Key
  PROVE  Bounded(Swept[k], k) /\ Accounted(Swept[k], failures[k], k) /\ failures[k] \in History
<1>1. failures[k] \in History /\ Bounded(records[k], k) /\ Accounted(records[k], failures[k], k)
  BY DEF LimiterInv, FailuresOK, GoodTable, WindowInv, History, Ages
<1>2. Swept[k] = Current(records[k])
  BY DEF Swept
<1> QED BY <1>1, <1>2, CurrentAccounted, CurrentBounded

LEMMA ReserveAccounts ==
  ASSUME LimiterInv, WindowInv, RoomLeft, NEW q \in Request, NEW i \in Ip, NEW a \in Account,
         Reserve(q, i, a)
  PROVE  WindowInv'
<1> DEFINE added == [k \in Key |-> IF k \in {i, a} THEN Reserved(Swept[k]) ELSE Swept[k]]
<1>1. failures' = failures
  BY DEF Reserve
<1>2. PICK kept \in Trimmed(added, {i, a}) : records' = kept
  BY Zenon DEF Reserve
<1>3. \A k \in Key : added[k] = IF k \in {i, a} THEN Reserved(Swept[k]) ELSE Swept[k]
  OBVIOUS
<1>4. i \in Key /\ a \in Key /\ i \notin Account /\ a \notin Ip
  BY KeyAssumption DEF Key, KeyAssumption
<1>5. \A k \in Key : Swept[k] # NoRecord => records[k] # NoRecord
  BY DEF Swept, Current
<1> HIDE DEF added
<1>6. ASSUME NEW M \in {Ip, Account}
      PROVE  IsFiniteSet(Tracked(added, M)) /\ Cardinality(Tracked(added, M)) <= MaxTrackedKeys
  <2>1. PICK k \in M : {i, a} \cap M = {k}
    BY <1>4, <1>6
  <2>2. M \subseteq Key
    BY <1>6 DEF Key
  <2>3. Tracked(added, M) \subseteq Tracked(records, M) \cup {k}
    BY <1>3, <1>5, <2>1, <2>2 DEF Tracked
  <2>4. /\ IsFiniteSet(Tracked(records, M) \cup {k})
        /\ Cardinality(Tracked(records, M) \cup {k}) <= MaxTrackedKeys
    BY <1>6, <2>1, FS_AddElement DEF RoomLeft
  <2>5. /\ IsFiniteSet(Tracked(added, M))
        /\ Cardinality(Tracked(added, M)) <= Cardinality(Tracked(records, M) \cup {k})
    BY <2>3, <2>4, FS_Subset
  <2>6. Cardinality(Tracked(added, M)) \in Nat /\ Cardinality(Tracked(records, M) \cup {k}) \in Nat
    BY <2>4, <2>5, FS_CardinalityType
  <2> QED BY <2>4, <2>5, <2>6, LimitAssumption DEF LimitAssumption
<1>7. \A k \in Key : records'[k] = added[k]
  BY <1>2, <1>6, NothingTrimmed
<1>8. ASSUME NEW k \in Key PROVE Accounted(records'[k], failures'[k], k)
  <2>1. Bounded(Swept[k], k) /\ Accounted(Swept[k], failures[k], k) /\ failures[k] \in History
    BY SweptAccounted
  <2>2. Accounted(Reserved(Swept[k]), failures[k], k)
    BY <2>1, ReservedAccounted
  <2> QED BY <1>1, <1>3, <1>7, <2>1, <2>2
<1> QED BY <1>8 DEF WindowInv

\* What the end of an attempt does to the records of its keys and to all the others.
LEMMA CompletedAccounted ==
  ASSUME LimiterInv, WindowInv, NEW q \in Request, attempts[q] # NoAttempt,
         NEW failed \in BOOLEAN, NEW k \in Key
  PROVE  /\ Completed(q, failed)[k] = IF k \in Keys(q) THEN Settled(records[k], failed) ELSE records[k]
         /\ k \in Keys(q) => records[k] # NoRecord
         /\ failures[k] \in History
         /\ Accounted(Completed(q, failed)[k],
                      IF failed /\ k \in Keys(q) THEN FailedNow(failures[k]) ELSE failures[k], k)
<1>1. failures[k] \in History /\ Bounded(records[k], k) /\ Accounted(records[k], failures[k], k)
  BY DEF LimiterInv, FailuresOK, GoodTable, WindowInv, History, Ages
<1>2. Completed(q, failed)[k] = IF k \in Keys(q) THEN Settled(records[k], failed) ELSE records[k]
  BY DEF LimiterInv, Completed, Stale
<1>3. CASE k \in Keys(q)
  <2>1. q \in Pending(k)
    BY <1>3 DEF Pending
  <2>2. Cardinality(Pending(k)) # 0
    BY <2>1, PendingFinite, FS_EmptySet
  <2>3. records[k] # NoRecord /\ records[k].inFlight # 0
    BY <2>2 DEF LimiterInv, Exact, Places
  <2>4. records[k] \in Record /\ records[k].inFlight > 0
    BY <1>1, <2>3 DEF Bounded, Record
  <2> QED BY <1>1, <1>2, <1>3, <2>3, <2>4, SettledAccounted
<1>4. CASE k \notin Keys(q)
  BY <1>1, <1>2, <1>4
<1> QED BY <1>3, <1>4

LEMMA FailAccounts ==
  ASSUME LimiterInv, WindowInv, RoomLeft, NEW q \in Request, Fail(q)
  PROVE  WindowInv'
<1> DEFINE done == Completed(q, TRUE)
<1>1. /\ attempts[q] # NoAttempt
      /\ failures' = [k \in Key |-> IF k \in Keys(q) THEN [failures[k] EXCEPT ![0] = @ + 1]
                                    ELSE failures[k]]
  BY DEF Fail
<1>2. PICK kept \in Trimmed(done, Stale(q)) : records' = kept
  BY Zenon DEF Fail, End
<1> HIDE DEF done
<1>3. Stale(q) = {}
  BY DEF LimiterInv, Stale
<1>4. ASSUME NEW M \in {Ip, Account} PROVE IsFiniteSet(Tracked(done, M))
  <2>1. \A k \in Key : done[k] # NoRecord => records[k] # NoRecord
    BY <1>1, CompletedAccounted DEF done
  <2>2. Tracked(done, M) \subseteq Tracked(records, M)
    BY <1>4, <2>1 DEF Tracked, Key
  <2> QED BY <1>4, <2>2, FS_Subset DEF RoomLeft
<1>5. \A k \in Key : records'[k] = done[k]
  BY <1>2, <1>3, <1>4, NothingTrimmed
<1>6. ASSUME NEW k \in Key PROVE Accounted(records'[k], failures'[k], k)
  <2>1. Accounted(done[k], IF k \in Keys(q) THEN FailedNow(failures[k]) ELSE failures[k], k)
    BY <1>1, CompletedAccounted DEF done
  <2>2. failures'[k] = IF k \in Keys(q) THEN FailedNow(failures[k]) ELSE failures[k]
    BY <1>1 DEF FailedNow
  <2> QED BY <1>5, <2>1, <2>2
<1> QED BY <1>6 DEF WindowInv

LEMMA ReleaseAccounts ==
  ASSUME LimiterInv, WindowInv, NEW q \in Request, Release(q)
  PROVE  WindowInv'
<1>1. attempts[q] # NoAttempt /\ records' = Completed(q, FALSE) /\ failures' = failures
  BY DEF Release, End
<1>2. \A k \in Key : Accounted(Completed(q, FALSE)[k], failures[k], k)
  BY <1>1, CompletedAccounted
<1> QED BY <1>1, <1>2 DEF WindowInv

LEMMA SucceedAccounts ==
  ASSUME LimiterInv, WindowInv, NEW q \in Request, Succeed(q)
  PROVE  WindowInv'
<1> DEFINE a == attempts[q].account
           done == Completed(q, FALSE)
<1>1. /\ attempts[q] # NoAttempt /\ records' = [done EXCEPT ![a] = Cleared(@)]
      /\ failures' = [failures EXCEPT ![a] = NoFailures]
  BY DEF Succeed, End
<1>2. GoodTable(done) /\ \A k \in Key : Accounted(done[k], failures[k], k)
  BY <1>1, CompletedGood, CompletedAccounted
<1>3. a \in Key
  BY <1>1, KeysOfAttempt DEF LimiterInv, Key
<1> HIDE DEF a, done
<1>4. /\ \A k \in Key : records'[k] = IF k = a THEN Cleared(done[a]) ELSE done[k]
      /\ \A k \in Key : failures'[k] = IF k = a THEN NoFailures ELSE failures[k]
  BY <1>1, <1>2, <1>3 DEF GoodTable, LimiterInv, FailuresOK
<1>5. Accounted(Cleared(done[a]), NoFailures, a)
  <2>1. Bounded(Cleared(done[a]), a)
    BY <1>2, <1>3, ClearedBounded DEF GoodTable
  <2> QED BY <1>3, <2>1, NothingToAccount
<1> QED BY <1>2, <1>4, <1>5 DEF WindowInv

LEMMA ForgetAccounts ==
  ASSUME LimiterInv, WindowInv, NEW a \in Account, Forget(a)
  PROVE  WindowInv'
<1>1. /\ records' = [records EXCEPT ![a] = Cleared(@)]
      /\ failures' = [failures EXCEPT ![a] = NoFailures]
  BY DEF Forget
<1>2. a \in Key
  BY DEF Key
<1>3. /\ \A k \in Key : records'[k] = IF k = a THEN Cleared(records[a]) ELSE records[k]
      /\ \A k \in Key : failures'[k] = IF k = a THEN NoFailures ELSE failures[k]
  BY <1>1, <1>2 DEF GoodTable, LimiterInv, FailuresOK
<1>4. Accounted(Cleared(records[a]), NoFailures, a)
  <2>1. Bounded(Cleared(records[a]), a)
    BY <1>2, ClearedBounded DEF LimiterInv, GoodTable
  <2> QED BY <1>2, <2>1, NothingToAccount
<1> QED BY <1>3, <1>4 DEF WindowInv

LEMMA TickAccounts == ASSUME LimiterInv, WindowInv, Tick PROVE WindowInv'
<1>1. ASSUME NEW k \in Key PROVE Accounted(records'[k], failures'[k], k)
  <2>1. failures[k] \in History /\ Bounded(records[k], k) /\ Accounted(records[k], failures[k], k)
    BY DEF LimiterInv, FailuresOK, GoodTable, WindowInv, History, Ages
  <2>2. /\ records'[k] = IF records[k] = NoRecord THEN NoRecord
                         ELSE [records[k] EXCEPT !.age = IF @ = Window THEN @ ELSE @ + 1]
        /\ failures'[k] = Older(failures[k])
    BY DEF Tick, Older, Ages
  <2> QED BY <2>1, <2>2, OlderAccounted
<1> QED BY <1>1 DEF WindowInv

LEMMA EmptyAccounts ==
  ASSUME records = [k \in Key |-> NoRecord], failures = [k \in Key |-> NoFailures]
  PROVE  WindowInv
  BY NothingToAccount DEF WindowInv, Bounded

LEMMA NextAccounts ==
  ASSUME LimiterInv, WindowInv, RoomLeft, [Next]_vars
  PROVE  WindowInv'
<1>1. ASSUME NEW i \in Ip, NEW a \in Account, NEW q \in Request, Reserve(q, i, a) PROVE WindowInv'
  BY <1>1, ReserveAccounts
<1>2. ASSUME NEW i \in Ip, NEW a \in Account, Check(i, a) PROVE WindowInv'
  <2>1. records' = Swept /\ failures' = failures
    BY <1>2 DEF Check
  <2> QED BY <2>1, SweptAccounted DEF WindowInv
<1>3. ASSUME NEW q \in Request, Finish(q) PROVE WindowInv'
  BY <1>3, FailAccounts, ReleaseAccounts, SucceedAccounts DEF Finish
<1>4. ASSUME NEW a \in Account, Forget(a) PROVE WindowInv'
  BY <1>4, ForgetAccounts
<1>5. CASE Tick
  BY <1>5, TickAccounts
<1>6. CASE Restart
  BY <1>6, NothingToAccount DEF Restart, WindowInv, Bounded
<1>7. CASE UNCHANGED vars
  BY <1>7 DEF vars, WindowInv
<1> QED BY <1>1, <1>2, <1>3, <1>4, <1>5, <1>6, <1>7 DEF Next

\* The windows of a record are fixed, those of a client slide: with whatever expiry, failures and
\* successes between them, no window of any key holds more failures since its last success than
\* twice its maximum, as long as no record has to be evicted (login-rate-limit.js:44-60, 84-148).
THEOREM WindowsHoldFew == Spec /\ []RoomLeft => []FailuresInAnyWindow
<1>1. Init => WindowInv
  BY EmptyAccounts DEF Init
<1>2. LimiterInv /\ WindowInv /\ RoomLeft /\ [Next]_vars => WindowInv'
  BY NextAccounts
<1>3. LimiterInv /\ WindowInv => FailuresInAnyWindow
  <2> SUFFICES ASSUME LimiterInv, WindowInv, NEW k \in Key
               PROVE  MapThenSumSet(LAMBDA age : failures[k][age], 0..(Window - 1)) <= 2 * Maximum(k)
    BY DEF FailuresInAnyWindow
  <2> DEFINE f == failures[k]
  <2>1. f \in History /\ Bounded(records[k], k) /\ Accounted(records[k], f, k)
    BY DEF LimiterInv, FailuresOK, GoodTable, WindowInv, History, Ages
  <2>2. Maximum(k) \in Nat
    BY MaximumIsPositive
  <2>3. Cardinality(Marks(f, Ages)) <= 2 * Maximum(k)
    <3> HIDE DEF f
    <3>1. CASE records[k] = NoRecord
      BY <2>1, <2>2, <3>1, MarksFinite DEF Accounted
    <3>2. CASE records[k] # NoRecord
      <4> DEFINE a == records[k].age
                 m == Cardinality(Marks(f, 0..a))
                 n == Cardinality(Marks(f, (a + 1)..(Window - 1)))
      <4>1. a \in Nat /\ records[k].count \in Nat /\ records[k].count <= Maximum(k)
        BY <2>1, <2>2, <3>2, LimitAssumption DEF LimitAssumption, Bounded, Record
      <4>2. m <= records[k].count /\ n <= Maximum(k)
        BY <2>1, <3>2 DEF Accounted
      <4>3. m \in Nat /\ n \in Nat
        BY <2>1, MarksFinite
      <4>4. Cardinality(Marks(f, Ages)) = m + n
        BY <2>1, <4>1, MarksSplit
      <4> HIDE DEF a, m, n
      <4> QED BY <2>2, <4>1, <4>2, <4>3, <4>4
    <3> QED BY <3>1, <3>2
  <2>4. MapThenSumSet(LAMBDA age : failures[k][age], Ages) = Cardinality(Marks(f, Ages))
    BY <2>1, SumCountsMarks
  <2> QED BY <2>3, <2>4 DEF Ages
<1> QED BY <1>1, <1>2, <1>3, LimiterInvariance, PTL DEF Spec

\* Where the maps have room for every address and every account, none is ever evicted.
THEOREM WindowsHoldFewWithRoom ==
  ASSUME IsFiniteSet(Ip), Cardinality(Ip) <= MaxTrackedKeys,
         IsFiniteSet(Account), Cardinality(Account) <= MaxTrackedKeys
  PROVE  Spec => []FailuresInAnyWindow
<1>1. RoomLeft
  <2>1. ASSUME NEW M \in {Ip, Account}
        PROVE  /\ IsFiniteSet(Tracked(records, M))
               /\ \A k \in M : Cardinality(Tracked(records, M) \cup {k}) <= MaxTrackedKeys
    <3>1. IsFiniteSet(M) /\ Cardinality(M) <= MaxTrackedKeys /\ Cardinality(M) \in Nat
      BY <2>1, FS_CardinalityType
    <3>2. ASSUME NEW T \in SUBSET M PROVE IsFiniteSet(T) /\ Cardinality(T) <= MaxTrackedKeys
      <4>1. IsFiniteSet(T) /\ Cardinality(T) <= Cardinality(M) /\ Cardinality(T) \in Nat
        BY <3>1, FS_Subset, FS_CardinalityType
      <4> QED BY <3>1, <4>1, LimitAssumption DEF LimitAssumption
    <3>3. Tracked(records, M) \in SUBSET M /\ \A k \in M : Tracked(records, M) \cup {k} \in SUBSET M
      BY DEF Tracked
    <3> QED BY <3>2, <3>3
  <2> QED BY <2>1 DEF RoomLeft
<1> QED BY <1>1, WindowsHoldFew, PTL

-----------------------------------------------------------------------------
(* The account: what each statement does to the type of the row and to the  *)
(* rule that recovery keys stand in for a method.                           *)

CodesNeedMethod(a) == a.codes # {} => Enabled(a)

LEMMA NewAccountType == NewAccount \in AccountRow /\ CodesNeedMethod(NewAccount)
BY FactorAssumption DEF FactorAssumption, NewAccount, AccountRow, CodesNeedMethod

LEMMA BatchType ==
  ASSUME NEW a, NEW used, NEW B \in Batches(a, used)
  PROVE  B \subseteq Code /\ B \cap (a.codes \cup used) = {}
BY DEF Batches

LEMMA WithStepType ==
  ASSUME NEW a \in AccountRow, NEW n \in Nat
  PROVE  /\ WithStep(a, n) \in AccountRow
         /\ WithStep(a, n).secret = a.secret /\ WithStep(a, n).last = n
         /\ WithStep(a, n).codes = a.codes /\ WithStep(a, n).keys = a.keys
BY DEF WithStep, AccountRow

LEMMA WithTotpType ==
  ASSUME NEW a \in AccountRow, NEW secret \in Secret, NEW n \in Nat
  PROVE  /\ WithTotp(a, secret, n) \in AccountRow
         /\ HasTotp(WithTotp(a, secret, n)) /\ WithTotp(a, secret, n).last = n
         /\ WithTotp(a, secret, n).codes = a.codes /\ WithTotp(a, secret, n).keys = a.keys
BY FactorAssumption DEF FactorAssumption, WithTotp, AccountRow, HasTotp

LEMMA WithKeyType ==
  ASSUME NEW a \in AccountRow, NEW k \in Passkey, NEW counter \in Nat \cup {NoKey}
  PROVE  LET b == WithKey(a, k, counter) IN
         /\ b \in AccountRow
         /\ b.secret = a.secret /\ b.last = a.last /\ b.codes = a.codes
         /\ b.keys[k] = counter
         /\ \A j \in Passkey \ {k} : b.keys[j] = a.keys[j]
BY DEF WithKey, AccountRow

LEMMA WithoutCodeType ==
  ASSUME NEW a \in AccountRow, NEW c
  PROVE  LET b == WithoutCode(a, c) IN
         /\ b \in AccountRow
         /\ b.secret = a.secret /\ b.last = a.last /\ b.keys = a.keys
         /\ b.codes = a.codes \ {c}
BY DEF WithoutCode, AccountRow

LEMMA WithCodesType ==
  ASSUME NEW a \in AccountRow, NEW B \in SUBSET Code
  PROVE  LET b == WithCodes(a, B) IN
         /\ b \in AccountRow
         /\ b.secret = a.secret /\ b.last = a.last /\ b.keys = a.keys
         /\ b.codes = a.codes \cup B
BY DEF WithCodes, AccountRow

LEMMA WithReplacedType ==
  ASSUME NEW a \in AccountRow, NEW B \in SUBSET Code
  PROVE  LET b == WithReplaced(a, B) IN
         /\ b \in AccountRow
         /\ b.secret = a.secret /\ b.last = a.last /\ b.keys = a.keys
         /\ b.codes = B
BY DEF WithReplaced, AccountRow

\* Removing a method keeps the type, adds no code and leaves none without a method.
LEMMA DropUselessType ==
  ASSUME NEW a \in AccountRow
  PROVE  LET b == DropUselessCodes(a) IN
         /\ b \in AccountRow /\ CodesNeedMethod(b)
         /\ b.secret = a.secret /\ b.last = a.last /\ b.keys = a.keys
         /\ b.codes \subseteq a.codes
BY DEF DropUselessCodes, AccountRow, CodesNeedMethod

LEMMA WithoutTotpType ==
  ASSUME NEW a \in AccountRow
  PROVE  LET b == WithoutTotp(a) IN
         /\ b \in AccountRow /\ CodesNeedMethod(b) /\ ~HasTotp(b)
         /\ b.keys = a.keys /\ b.codes \subseteq a.codes
<1> DEFINE d == [a EXCEPT !.secret = NoSecret, !.last = 0]
<1>1. d \in AccountRow /\ d.secret = NoSecret /\ d.keys = a.keys /\ d.codes = a.codes
  BY DEF AccountRow
<1> HIDE DEF d
<1>2. WithoutTotp(a) = DropUselessCodes(d)
  BY DEF WithoutTotp, d
<1> QED
  BY <1>1, <1>2, DropUselessType DEF HasTotp

LEMMA WithoutKeyType ==
  ASSUME NEW a \in AccountRow, NEW k \in Passkey
  PROVE  LET b == WithoutKey(a, k) IN
         /\ b \in AccountRow /\ CodesNeedMethod(b)
         /\ b.secret = a.secret /\ b.last = a.last /\ b.codes \subseteq a.codes
         /\ b.keys[k] = NoKey
         /\ \A j \in Passkey \ {k} : b.keys[j] = a.keys[j]
<1> DEFINE d == WithKey(a, k, NoKey)
<1>1. /\ d \in AccountRow /\ d.secret = a.secret /\ d.last = a.last /\ d.codes = a.codes
      /\ d.keys[k] = NoKey /\ \A j \in Passkey \ {k} : d.keys[j] = a.keys[j]
  BY DEF WithKey, AccountRow
<1> HIDE DEF d
<1>2. WithoutKey(a, k) = DropUselessCodes(d)
  BY DEF WithoutKey, d
<1> QED
  BY <1>1, <1>2, DropUselessType

\* Methods decide whether a second factor is asked for: nothing else does.
LEMMA EnabledDepends ==
  ASSUME NEW a, NEW b, a.secret = b.secret, a.keys = b.keys
  PROVE  Enabled(a) <=> Enabled(b)
BY DEF Enabled, HasTotp, HasKey

-----------------------------------------------------------------------------
(* Sign-in.                                                                  *)

\* A step that was spent under the present enrolment is not above the last one.
StepsBehind ==
  \A e, n \in Nat : <<"step", e, n>> \in spent =>
    /\ e <= epoch
    /\ e = epoch /\ HasTotp(account) => n <= account.last

CodesUnspent == \A c \in account.codes : CodeToken(c) \notin spent

Answering(f) == flights[f].at = "passkey"

\* A challenge is in one place: one row, or one request that answers it.
ChallengesApart ==
  /\ \A r1, r2 \in challenges : r1.id = r2.id => r1 = r2
  /\ \A f \in Flight : Answering(f) =>
       /\ flights[f].challenge \in Challenge \ Ids(challenges)
       /\ ChallengeToken(flights[f].challenge) \notin spent
       /\ flights[f].key \in Passkey
  /\ \A f, g \in Flight : Answering(f) /\ Answering(g) /\ f # g =>
       flights[f].challenge # flights[g].challenge
  /\ \A id \in Ids(challenges) : ChallengeToken(id) \notin spent

LoginInv ==
  /\ LoginTypeOK
  /\ CodesNeedMethod(account)
  /\ StepsBehind
  /\ CodesUnspent
  /\ ChallengesApart

LEMMA FirstCodesType ==
  ASSUME NEW a \in AccountRow, NEW b \in FirstCodes(a)
  PROVE  /\ b \in AccountRow
         /\ b.secret = a.secret /\ b.last = a.last /\ b.keys = a.keys
         /\ \A c \in b.codes : c \in a.codes \/ CodeToken(c) \notin spent
<1>1. CASE a.codes = {}
  <2>1. PICK B \in Batches(a, UsedCodes) : b = WithCodes(a, B)
    BY <1>1 DEF FirstCodes
  <2>2. B \in SUBSET Code /\ B \cap UsedCodes = {}
    BY <2>1, BatchType
  <2>3. /\ b \in AccountRow /\ b.codes = a.codes \cup B
        /\ b.secret = a.secret /\ b.last = a.last /\ b.keys = a.keys
    BY <2>1, <2>2, WithCodesType
  <2> QED
    BY <2>2, <2>3 DEF UsedCodes
<1>2. CASE a.codes # {}
  BY <1>2 DEF FirstCodes
<1> QED BY <1>1, <1>2

\* A step of the account that opens no spent token.
AccountStep ==
  /\ account' \in AccountRow /\ CodesNeedMethod(account')
  /\ epoch' = epoch \/ epoch' = epoch + 1
  /\ epoch' = epoch /\ HasTotp(account') => HasTotp(account) /\ account'.last = account.last
  /\ \A c \in account'.codes : c \in account.codes \/ CodeToken(c) \notin spent

\* What a step leaves to show when it spends no token.
LEMMA NothingSpent ==
  ASSUME LoginInv, UNCHANGED spent, LoginTypeOK', AccountStep, ChallengesApart'
  PROVE  LoginInv'
<1>1. epoch \in Nat /\ epoch' \in Nat
  BY DEF LoginInv, LoginTypeOK
<1>2. StepsBehind'
  BY <1>1 DEF LoginInv, StepsBehind, HasTotp, AccountStep
<1>3. CodesUnspent'
  BY DEF LoginInv, CodesUnspent, CodeToken, AccountStep
<1> QED
  BY <1>2, <1>3 DEF LoginInv, CodesNeedMethod, Enabled, HasTotp, HasKey, AccountStep

LEMMA SameAccount ==
  ASSUME LoginInv, UNCHANGED <<account, epoch>>
  PROVE  AccountStep
BY DEF LoginInv, LoginTypeOK, AccountStep, CodesNeedMethod

LEMMA LoginInitInv == LoginInit => LoginInv
<1> SUFFICES ASSUME LoginInit PROVE LoginInv
  OBVIOUS
<1>1. LoginTypeOK
  BY NewAccountType, LoginAssumption
  DEF LoginInit, LoginTypeOK, LoginAssumption, PendingLogin, Unused, NoFlight
<1>2. CodesNeedMethod(account) /\ StepsBehind /\ CodesUnspent
  BY NewAccountType DEF LoginInit, StepsBehind, CodesUnspent
<1>3. ChallengesApart
  BY DEF LoginInit, ChallengesApart, Answering, NoFlight, Ids
<1> QED BY <1>1, <1>2, <1>3 DEF LoginInv

\* Challenges and answers stay apart when no row is added and no request begins to
\* answer one.
LEMMA StayApart ==
  ASSUME LoginInv, challenges' \subseteq challenges,
         \A f \in Flight : Answering(f)' =>
           Answering(f) /\ flights'[f] = flights[f],
         \A t \in spent' : t \in spent \/ \A id : t # ChallengeToken(id)
  PROVE  ChallengesApart'
<1>1. ChallengesApart
  BY DEF LoginInv
<1>2. Ids(challenges') \subseteq Ids(challenges)
  BY DEF Ids
<1>3. \A id : ChallengeToken(id) \in spent' => ChallengeToken(id) \in spent
  OBVIOUS
<1>4. \A r1, r2 \in challenges' : r1.id = r2.id => r1 = r2
  BY <1>1 DEF ChallengesApart
<1>5. \A f \in Flight : Answering(f)' =>
        /\ flights'[f].challenge \in Challenge \ Ids(challenges')
        /\ ChallengeToken(flights'[f].challenge) \notin spent'
        /\ flights'[f].key \in Passkey
  BY <1>1, <1>2, <1>3 DEF ChallengesApart
<1>6. \A f, g \in Flight : Answering(f)' /\ Answering(g)' /\ f # g =>
        flights'[f].challenge # flights'[g].challenge
  BY <1>1 DEF ChallengesApart
<1>7. \A id \in Ids(challenges') : ChallengeToken(id) \notin spent'
  BY <1>1, <1>2, <1>3 DEF ChallengesApart
<1> QED
  BY <1>4, <1>5, <1>6, <1>7 DEF ChallengesApart, ChallengeToken, Ids

\* A request that lands answers nothing any more, the others go on.
LEMMA LandFacts ==
  ASSUME LoginInv, NEW f \in Flight, Land(f)
  PROVE  /\ DOMAIN flights' = Flight
         /\ flights'[f].at = "idle" /\ ~Answering(f)'
         /\ \A g \in Flight \ {f} : flights'[g] = flights[g]
         /\ \A g \in Flight : Answering(g)' => Answering(g) /\ flights'[g] = flights[g]
         /\ \A g \in Flight : flights'[g].at = "idle" \/ flights'[g] \in InFlight
BY DEF LoginInv, LoginTypeOK, Land, NoFlight, Answering

LEMMA LaunchFacts ==
  ASSUME LoginInv, NEW f \in Flight, NEW at \in {"totp", "options", "passkey"},
         NEW s \in Sid, NEW copy \in PendingLogin, NEW secret \in Secret \cup {NoSecret},
         NEW key \in Passkey \cup {NoKey}, NEW counter \in Nat,
         NEW challenge \in Challenge \cup {NoChallenge},
         Launch(f, at, s, copy, secret, key, counter, challenge)
  PROVE  /\ DOMAIN flights' = Flight
         /\ flights[f].at = "idle"
         /\ flights'[f].at = at /\ flights'[f].challenge = challenge
         /\ flights'[f].key = key
         /\ \A g \in Flight \ {f} : flights'[g] = flights[g]
         /\ \A g \in Flight : flights'[g].at = "idle" \/ flights'[g] \in InFlight
BY DEF LoginInv, LoginTypeOK, Launch, InFlight

LEMMA SaveType ==
  ASSUME pending \in [Sid -> PendingLogin], NEW s \in Sid, NEW copy \in PendingLogin,
         Save(s, copy)
  PROVE  pending' \in [Sid -> PendingLogin]
BY DEF Save

LEMMA GoneType == Gone \in PendingLogin /\ Unused \in PendingLogin
BY DEF Gone, Unused, PendingLogin

LEMMA PendingTypes ==
  ASSUME NEW p \in PendingLogin, NEW n \in Nat, NEW id \in Challenge \cup {NoChallenge}
  PROVE  /\ [p EXCEPT !.state = "waiting", !.at = n] \in PendingLogin
         /\ [p EXCEPT !.challenge = id, !.issued = n] \in PendingLogin
BY DEF PendingLogin

\* Steps that touch neither the account nor the challenges.
LEMMA WaitingSteps ==
  ASSUME LoginInv,
         \/ LoginTick
         \/ \E s \in Sid : StartSignIn(s) \/ DropPending(s)
         \/ \E f \in Flight, s \in Sid : BeginTotp(f, s) \/ BeginOptions(f, s)
         \/ \E f \in Flight : RejectTotp(f) \/ RejectPasskey(f)
  PROVE  LoginInv'
<1>0. /\ LoginTypeOK /\ now \in 1..MaxTime /\ MaxTime \in Nat
      /\ pending \in [Sid -> PendingLogin] /\ account \in AccountRow
  BY LoginAssumption DEF LoginInv, LoginTypeOK, LoginAssumption
<1>1. /\ UNCHANGED <<account, challenges, epoch, spent, logins>>
      /\ now' \in 1..MaxTime
  BY <1>0 DEF LoginTick, StartSignIn, DropPending, BeginTotp, BeginOptions, RejectTotp,
              RejectPasskey, NoLogin
<1>2. pending' \in [Sid -> PendingLogin]
  <2>1. \A f \in Flight : flights[f].at # "idle" =>
          flights[f].sid \in Sid /\ flights[f].copy \in PendingLogin
    BY <1>0 DEF LoginTypeOK, InFlight
  <2>2. ASSUME NEW f \in Flight, RejectPasskey(f) PROVE pending' \in [Sid -> PendingLogin]
    BY <1>0, <2>1, <2>2, SaveType DEF RejectPasskey
  <2>3. ASSUME NEW s \in Sid, StartSignIn(s) PROVE pending' \in [Sid -> PendingLogin]
    <3>1. now \in Nat
      BY <1>0
    <3>2. [Unused EXCEPT !.state = "waiting", !.at = now] \in PendingLogin
      BY <3>1, GoneType, PendingTypes
    <3> QED
      BY <1>0, <2>3, <3>2 DEF StartSignIn
  <2> QED
    BY <1>0, <2>2, <2>3, GoneType
    DEF LoginTick, DropPending, BeginTotp, BeginOptions, RejectTotp
<1>3. /\ DOMAIN flights' = Flight
      /\ \A g \in Flight : flights'[g].at = "idle" \/ flights'[g] \in InFlight
      /\ \A g \in Flight : Answering(g)' => Answering(g) /\ flights'[g] = flights[g]
  <2>1. ASSUME NEW f \in Flight, NEW s \in Sid, BeginTotp(f, s) \/ BeginOptions(f, s)
        PROVE  <1>3!:
    <3>1. account.secret \in Secret \cup {NoSecret} /\ pending[s] \in PendingLogin
      BY <1>0 DEF AccountRow
    <3>2. /\ DOMAIN flights' = Flight
          /\ flights'[f].at \in {"totp", "options"}
          /\ \A g \in Flight \ {f} : flights'[g] = flights[g]
          /\ \A g \in Flight : flights'[g].at = "idle" \/ flights'[g] \in InFlight
      BY <2>1, <3>1, LaunchFacts DEF BeginTotp, BeginOptions
    <3> QED
      BY <3>2 DEF Answering
  <2>2. ASSUME NEW f \in Flight, RejectTotp(f) \/ RejectPasskey(f) PROVE <1>3!:
    BY <2>2, LandFacts DEF RejectTotp, RejectPasskey
  <2>3. CASE UNCHANGED flights
    BY <1>0, <2>3 DEF LoginTypeOK, Answering
  <2> QED
    BY <2>1, <2>2, <2>3 DEF LoginTick, StartSignIn, DropPending
<1>4. LoginTypeOK'
  BY <1>0, <1>1, <1>2, <1>3 DEF LoginTypeOK
<1>5. ChallengesApart'
  BY <1>1, <1>3, StayApart
<1> QED
  BY <1>1, <1>4, <1>5, NothingSpent, SameAccount

\* Changes of the factors from the settings.
LEMMA SettingSteps ==
  ASSUME LoginInv,
         \/ \E secret \in Secret, n \in Tolerated : EnrolTotp(secret, n)
         \/ \E k \in Passkey, counter \in 0..MaxCounter : EnrolKey(k, counter)
         \/ RemoveFactor \/ RenewCodes
  PROVE  LoginInv'
<1>0. /\ LoginTypeOK /\ account \in AccountRow /\ CodesNeedMethod(account)
      /\ pending \in [Sid -> PendingLogin] /\ epoch \in Nat
  BY DEF LoginInv, LoginTypeOK
<1>1. UNCHANGED <<now, challenges, flights, spent, logins>>
  BY DEF EnrolTotp, EnrolKey, RemoveFactor, RenewCodes, NoLogin
<1>2. pending' \in [Sid -> PendingLogin]
  BY <1>0, GoneType DEF EnrolTotp, EnrolKey, RemoveFactor, RenewCodes, RevokeWaiting
<1>3. ChallengesApart'
  BY <1>1, StayApart DEF Answering
<1>4. SUFFICES AccountStep
  <2>1. AccountStep => epoch' \in Nat /\ account' \in AccountRow
    BY <1>0 DEF AccountStep
  <2> QED
    BY <1>0, <1>1, <1>2, <1>3, <2>1, NothingSpent DEF LoginTypeOK
<1>5. ASSUME NEW secret \in Secret, NEW n \in Tolerated, EnrolTotp(secret, n)
      PROVE  AccountStep
  <2> DEFINE a == WithTotp(account, secret, n)
  <2>1. n \in Nat /\ account' \in FirstCodes(a) /\ epoch' = epoch + 1
    BY <1>5 DEF EnrolTotp, Tolerated
  <2>2. a \in AccountRow /\ HasTotp(a) /\ a.codes = account.codes
    BY <1>0, <2>1, WithTotpType
  <2> HIDE DEF a
  <2>3. account' \in AccountRow /\ HasTotp(account')
        /\ \A c \in account'.codes : c \in account.codes \/ CodeToken(c) \notin spent
    BY <2>1, <2>2, FirstCodesType DEF HasTotp
  <2> QED
    BY <1>0, <2>1, <2>3 DEF AccountStep, CodesNeedMethod, Enabled
<1>6. ASSUME NEW k \in Passkey, NEW counter \in 0..MaxCounter, EnrolKey(k, counter)
      PROVE  AccountStep
  <2> DEFINE a == WithKey(account, k, counter)
  <2>1. counter \in Nat /\ account' \in FirstCodes(a) /\ epoch' = epoch
    BY <1>6, LoginAssumption DEF EnrolKey, LoginAssumption
  <2>2. /\ a \in AccountRow /\ a.codes = account.codes /\ a.keys[k] = counter
        /\ a.secret = account.secret /\ a.last = account.last
    BY <1>0, <2>1, WithKeyType
  <2> HIDE DEF a
  <2>3. /\ account' \in AccountRow /\ account'.keys[k] = counter
        /\ account'.secret = account.secret /\ account'.last = account.last
        /\ \A c \in account'.codes : c \in account.codes \/ CodeToken(c) \notin spent
    BY <2>1, <2>2, FirstCodesType
  <2>4. HasKey(account', k)
    BY <2>1, <2>3, FactorAssumption DEF HasKey, FactorAssumption
  <2> QED
    BY <2>1, <2>3, <2>4 DEF AccountStep, CodesNeedMethod, Enabled, HasTotp
<1>7. CASE RemoveFactor
  <2>1. CASE account' = WithoutTotp(account)
    BY <1>0, <1>7, <2>1, WithoutTotpType DEF RemoveFactor, AccountStep
  <2>2. ASSUME NEW k \in Passkey, account' = WithoutKey(account, k) PROVE AccountStep
    BY <1>0, <1>7, <2>2, WithoutKeyType DEF RemoveFactor, HasTotp, AccountStep
  <2> QED BY <1>7, <2>1, <2>2 DEF RemoveFactor
<1>8. CASE RenewCodes
  <2>1. Enabled(account) /\ epoch' = epoch
    BY <1>8 DEF RenewCodes
  <2>2. ASSUME NEW B \in Batches(account, UsedCodes), account' = WithCodes(account, B)
        PROVE  AccountStep
    <3>1. B \in SUBSET Code /\ B \cap UsedCodes = {}
      BY <2>2, BatchType
    <3>2. /\ account' \in AccountRow /\ account'.codes = account.codes \cup B
          /\ account'.secret = account.secret /\ account'.last = account.last
          /\ account'.keys = account.keys
      BY <1>0, <2>2, <3>1, WithCodesType
    <3> QED
      BY <2>1, <3>1, <3>2, EnabledDepends DEF CodesNeedMethod, HasTotp, UsedCodes,
          AccountStep
  <2>3. ASSUME NEW B \in Replacements(account, UsedCodes), account' = WithReplaced(account, B)
        PROVE  AccountStep
    <3>1. B \in SUBSET Code /\ B \cap UsedCodes = {}
      BY <2>3, BatchType DEF Replacements
    <3>2. /\ account' \in AccountRow /\ account'.codes = B
          /\ account'.secret = account.secret /\ account'.last = account.last
          /\ account'.keys = account.keys
      BY <1>0, <2>3, <3>1, WithReplacedType
    <3> QED
      BY <2>1, <3>1, <3>2, EnabledDepends DEF CodesNeedMethod, HasTotp, UsedCodes,
          AccountStep
  <2> QED BY <1>8, <2>2, <2>3 DEF RenewCodes
<1> QED BY <1>5, <1>6, <1>7, <1>8

\* A challenge is issued: its row is new, and nobody answers it yet.
LEMMA IssueStep ==
  ASSUME LoginInv, NEW f \in Flight, NEW id \in Challenge, IssueOptions(f, id)
  PROVE  LoginInv'
<1> DEFINE fl == flights[f]
           s == fl.sid
           row == ChallengeRow(id, s, "authentication", now + LoginWindow)
<1>0. /\ LoginTypeOK /\ ChallengesApart /\ fl \in InFlight
      /\ now \in 1..MaxTime /\ MaxTime \in Nat /\ LoginWindow \in Nat /\ now \in Nat
      /\ pending \in [Sid -> PendingLogin]
  BY LoginAssumption DEF LoginInv, LoginTypeOK, LoginAssumption, IssueOptions
<1>1. s \in Sid /\ fl.copy \in PendingLogin
  BY <1>0 DEF InFlight
<1>2. /\ UNCHANGED <<now, account, epoch, spent, logins>> /\ Land(f)
      /\ FreshChallenge(id) /\ challenges' = Issue(challenges, row, now)
      /\ Save(s, [fl.copy EXCEPT !.challenge = id, !.issued = now])
  BY DEF IssueOptions, NoLogin
<1>3. pending' \in [Sid -> PendingLogin]
  <2>1. [fl.copy EXCEPT !.challenge = id, !.issued = now] \in PendingLogin
    BY <1>0, <1>1, PendingTypes
  <2> QED
    BY <1>0, <1>1, <1>2, <2>1, SaveType
<1>4. /\ row \in [id : Challenge, sid : Sid, purpose : {"authentication"}, expires : Nat]
      /\ row.id = id
  BY <1>0, <1>1 DEF ChallengeRow
<1> HIDE DEF row, s, fl
<1>5. challenges' \subseteq challenges \cup {row}
  BY <1>2 DEF Issue
<1>6. LoginTypeOK'
  BY <1>0, <1>2, <1>3, <1>4, <1>5, LandFacts DEF LoginTypeOK
<1>7. ChallengesApart'
  <2>1. /\ id \notin Ids(challenges) /\ ChallengeToken(id) \notin spent
        /\ \A g \in Flight : Answering(g) => flights[g].challenge # id
    BY <1>2 DEF FreshChallenge, Answering
  <2>2. \A r1, r2 \in challenges' : r1.id = r2.id => r1 = r2
    BY <1>0, <1>4, <1>5, <2>1 DEF ChallengesApart, Ids
  <2>3. Ids(challenges') \subseteq Ids(challenges) \cup {id}
    BY <1>4, <1>5 DEF Ids
  <2>4. \A g \in Flight : Answering(g)' => Answering(g) /\ flights'[g] = flights[g]
    BY <1>2, LandFacts
  <2>5. \A g \in Flight : Answering(g)' =>
          /\ flights'[g].challenge \in Challenge \ Ids(challenges')
          /\ ChallengeToken(flights'[g].challenge) \notin spent'
          /\ flights'[g].key \in Passkey
    BY <1>0, <1>2, <2>1, <2>3, <2>4 DEF ChallengesApart
  <2>6. \A g, h \in Flight : Answering(g)' /\ Answering(h)' /\ g # h =>
          flights'[g].challenge # flights'[h].challenge
    BY <1>0, <2>4 DEF ChallengesApart
  <2>7. \A i \in Ids(challenges') : ChallengeToken(i) \notin spent'
    BY <1>0, <1>2, <2>1, <2>3 DEF ChallengesApart
  <2> QED
    BY <2>2, <2>5, <2>6, <2>7 DEF ChallengesApart, ChallengeToken, Ids
<1> QED
  BY <1>2, <1>6, <1>7, NothingSpent, SameAccount

LEMMA ConsumeShrinks ==
  ASSUME NEW rows, NEW id, NEW sid, NEW purpose, NEW time1
  PROVE  Consume(rows, id, sid, purpose, time1) \subseteq rows
BY DEF Consume

\* A request takes a challenge from its row.
LEMMA AnswerStep ==
  ASSUME LoginInv, NEW f \in Flight, NEW s \in Sid, NEW k \in Passkey, BeginPasskey(f, s, k)
  PROVE  LoginInv'
<1> DEFINE id == pending[s].challenge
<1>0. /\ LoginTypeOK /\ ChallengesApart /\ account \in AccountRow
      /\ pending \in [Sid -> PendingLogin] /\ pending[s] \in PendingLogin
  BY DEF LoginInv, LoginTypeOK
<1>1. /\ UNCHANGED <<now, account, pending, epoch, spent, logins>>
      /\ id # NoChallenge /\ Answers(s) /\ ConsumeChallenge(s)
      /\ HasKey(account, k)
      /\ Launch(f, "passkey", s, WithoutChallenge(pending[s]), NoSecret, k,
                account.keys[k], id)
  BY DEF BeginPasskey, NoLogin, HasChallenge
<1>2. /\ WithoutChallenge(pending[s]) \in PendingLogin /\ account.keys[k] \in Nat
      /\ id \in Challenge
  BY <1>0, <1>1 DEF WithoutChallenge, PendingLogin, HasKey, AccountRow
<1>3. /\ DOMAIN flights' = Flight
      /\ flights[f].at = "idle"
      /\ flights'[f].at = "passkey" /\ flights'[f].challenge = id /\ flights'[f].key = k
      /\ \A g \in Flight \ {f} : flights'[g] = flights[g]
      /\ \A g \in Flight : flights'[g].at = "idle" \/ flights'[g] \in InFlight
  BY <1>1, <1>2, LaunchFacts
<1>4. challenges' \subseteq challenges
  BY <1>1, ConsumeShrinks DEF ConsumeChallenge
<1>5. LoginTypeOK'
  BY <1>0, <1>1, <1>3, <1>4 DEF LoginTypeOK
<1>6. PICK row \in challenges :
        row.id = id /\ row.sid = s /\ row.purpose = "authentication" /\ row.expires >= now
  BY <1>1 DEF Answers, Matching
<1>7. id \in Ids(challenges) /\ id \notin Ids(challenges')
  <2>1. row \notin challenges'
    BY <1>1, <1>6 DEF ConsumeChallenge, Consume, Matching
  <2>2. \A r \in challenges : r.id = id => r = row
    BY <1>0, <1>6 DEF ChallengesApart
  <2> QED
    BY <1>4, <1>6, <2>1, <2>2 DEF Ids
<1> HIDE DEF id
<1>8. ChallengesApart'
  <2>1. Ids(challenges') \subseteq Ids(challenges)
    BY <1>4 DEF Ids
  <2>2. \A r1, r2 \in challenges' : r1.id = r2.id => r1 = r2
    BY <1>0, <1>4 DEF ChallengesApart
  <2>3. \A g \in Flight \ {f} : Answering(g)' <=> Answering(g)
    BY <1>3 DEF Answering
  <2>4. ASSUME NEW g \in Flight, Answering(g)'
        PROVE  /\ flights'[g].challenge \in Challenge \ Ids(challenges')
               /\ ChallengeToken(flights'[g].challenge) \notin spent'
               /\ flights'[g].key \in Passkey
    <3>1. CASE g = f
      BY <1>0, <1>1, <1>2, <1>3, <1>7, <3>1 DEF ChallengesApart
    <3>2. CASE g # f
      BY <1>0, <1>1, <1>3, <2>1, <2>3, <2>4, <3>2 DEF ChallengesApart
    <3> QED BY <3>1, <3>2
  <2>5. ASSUME NEW g \in Flight, NEW h \in Flight, Answering(g)', Answering(h)', g # h
        PROVE  flights'[g].challenge # flights'[h].challenge
    <3>1. \A j \in Flight \ {f} : Answering(j)' => flights'[j].challenge # id
      BY <1>0, <1>3, <1>7, <2>3 DEF ChallengesApart
    <3> QED
      BY <1>0, <1>3, <2>3, <2>5, <3>1 DEF ChallengesApart
  <2>6. \A i \in Ids(challenges') : ChallengeToken(i) \notin spent'
    BY <1>0, <1>1, <2>1 DEF ChallengesApart
  <2> QED
    BY <2>2, <2>4, <2>5, <2>6 DEF ChallengesApart, ChallengeToken, Ids
<1> QED
  BY <1>1, <1>5, <1>8, NothingSpent, SameAccount

LEMMA RefuseStep ==
  ASSUME LoginInv, NEW s \in Sid, RefusePasskey(s)
  PROVE  LoginInv'
<1>0. /\ LoginTypeOK /\ pending \in [Sid -> PendingLogin] /\ pending[s] \in PendingLogin
  BY DEF LoginInv, LoginTypeOK
<1>1. /\ UNCHANGED <<now, account, flights, epoch, spent, logins>>
      /\ Save(s, WithoutChallenge(pending[s])) /\ challenges' \subseteq challenges
  BY ConsumeShrinks DEF RefusePasskey, ConsumeChallenge, NoLogin
<1>2. pending' \in [Sid -> PendingLogin]
  <2>1. WithoutChallenge(pending[s]) \in PendingLogin
    BY <1>0 DEF WithoutChallenge, PendingLogin
  <2> QED
    BY <1>0, <1>1, <2>1, SaveType
<1>3. LoginTypeOK'
  BY <1>0, <1>1, <1>2 DEF LoginTypeOK
<1>4. ChallengesApart'
  BY <1>1, StayApart DEF Answering
<1> QED
  BY <1>1, <1>3, <1>4, NothingSpent, SameAccount

-----------------------------------------------------------------------------
(* The refinement.                                                           *)

LEMMA TokensDiffer ==
  /\ \A e, n, c : <<"step", e, n>> # <<"code", c>>
  /\ \A e, n, c : <<"step", e, n>> # <<"challenge", c>>
  /\ \A c, d : <<"code", c>> # <<"challenge", d>>
  /\ \A e, n, e2, n2 : <<"step", e, n>> = <<"step", e2, n2>> => e = e2 /\ n = n2
  /\ \A c, d : <<"code", c>> = <<"code", d>> => c = d
  /\ \A c, d : <<"challenge", c>> = <<"challenge", d>> => c = d
OBVIOUS

\* No open token was spent.
LEMMA OpenIsUnspent == LoginInv => OpenTokens \subseteq Tokens \ spent
<1> SUFFICES ASSUME LoginInv, NEW t \in OpenTokens PROVE t \in Tokens \ spent
  OBVIOUS
<1>0. /\ epoch \in Nat /\ MaxTime \in Nat /\ account.last \in Nat
      /\ account.codes \subseteq Code
      /\ \A row \in challenges : row.id \in Challenge
  BY LoginAssumption DEF LoginInv, LoginTypeOK, AccountRow, LoginAssumption
<1>1. ASSUME NEW n \in 1..(MaxTime + 1), AcceptsStep(account, n), t = StepToken(n)
      PROVE  t \in Tokens \ spent
  <2>1. n \in Nat /\ ~(n <= account.last) /\ HasTotp(account)
    BY <1>0, <1>1 DEF AcceptsStep
  <2>2. <<"step", epoch, n>> \notin spent
    BY <1>0, <2>1 DEF LoginInv, StepsBehind
  <2> QED
    BY <1>0, <1>1, <2>1, <2>2 DEF StepToken, Tokens
<1>2. ASSUME NEW c \in account.codes, t = CodeToken(c) PROVE t \in Tokens \ spent
  BY <1>0, <1>2 DEF LoginInv, CodesUnspent, CodeToken, Tokens
<1>3. ASSUME NEW id \in Ids(challenges), t = ChallengeToken(id) PROVE t \in Tokens \ spent
  BY <1>0, <1>3 DEF LoginInv, ChallengesApart, ChallengeToken, Tokens, Ids
<1>4. ASSUME NEW f \in Flight, Answering(f), t = ChallengeToken(flights[f].challenge)
      PROVE  t \in Tokens \ spent
  BY <1>4 DEF LoginInv, ChallengesApart, ChallengeToken, Tokens
<1> QED
  BY <1>1, <1>2, <1>3, <1>4 DEF OpenTokens, Answering

\* A code that is accepted closes its step and every earlier one.
LEMMA TotpSpends ==
  ASSUME LoginInv, NEW f \in Flight, NEW n \in Tolerated, AcceptTotp(f, n)
  PROVE  /\ LoginInv'
         /\ StepToken(n) \in OpenTokens
         /\ OpenTokens' \subseteq OpenTokens
         /\ spent' = spent \cup {StepToken(n)} /\ logins' = logins + 1
<1>0. /\ LoginTypeOK /\ account \in AccountRow /\ epoch \in Nat
      /\ n \in 1..(MaxTime + 1) /\ n \in Nat /\ MaxTime \in Nat
      /\ account.last \in Nat /\ account.last < n /\ HasTotp(account)
      /\ pending \in [Sid -> PendingLogin]
  <2>1. MaxTime \in Nat /\ account \in AccountRow
    BY LoginAssumption DEF LoginInv, LoginTypeOK, LoginAssumption
  <2>2. n \in 0..(MaxTime + 1) /\ AcceptsStep(account, n)
    BY DEF Tolerated, AcceptTotp
  <2> QED
    BY <2>1, <2>2 DEF LoginInv, LoginTypeOK, AccountRow, AcceptsStep
<1>1. /\ UNCHANGED <<now, challenges, epoch>> /\ Land(f)
      /\ account' = WithStep(account, n)
      /\ spent' = spent \cup {<<"step", epoch, n>>} /\ logins' = logins + 1
      /\ pending' \in [Sid -> PendingLogin]
  BY <1>0, GoneType DEF AcceptTotp, Complete, StepToken
<1>2. /\ account' \in AccountRow /\ account'.secret = account.secret
      /\ account'.last = n /\ account'.codes = account.codes /\ account'.keys = account.keys
  BY <1>0, <1>1, WithStepType
<1>3. LoginTypeOK'
  <2>1. spent' \subseteq Tokens /\ logins' \in Nat
    BY <1>0, <1>1 DEF LoginTypeOK, Tokens
  <2> QED
    BY <1>0, <1>1, <1>2, <2>1, LandFacts DEF LoginTypeOK
<1>4. StepsBehind'
  BY <1>0, <1>1, <1>2, TokensDiffer DEF LoginInv, StepsBehind, HasTotp
<1>5. CodesUnspent'
  BY <1>1, <1>2, TokensDiffer DEF LoginInv, CodesUnspent, CodeToken
<1>6. ChallengesApart'
  BY <1>1, StayApart, LandFacts, TokensDiffer DEF ChallengeToken
<1>7. LoginInv'
  BY <1>2, <1>3, <1>4, <1>5, <1>6 DEF LoginInv, CodesNeedMethod, Enabled, HasTotp, HasKey
<1>8. StepToken(n) \in OpenTokens
  BY <1>0 DEF OpenTokens, AcceptsStep
<1>9. OpenTokens' \subseteq OpenTokens
  <2>1. \A m \in 1..(MaxTime + 1) : AcceptsStep(account', m) => AcceptsStep(account, m)
    BY <1>0, <1>2 DEF AcceptsStep, HasTotp
  <2>2. \A g \in Flight : flights'[g].at = "passkey" =>
          flights[g].at = "passkey" /\ flights'[g].challenge = flights[g].challenge
    BY <1>1, LandFacts DEF Answering
  <2> QED
    BY <1>1, <1>2, <2>1, <2>2
    DEF OpenTokens, StepToken, CodeToken, ChallengeToken, AcceptsStep, HasTotp, Ids
<1> QED BY <1>1, <1>7, <1>8, <1>9 DEF StepToken

\* A recovery key is deleted in the statement that accepts it.
LEMMA RecoverySpends ==
  ASSUME LoginInv, NEW s \in Sid, NEW c \in Code, Recovery(s, c)
  PROVE  /\ LoginInv'
         /\ CodeToken(c) \in OpenTokens
         /\ OpenTokens' \subseteq OpenTokens
         /\ spent' = spent \cup {CodeToken(c)} /\ logins' = logins + 1
<1>0. /\ LoginTypeOK /\ account \in AccountRow /\ pending \in [Sid -> PendingLogin]
  BY DEF LoginInv, LoginTypeOK
<1>1. /\ UNCHANGED <<now, challenges, flights, epoch>> /\ c \in account.codes
      /\ account' = WithoutCode(account, c)
      /\ spent' = spent \cup {<<"code", c>>} /\ logins' = logins + 1
      /\ pending' \in [Sid -> PendingLogin]
  BY <1>0, GoneType DEF Recovery, Complete, CodeToken
<1>2. /\ account' \in AccountRow /\ account'.secret = account.secret
      /\ account'.last = account.last /\ account'.codes = account.codes \ {c}
      /\ account'.keys = account.keys
  BY <1>0, <1>1, WithoutCodeType
<1>3. LoginTypeOK'
  <2>1. spent' \subseteq Tokens /\ logins' \in Nat
    BY <1>0, <1>1 DEF LoginTypeOK, Tokens
  <2> QED
    BY <1>0, <1>1, <1>2, <2>1 DEF LoginTypeOK
<1>4. StepsBehind'
  BY <1>1, <1>2, TokensDiffer DEF LoginInv, StepsBehind, HasTotp
<1>5. CodesUnspent'
  BY <1>1, <1>2, TokensDiffer DEF LoginInv, CodesUnspent, CodeToken
<1>6. ChallengesApart'
  BY <1>1, StayApart, TokensDiffer DEF ChallengeToken, Answering
<1>7. CodesNeedMethod(account')
  BY <1>2, EnabledDepends DEF LoginInv, CodesNeedMethod
<1>8. LoginInv'
  BY <1>3, <1>4, <1>5, <1>6, <1>7 DEF LoginInv, CodesNeedMethod, Enabled, HasTotp, HasKey
<1>9. CodeToken(c) \in OpenTokens
  BY <1>1 DEF OpenTokens
<1>10. OpenTokens' \subseteq OpenTokens
  BY <1>1, <1>2
  DEF OpenTokens, StepToken, CodeToken, ChallengeToken, AcceptsStep, HasTotp, Ids
<1> QED BY <1>1, <1>8, <1>9, <1>10 DEF CodeToken

\* The challenge of a passkey was consumed before the await: only this request holds it.
LEMMA PasskeySpends ==
  ASSUME LoginInv, NEW f \in Flight, NEW counter \in 0..MaxCounter, AcceptPasskey(f, counter)
  PROVE  /\ LoginInv'
         /\ ChallengeToken(flights[f].challenge) \in OpenTokens
         /\ OpenTokens' \subseteq OpenTokens
         /\ spent' = spent \cup {ChallengeToken(flights[f].challenge)}
         /\ logins' = logins + 1
<1> DEFINE fl == flights[f]
           id == fl.challenge
<1>0. /\ LoginTypeOK /\ account \in AccountRow /\ pending \in [Sid -> PendingLogin]
      /\ counter \in Nat /\ Answering(f) /\ fl \in InFlight
      /\ id \in Challenge \ Ids(challenges) /\ ChallengesApart
  BY LoginAssumption
  DEF LoginInv, LoginTypeOK, LoginAssumption, AcceptPasskey, Answering, ChallengesApart
<1>1. /\ UNCHANGED <<now, challenges, epoch>> /\ Land(f)
      /\ account' = WithKey(account, fl.key, counter)
      /\ spent' = spent \cup {<<"challenge", id>>} /\ logins' = logins + 1
      /\ pending' \in [Sid -> PendingLogin]
      /\ HasKey(account, fl.key)
  BY <1>0, GoneType
  DEF AcceptPasskey, Complete, ChallengeToken, CounterUnchanged
<1> HIDE DEF fl, id
<1>2. fl.key \in Passkey
  BY <1>0 DEF ChallengesApart, fl
<1>3. /\ account' \in AccountRow /\ account'.secret = account.secret
      /\ account'.last = account.last /\ account'.codes = account.codes
      /\ account'.keys[fl.key] = counter
  BY <1>0, <1>1, <1>2, WithKeyType
<1>4. LoginTypeOK'
  <2>1. spent' \subseteq Tokens /\ logins' \in Nat
    BY <1>0, <1>1 DEF LoginTypeOK, Tokens
  <2> QED
    BY <1>0, <1>1, <1>3, <2>1, LandFacts DEF LoginTypeOK
<1>5. StepsBehind'
  BY <1>1, <1>3, TokensDiffer DEF LoginInv, StepsBehind, HasTotp
<1>6. CodesUnspent'
  BY <1>1, <1>3, TokensDiffer DEF LoginInv, CodesUnspent, CodeToken
<1>7. ChallengesApart'
  <2>1. \A g \in Flight : Answering(g)' =>
          Answering(g) /\ flights'[g] = flights[g] /\ g # f
    BY <1>1, LandFacts
  <2>2. \A i : ChallengeToken(i) \in spent' => ChallengeToken(i) \in spent \/ i = id
    BY <1>1, TokensDiffer DEF ChallengeToken
  <2>3. \A g \in Flight \ {f} : Answering(g) => flights[g].challenge # id
    BY <1>0 DEF ChallengesApart, id, fl
  <2>4. \A g \in Flight : Answering(g)' =>
          /\ flights'[g].challenge \in Challenge \ Ids(challenges')
          /\ ChallengeToken(flights'[g].challenge) \notin spent'
          /\ flights'[g].key \in Passkey
    BY <1>0, <1>1, <2>1, <2>2, <2>3 DEF ChallengesApart
  <2>5. \A g, h \in Flight : Answering(g)' /\ Answering(h)' /\ g # h =>
          flights'[g].challenge # flights'[h].challenge
    BY <1>0, <2>1 DEF ChallengesApart
  <2>6. \A i \in Ids(challenges') : ChallengeToken(i) \notin spent'
    BY <1>0, <1>1, <2>2 DEF ChallengesApart
  <2>7. \A r1, r2 \in challenges' : r1.id = r2.id => r1 = r2
    BY <1>0, <1>1 DEF ChallengesApart
  <2> QED
    BY <2>4, <2>5, <2>6, <2>7 DEF ChallengesApart, ChallengeToken, Ids
<1>8. CodesNeedMethod(account')
  <2>1. HasKey(account', fl.key)
    BY <1>0, <1>3, FactorAssumption DEF HasKey, FactorAssumption
  <2> QED
    BY <1>2, <2>1 DEF CodesNeedMethod, Enabled
<1>9. LoginInv'
  BY <1>4, <1>5, <1>6, <1>7, <1>8 DEF LoginInv, CodesNeedMethod, Enabled, HasTotp, HasKey
<1>10. ChallengeToken(id) \in OpenTokens
  BY <1>0 DEF OpenTokens, Answering, id, fl
<1>11. OpenTokens' \subseteq OpenTokens
  <2>1. \A g \in Flight : flights'[g].at = "passkey" =>
          flights[g].at = "passkey" /\ flights'[g].challenge = flights[g].challenge
    BY <1>1, LandFacts DEF Answering
  <2> QED
    BY <1>1, <1>3, <2>1
    DEF OpenTokens, StepToken, CodeToken, ChallengeToken, AcceptsStep, HasTotp, Ids
<1> QED BY <1>1, <1>9, <1>10, <1>11 DEF ChallengeToken, id, fl

\* The steps that complete no sign-in.
LEMMA OtherSteps ==
  ASSUME LoginInv, LoginNext,
         ~\E f \in Flight, n \in Tolerated : AcceptTotp(f, n),
         ~\E s \in Sid, c \in Code : Recovery(s, c),
         ~\E f \in Flight, counter \in 0..MaxCounter : AcceptPasskey(f, counter)
  PROVE  LoginInv' /\ UNCHANGED <<spent, logins>>
<1>1. CASE LoginTick
  BY <1>1, WaitingSteps DEF LoginTick, NoLogin
<1>2. ASSUME NEW s \in Sid, StartSignIn(s) \/ DropPending(s)
      PROVE  LoginInv' /\ UNCHANGED <<spent, logins>>
  BY <1>2, WaitingSteps DEF StartSignIn, DropPending, NoLogin
<1>3. ASSUME NEW s \in Sid, RefusePasskey(s)
      PROVE  LoginInv' /\ UNCHANGED <<spent, logins>>
  BY <1>3, RefuseStep DEF RefusePasskey, NoLogin
<1>4. ASSUME NEW s \in Sid, NEW f \in Flight, BeginTotp(f, s) \/ BeginOptions(f, s)
      PROVE  LoginInv' /\ UNCHANGED <<spent, logins>>
  BY <1>4, WaitingSteps DEF BeginTotp, BeginOptions, NoLogin
<1>5. ASSUME NEW s \in Sid, NEW f \in Flight, NEW k \in Passkey, BeginPasskey(f, s, k)
      PROVE  LoginInv' /\ UNCHANGED <<spent, logins>>
  BY <1>5, AnswerStep DEF BeginPasskey, NoLogin
<1>6. ASSUME NEW f \in Flight, RejectTotp(f) \/ RejectPasskey(f)
      PROVE  LoginInv' /\ UNCHANGED <<spent, logins>>
  BY <1>6, WaitingSteps DEF RejectTotp, RejectPasskey, NoLogin
<1>7. ASSUME NEW f \in Flight, NEW id \in Challenge, IssueOptions(f, id)
      PROVE  LoginInv' /\ UNCHANGED <<spent, logins>>
  BY <1>7, IssueStep DEF IssueOptions, NoLogin
<1>8. CASE \/ \E secret \in Secret, n \in Tolerated : EnrolTotp(secret, n)
           \/ \E k \in Passkey, counter \in 0..MaxCounter : EnrolKey(k, counter)
           \/ RemoveFactor \/ RenewCodes
  BY <1>8, SettingSteps DEF EnrolTotp, EnrolKey, RemoveFactor, RenewCodes, NoLogin
<1> QED
  BY <1>1, <1>2, <1>3, <1>4, <1>5, <1>6, <1>7, <1>8 DEF LoginNext

\* One token is accepted, and no other opens in its place.
Accepts(t) ==
  /\ t \in OpenTokens
  /\ OpenTokens' \subseteq OpenTokens
  /\ spent' = spent \cup {t}
  /\ logins' = logins + 1

LEMMA LoginNextSteps ==
  ASSUME LoginInv, LoginNext
  PROVE  LoginInv' /\ (UNCHANGED <<spent, logins>> \/ \E t : Accepts(t))
<1>1. ASSUME NEW f \in Flight, NEW n \in Tolerated, AcceptTotp(f, n)
      PROVE  LoginInv' /\ \E t : Accepts(t)
  BY <1>1, TotpSpends DEF Accepts
<1>2. ASSUME NEW s \in Sid, NEW c \in Code, Recovery(s, c)
      PROVE  LoginInv' /\ \E t : Accepts(t)
  BY <1>2, RecoverySpends DEF Accepts
<1>3. ASSUME NEW f \in Flight, NEW counter \in 0..MaxCounter, AcceptPasskey(f, counter)
      PROVE  LoginInv' /\ \E t : Accepts(t)
  BY <1>3, PasskeySpends DEF Accepts
<1> QED
  BY <1>1, <1>2, <1>3, OtherSteps

LEMMA LoginStutters == LoginInv /\ UNCHANGED loginVars => LoginInv'
<1> SUFFICES ASSUME LoginInv, UNCHANGED loginVars PROVE LoginInv'
  OBVIOUS
<1>1. LoginTypeOK'
  BY DEF LoginInv, LoginTypeOK, loginVars
<1>2. ChallengesApart'
  <2>1. UNCHANGED <<challenges, flights, spent>>
    BY DEF loginVars
  <2> QED
    BY <2>1, StayApart DEF Answering
<1> QED
  BY <1>1, <1>2, NothingSpent, SameAccount DEF loginVars

LEMMA LoginInvariance == LoginSpec => []LoginInv
<1>1. LoginInv /\ [LoginNext]_loginVars => LoginInv'
  BY LoginNextSteps, LoginStutters
<1> QED
  BY <1>1, LoginInitInv, PTL DEF LoginSpec

LEMMA NothingIsOpenAtFirst == LoginInit => Promise!Init
<1> SUFFICES ASSUME LoginInit PROVE Promise!Init
  OBVIOUS
<1>1. OpenTokens \subseteq Tokens
  BY LoginInitInv, OpenIsUnspent
<1> QED
  BY <1>1 DEF LoginInit, Promise!Init

LEMMA StepIsPromised ==
  ASSUME LoginInv, LoginInv', [LoginNext]_loginVars
  PROVE  [Promise!Next]_Promise!oneTimeVars
<1>1. OpenTokens \subseteq Tokens \ spent /\ OpenTokens' \subseteq Tokens \ spent'
  <2>1. (LoginInv => OpenTokens \subseteq Tokens \ spent)'
    BY OpenIsUnspent, PTL
  <2> QED
    BY <2>1, OpenIsUnspent DEF Tokens
<1>2. CASE UNCHANGED <<spent, logins>>
  BY <1>1, <1>2 DEF Promise!Next, Promise!Change
<1>3. ASSUME NEW t, Accepts(t) PROVE Promise!Next
  BY <1>1, <1>3 DEF Promise!Next, Promise!Use, Accepts
<1>4. CASE UNCHANGED loginVars
  BY <1>2, <1>4 DEF loginVars
<1> QED
  BY <1>2, <1>3, <1>4, LoginNextSteps

\* MfaLogin implements OneTime: each TOTP code, recovery key and passkey challenge
\* completes at most one sign-in, with any number of requests and sessions, although
\* secrets and challenges are read before an await and used after it.
THEOREM TokensAreAcceptedOnce == LoginSpec => AcceptedOnce
<1>1. LoginInv /\ LoginInv' /\ [LoginNext]_loginVars => [Promise!Next]_Promise!oneTimeVars
  BY StepIsPromised
<1> QED
  BY <1>1, LoginInvariance, NothingIsOpenAtFirst, PTL
  DEF LoginSpec, AcceptedOnce, Promise!Spec

-----------------------------------------------------------------------------
(* What a step does to the counters of the passkeys.                         *)

KeysGrow ==
  \A k \in Passkey : HasKey(account, k) /\ HasKey(account', k) =>
    account'.keys[k] >= account.keys[k]

\* A counter that nobody wrote is a number, and not below itself.
LEMMA KeptKeys ==
  ASSUME account \in AccountRow, NEW j,
         \A k \in Passkey \ {j} : account'.keys[k] = account.keys[k],
         j \in Passkey /\ HasKey(account, j) /\ HasKey(account', j) =>
           account'.keys[j] >= account.keys[j]
  PROVE  KeysGrow
<1>1. \A k \in Passkey : HasKey(account, k) => account.keys[k] \in Nat
  BY DEF AccountRow, HasKey
<1> QED BY <1>1 DEF KeysGrow

LEMMA SameKeys ==
  ASSUME account \in AccountRow, account'.keys = account.keys
  PROVE  KeysGrow
<1>1. \A k \in Passkey : HasKey(account, k) => account.keys[k] \in Nat
  BY DEF AccountRow, HasKey
<1> QED BY <1>1 DEF KeysGrow

LEMMA SettingsKeepCounters ==
  ASSUME LoginInv,
         \/ \E secret \in Secret, n \in Tolerated : EnrolTotp(secret, n)
         \/ \E k \in Passkey, counter \in 0..MaxCounter : EnrolKey(k, counter)
         \/ RemoveFactor \/ RenewCodes
  PROVE  KeysGrow
<1>0. account \in AccountRow
  BY DEF LoginInv, LoginTypeOK
<1>1. ASSUME NEW secret \in Secret, NEW n \in Tolerated, EnrolTotp(secret, n)
      PROVE  KeysGrow
  <2> DEFINE a == WithTotp(account, secret, n)
  <2>1. n \in Nat /\ account' \in FirstCodes(a)
    BY <1>1 DEF EnrolTotp, Tolerated
  <2>2. a \in AccountRow /\ a.keys = account.keys
    BY <1>0, <2>1, WithTotpType
  <2> HIDE DEF a
  <2> QED
    BY <1>0, <2>1, <2>2, FirstCodesType, SameKeys
<1>2. ASSUME NEW k \in Passkey, NEW counter \in 0..MaxCounter, EnrolKey(k, counter)
      PROVE  KeysGrow
  <2> DEFINE a == WithKey(account, k, counter)
  <2>1. counter \in Nat /\ account' \in FirstCodes(a) /\ ~HasKey(account, k)
    BY <1>2, LoginAssumption DEF EnrolKey, LoginAssumption
  <2>2. a \in AccountRow /\ \A j \in Passkey \ {k} : a.keys[j] = account.keys[j]
    BY <1>0, <2>1, WithKeyType
  <2> HIDE DEF a
  <2> QED
    BY <1>0, <2>1, <2>2, FirstCodesType, KeptKeys
<1>3. CASE RemoveFactor
  <2>1. CASE account' = WithoutTotp(account)
    BY <1>0, <2>1, WithoutTotpType, SameKeys
  <2>2. ASSUME NEW k \in Passkey, account' = WithoutKey(account, k) PROVE KeysGrow
    <3>1. ~HasKey(account', k) /\ \A j \in Passkey \ {k} : account'.keys[j] = account.keys[j]
      BY <1>0, <2>2, WithoutKeyType DEF HasKey
    <3> QED
      BY <1>0, <3>1, KeptKeys
  <2> QED BY <1>3, <2>1, <2>2 DEF RemoveFactor
<1>4. CASE RenewCodes
  <2>1. ASSUME NEW B \in Batches(account, UsedCodes), account' = WithCodes(account, B)
        PROVE  KeysGrow
    BY <1>0, <2>1, BatchType, WithCodesType, SameKeys
  <2>2. ASSUME NEW B \in Replacements(account, UsedCodes), account' = WithReplaced(account, B)
        PROVE  KeysGrow
    <3>1. B \in SUBSET Code
      BY <2>2, BatchType DEF Replacements
    <3> QED
      BY <1>0, <2>2, <3>1, WithReplacedType, SameKeys
  <2> QED BY <1>4, <2>1, <2>2 DEF RenewCodes
<1> QED BY <1>1, <1>2, <1>3, <1>4

LEMMA PasskeyFacts ==
  ASSUME LoginInv, NEW f \in Flight, NEW counter \in 0..MaxCounter, AcceptPasskey(f, counter)
  PROVE  Enabled(account) /\ KeysGrow
<1> DEFINE key == flights[f].key
<1>0. /\ account \in AccountRow /\ counter \in Nat /\ key \in Passkey
      /\ HasKey(account, key) /\ account.keys[key] = flights[f].counter
      /\ CounterGrows(account.keys[key], counter) /\ account' = WithKey(account, key, counter)
  BY LoginAssumption
  DEF LoginInv, LoginTypeOK, LoginAssumption, ChallengesApart, Answering, AcceptPasskey,
      CounterUnchanged
<1> HIDE DEF key
<1>1. account'.keys[key] = counter /\ \A j \in Passkey \ {key} : account'.keys[j] = account.keys[j]
  BY <1>0, WithKeyType
<1>2. account.keys[key] \in Nat
  BY <1>0 DEF AccountRow, HasKey
<1>3. counter >= account.keys[key]
  BY <1>0, <1>2 DEF CounterGrows
<1> QED
  BY <1>0, <1>1, <1>3, KeptKeys DEF Enabled

\* A sign-in completes for an account that has a second factor at that moment, and the
\* counter of a registered passkey never goes back, with any number of assertions
\* verified against the same one.
THEOREM CountersOnlyGrow == LoginSpec => FactorsAreCurrent
<1> DEFINE UpToDate == (logins' # logins => Enabled(account)) /\ KeysGrow
<1>1. ASSUME LoginInv, LoginNext PROVE UpToDate
  <2>0. account \in AccountRow /\ CodesNeedMethod(account)
    BY <1>1 DEF LoginInv, LoginTypeOK
  <2>1. ASSUME NEW f \in Flight, NEW n \in Tolerated, AcceptTotp(f, n) PROVE UpToDate
    <3>1. n \in Nat /\ HasTotp(account) /\ account' = WithStep(account, n)
      BY <2>1 DEF AcceptTotp, AcceptsStep, Tolerated
    <3> QED
      BY <2>0, <3>1, WithStepType, SameKeys DEF Enabled
  <2>2. ASSUME NEW s \in Sid, NEW c \in Code, Recovery(s, c) PROVE UpToDate
    <3>1. c \in account.codes /\ account' = WithoutCode(account, c)
      BY <2>2 DEF Recovery
    <3> QED
      BY <2>0, <3>1, WithoutCodeType, SameKeys DEF CodesNeedMethod
  <2>3. ASSUME NEW f \in Flight, NEW counter \in 0..MaxCounter, AcceptPasskey(f, counter)
        PROVE  UpToDate
    BY <1>1, <2>3, PasskeyFacts
  <2>4. CASE \/ \E secret \in Secret, n \in Tolerated : EnrolTotp(secret, n)
             \/ \E k \in Passkey, counter \in 0..MaxCounter : EnrolKey(k, counter)
             \/ RemoveFactor \/ RenewCodes
    BY <1>1, <2>4, SettingsKeepCounters
    DEF NoLogin, EnrolTotp, EnrolKey, RemoveFactor, RenewCodes
  <2>5. CASE UNCHANGED <<account, logins>>
    BY <2>0, <2>5, SameKeys
  <2>6. \/ UNCHANGED <<account, logins>>
        \/ \E f \in Flight, n \in Tolerated : AcceptTotp(f, n)
        \/ \E s \in Sid, c \in Code : Recovery(s, c)
        \/ \E f \in Flight, counter \in 0..MaxCounter : AcceptPasskey(f, counter)
        \/ \E secret \in Secret, n \in Tolerated : EnrolTotp(secret, n)
        \/ \E k \in Passkey, counter \in 0..MaxCounter : EnrolKey(k, counter)
        \/ RemoveFactor \/ RenewCodes
    BY <1>1
    DEF LoginNext, LoginTick, StartSignIn, DropPending, RefusePasskey, BeginTotp, NoLogin,
        BeginOptions, BeginPasskey, RejectTotp, RejectPasskey, IssueOptions
  <2> QED
    BY <2>1, <2>2, <2>3, <2>4, <2>5, <2>6
<1>2. LoginInv /\ [LoginNext]_loginVars =>
        [/\ logins' # logins => Enabled(account)
         /\ \A k \in Passkey : HasKey(account, k) /\ HasKey(account', k) =>
              account'.keys[k] >= account.keys[k]]_loginVars
  BY <1>1 DEF KeysGrow
<1> QED
  BY <1>2, LoginInvariance, PTL DEF LoginSpec, FactorsAreCurrent

-----------------------------------------------------------------------------
(* Settings.                                                                 *)

\* A handler that confirms a code holds the secret it was computed from.
HandlersOK ==
  /\ DOMAIN handlers = Handler
  /\ \A h \in Handler : handlers[h] \in Handling \cup {Resting}
  /\ \A h \in Handler : Waits(h, "confirm") => handlers[h].copy.secret # NoSecret

IssuedOK ==
  issued \subseteq [id : Challenge, sid : Browser, purpose : {"registration"}, expires : Nat]

SettingsInv ==
  /\ SettingsTypeOK
  /\ HandlersOK
  /\ CodesStandIn(factors)
  /\ VerificationHolds

LEMMA SettingsFacts ==
  ASSUME SettingsInv
  PROVE  /\ time \in 1..LastTime /\ time \in Nat /\ LastTime \in Nat /\ VerifiedFor \in Nat
         /\ factors \in AccountRow /\ IssuedOK /\ sessions \in [Browser -> Signed]
         /\ HandlersOK /\ CodesStandIn(factors) /\ overdue = {}
         /\ \A h \in Handler : handlers[h].at # "idle" =>
              handlers[h].sid \in Browser /\ handlers[h].copy \in Signed
<1>1. /\ time \in 1..LastTime /\ time \in Nat /\ LastTime \in Nat /\ VerifiedFor \in Nat
      /\ factors \in AccountRow /\ IssuedOK /\ sessions \in [Browser -> Signed]
      /\ HandlersOK /\ CodesStandIn(factors) /\ overdue = {}
  BY SettingsAssumption
  DEF SettingsInv, SettingsTypeOK, SettingsAssumption, IssuedOK, VerificationHolds
<1>2. \A h \in Handler : handlers[h].at # "idle" => handlers[h] \in Handling
  BY <1>1 DEF HandlersOK, Resting
<1> QED
  BY <1>1, <1>2 DEF Handling

\* The verification of a session that is recent has not lapsed.
LEMMA VerifiedUntilFacts ==
  ASSUME time \in Nat, VerifiedFor \in Nat, NEW c \in Signed
  PROVE  /\ VerifiedUntil(c) \in Nat
         /\ Verified(c) => VerifiedUntil(c) >= time
<1> DEFINE recent == {t \in {c.at, c.verified} : t > 0 /\ time - t <= VerifiedFor}
           Latest(t) == t \in recent /\ \A u \in recent : u <= t
<1>1. c.at \in Nat /\ c.verified \in Nat
  BY DEF Signed
<1>2. CASE recent = {}
  BY <1>2 DEF VerifiedUntil, Verified
<1>3. CASE recent # {}
  <2>1. \E t : Latest(t)
    BY <1>1, <1>3
  <2>2. Latest(CHOOSE t : Latest(t))
    BY <2>1
  <2>3. (CHOOSE t \in recent : \A u \in recent : u <= t) = (CHOOSE t : Latest(t))
    OBVIOUS
  <2> DEFINE last == CHOOSE t : Latest(t)
  <2>4. last \in Nat /\ last + VerifiedFor >= time
    <3>1. last \in recent
      BY <2>2
    <3> HIDE DEF last
    <3> QED BY <1>1, <3>1
  <2>5. VerifiedUntil(c) = last + VerifiedFor
    BY <1>3, <2>3 DEF VerifiedUntil
  <2> HIDE DEF last
  <2> QED BY <2>4, <2>5
<1> QED BY <1>2, <1>3

\* What the handlers write into a session keeps its type and its verification.
LEMMA CopyTypes ==
  ASSUME NEW c \in Signed, time \in Nat, VerifiedFor \in Nat
  PROVE  /\ WithoutEnrolment(c) \in Signed
         /\ WithoutFresh(c) \in Signed
         /\ Answered(c) \in Signed
         /\ \A B \in SUBSET Code : WithFresh(c, B) \in Signed
         /\ VerifiedUntil(WithoutEnrolment(c)) = VerifiedUntil(c)
         /\ VerifiedUntil(Answered(c)) = VerifiedUntil(c)
<1>1. WithoutEnrolment(c) \in Signed
  BY DEF WithoutEnrolment, Signed
<1>2. WithoutFresh(c) \in Signed
  BY DEF WithoutFresh, Signed
<1>3. Answered(c) \in Signed
  BY DEF Answered, Signed
<1>4. ASSUME NEW B \in SUBSET Code PROVE WithFresh(c, B) \in Signed
  <2>1. VerifiedUntil(c) \in Nat
    BY VerifiedUntilFacts
  <2>2. \A n \in Nat : [c EXCEPT !.fresh = B, !.freshUntil = n] \in Signed
    BY DEF Signed
  <2> QED
    BY <1>2, <2>1, <2>2 DEF WithFresh
<1>5. /\ WithoutEnrolment(c).at = c.at /\ WithoutEnrolment(c).verified = c.verified
      /\ Answered(c).at = c.at /\ Answered(c).verified = c.verified
  BY DEF WithoutEnrolment, Answered, Signed
<1>6. /\ VerifiedUntil(WithoutEnrolment(c)) = VerifiedUntil(c)
      /\ VerifiedUntil(Answered(c)) = VerifiedUntil(c)
  BY <1>5 DEF VerifiedUntil
<1> QED BY <1>1, <1>2, <1>3, <1>4, <1>6

LEMMA BlankTypes ==
  /\ Blank \in Signed /\ [Blank EXCEPT !.state = "gone"] \in Signed
  /\ \A n, m \in Nat :
       /\ [Blank EXCEPT !.state = "live", !.at = n] \in Signed
       /\ [Blank EXCEPT !.state = "live", !.at = n, !.verified = m] \in Signed
<1>1. Blank \in Signed
  BY DEF Blank, Signed
<1>2. \A c \in Signed, n, m \in Nat :
        /\ [c EXCEPT !.state = "gone"] \in Signed
        /\ [c EXCEPT !.state = "live", !.at = n] \in Signed
        /\ [c EXCEPT !.state = "live", !.at = n, !.verified = m] \in Signed
  BY DEF Signed
<1> QED BY <1>1, <1>2

LEMMA StoredTypes ==
  ASSUME NEW all \in [Browser -> Signed], NEW s \in Browser, NEW c \in Signed
  PROVE  /\ Stored(all, s, c) \in [Browser -> Signed]
         /\ RevokedOthers(all, s) \in [Browser -> Signed]
BY BlankTypes DEF Stored, RevokedOthers

LEMMA AwaitTypes ==
  ASSUME HandlersOK, NEW h \in Handler, NEW s \in Browser, NEW copy \in Signed,
         NEW at \in {"confirm", "options", "register", "view"},
         at = "confirm" => copy.secret # NoSecret,
         Await(h, at, s, copy)
  PROVE  HandlersOK'
<1> DEFINE new == [at |-> at, sid |-> s, copy |-> copy]
<1>1. new \in Handling /\ new.at = at /\ new.copy = copy
  BY DEF Handling
<1> HIDE DEF new
<1>2. handlers' = [handlers EXCEPT ![h] = new]
  BY DEF Await, new
<1> QED
  BY <1>1, <1>2 DEF HandlersOK, Waits

LEMMA EndsTypes ==
  ASSUME HandlersOK, NEW h \in Handler, Ends(h)
  PROVE  HandlersOK'
BY DEF HandlersOK, Ends, Waits, Resting

-----------------------------------------------------------------------------
(* Recovery keys are counted.                                                *)

LEMMA CodesFinite ==
  ASSUME NEW S \in SUBSET Code
  PROVE  IsFiniteSet(S) /\ Cardinality(S) \in Nat
BY FactorAssumption, FS_Subset, FS_CardinalityType DEF FactorAssumption

LEMMA NewCountFacts ==
  ASSUME NEW a \in AccountRow
  PROVE  /\ NewCodeCount(a) \in Nat
         /\ Cardinality(a.codes) <= MaxCodes =>
              Cardinality(a.codes) + NewCodeCount(a) <= MaxCodes
         /\ a.codes = {} => NewCodeCount(a) > 0
<1>1. Cardinality(a.codes) \in Nat
  BY CodesFinite DEF AccountRow
<1>2. a.codes = {} => Cardinality(a.codes) = 0
  BY FS_EmptySet
<1> QED
  BY <1>1, <1>2, FactorAssumption DEF NewCodeCount, FactorAssumption

\* A batch fits beside the codes there are, and the first one is not empty.
LEMMA BatchFits ==
  ASSUME NEW a \in AccountRow, NEW used, NEW B \in Batches(a, used)
  PROVE  /\ Cardinality(a.codes) <= MaxCodes => Cardinality(a.codes \cup B) <= MaxCodes
         /\ a.codes = {} => B # {} /\ Cardinality(B) <= MaxCodes
<1>1. /\ B \in SUBSET Code /\ Cardinality(B) = NewCodeCount(a) /\ a.codes \in SUBSET Code
      /\ a.codes \cap B = {}
  BY DEF Batches, AccountRow
<1>2. Cardinality(a.codes \cup B) = Cardinality(a.codes) + Cardinality(B)
  <2>1. Cardinality(a.codes \cup B) =
          Cardinality(a.codes) + Cardinality(B) - Cardinality(a.codes \cap B)
    BY <1>1, CodesFinite, FS_Union
  <2> QED
    BY <1>1, <2>1, CodesFinite, FS_EmptySet
<1>3. B = {} => Cardinality(B) = 0
  BY FS_EmptySet
<1>4. a.codes = {} => Cardinality(a.codes) = 0
  BY FS_EmptySet
<1>5. Cardinality(B) \in Nat /\ Cardinality(a.codes) \in Nat /\ MaxCodes \in Nat
  BY <1>1, CodesFinite, FactorAssumption DEF FactorAssumption
<1> QED
  BY <1>1, <1>2, <1>3, <1>4, <1>5, NewCountFacts

LEMMA ReplacementFits ==
  ASSUME NEW a \in AccountRow, NEW used, NEW B \in Replacements(a, used)
  PROVE  B \in SUBSET Code /\ Cardinality(B) <= MaxCodes
<1> DEFINE e == [a EXCEPT !.codes = {}]
<1>1. e \in AccountRow /\ e.codes = {}
  BY DEF AccountRow
<1> HIDE DEF e
<1>2. B \in Batches(e, used \cup a.codes)
  BY DEF Replacements, e
<1> QED
  BY <1>1, <1>2, BatchFits, BatchType

LEMMA FewerCodes ==
  ASSUME NEW S \in SUBSET Code, NEW T \in SUBSET S, Cardinality(S) <= MaxCodes
  PROVE  Cardinality(T) <= MaxCodes
<1>1. Cardinality(T) <= Cardinality(S) /\ Cardinality(T) \in Nat /\ Cardinality(S) \in Nat
  BY CodesFinite, FS_Subset
<1> QED
  BY <1>1, FactorAssumption DEF FactorAssumption

\* The account after the first keys were made, if any were needed.
LEMMA FirstFactorCodes ==
  ASSUME NEW before \in AccountRow, NEW after \in AccountRow, NEW c \in Signed,
         after.codes = before.codes, Enabled(after), CodesStandIn(before),
         time \in Nat, VerifiedFor \in Nat,
         NEW r \in WithFirstCodes(before, after, c)
  PROVE  /\ r[1] \in AccountRow /\ r[2] \in Signed
         /\ CodesStandIn(r[1]) /\ r[1].codes # {}
<1>1. CASE NeedsCodes(before)
  <2>1. PICK B \in Batches(after, {}) : r = <<WithCodes(after, B), WithFresh(c, B)>>
    BY <1>1 DEF WithFirstCodes
  <2>2. B \in SUBSET Code /\ B # {} /\ Cardinality(B) <= MaxCodes
    BY <1>1, <2>1, BatchFits, BatchType DEF NeedsCodes
  <2>3. /\ r[1] \in AccountRow /\ r[1].secret = after.secret /\ r[1].keys = after.keys
        /\ r[1].codes = B
    <3>1. r[1] = WithCodes(after, B) /\ after.codes = {}
      BY <1>1, <2>1 DEF NeedsCodes
    <3>2. /\ WithCodes(after, B) \in AccountRow
          /\ WithCodes(after, B).secret = after.secret
          /\ WithCodes(after, B).keys = after.keys
          /\ WithCodes(after, B).codes = after.codes \cup B
      BY <2>2, WithCodesType
    <3> QED
      BY <3>1, <3>2
  <2>4. r[2] \in Signed
    BY <2>1, <2>2, CopyTypes
  <2> QED
    BY <2>2, <2>3, <2>4, EnabledDepends DEF CodesStandIn
<1>2. CASE ~NeedsCodes(before)
  BY <1>2 DEF WithFirstCodes, NeedsCodes, CodesStandIn
<1> QED BY <1>1, <1>2

-----------------------------------------------------------------------------
(* The steps of the settings.                                                *)

\* The first method an account gets comes with recovery keys.
KeysComeWithMethod == ~Enabled(factors) /\ Enabled(factors') => factors'.codes # {}

Kept == SettingsInv' /\ KeysComeWithMethod

LEMMA KeptFrom ==
  ASSUME SettingsInv, time' \in 1..LastTime, factors' \in AccountRow, IssuedOK',
         sessions' \in [Browser -> Signed], HandlersOK', CodesStandIn(factors'),
         overdue' = overdue, KeysComeWithMethod
  PROVE  Kept
<1>1. SettingsTypeOK'
  BY SettingsFacts DEF SettingsTypeOK, IssuedOK, HandlersOK
<1>2. VerificationHolds'
  BY SettingsFacts DEF VerificationHolds
<1> QED
  BY <1>1, <1>2 DEF Kept, SettingsInv, CodesStandIn, Enabled, HasTotp, HasKey

\* Steps that change neither factors nor history.
LEMMA SessionStep ==
  ASSUME SettingsInv, UNCHANGED <<factors, overdue>>, time' \in 1..LastTime, IssuedOK',
         sessions' \in [Browser -> Signed], HandlersOK'
  PROVE  Kept
BY SettingsFacts, KeptFrom DEF KeysComeWithMethod

LEMMA SettingsTickStep == SettingsInv /\ SettingsTick => Kept
<1> SUFFICES ASSUME SettingsInv, SettingsTick PROVE Kept
  OBVIOUS
<1>1. /\ UNCHANGED <<factors, issued, sessions, handlers, overdue>>
      /\ time' \in 1..LastTime
  BY SettingsFacts DEF SettingsTick
<1>2. HandlersOK' /\ IssuedOK'
  BY <1>1, SettingsFacts DEF HandlersOK, IssuedOK, Waits
<1> QED
  BY <1>1, <1>2, SettingsFacts, SessionStep

LEMMA SessionSteps ==
  ASSUME SettingsInv, NEW s \in Browser,
         \/ SignIn(s) \/ CancelTotp(s) \/ RefuseRegister(s)
         \/ \E t \in Browser : VerifyPassword(s, t)
         \/ \E secret \in Secret : StartTotp(s, secret)
  PROVE  Kept
<1>0. /\ time \in 1..LastTime /\ time \in Nat /\ VerifiedFor \in Nat
      /\ sessions \in [Browser -> Signed] /\ sessions[s] \in Signed /\ IssuedOK /\ HandlersOK
  BY SettingsFacts
<1>1. UNCHANGED <<time, factors, issued, handlers, overdue>>
  BY DEF SignIn, CancelTotp, RefuseRegister, VerifyPassword, StartTotp
<1>2. IssuedOK' /\ HandlersOK'
  BY <1>0, <1>1 DEF HandlersOK, IssuedOK, Waits
<1>3. sessions' \in [Browser -> Signed]
  <2>1. CASE SignIn(s)
    <3>1. [Blank EXCEPT !.state = "live", !.at = time] \in Signed
      BY <1>0, BlankTypes
    <3> QED
      BY <1>0, <2>1, <3>1 DEF SignIn
  <2>2. CASE CancelTotp(s)
    BY <1>0, <2>2, CopyTypes, StoredTypes DEF CancelTotp, Write
  <2>3. CASE RefuseRegister(s)
    BY <1>0, <2>3, CopyTypes, StoredTypes DEF RefuseRegister, Write
  <2>4. ASSUME NEW t \in Browser, VerifyPassword(s, t) PROVE sessions' \in [Browser -> Signed]
    <3>1. sessions[s].at \in Nat
      BY <1>0 DEF Signed
    <3>2. /\ [Blank EXCEPT !.state = "gone"] \in Signed
          /\ [Blank EXCEPT !.state = "live", !.at = sessions[s].at, !.verified = time] \in Signed
      BY <1>0, <3>1, BlankTypes
    <3> QED
      BY <1>0, <2>4, <3>2 DEF VerifyPassword
  <2>5. ASSUME NEW secret \in Secret, StartTotp(s, secret)
        PROVE  sessions' \in [Browser -> Signed]
    <3>1. \A n \in Nat : [sessions[s] EXCEPT !.secret = secret, !.secretUntil = n] \in Signed
      BY <1>0 DEF Signed
    <3>2. VerifiedUntil(sessions[s]) \in Nat
      BY <1>0, VerifiedUntilFacts
    <3> QED
      BY <1>0, <2>5, <3>1, <3>2, StoredTypes DEF StartTotp, Write
  <2> QED BY <2>1, <2>2, <2>3, <2>4, <2>5
<1> QED
  BY <1>0, <1>1, <1>2, <1>3, SessionStep

LEMMA BeginSteps ==
  ASSUME SettingsInv, NEW s \in Browser, NEW h \in Handler,
         BeginConfirm(h, s) \/ BeginOptionsRequest(h, s) \/ BeginRegister(h, s) \/ BeginView(h, s)
  PROVE  Kept
<1>0. /\ time \in 1..LastTime /\ time \in Nat /\ VerifiedFor \in Nat
      /\ sessions \in [Browser -> Signed] /\ sessions[s] \in Signed /\ IssuedOK /\ HandlersOK
      /\ Answered(sessions[s]) \in Signed
  BY SettingsFacts, CopyTypes
<1>1. UNCHANGED <<time, factors, sessions, overdue>>
  BY DEF BeginConfirm, BeginOptionsRequest, BeginRegister, BeginView
<1>2. IssuedOK'
  BY <1>0, ConsumeShrinks
  DEF BeginConfirm, BeginOptionsRequest, BeginRegister, BeginView, Redeem, IssuedOK
<1>3. HandlersOK'
  <2>1. CASE BeginConfirm(h, s)
    BY <1>0, <2>1, AwaitTypes DEF BeginConfirm, HasEnrolment
  <2>2. CASE BeginOptionsRequest(h, s)
    BY <1>0, <2>2, AwaitTypes DEF BeginOptionsRequest
  <2>3. CASE BeginRegister(h, s)
    BY <1>0, <2>3, AwaitTypes DEF BeginRegister
  <2>4. CASE BeginView(h, s)
    BY <1>0, <2>4, AwaitTypes DEF BeginView
  <2> QED BY <2>1, <2>2, <2>3, <2>4
<1> QED
  BY <1>0, <1>1, <1>2, <1>3, SessionStep

LEMMA FailSteps ==
  ASSUME SettingsInv, NEW h \in Handler, FailConfirm(h) \/ FailRegister(h)
  PROVE  Kept
<1>1. /\ UNCHANGED <<time, factors, issued, overdue>> /\ Ends(h)
      /\ handlers[h].at # "idle"
  BY DEF FailConfirm, FailRegister, Waits
<1>2. /\ handlers[h].sid \in Browser /\ handlers[h].copy \in Signed
      /\ WithoutEnrolment(handlers[h].copy) \in Signed
      /\ sessions \in [Browser -> Signed] /\ time \in 1..LastTime
  BY <1>1, SettingsFacts, CopyTypes
<1>3. sessions' \in [Browser -> Signed]
  <2>1. \E c \in {handlers[h].copy, WithoutEnrolment(handlers[h].copy)} : Write(handlers[h].sid, c)
    BY DEF FailConfirm, FailRegister
  <2>2. PICK c \in Signed : sessions' = Stored(sessions, handlers[h].sid, c)
    BY <1>2, <2>1 DEF Write
  <2> QED BY <1>2, <2>2, StoredTypes
<1>4. HandlersOK' /\ IssuedOK'
  BY <1>1, SettingsFacts, EndsTypes DEF IssuedOK
<1> QED
  BY <1>1, <1>2, <1>3, <1>4, SessionStep

LEMMA IssueRegistrationStep ==
  ASSUME SettingsInv, NEW h \in Handler, NEW id \in Challenge, IssueRegistration(h, id)
  PROVE  Kept
<1> DEFINE s == handlers[h].sid
           row == ChallengeRow(id, s, "registration", time + VerifiedFor)
<1>1. /\ UNCHANGED <<time, factors, overdue>> /\ Ends(h)
      /\ issued' = Issue(issued, row, time)
      /\ Write(s, [handlers[h].copy EXCEPT !.challenge = id, !.asked = time])
      /\ handlers[h].at # "idle"
  BY DEF IssueRegistration, Waits
<1>2. /\ s \in Browser /\ handlers[h].copy \in Signed /\ sessions \in [Browser -> Signed]
      /\ time \in 1..LastTime /\ time \in Nat /\ VerifiedFor \in Nat /\ IssuedOK
  BY <1>1, SettingsFacts
<1>3. row \in [id : Challenge, sid : Browser, purpose : {"registration"}, expires : Nat]
  BY <1>2 DEF ChallengeRow
<1>4. [handlers[h].copy EXCEPT !.challenge = id, !.asked = time] \in Signed
  BY <1>2 DEF Signed
<1> HIDE DEF row, s
<1>5. sessions' \in [Browser -> Signed]
  BY <1>1, <1>2, <1>4, StoredTypes DEF Write
<1>6. IssuedOK'
  BY <1>1, <1>2, <1>3 DEF IssuedOK, Issue
<1>7. HandlersOK'
  BY <1>1, SettingsFacts, EndsTypes
<1> QED
  BY <1>1, <1>2, <1>5, <1>6, <1>7, SessionStep

\* A page is drawn: what it shows was allowed by a verification that is recent.
LEMMA ViewPlainStep ==
  ASSUME SettingsInv, NEW s \in Browser, ViewPlain(s)
  PROVE  Kept
<1> DEFINE c == sessions[s]
<1>0. /\ UNCHANGED <<time, factors, issued, handlers>>
      /\ time \in 1..LastTime /\ time \in Nat /\ VerifiedFor \in Nat
      /\ sessions \in [Browser -> Signed] /\ c \in Signed /\ overdue = {}
      /\ IssuedOK /\ HandlersOK
  BY SettingsFacts DEF ViewPlain
<1>1. ShowsCodes(c) => VerifiedUntil(c) >= time /\ VerifiedUntil(c) \in Nat
  BY <1>0, VerifiedUntilFacts DEF ShowsCodes, Disclosable
<1>2. overdue' = overdue
  <2>1. CASE ShowsCodes(c)
    BY <1>0, <1>1, <2>1 DEF ViewPlain, Disclose
  <2>2. CASE ~ShowsCodes(c)
    BY <2>2 DEF ViewPlain
  <2> QED BY <2>1, <2>2
<1>3. sessions' \in [Browser -> Signed]
  <2>1. WithoutFresh(WithoutEnrolment(c)) \in Signed
    BY <1>0, CopyTypes
  <2> QED
    BY <1>0, <2>1, StoredTypes DEF ViewPlain, Write
<1>4. IssuedOK' /\ HandlersOK'
  BY <1>0 DEF HandlersOK, IssuedOK, Waits
<1> QED
  BY <1>0, <1>2, <1>3, <1>4, SessionStep

LEMMA EndViewStep ==
  ASSUME SettingsInv, NEW h \in Handler, EndView(h)
  PROVE  Kept
<1> DEFINE c == handlers[h].copy
           keep == Disclosable(c, c.secretUntil)
<1>0. /\ UNCHANGED <<time, factors, issued>> /\ Ends(h) /\ handlers[h].at # "idle"
      /\ Write(handlers[h].sid, WithoutFresh(IF keep THEN c ELSE WithoutEnrolment(c)))
  BY DEF EndView, Waits
<1>1. /\ time \in 1..LastTime /\ time \in Nat /\ VerifiedFor \in Nat
      /\ sessions \in [Browser -> Signed] /\ c \in Signed /\ handlers[h].sid \in Browser
      /\ overdue = {} /\ IssuedOK /\ HandlersOK
  BY <1>0, SettingsFacts
<1>2. overdue' = overdue
  <2>1. CASE ShowsCodes(c) \/ keep
    <3>1. VerifiedUntil(c) >= time /\ VerifiedUntil(c) \in Nat
      BY <1>1, <2>1, VerifiedUntilFacts DEF ShowsCodes, Disclosable
    <3> QED
      BY <1>1, <2>1, <3>1 DEF EndView, Disclose
  <2>2. CASE ~(ShowsCodes(c) \/ keep)
    BY <2>2 DEF EndView
  <2> QED BY <2>1, <2>2
<1>3. sessions' \in [Browser -> Signed]
  <2>1. WithoutFresh(c) \in Signed /\ WithoutFresh(WithoutEnrolment(c)) \in Signed
    BY <1>1, CopyTypes
  <2> QED
    BY <1>0, <1>1, <2>1, StoredTypes DEF Write
<1>4. IssuedOK' /\ HandlersOK'
  BY <1>0, <1>1, EndsTypes DEF IssuedOK
<1> QED
  BY <1>0, <1>1, <1>2, <1>3, <1>4, SessionStep

\* A handler that changes the factors checked the verification in the same step.
LEMMA ChangeStep ==
  ASSUME SettingsInv, NEW s \in Browser, NEW copy \in Signed, NEW a \in AccountRow,
         NEW c \in Signed, ChangeFactors(s, copy, a, c), VerifiedUntil(copy) >= time,
         CodesStandIn(a), ~Enabled(factors) /\ Enabled(a) => a.codes # {},
         UNCHANGED <<time, issued>>, HandlersOK'
  PROVE  Kept
<1>0. /\ time \in 1..LastTime /\ time \in Nat /\ VerifiedFor \in Nat
      /\ sessions \in [Browser -> Signed] /\ overdue = {} /\ IssuedOK
      /\ VerifiedUntil(copy) \in Nat
  BY SettingsFacts, VerifiedUntilFacts
<1>1. factors' = a /\ overdue' = overdue
  BY <1>0 DEF ChangeFactors
<1>2. sessions' \in [Browser -> Signed]
  <2>1. RevokedOthers(sessions, s) \in [Browser -> Signed]
    BY <1>0, StoredTypes
  <2> QED
    BY <2>1, StoredTypes DEF ChangeFactors
<1>3. IssuedOK'
  BY <1>0 DEF IssuedOK
<1>4. CodesStandIn(factors')
  BY <1>1
<1>5. KeysComeWithMethod
  BY <1>1 DEF KeysComeWithMethod
<1> QED
  BY <1>0, <1>1, <1>2, <1>3, <1>4, <1>5, KeptFrom

\* Removing a method enables none, and recovery keys only become fewer.
LEMMA RemovedStands ==
  ASSUME NEW a \in AccountRow, NEW b \in AccountRow, CodesStandIn(a), CodesNeedMethod(b),
         b.codes \subseteq a.codes
  PROVE  CodesStandIn(b)
BY FewerCodes DEF CodesStandIn, CodesNeedMethod, AccountRow

LEMMA CodeUsedStep ==
  ASSUME SettingsInv, NEW c \in Code, CodeUsed(c)
  PROVE  Kept
<1> DEFINE b == WithoutCode(factors, c)
<1>0. /\ UNCHANGED <<time, issued, sessions, handlers, overdue>> /\ factors' = b
      /\ time \in 1..LastTime /\ factors \in AccountRow /\ sessions \in [Browser -> Signed]
      /\ IssuedOK /\ HandlersOK /\ CodesStandIn(factors)
  BY SettingsFacts DEF CodeUsed
<1>1. /\ b \in AccountRow /\ b.secret = factors.secret /\ b.keys = factors.keys
      /\ b.codes = factors.codes \ {c}
  BY <1>0, WithoutCodeType
<1> HIDE DEF b
<1>2. Enabled(b) <=> Enabled(factors)
  BY <1>1, EnabledDepends
<1>3. CodesStandIn(b)
  BY <1>0, <1>1, <1>2, RemovedStands DEF CodesNeedMethod, CodesStandIn
<1>4. CodesStandIn(factors') /\ KeysComeWithMethod
  BY <1>0, <1>2, <1>3 DEF KeysComeWithMethod
<1>5. IssuedOK' /\ HandlersOK'
  BY <1>0 DEF IssuedOK, HandlersOK, Waits
<1> QED
  BY <1>0, <1>1, <1>4, <1>5, KeptFrom

LEMMA DirectSteps ==
  ASSUME SettingsInv, NEW s \in Browser,
         \/ DisableTotp(s) \/ AddCodes(s) \/ RegenerateCodes(s)
         \/ \E k \in Passkey : DeleteKey(s, k)
  PROVE  Kept
<1> DEFINE c == sessions[s]
<1>0. /\ UNCHANGED <<time, issued, handlers>> /\ Verified(c)
      /\ time \in Nat /\ VerifiedFor \in Nat /\ c \in Signed
      /\ factors \in AccountRow /\ CodesStandIn(factors) /\ HandlersOK
  BY SettingsFacts DEF DisableTotp, AddCodes, RegenerateCodes, DeleteKey, MayChange
<1>1. VerifiedUntil(c) >= time
  BY <1>0, VerifiedUntilFacts
<1>2. HandlersOK'
  BY <1>0 DEF HandlersOK, Waits
<1>3. /\ WithoutEnrolment(c) \in Signed
      /\ \A B \in SUBSET Code : WithFresh(c, B) \in Signed
  BY <1>0, CopyTypes
<1> HIDE DEF c
<1>4. CASE DisableTotp(s)
  <2> DEFINE a == WithoutTotp(factors)
  <2>1. /\ a \in AccountRow /\ CodesNeedMethod(a) /\ ~HasTotp(a)
        /\ a.keys = factors.keys /\ a.codes \subseteq factors.codes
    BY <1>0, WithoutTotpType
  <2>2. ChangeFactors(s, c, a, WithoutEnrolment(c))
    BY <1>4 DEF DisableTotp, c
  <2> HIDE DEF a
  <2>3. CodesStandIn(a)
    BY <1>0, <2>1, RemovedStands
  <2>4. Enabled(a) => Enabled(factors)
    BY <2>1 DEF Enabled, HasKey
  <2> QED
    BY <1>0, <1>1, <1>2, <1>3, <2>1, <2>2, <2>3, <2>4, ChangeStep
<1>5. CASE AddCodes(s)
  <2>1. PICK B \in Batches(factors, {}) :
          ChangeFactors(s, c, WithCodes(factors, B), WithFresh(c, B))
    BY <1>5 DEF AddCodes, c
  <2> DEFINE a == WithCodes(factors, B)
  <2>2. B \in SUBSET Code /\ Enabled(factors)
    BY <1>5, BatchType DEF AddCodes
  <2>3. /\ a \in AccountRow /\ a.secret = factors.secret /\ a.keys = factors.keys
        /\ a.codes = factors.codes \cup B
    BY <1>0, <2>2, WithCodesType
  <2>4. ChangeFactors(s, c, a, WithFresh(c, B))
    BY <2>1
  <2> HIDE DEF a
  <2>5. CodesStandIn(a)
    BY <1>0, <2>2, <2>3, BatchFits, EnabledDepends DEF CodesStandIn
  <2> QED
    BY <1>0, <1>1, <1>2, <1>3, <2>2, <2>3, <2>4, <2>5, ChangeStep
<1>6. CASE RegenerateCodes(s)
  <2>1. PICK B \in Replacements(factors, {}) :
          ChangeFactors(s, c, WithReplaced(factors, B), WithFresh(c, B))
    BY <1>6 DEF RegenerateCodes, c
  <2> DEFINE a == WithReplaced(factors, B)
  <2>2. B \in SUBSET Code /\ Cardinality(B) <= MaxCodes /\ Enabled(factors)
    BY <1>0, <1>6, ReplacementFits DEF RegenerateCodes
  <2>3. /\ a \in AccountRow /\ a.secret = factors.secret /\ a.keys = factors.keys
        /\ a.codes = B
    BY <1>0, <2>2, WithReplacedType
  <2>4. ChangeFactors(s, c, a, WithFresh(c, B))
    BY <2>1
  <2> HIDE DEF a
  <2>5. CodesStandIn(a)
    BY <2>2, <2>3, EnabledDepends DEF CodesStandIn
  <2> QED
    BY <1>0, <1>1, <1>2, <1>3, <2>2, <2>3, <2>4, <2>5, ChangeStep
<1>7. ASSUME NEW k \in Passkey, DeleteKey(s, k) PROVE Kept
  <2> DEFINE a == WithoutKey(factors, k)
  <2>1. a \in AccountRow /\ CodesNeedMethod(a) /\ a.codes \subseteq factors.codes
    BY <1>0, WithoutKeyType
  <2>2. ChangeFactors(s, c, a, c) /\ Enabled(factors)
    BY <1>7 DEF DeleteKey, c, Enabled
  <2> HIDE DEF a
  <2>3. CodesStandIn(a)
    BY <1>0, <2>1, RemovedStands
  <2> QED
    BY <1>0, <1>1, <1>2, <2>1, <2>2, <2>3, ChangeStep
<1> QED BY <1>4, <1>5, <1>6, <1>7

\* A confirmed method brings the first recovery keys with it.
LEMMA ConfirmedSteps ==
  ASSUME SettingsInv, NEW h \in Handler,
         ConfirmTotp(h) \/ \E k \in Passkey : RegisterKey(h, k)
  PROVE  Kept
<1> DEFINE s == handlers[h].sid
           copy == handlers[h].copy
<1>0. UNCHANGED <<time, issued>> /\ Ends(h) /\ handlers[h].at # "idle" /\ Verified(copy)
  BY DEF ConfirmTotp, RegisterKey, Waits, VerifiedAgain
<1>1. /\ s \in Browser /\ copy \in Signed /\ time \in Nat /\ VerifiedFor \in Nat
      /\ factors \in AccountRow /\ CodesStandIn(factors) /\ HandlersOK
  BY <1>0, SettingsFacts
<1>2. VerifiedUntil(copy) >= time /\ HandlersOK'
  BY <1>0, <1>1, VerifiedUntilFacts, EndsTypes
<1>3. CASE ConfirmTotp(h)
  <2> DEFINE c == WithoutEnrolment(copy)
             a == WithTotp(factors, copy.secret, time)
  <2>1. PICK r \in WithFirstCodes(factors, a, c) : ChangeFactors(s, c, r[1], r[2])
    BY <1>3 DEF ConfirmTotp
  <2>2. copy.secret \in Secret
    BY <1>1, <1>3 DEF ConfirmTotp, HandlersOK, Signed
  <2>3. a \in AccountRow /\ a.codes = factors.codes /\ Enabled(a)
    BY <1>1, <2>2, WithTotpType DEF Enabled
  <2>4. c \in Signed /\ VerifiedUntil(c) >= time
    BY <1>1, <1>2, CopyTypes
  <2> HIDE DEF a, c
  <2>5. r[1] \in AccountRow /\ r[2] \in Signed /\ CodesStandIn(r[1]) /\ r[1].codes # {}
    BY <1>1, <2>3, <2>4, FirstFactorCodes
  <2> QED
    BY <1>0, <1>1, <1>2, <2>1, <2>4, <2>5, ChangeStep
<1>4. ASSUME NEW k \in Passkey, RegisterKey(h, k) PROVE Kept
  <2> DEFINE a == WithKey(factors, k, 0)
  <2>1. PICK r \in WithFirstCodes(factors, a, copy) : ChangeFactors(s, copy, r[1], r[2])
    BY <1>4 DEF RegisterKey
  <2>2. a \in AccountRow /\ a.codes = factors.codes /\ a.keys[k] = 0
    BY <1>1, WithKeyType
  <2>3. Enabled(a)
    BY <2>2, FactorAssumption DEF Enabled, HasKey, FactorAssumption
  <2> HIDE DEF a, copy, s
  <2>4. r[1] \in AccountRow /\ r[2] \in Signed /\ CodesStandIn(r[1]) /\ r[1].codes # {}
    BY <1>1, <2>2, <2>3, FirstFactorCodes
  <2> QED
    BY <1>0, <1>1, <1>2, <2>1, <2>4, ChangeStep
<1> QED BY <1>3, <1>4

LEMMA SettingsInitInv == SettingsInit => SettingsInv
<1> SUFFICES ASSUME SettingsInit PROVE SettingsInv
  OBVIOUS
<1>1. HandlersOK
  BY DEF SettingsInit, HandlersOK, Resting, Waits
<1>2. SettingsTypeOK
  <2>1. time \in 1..LastTime
    BY SettingsAssumption DEF SettingsInit, SettingsAssumption
  <2>2. sessions \in [Browser -> Signed]
    BY BlankTypes DEF SettingsInit
  <2> QED
    BY <1>1, <2>1, <2>2, NewAccountType DEF SettingsInit, SettingsTypeOK, HandlersOK
<1>3. CodesStandIn(factors)
  BY FS_EmptySet, FactorAssumption
  DEF SettingsInit, NewAccount, CodesStandIn, FactorAssumption
<1> QED
  BY <1>1, <1>2, <1>3 DEF SettingsInit, SettingsInv, VerificationHolds

LEMMA SettingsNextKeeps == SettingsInv /\ SettingsNext => Kept
BY SettingsTickStep, CodeUsedStep, SessionSteps, DirectSteps, BeginSteps, ViewPlainStep,
   ConfirmedSteps, FailSteps, EndViewStep, IssueRegistrationStep
DEF SettingsNext

LEMMA SettingsStutters == SettingsInv /\ UNCHANGED settingsVars => SettingsInv'
<1> SUFFICES ASSUME SettingsInv, UNCHANGED settingsVars PROVE SettingsInv'
  OBVIOUS
<1>1. UNCHANGED <<time, factors, issued, sessions, handlers, overdue>>
  BY DEF settingsVars
<1>2. IssuedOK' /\ HandlersOK'
  BY <1>1, SettingsFacts DEF IssuedOK, HandlersOK, Waits
<1> QED
  BY <1>1, <1>2, SettingsFacts, SessionStep DEF Kept

LEMMA SettingsInvariance == SettingsSpec => []SettingsInv
<1>1. SettingsInv /\ [SettingsNext]_settingsVars => SettingsInv'
  BY SettingsStutters, SettingsNextKeeps DEF Kept
<1> QED
  BY <1>1, SettingsInitInv, PTL DEF SettingsSpec

\* No factor is changed and no secret or recovery key shown after the verification has
\* lapsed, whatever requests wait for a library meanwhile.
THEOREM SettingsAreVerified == SettingsSpec => []VerificationHolds
BY SettingsInvariance, PTL DEF SettingsInv

\* The first method comes with recovery keys, also when the confirmation of another
\* method, or the removal of both, overtakes it.
THEOREM MethodBringsKeys == SettingsSpec => FirstFactorBringsCodes
<1>1. SettingsInv /\ [SettingsNext]_settingsVars =>
        [~Enabled(factors) /\ Enabled(factors') => factors'.codes # {}]_settingsVars
  BY SettingsNextKeeps DEF Kept, KeysComeWithMethod
<1> QED
  BY <1>1, SettingsInvariance, PTL DEF SettingsSpec, FirstFactorBringsCodes

-----------------------------------------------------------------------------
(* Recovery keys at sign-in, and the parts together.                         *)

CodesFit(a) == Cardinality(a.codes) <= MaxCodes

LEMMA FirstCodesFit ==
  ASSUME NEW a \in AccountRow, CodesFit(a), NEW b \in FirstCodes(a)
  PROVE  CodesFit(b)
<1>1. ASSUME NEW B \in Batches(a, UsedCodes), b = WithCodes(a, B) PROVE CodesFit(b)
  <2>1. B \in SUBSET Code
    BY BatchType
  <2>2. b.codes = a.codes \cup B
    BY <1>1, <2>1, WithCodesType
  <2> QED
    BY <2>2, BatchFits DEF CodesFit
<1> QED BY <1>1 DEF FirstCodes

LEMMA FewerFit ==
  ASSUME NEW a \in AccountRow, CodesFit(a), NEW b \in AccountRow, b.codes \subseteq a.codes
  PROVE  CodesFit(b)
BY FewerCodes DEF CodesFit, AccountRow

LEMMA SettingsKeepCodesFew ==
  ASSUME LoginInv, CodesFit(account),
         \/ \E secret \in Secret, n \in Tolerated : EnrolTotp(secret, n)
         \/ \E k \in Passkey, counter \in 0..MaxCounter : EnrolKey(k, counter)
         \/ RemoveFactor \/ RenewCodes
  PROVE  CodesFit(account')
<1>0. account \in AccountRow
  BY DEF LoginInv, LoginTypeOK
<1>1. ASSUME NEW secret \in Secret, NEW n \in Tolerated, EnrolTotp(secret, n)
      PROVE  CodesFit(account')
  <2> DEFINE a == WithTotp(account, secret, n)
  <2>1. n \in Nat /\ account' \in FirstCodes(a)
    BY <1>1 DEF EnrolTotp, Tolerated
  <2>2. a \in AccountRow /\ a.codes = account.codes
    BY <1>0, <2>1, WithTotpType
  <2> HIDE DEF a
  <2> QED
    BY <2>1, <2>2, FirstCodesFit DEF CodesFit
<1>2. ASSUME NEW k \in Passkey, NEW counter \in 0..MaxCounter, EnrolKey(k, counter)
      PROVE  CodesFit(account')
  <2> DEFINE a == WithKey(account, k, counter)
  <2>1. counter \in Nat /\ account' \in FirstCodes(a)
    BY <1>2, LoginAssumption DEF EnrolKey, LoginAssumption
  <2>2. a \in AccountRow /\ a.codes = account.codes
    BY <1>0, <2>1, WithKeyType
  <2> HIDE DEF a
  <2> QED
    BY <2>1, <2>2, FirstCodesFit DEF CodesFit
<1>3. CASE RemoveFactor
  <2>1. CASE account' = WithoutTotp(account)
    BY <1>0, <2>1, WithoutTotpType, FewerFit
  <2>2. ASSUME NEW k \in Passkey, account' = WithoutKey(account, k) PROVE CodesFit(account')
    BY <1>0, <2>2, WithoutKeyType, FewerFit
  <2> QED BY <1>3, <2>1, <2>2 DEF RemoveFactor
<1>4. CASE RenewCodes
  <2>1. ASSUME NEW B \in Batches(account, UsedCodes), account' = WithCodes(account, B)
        PROVE  CodesFit(account')
    <3>1. account'.codes = account.codes \cup B
      BY <1>0, <2>1, BatchType, WithCodesType
    <3> QED
      BY <1>0, <3>1, BatchFits DEF CodesFit
  <2>2. ASSUME NEW B \in Replacements(account, UsedCodes), account' = WithReplaced(account, B)
        PROVE  CodesFit(account')
    <3>1. B \in SUBSET Code /\ Cardinality(B) <= MaxCodes
      BY <1>0, ReplacementFits
    <3>2. account'.codes = B
      BY <1>0, <2>2, <3>1, WithReplacedType
    <3> QED
      BY <3>1, <3>2 DEF CodesFit
  <2> QED BY <1>4, <2>1, <2>2 DEF RenewCodes
<1> QED BY <1>1, <1>2, <1>3, <1>4

LEMMA LoginKeepsCodesFew ==
  ASSUME LoginInv, CodesFit(account), LoginNext
  PROVE  CodesFit(account')
<1>0. account \in AccountRow
  BY DEF LoginInv, LoginTypeOK
<1>1. ASSUME NEW f \in Flight, NEW n \in Tolerated, AcceptTotp(f, n)
      PROVE  CodesFit(account')
  <2>1. n \in Nat /\ account' = WithStep(account, n)
    BY <1>1 DEF AcceptTotp, Tolerated
  <2> QED
    BY <1>0, <2>1, WithStepType DEF CodesFit
<1>2. ASSUME NEW s \in Sid, NEW c \in Code, Recovery(s, c) PROVE CodesFit(account')
  <2>1. account' = WithoutCode(account, c)
    BY <1>2 DEF Recovery
  <2> QED
    BY <1>0, <2>1, WithoutCodeType, FewerFit
<1>3. ASSUME NEW f \in Flight, NEW counter \in 0..MaxCounter, AcceptPasskey(f, counter)
      PROVE  CodesFit(account')
  <2>1. flights[f].key \in Passkey /\ counter \in Nat
    BY <1>3, LoginAssumption
    DEF LoginInv, ChallengesApart, Answering, AcceptPasskey, LoginAssumption
  <2>2. account' = WithKey(account, flights[f].key, counter)
    BY <1>3 DEF AcceptPasskey
  <2> QED
    BY <1>0, <2>1, <2>2, WithKeyType DEF CodesFit
<1>4. CASE \/ \E secret \in Secret, n \in Tolerated : EnrolTotp(secret, n)
           \/ \E k \in Passkey, counter \in 0..MaxCounter : EnrolKey(k, counter)
           \/ RemoveFactor \/ RenewCodes
  BY <1>4, SettingsKeepCodesFew
<1>5. CASE UNCHANGED account
  BY <1>5 DEF CodesFit
<1>6. \/ UNCHANGED account
      \/ \E f \in Flight, n \in Tolerated : AcceptTotp(f, n)
      \/ \E s \in Sid, c \in Code : Recovery(s, c)
      \/ \E f \in Flight, counter \in 0..MaxCounter : AcceptPasskey(f, counter)
      \/ \E secret \in Secret, n \in Tolerated : EnrolTotp(secret, n)
      \/ \E k \in Passkey, counter \in 0..MaxCounter : EnrolKey(k, counter)
      \/ RemoveFactor \/ RenewCodes
  BY DEF LoginNext, LoginTick, StartSignIn, DropPending, RefusePasskey, BeginTotp,
         BeginOptions, BeginPasskey, RejectTotp, RejectPasskey, IssueOptions
<1> QED
  BY <1>1, <1>2, <1>3, <1>4, <1>5, <1>6

FactorsInv == LoginInv /\ CodesFit(account) /\ SettingsInv /\ LimiterInv

LEMMA FactorsInvariance == FactorsSpec => []FactorsInv
<1>1. FactorsInit => FactorsInv
  <2>1. SUFFICES ASSUME FactorsInit PROVE FactorsInv
    OBVIOUS
  <2>2. CodesFit(account)
    BY <2>1, FS_EmptySet, FactorAssumption
    DEF FactorsInit, LoginInit, NewAccount, CodesFit, FactorAssumption
  <2> QED
    BY <2>1, <2>2, LoginInitInv, SettingsInitInv, EmptyIsGood
    DEF FactorsInit, FactorsInv, Init
<1>2. ASSUME FactorsInv, LoginNext, UNCHANGED <<settingsVars, vars>> PROVE FactorsInv'
  <2>1. SettingsInv' /\ LimiterInv'
    BY <1>2, SettingsStutters, NextKeeps DEF FactorsInv
  <2> QED
    BY <1>2, <2>1, LoginNextSteps, LoginKeepsCodesFew DEF FactorsInv, CodesFit
<1>3. ASSUME FactorsInv, SettingsNext, UNCHANGED <<loginVars, vars>> PROVE FactorsInv'
  <2>1. LoginInv' /\ LimiterInv' /\ account' = account
    BY <1>3, LoginStutters, NextKeeps DEF FactorsInv, loginVars
  <2> QED
    BY <1>3, <2>1, SettingsNextKeeps DEF FactorsInv, Kept, CodesFit
<1>4. ASSUME FactorsInv, Next, UNCHANGED <<loginVars, settingsVars>> PROVE FactorsInv'
  <2>1. LoginInv' /\ SettingsInv' /\ account' = account
    BY <1>4, LoginStutters, SettingsStutters DEF FactorsInv, loginVars
  <2> QED
    BY <1>4, <2>1, NextKeeps DEF FactorsInv, CodesFit
<1>5. ASSUME FactorsInv, UNCHANGED factorVars PROVE FactorsInv'
  <2>1. UNCHANGED <<loginVars, settingsVars, vars>>
    BY <1>5 DEF factorVars
  <2>2. LoginInv' /\ SettingsInv' /\ LimiterInv' /\ account' = account
    BY <1>5, <2>1, LoginStutters, SettingsStutters, NextKeeps DEF FactorsInv, loginVars
  <2> QED
    BY <1>5, <2>2 DEF FactorsInv, CodesFit
<1>6. FactorsInv /\ [FactorsNext]_factorVars => FactorsInv'
  BY <1>2, <1>3, <1>4, <1>5 DEF FactorsNext
<1> QED
  BY <1>1, <1>6, PTL DEF FactorsSpec

\* Every part keeps its types; an account never has more recovery keys than the
\* maximum, and none without a method they stand in for.
THEOREM KeysStandInForMethods == FactorsSpec => []FactorsOK
<1>1. LimiterInv => TypeOK
  BY DEF LimiterInv, TypeOK, GoodTable, Bounded, AttemptsOK, FailuresOK
<1>2. FactorsInv => FactorsOK
  BY <1>1
  DEF FactorsInv, LoginInv, SettingsInv, FactorsOK, CodesStandIn, CodesNeedMethod, CodesFit
<1> QED
  BY <1>2, FactorsInvariance, PTL
=============================================================================
