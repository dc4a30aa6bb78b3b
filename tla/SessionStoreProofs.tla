--------------------------- MODULE SessionStoreProofs ---------------------------
(***************************************************************************)
(* Type correctness of SessionStore; that a revoked identifier never       *)
(* serves a signed-in session again; that an identifier belongs to one     *)
(* login, that a disabled administrator has no session, that a login ends  *)
(* with its absolute lifetime and that a sign-in keeps the limit of        *)
(* sessions: for every set of identifiers, users and requests, every       *)
(* lifetime and every bound.                                               *)
(*                                                                         *)
(* The argument: a tombstone is dated at least AbsoluteTtl after the       *)
(* revocation, hence at least AbsoluteTtl after the login of every copy a  *)
(* request may still hold (Covered).  So when the tombstone lapses, every  *)
(* such copy is past its absolute lifetime and set refuses it for that     *)
(* reason.  Good collects what the tables and the requests satisfy; one    *)
(* lemma per store operation says the operation keeps Good.  The second    *)
(* half follows the contents of the sessions: what is known under an       *)
(* identifier comes from what was known there, or is new there.            *)
(***************************************************************************)
EXTENDS SessionStore, FiniteSetTheorems, TLAPS

Sound(c) ==
  /\ c.createdAt <= now
  /\ Usable(c) => c.createdAt > 0
  /\ c.kind # "anonymous" => c.user \in User

\* Tombstone or absolute lifetime: one of them bars content c from identifier s.
Covered(st, s, c) ==
  \/ st.tombs[s] >= c.createdAt + AbsoluteTtl
  \/ now > c.createdAt + AbsoluteTtl

UsableRow(st, s) == HasRow(st, s) /\ Usable(st.rows[s].sess)

StoreGood(st, ids) ==
  /\ st \in Store
  /\ st.ended \subseteq ids
  /\ \A s \in Sid : HasRow(st, s) => s \in ids /\ Sound(st.rows[s].sess)
  /\ \A s \in st.ended : UsableRow(st, s) =>
       st.tombs[s] >= st.rows[s].expires \/ st.rows[s].expires < now

HeldGood(st, ids, q) ==
  /\ q \in InFlight
  /\ Sound(q.sess)
  /\ q.sid # NoSid => q.sid \in ids
  /\ q.sid \in st.ended => /\ ~UsableRow(st, q.sid)
                           /\ Usable(q.sess) => Covered(st, q.sid, q.sess)

Good(st, ids, reqs) ==
  /\ now \in Nat \ {0}
  /\ ids \subseteq Sid
  /\ StoreGood(st, ids)
  /\ reqs \in [Request -> InFlight \cup {NoRequest}]
  /\ \A r \in Request : reqs[r] # NoRequest => HeldGood(st, ids, reqs[r])

IInv ==
  /\ Good(store, issued, requests)
  /\ accounts \subseteq User
  /\ adminDisabled \in BOOLEAN

-----------------------------------------------------------------------------
\* Every revocation outlasts the absolute lifetime.
LEMMA RevocationTtlBound == RevocationTtl \in Nat /\ RevocationTtl >= AbsoluteTtl
  BY TtlAssumption DEF TtlAssumption, RevocationTtl, Later

\* A revocation, of any set of identifiers and with any stored expiries.
LEMMA RevokeKeepsGood ==
  ASSUME NEW st, NEW ids, NEW reqs, Good(st, ids, reqs),
         NEW S \in SUBSET ids, NEW expiry \in [Sid -> Nat]
  PROVE  Good(Revoke(st, S, expiry), ids, reqs)
<1> DEFINE st2 == Revoke(st, S, expiry)
<1>1. /\ now \in Nat \ {0} /\ ids \subseteq Sid /\ st \in Store
      /\ reqs \in [Request -> InFlight \cup {NoRequest}]
  BY DEF Good, StoreGood
<1>2. st2 \in Store
  BY <1>1, RevocationTtlBound DEF Revoke, Store, Later
<1>3. \A s \in Sid : ~HasRow(st, s) => ~HasRow(st2, s)
  BY <1>1 DEF Revoke, HasRow, Store
<1>4. \A s \in Sid : HasRow(st2, s) => s \notin S /\ st2.rows[s] = st.rows[s]
  BY <1>1 DEF Revoke, HasRow, Store
<1>5. \A s \in Sid : st2.tombs[s] >= st.tombs[s] /\ st.tombs[s] \in Nat /\ st2.tombs[s] \in Nat
  BY <1>1, RevocationTtlBound DEF Revoke, Store, Later
<1>6. \A s \in S : st2.tombs[s] >= now + AbsoluteTtl
  BY <1>1, RevocationTtlBound, TtlAssumption DEF Revoke, Store, Later, TtlAssumption
<1>7. st2.ended = st.ended \cup S
  BY DEF Revoke
<1>8. StoreGood(st2, ids)
  <2>1. st2.ended \subseteq ids
    BY <1>7 DEF Good, StoreGood
  <2>2. \A s \in Sid : HasRow(st2, s) => s \in ids /\ Sound(st2.rows[s].sess)
    BY <1>4 DEF Good, StoreGood, HasRow
  <2>3. ASSUME NEW s \in st2.ended, UsableRow(st2, s)
        PROVE  st2.tombs[s] >= st2.rows[s].expires \/ st2.rows[s].expires < now
    <3>1. s \in Sid /\ HasRow(st2, s)
      BY <1>1, <2>1, <2>3 DEF UsableRow
    <3>2. s \in st.ended /\ UsableRow(st, s) /\ st2.rows[s] = st.rows[s]
      BY <1>4, <1>7, <2>3, <3>1 DEF UsableRow, HasRow
    <3>3. st.rows[s] \in Row
      BY <1>1, <3>1, <3>2 DEF Store, UsableRow, HasRow
    <3> QED
      BY <1>1, <1>5, <3>1, <3>2, <3>3 DEF Good, StoreGood, Row
  <2> QED
    BY <1>2, <2>1, <2>2, <2>3 DEF StoreGood
<1>9. ASSUME NEW r \in Request, reqs[r] # NoRequest
      PROVE  HeldGood(st2, ids, reqs[r])
  <2> DEFINE q == reqs[r]
  <2>1. HeldGood(st, ids, q) /\ q \in InFlight
    BY <1>9 DEF Good, HeldGood
  <2>2. q.sess.createdAt \in Nat /\ q.sess.createdAt <= now
    BY <2>1 DEF HeldGood, InFlight, Session, Sound
  <2>3. ASSUME q.sid \in st2.ended
        PROVE  /\ ~UsableRow(st2, q.sid)
               /\ Usable(q.sess) => Covered(st2, q.sid, q.sess)
    <3>1. q.sid \in Sid
      BY <1>1, <1>7, <2>3 DEF Good, StoreGood
    <3>2. CASE q.sid \in S
      BY <1>1, <1>4, <1>5, <1>6, <2>2, <3>1, <3>2, TtlAssumption
      DEF UsableRow, Covered, TtlAssumption
    <3>3. CASE q.sid \notin S
      <4>1. q.sid \in st.ended
        BY <1>7, <2>3, <3>3
      <4>2. ~UsableRow(st2, q.sid)
        BY <1>4, <2>1, <3>1, <4>1 DEF HeldGood, UsableRow, HasRow
      <4>3. ASSUME Usable(q.sess) PROVE Covered(st2, q.sid, q.sess)
        BY <1>1, <1>5, <2>1, <2>2, <3>1, <4>1, <4>3, TtlAssumption
        DEF HeldGood, Covered, TtlAssumption
      <4> QED BY <4>2, <4>3
    <3> QED BY <3>2, <3>3
  <2> QED
    BY <2>1, <2>3 DEF HeldGood
<1> QED
  BY <1>1, <1>8, <1>9 DEF Good

\* Deleting rows.
LEMMA DropKeepsGood ==
  ASSUME NEW st, NEW ids, NEW reqs, Good(st, ids, reqs), NEW S
  PROVE  Good(DropRows(st, S), ids, reqs)
<1> DEFINE st2 == DropRows(st, S)
<1>1. st \in Store /\ ids \subseteq Sid
  BY DEF Good, StoreGood
<1>2. st2 \in Store /\ st2.tombs = st.tombs /\ st2.ended = st.ended
  BY <1>1 DEF DropRows, Store
<1>3. \A s \in Sid : HasRow(st2, s) => HasRow(st, s) /\ st2.rows[s] = st.rows[s]
  BY <1>1 DEF DropRows, HasRow, Store
<1>4. st.ended \subseteq Sid
  BY <1>1 DEF Good, StoreGood
<1>5. StoreGood(st2, ids)
  BY <1>2, <1>3, <1>4 DEF Good, StoreGood, UsableRow, HasRow
<1>6. \A r \in Request : reqs[r] # NoRequest => HeldGood(st2, ids, reqs[r])
  BY <1>2, <1>3, <1>4 DEF Good, HeldGood, UsableRow, HasRow, Covered
<1> QED
  BY <1>5, <1>6 DEF Good

LEMMA StoredExpiryType ==
  ASSUME NEW st \in Store
  PROVE  StoredExpiry(st) \in [Sid -> Nat]
BY DEF StoredExpiry, HasRow, Store, Row

LEMMA NoExpiryType == NoExpiry \in [Sid -> Nat]
BY DEF NoExpiry

LEMMA DestroyKeepsGood ==
  ASSUME NEW st, NEW ids, NEW reqs, Good(st, ids, reqs), NEW s \in ids \cup {NoSid}
  PROVE  Good(StoreDestroy(st, s), ids, reqs)
<1>1. st \in Store
  BY DEF Good, StoreGood
<1>2. CASE s = NoSid
  BY <1>2 DEF StoreDestroy
<1>3. CASE s # NoSid
  <2>1. {s} \in SUBSET ids
    BY <1>3
  <2> QED
    BY <1>1, <1>3, <2>1, RevokeKeepsGood, StoredExpiryType DEF StoreDestroy
<1> QED BY <1>2, <1>3

\* set: for a revoked identifier, content that Covered bars is refused.
LEMMA SetKeepsGood ==
  ASSUME NEW st, NEW ids, NEW reqs, Good(st, ids, reqs), NEW s \in Sid,
         NEW c \in Session, Sound(c),
         s \in st.ended /\ Usable(c) => Covered(st, s, c)
  PROVE  Good(StoreSet(st, s, c), ids \cup {s}, reqs)
<1> DEFINE wide == ids \cup {s}
<1>0. /\ st \in Store /\ now \in Nat \ {0} /\ wide \subseteq Sid
      /\ c.createdAt \in Nat /\ c.createdAt <= now
  BY DEF Good, StoreGood, Session, Sound
<1>1. Good(st, wide, reqs)
  BY DEF Good, StoreGood, HeldGood
<1>2. CASE PastAbsolute(c)
  BY <1>1, <1>2, RevokeKeepsGood, NoExpiryType DEF StoreSet
<1>3. CASE ~PastAbsolute(c) /\ Tombstoned(st, s)
  BY <1>1, <1>3, DropKeepsGood DEF StoreSet
<1>4. CASE ~PastAbsolute(c) /\ ~Tombstoned(st, s)
  <2> DEFINE row == [sess |-> c, expires |-> now + IdleTtl]
             st2 == [st EXCEPT !.rows[s] = row]
  <2>1. StoreSet(st, s, c) = st2
    BY <1>4 DEF StoreSet
  <2>2. row \in Row
    BY <1>0, TtlAssumption DEF Row, TtlAssumption
  <2>3. /\ st2 \in Store /\ st2.tombs = st.tombs /\ st2.ended = st.ended
        /\ st2.rows[s] = row
        /\ \A t \in Sid \ {s} : st2.rows[t] = st.rows[t]
    BY <1>0, <2>2 DEF Store
  <2>4. s \in st.ended => ~Usable(c)
    <3> SUFFICES ASSUME s \in st.ended, Usable(c) PROVE FALSE
      OBVIOUS
    <3>1. Covered(st, s, c) /\ c.createdAt > 0
      BY DEF Sound
    <3>2. ~(now > c.createdAt + AbsoluteTtl)
      BY <1>0, <1>4, <3>1, TtlAssumption DEF PastAbsolute, TtlAssumption
    <3>3. st.tombs[s] >= c.createdAt + AbsoluteTtl /\ st.tombs[s] \in Nat
      BY <1>0, <3>1, <3>2 DEF Covered, Store
    <3> QED
      BY <1>0, <1>4, <3>2, <3>3, TtlAssumption DEF Tombstoned, TtlAssumption
  <2>5. st.ended \subseteq Sid
    BY <1>0 DEF Store
  <2>6. StoreGood(st2, wide)
    <3>1. \A t \in Sid : HasRow(st2, t) => t \in wide /\ Sound(st2.rows[t].sess)
      BY <1>1, <2>3 DEF Good, StoreGood, HasRow
    <3>2. ASSUME NEW t \in st.ended, UsableRow(st2, t)
          PROVE  st2.tombs[t] >= st2.rows[t].expires \/ st2.rows[t].expires < now
      <4>1. t # s
        BY <2>3, <2>4, <3>2 DEF UsableRow
      <4> QED
        BY <1>1, <2>3, <2>5, <3>2, <4>1 DEF Good, StoreGood, UsableRow, HasRow
    <3> QED
      BY <1>1, <2>3, <3>1, <3>2 DEF Good, StoreGood
  <2>7. ASSUME NEW r \in Request, reqs[r] # NoRequest
        PROVE  HeldGood(st2, wide, reqs[r])
    <3>1. HeldGood(st, wide, reqs[r])
      BY <1>1, <2>7 DEF Good
    <3>2. ASSUME reqs[r].sid \in st.ended PROVE ~UsableRow(st2, reqs[r].sid)
      <4>1. reqs[r].sid \in Sid
        BY <2>5, <3>2
      <4> QED
        BY <2>3, <2>4, <3>1, <3>2, <4>1 DEF HeldGood, UsableRow, HasRow
    <3> QED
      BY <2>3, <3>1, <3>2 DEF HeldGood, Covered
  <2> QED
    BY <1>1, <2>1, <2>6, <2>7 DEF Good
<1> QED BY <1>2, <1>3, <1>4

\* touch: it extends an existing row and never creates one.
LEMMA TouchKeepsGood ==
  ASSUME NEW st, NEW ids, NEW reqs, Good(st, ids, reqs), NEW s \in ids,
         NEW c \in Session, s \in st.ended => ~UsableRow(st, s)
  PROVE  Good(StoreTouch(st, s, c), ids, reqs)
<1>0. st \in Store /\ now \in Nat \ {0} /\ s \in Sid
  BY DEF Good, StoreGood
<1>1. CASE PastAbsolute(c)
  BY <1>1, RevokeKeepsGood, NoExpiryType DEF StoreTouch
<1>2. CASE ~PastAbsolute(c) /\ (Tombstoned(st, s) \/ ~HasRow(st, s))
  BY <1>2, DropKeepsGood DEF StoreTouch
<1>3. CASE ~PastAbsolute(c) /\ ~Tombstoned(st, s) /\ HasRow(st, s)
  <2> DEFINE row == [sess |-> st.rows[s].sess, expires |-> now + IdleTtl]
             st2 == [st EXCEPT !.rows[s] = row]
  <2>1. StoreTouch(st, s, c) = st2
    BY <1>3 DEF StoreTouch
  <2>2. row \in Row
    BY <1>0, <1>3, TtlAssumption DEF Row, TtlAssumption, Store, HasRow
  <2>3. /\ st2 \in Store /\ st2.tombs = st.tombs /\ st2.ended = st.ended
        /\ st2.rows[s] = row
        /\ \A t \in Sid \ {s} : st2.rows[t] = st.rows[t]
    BY <1>0, <2>2 DEF Store
  <2>4. st.ended \subseteq Sid
    BY <1>0 DEF Store
  <2>5. \A t \in Sid : UsableRow(st2, t) => UsableRow(st, t)
    BY <1>3, <2>3 DEF UsableRow, HasRow
  <2>6. StoreGood(st2, ids)
    <3>1. \A t \in Sid : HasRow(st2, t) => t \in ids /\ Sound(st2.rows[t].sess)
      BY <1>3, <2>3 DEF Good, StoreGood, HasRow
    <3>2. ASSUME NEW t \in st.ended, UsableRow(st2, t)
          PROVE  st2.tombs[t] >= st2.rows[t].expires \/ st2.rows[t].expires < now
      <4>1. t # s /\ t \in Sid /\ UsableRow(st, t)
        BY <2>4, <2>5, <3>2
      <4> QED
        BY <2>3, <4>1 DEF Good, StoreGood
    <3> QED
      BY <2>3, <3>1, <3>2 DEF Good, StoreGood
  <2>7. \A r \in Request : reqs[r] # NoRequest => HeldGood(st2, ids, reqs[r])
    BY <2>3, <2>4, <2>5 DEF Good, HeldGood, Covered
  <2> QED
    BY <2>1, <2>6, <2>7 DEF Good
<1> QED BY <1>1, <1>2, <1>3

\* get and the cleanup timer delete rows and lapsed tombstones only.
LEMMA ForgetKeepsGood ==
  ASSUME NEW st, NEW ids, NEW reqs, Good(st, ids, reqs), NEW st2 \in Store,
         st2.ended = st.ended,
         \A s \in Sid : HasRow(st2, s) => HasRow(st, s) /\ st2.rows[s] = st.rows[s],
         \A s \in Sid : st2.tombs[s] = st.tombs[s] \/ ~Tombstoned(st, s),
         \A s \in Sid : HasRow(st2, s) /\ st2.tombs[s] # st.tombs[s]
                          => st.rows[s].expires >= now
  PROVE  Good(st2, ids, reqs)
<1>1. /\ st \in Store /\ now \in Nat \ {0} /\ st.ended \subseteq Sid
      /\ \A s \in Sid : st.tombs[s] \in Nat /\ st2.tombs[s] \in Nat
  BY DEF Good, StoreGood, Store
<1>2. StoreGood(st2, ids)
  <2>1. \A s \in Sid : HasRow(st2, s) => s \in ids /\ Sound(st2.rows[s].sess)
    BY DEF Good, StoreGood
  <2>2. ASSUME NEW s \in st.ended, UsableRow(st2, s)
        PROVE  st2.tombs[s] >= st2.rows[s].expires \/ st2.rows[s].expires < now
    <3>1. s \in Sid /\ UsableRow(st, s) /\ st2.rows[s] = st.rows[s]
      BY <1>1, <2>2 DEF UsableRow
    <3>2. st.rows[s].expires \in Nat
      BY <1>1, <3>1 DEF Store, Row, UsableRow, HasRow
    <3>3. st.tombs[s] >= st.rows[s].expires \/ st.rows[s].expires < now
      BY <3>1, <2>2 DEF Good, StoreGood
    <3> QED
      BY <1>1, <2>2, <3>1, <3>2, <3>3 DEF UsableRow, Tombstoned
  <2> QED
    BY <2>1, <2>2 DEF Good, StoreGood
<1>3. ASSUME NEW r \in Request, reqs[r] # NoRequest
      PROVE  HeldGood(st2, ids, reqs[r])
  <2> DEFINE q == reqs[r]
  <2>1. HeldGood(st, ids, q) /\ q.sess.createdAt \in Nat
    BY <1>3 DEF Good, HeldGood, InFlight, Session
  <2>2. ASSUME q.sid \in st.ended, Usable(q.sess)
        PROVE  Covered(st2, q.sid, q.sess)
    <3>1. q.sid \in Sid /\ Covered(st, q.sid, q.sess)
      BY <1>1, <2>1, <2>2 DEF HeldGood
    <3>2. CASE st2.tombs[q.sid] = st.tombs[q.sid]
      BY <3>1, <3>2 DEF Covered
    <3>3. CASE ~Tombstoned(st, q.sid)
      BY <1>1, <2>1, <3>1, <3>3, TtlAssumption DEF Covered, Tombstoned, TtlAssumption
    <3> QED BY <3>1, <3>2, <3>3
  <2> QED
    BY <1>1, <2>1, <2>2 DEF HeldGood, UsableRow
<1> QED
  BY <1>2, <1>3 DEF Good

LEMMA GetKeepsGood ==
  ASSUME NEW st, NEW ids, NEW reqs, Good(st, ids, reqs), NEW s \in ids
  PROVE  Good(StoreGet(st, s), ids, reqs)
<1> DEFINE st2 == StoreGet(st, s)
<1>1. st \in Store /\ now \in Nat \ {0} /\ s \in Sid
  BY DEF Good, StoreGood
<1>2. /\ st2 \in Store /\ st2.ended = st.ended
      /\ st2.rows[s] = IF Live(st, s) THEN st.rows[s] ELSE NoRow
      /\ st2.tombs[s] = IF Tombstoned(st, s) THEN st.tombs[s] ELSE 0
      /\ \A t \in Sid \ {s} : st2.rows[t] = st.rows[t] /\ st2.tombs[t] = st.tombs[t]
  BY <1>1 DEF StoreGet, Store
<1>3. \A t \in Sid : HasRow(st2, t) => HasRow(st, t) /\ st2.rows[t] = st.rows[t]
  BY <1>2 DEF HasRow
<1>4. HasRow(st2, s) => st.rows[s].expires >= now
  BY <1>2 DEF HasRow, Live
<1>5. \A t \in Sid : st2.tombs[t] = st.tombs[t] \/ ~Tombstoned(st, t)
  BY <1>2
<1>6. \A t \in Sid : HasRow(st2, t) /\ st2.tombs[t] # st.tombs[t] => st.rows[t].expires >= now
  BY <1>2, <1>4
<1> HIDE DEF st2
<1>7. Good(st2, ids, reqs)
  BY <1>2, <1>3, <1>5, <1>6, ForgetKeepsGood
<1> QED
  BY <1>7 DEF st2

LEMMA SweepKeepsGood ==
  ASSUME NEW st, NEW ids, NEW reqs, Good(st, ids, reqs)
  PROVE  Good(Sweep(st), ids, reqs)
<1> DEFINE st2 == Sweep(st)
<1>1. st \in Store /\ now \in Nat \ {0}
  BY DEF Good, StoreGood
<1>2. st2 \in Store /\ st2.ended = st.ended
  BY <1>1 DEF Sweep, Store
<1>3. \A s \in Sid : HasRow(st2, s) =>
        HasRow(st, s) /\ st2.rows[s] = st.rows[s] /\ st.rows[s].expires >= now
  BY <1>1 DEF Sweep, HasRow, Store, Row
<1>4. \A s \in Sid : st2.tombs[s] = st.tombs[s] \/ ~Tombstoned(st, s)
  BY DEF Sweep
<1> QED
  BY <1>2, <1>3, <1>4, ForgetKeepsGood

LEMMA UserSidsIssued ==
  ASSUME NEW st, NEW ids, NEW reqs, Good(st, ids, reqs), NEW u
  PROVE  UserSids(st, u) \subseteq ids
BY DEF UserSids, Good, StoreGood

LEMMA PurgeKeepsGood ==
  ASSUME NEW st, NEW ids, NEW reqs, Good(st, ids, reqs), NEW u, NEW except
  PROVE  Good(Purge(st, u, except), ids, reqs)
<1> DEFINE swept == DropRows(st, Lapsed(st))
<1>1. Good(swept, ids, reqs)
  BY DropKeepsGood
<1>2. UserSids(swept, u) \ {except} \in SUBSET ids
  BY <1>1, UserSidsIssued
<1>3. StoredExpiry(swept) \in [Sid -> Nat]
  BY <1>1, StoredExpiryType DEF Good, StoreGood
<1> QED
  BY <1>1, <1>2, <1>3, RevokeKeepsGood DEF Purge

LEMMA PruneKeepsGood ==
  ASSUME NEW st, NEW ids, NEW reqs, Good(st, ids, reqs), NEW u, NEW keep
  PROVE  Good(Prune(st, u, keep), ids, reqs)
<1> DEFINE swept == DropRows(st, Lapsed(st))
<1>1. Good(swept, ids, reqs)
  BY DropKeepsGood
<1>2. UserSids(swept, u) \ keep \in SUBSET ids
  BY <1>1, UserSidsIssued
<1>3. StoredExpiry(swept) \in [Sid -> Nat]
  BY <1>1, StoredExpiryType DEF Good, StoreGood
<1> QED
  BY <1>1, <1>2, <1>3, RevokeKeepsGood DEF Prune

\* regenerate and save under an identifier that was never revoked.
LEMMA RenewKeepsGood ==
  ASSUME NEW st, NEW ids, NEW reqs, Good(st, ids, reqs), NEW old \in ids \cup {NoSid},
         NEW f \in ids, f \notin st.ended, f # old, NEW c \in Session, Sound(c)
  PROVE  Good(Renew(st, old, f, c), ids, reqs)
<1> DEFINE st2 == StoreDestroy(st, old)
<1>1. Good(st2, ids, reqs)
  BY DestroyKeepsGood
<1>2. f \notin st2.ended
  BY DEF StoreDestroy, Revoke
<1>3. f \in Sid /\ ids \cup {f} = ids
  BY DEF Good
<1> HIDE DEF st2
<1>4. Good(StoreSet(st2, f, c), ids \cup {f}, reqs)
  BY <1>1, <1>2, <1>3, SetKeepsGood
<1> QED
  BY <1>3, <1>4 DEF Renew, st2

-----------------------------------------------------------------------------
(* The requests.                                                            *)

LEMMA PutKeepsGood ==
  ASSUME NEW st, NEW ids, NEW reqs, Good(st, ids, reqs), NEW r \in Request,
         NEW q, HeldGood(st, ids, q)
  PROVE  Good(st, ids, [reqs EXCEPT ![r] = q])
BY DEF Good, HeldGood

LEMMA LeaveKeepsGood ==
  ASSUME NEW st, NEW ids, NEW reqs, Good(st, ids, reqs), NEW r \in Request
  PROVE  Good(st, ids, [reqs EXCEPT ![r] = NoRequest])
BY DEF Good

LEMMA ClearKeepsGood ==
  ASSUME NEW st, NEW ids, NEW reqs, Good(st, ids, reqs)
  PROVE  Good(st, ids, [r \in Request |-> NoRequest])
BY DEF Good

\* A request moves to a fresh identifier.
LEMMA GoOnKeepsGood ==
  ASSUME NEW st, NEW ids, NEW reqs, Good(st, ids, reqs), NEW r \in Request,
         reqs[r] # NoRequest, NEW f \in Sid \ ids, NEW c \in Session, Sound(c)
  PROVE  Good(st, ids \cup {f}, [reqs EXCEPT ![r].sid = f, ![r].sess = c,
                                             ![r].renewed = TRUE, ![r].done = TRUE])
<1> DEFINE q == [reqs[r] EXCEPT !.sid = f, !.sess = c, !.renewed = TRUE, !.done = TRUE]
<1>1. Good(st, ids \cup {f}, reqs)
  BY DEF Good, StoreGood, HeldGood
<1>2. reqs[r] \in InFlight
  BY DEF Good, HeldGood
<1>3. q \in InFlight /\ q.sid = f /\ q.sess = c
  BY <1>2 DEF InFlight
<1>4. f \notin st.ended
  BY DEF Good, StoreGood
<1>5. HeldGood(st, ids \cup {f}, q)
  BY <1>3, <1>4 DEF HeldGood
<1>6. [reqs EXCEPT ![r].sid = f, ![r].sess = c, ![r].renewed = TRUE, ![r].done = TRUE]
        = [reqs EXCEPT ![r] = q]
  BY <1>2 DEF Good, InFlight
<1> HIDE DEF q
<1> QED
  BY <1>1, <1>5, <1>6, PutKeepsGood

\* A request whose route is through.
LEMMA DoneKeepsGood ==
  ASSUME NEW st, NEW ids, Good(st, ids, requests), NEW r \in Request,
         requests[r] # NoRequest, Done(r)
  PROVE  Good(st, ids, requests')
<1> DEFINE q == [requests[r] EXCEPT !.done = TRUE]
<1>1. HeldGood(st, ids, requests[r]) /\ requests[r] \in InFlight
  BY DEF Good, HeldGood
<1>2. q \in InFlight /\ q.sid = requests[r].sid /\ q.sess = requests[r].sess
  BY <1>1 DEF InFlight
<1>3. HeldGood(st, ids, q)
  BY <1>1, <1>2 DEF HeldGood
<1>4. requests' = [requests EXCEPT ![r] = q]
  BY DEF Done
<1> HIDE DEF q
<1> QED
  BY <1>3, <1>4, PutKeepsGood

\* What get serves under a revoked identifier is never a usable session.
LEMMA LiveIsNotEnded ==
  ASSUME NEW st, NEW ids, NEW reqs, Good(st, ids, reqs), NEW s \in Sid,
         Live(st, s), s \in st.ended
  PROVE  ~Usable(st.rows[s].sess)
<1> SUFFICES ASSUME Usable(st.rows[s].sess) PROVE FALSE
  OBVIOUS
<1>1. UsableRow(st, s)
  BY DEF Live, UsableRow
<1>2. st.tombs[s] >= st.rows[s].expires \/ st.rows[s].expires < now
  BY <1>1 DEF Good, StoreGood
<1>3. /\ st.tombs[s] \in Nat /\ now \in Nat
      /\ st.rows[s].expires \in Nat
  BY DEF Good, StoreGood, Store, Row, Live, HasRow
<1> QED
  BY <1>2, <1>3 DEF Live, Tombstoned

\* A step that keeps the clock keeps Good if the next tables satisfy it now.
LEMMA SameNow ==
  ASSUME Good(store', issued', requests'), now' = now
  PROVE  Good(store, issued, requests)'
BY DEF Good, StoreGood, HeldGood, Sound, Covered, UsableRow, HasRow, Usable,
       Store, Row, InFlight, Session, Kind

-----------------------------------------------------------------------------
LEMMA InitGood == Init => IInv
<1> SUFFICES ASSUME Init PROVE IInv
  OBVIOUS
<1>1. /\ store \in Store /\ store.ended = {}
      /\ \A s \in Sid : ~HasRow(store, s)
  BY DEF Init, Store, HasRow
<1>2. StoreGood(store, issued)
  BY <1>1 DEF StoreGood
<1>3. Good(store, issued, requests)
  BY <1>2 DEF Init, Good
<1>4. accounts \subseteq User /\ adminDisabled \in BOOLEAN
  BY DEF Init
<1> QED
  BY <1>3, <1>4 DEF IInv

LEMMA TickGood == IInv /\ Tick => IInv'
<1> SUFFICES ASSUME IInv, Tick PROVE IInv'
  OBVIOUS
<1>1. /\ now \in Nat \ {0} /\ now' \in Nat \ {0} /\ now' > now
      /\ store' = store /\ issued' = issued /\ requests' = requests
  BY DEF Tick, IInv, Good
<1>2. \A c \in Session : Sound(c) => Sound(c)'
  BY <1>1 DEF Sound, Session, Usable
<1>3. StoreGood(store, issued)'
  <2>1. StoreGood(store, issued)
    BY DEF IInv, Good
  <2>2. store' \in Store /\ store.ended \subseteq Sid
    BY <1>1, <2>1 DEF StoreGood, Store
  <2>3. ASSUME NEW s \in Sid, HasRow(store, s)
        PROVE  Sound(store.rows[s].sess)'
    <3>1. store.rows[s].sess \in Session
      BY <2>1, <2>3 DEF StoreGood, Store, Row, HasRow
    <3> QED
      BY <1>1, <1>2, <2>1, <2>3, <3>1 DEF StoreGood
  <2>4. ASSUME NEW s \in store.ended, UsableRow(store, s)
        PROVE  store.tombs[s] >= store.rows[s].expires \/ store.rows[s].expires < now'
    <3>1. store.rows[s].expires \in Nat
      BY <2>1, <2>2, <2>4 DEF StoreGood, Store, Row, UsableRow, HasRow
    <3> QED
      BY <1>1, <2>1, <2>4, <3>1 DEF StoreGood
  <2> QED
    BY <1>1, <2>1, <2>2, <2>3, <2>4 DEF StoreGood, UsableRow, HasRow, Usable
<1>4. ASSUME NEW r \in Request, requests[r] # NoRequest
      PROVE  HeldGood(store, issued, requests[r])'
  <2>1. HeldGood(store, issued, requests[r])
    BY <1>4 DEF IInv, Good
  <2>2. requests[r].sess \in Session /\ requests[r].sess.createdAt \in Nat
    BY <2>1 DEF HeldGood, InFlight, Session
  <2>3. requests'[r] = requests[r]
    BY <1>1
  <2> QED
    BY <1>1, <1>2, <2>1, <2>2, <2>3, TtlAssumption
    DEF HeldGood, Covered, UsableRow, HasRow, Usable, TtlAssumption
<1> QED
  BY <1>1, <1>3, <1>4 DEF IInv, Good, Tick

\* The identifier a request holds, and its content, as Good knows them.
LEMMA ActiveFacts ==
  ASSUME IInv, NEW r \in Request, Active(r)
  PROVE  /\ requests[r] \in InFlight
         /\ HeldGood(store, issued, requests[r])
         /\ requests[r].sid \in issued \cup {NoSid}
         /\ requests[r].sess \in Session
         /\ Sound(requests[r].sess)
         /\ now \in Nat \ {0} /\ issued \subseteq Sid
BY DEF IInv, Good, HeldGood, Active, InFlight

\* Entering requests: without a session ...
LEMMA EnterAnonymous ==
  ASSUME NEW st, NEW ids, Good(st, ids, requests), NEW r \in Request,
         NEW login \in User \cup {NoUser},
         accounts \subseteq User, Enter(r, NoSid, Anonymous, login)
  PROVE  Good(st, ids, requests')
<1> DEFINE q == [sid |-> NoSid, sess |-> Anonymous, renewed |-> NoSid = NoSid,
                 login |-> login,
                 found |-> Found(IF login # NoUser THEN login ELSE Anonymous.user),
                 done |-> FALSE]
<1>1. Anonymous \in Session /\ Sound(Anonymous)
  BY NullAssumption DEF Anonymous, Session, Kind, Sound, Usable, Good
<1>2. q \in InFlight
  BY <1>1 DEF InFlight, Found
<1>3. NoSid \notin st.ended
  BY NullAssumption DEF NullAssumption, Good, StoreGood
<1>4. HeldGood(st, ids, q)
  BY <1>1, <1>2, <1>3 DEF HeldGood
<1>5. requests' = [requests EXCEPT ![r] = q]
  BY DEF Enter
<1> HIDE DEF q
<1> QED
  BY <1>4, <1>5, PutKeepsGood

\* ... and with one that get served.
LEMMA EnterAdmitted ==
  ASSUME Good(store, issued, requests), NEW r \in Request, NEW s \in issued,
         Live(store, s), NEW login \in User \cup {NoUser},
         accounts \subseteq User,
         Enter(r, s, Admitted(store.rows[s].sess), login)
  PROVE  Good(StoreGet(store, s), issued, requests')
<1> DEFINE c  == Admitted(store.rows[s].sess)
           st == StoreGet(store, s)
           q  == [sid |-> s, sess |-> c, renewed |-> s = NoSid, login |-> login,
                  found |-> Found(IF login # NoUser THEN login ELSE c.user), done |-> FALSE]
<1>1. s \in Sid /\ store \in Store /\ store.rows[s].sess \in Session
  BY DEF Good, StoreGood, Live, HasRow, Store, Row
<1>2. Sound(store.rows[s].sess)
  BY <1>1 DEF Good, StoreGood, Live
<1>3. /\ c \in Session /\ Sound(c)
      /\ Usable(c) => Usable(store.rows[s].sess)
  BY <1>1, <1>2 DEF Admitted, Session, Kind, Sound, Usable
<1>4. q \in InFlight
  BY <1>1, <1>3 DEF InFlight, Found
<1>5. st.ended = store.ended /\ st.rows[s] = store.rows[s]
  BY <1>1 DEF StoreGet, Store
<1>6. s \in store.ended => ~Usable(store.rows[s].sess)
  BY <1>1, LiveIsNotEnded
<1>7. HeldGood(st, issued, q)
  BY <1>3, <1>4, <1>5, <1>6 DEF HeldGood, UsableRow
<1>8. requests' = [requests EXCEPT ![r] = q]
  BY DEF Enter
<1>9. Good(st, issued, requests)
  BY GetKeepsGood
<1> HIDE DEF q, st
<1>10. Good(st, issued, requests')
  BY <1>7, <1>8, <1>9, PutKeepsGood
<1> QED
  BY <1>10 DEF st

\* What a step that keeps the clock has to show.
LEMMA StepReduces ==
  ASSUME Good(store', issued', requests'), now' = now,
         accounts' \subseteq User, adminDisabled' \in BOOLEAN
  PROVE  IInv'
BY SameNow DEF IInv

LEMMA BeginGood == IInv /\ Begin => IInv'
<1> SUFFICES ASSUME IInv, NEW r \in Request, NEW login \in Targets,
                    \/ BeginWithoutCookie(r, login)
                    \/ \E s \in issued : \/ BeginRefused(r, s, login)
                                         \/ BeginExpired(r, s, login)
                                         \/ BeginBlocked(r, s)
                                         \/ BeginAdmitted(r, s, login)
             PROVE  IInv'
  BY DEF Begin
<1>0. /\ Good(store, issued, requests)
      /\ accounts \subseteq User /\ adminDisabled \in BOOLEAN
      /\ login \in User \cup {NoUser}
  BY DEF IInv, Targets
<1>1. CASE BeginWithoutCookie(r, login)
  <2>1. Good(store, issued, requests')
    BY <1>0, <1>1, EnterAnonymous DEF BeginWithoutCookie
  <2> QED
    BY <1>0, <1>1, <2>1, StepReduces DEF BeginWithoutCookie
<1>2. ASSUME NEW s \in issued, BeginRefused(r, s, login) PROVE IInv'
  <2>1. Good(store', issued, requests)
    BY <1>0, <1>2, GetKeepsGood DEF BeginRefused
  <2>2. Good(store', issued, requests')
    BY <1>0, <1>2, <2>1, EnterAnonymous DEF BeginRefused
  <2> QED
    BY <1>0, <1>2, <2>2, StepReduces DEF BeginRefused
<1>3. ASSUME NEW s \in issued, BeginExpired(r, s, login) PROVE IInv'
  <2>1. Good(StoreGet(store, s), issued, requests)
    BY <1>0, GetKeepsGood
  <2>2. Good(store', issued, requests)
    BY <1>3, <2>1, DestroyKeepsGood DEF BeginExpired
  <2>3. Good(store', issued, requests')
    BY <1>0, <1>3, <2>2, EnterAnonymous DEF BeginExpired
  <2> QED
    BY <1>0, <1>3, <2>3, StepReduces DEF BeginExpired
<1>4. ASSUME NEW s \in issued, BeginBlocked(r, s) PROVE IInv'
  <2>1. Good(StoreGet(store, s), issued, requests)
    BY <1>0, GetKeepsGood
  <2>2. Good(store', issued, requests)
    BY <1>4, <2>1, DestroyKeepsGood DEF BeginBlocked
  <2> QED
    BY <1>0, <1>4, <2>2, StepReduces DEF BeginBlocked
<1>5. ASSUME NEW s \in issued, BeginAdmitted(r, s, login) PROVE IInv'
  <2>1. Good(store', issued, requests')
    BY <1>0, <1>5, EnterAdmitted DEF BeginAdmitted
  <2> QED
    BY <1>0, <1>5, <2>1, StepReduces DEF BeginAdmitted
<1> QED BY <1>1, <1>2, <1>3, <1>4, <1>5

\* saveLimitedAuthenticationSession.
LEMMA SaveLimitedGood ==
  ASSUME IInv, NEW r \in Request, Active(r), NEW f \in Sid \ issued,
         NEW c \in Session, Sound(c), SaveLimited(r, f, c)
  PROVE  Good(store', issued', requests')
<1>1. Good(store, issued', requests') /\ issued' = issued \cup {f}
  BY GoOnKeepsGood DEF IInv, SaveLimited, GoOn, Active
<1>2. /\ requests[r].sid \in issued' \cup {NoSid}
      /\ f \in issued' /\ f \notin store.ended /\ f # requests[r].sid
  BY <1>1, ActiveFacts, NullAssumption DEF IInv, Good, StoreGood, NullAssumption
<1> DEFINE saved == Renew(store, requests[r].sid, f, c)
<1>3. Good(saved, issued', requests')
  BY <1>1, <1>2, RenewKeepsGood
<1> HIDE DEF saved
<1>4. \E keep : store' = Prune(saved, c.user, keep)
  BY DEF SaveLimited, saved
<1> QED
  BY <1>3, <1>4, PruneKeepsGood

\* A rotation of the identifier that prunes nothing, from any good tables.
LEMMA RotateGood ==
  ASSUME IInv, NEW st, Good(st, issued, requests), NEW r \in Request, Active(r),
         NEW f \in Sid \ issued, NEW c \in Session, Sound(c), GoOn(r, f, c),
         store' = Renew(st, requests[r].sid, f, c)
  PROVE  Good(store', issued', requests')
<1>1. Good(st, issued', requests') /\ issued' = issued \cup {f}
  BY GoOnKeepsGood DEF GoOn, Active
<1>2. /\ requests[r].sid \in issued' \cup {NoSid}
      /\ f \in issued' /\ f \notin st.ended /\ f # requests[r].sid
  BY <1>1, ActiveFacts, NullAssumption DEF Good, StoreGood, NullAssumption
<1> QED
  BY <1>1, <1>2, RenewKeepsGood

LEMMA HandleGood == IInv /\ Handle => IInv'
<1> SUFFICES ASSUME IInv, NEW r \in Request,
                    \/ \E f \in Sid, mfa \in BOOLEAN : Login(r, f, mfa)
                    \/ \E f \in Sid :
                         CompleteMfa(r, f) \/ Reauthenticate(r, f) \/ ChangePassword(r, f)
                    \/ \E cleared \in BOOLEAN : Demote(r, cleared)
                    \/ RevokeOthers(r)
                    \/ Logout(r)
                    \/ \E u \in User : DeleteAccount(r, u)
             PROVE  IInv'
  BY DEF Handle
<1>0. /\ Good(store, issued, requests)
      /\ accounts \subseteq User /\ adminDisabled \in BOOLEAN
      /\ now \in Nat \ {0}
  BY DEF IInv, Good
<1>1. ASSUME NEW f \in Sid, NEW mfa \in BOOLEAN, Login(r, f, mfa) PROVE IInv'
  <2> DEFINE c == [kind |-> IF mfa THEN "pending" ELSE "authenticated",
                   user |-> requests[r].login, createdAt |-> now,
                   loginAt |-> now]
  <2>1. Active(r) /\ f \in Sid \ issued /\ SaveLimited(r, f, c)
    BY <1>1 DEF Login, Handling
  <2>2. requests[r] \in InFlight /\ requests[r].login \in User
    BY <1>1, <2>1, ActiveFacts DEF Login, InFlight
  <2>3. c \in Session /\ Sound(c)
    BY <1>0, <2>2 DEF InFlight, Session, Kind, Sound, Usable
  <2> HIDE DEF c
  <2>4. Good(store', issued', requests')
    BY <2>1, <2>3, SaveLimitedGood
  <2> QED
    BY <1>0, <1>1, <2>4, StepReduces DEF Login
<1>2. ASSUME NEW f \in Sid, CompleteMfa(r, f) PROVE IInv'
  <2> DEFINE c == [kind |-> "authenticated", user |-> requests[r].sess.user,
                   createdAt |-> now, loginAt |-> now]
  <2>1. Active(r) /\ f \in Sid \ issued /\ SaveLimited(r, f, c)
    BY <1>2 DEF CompleteMfa, Handling
  <2>2. requests[r].sess \in Session /\ requests[r].sess.user \in User
    BY <1>2, <2>1, ActiveFacts DEF CompleteMfa, Sound
  <2>3. c \in Session /\ Sound(c)
    BY <1>0, <2>2 DEF Session, Kind, Sound, Usable
  <2> HIDE DEF c
  <2>4. Good(store', issued', requests')
    BY <2>1, <2>3, SaveLimitedGood
  <2> QED
    BY <1>0, <1>2, <2>4, StepReduces DEF CompleteMfa
<1>3. ASSUME NEW f \in Sid, Reauthenticate(r, f) PROVE IInv'
  <2> DEFINE c == requests[r].sess
  <2>1. /\ Active(r) /\ f \in Sid \ issued /\ GoOn(r, f, c)
        /\ store' = Renew(store, requests[r].sid, f, c)
    BY <1>3 DEF Reauthenticate, Signed, Handling
  <2>2. /\ requests[r] \in InFlight /\ requests[r].sess \in Session
        /\ Sound(requests[r].sess)
    BY <2>1, ActiveFacts
  <2>3. c \in Session /\ Sound(c)
    BY <2>2 DEF InFlight, Session, Sound, Usable
  <2> HIDE DEF c
  <2>4. Good(store', issued', requests')
    BY <1>0, <2>1, <2>3, RotateGood
  <2> QED
    BY <1>0, <1>3, <2>4, StepReduces DEF Reauthenticate
<1>4. ASSUME NEW f \in Sid, ChangePassword(r, f) PROVE IInv'
  <2> DEFINE u == requests[r].sess.user
             c == [kind |-> "authenticated", user |-> u, createdAt |-> now,
                   loginAt |-> now]
  <2>1. /\ Active(r) /\ f \in Sid \ issued /\ GoOn(r, f, c)
        /\ store' = Renew(Purge(store, u, requests[r].sid), requests[r].sid, f, c)
    BY <1>4 DEF ChangePassword, Signed, Handling
  <2>0. u \in User
    <3>1. Sound(requests[r].sess)
      BY <2>1, ActiveFacts
    <3>2. requests[r].sess.kind = "authenticated"
      BY <1>4 DEF ChangePassword, Signed, Handling
    <3> QED
      BY <3>1, <3>2 DEF Sound
  <2>3. c \in Session /\ Sound(c)
    BY <1>0, <2>0 DEF Session, Kind, Sound, Usable
  <2>4. Good(Purge(store, u, requests[r].sid), issued, requests)
    BY <1>0, PurgeKeepsGood
  <2> HIDE DEF c
  <2>5. Good(store', issued', requests')
    BY <2>1, <2>3, <2>4, RotateGood
  <2> QED
    BY <1>0, <1>4, <2>5, StepReduces DEF ChangePassword
<1>5. ASSUME NEW cleared \in BOOLEAN, Demote(r, cleared) PROVE IInv'
  <2> DEFINE d == [requests[r].sess EXCEPT
                     !.kind = "flow",
                     !.createdAt = IF cleared THEN now ELSE requests[r].sess.createdAt]
             q == [requests[r] EXCEPT !.sess = d, !.done = TRUE]
  <2>1. /\ requests[r] \in InFlight /\ requests[r].sess \in Session
        /\ Sound(requests[r].sess) /\ HeldGood(store, issued, requests[r])
        /\ requests[r].sess.user \in User
    BY <1>5, ActiveFacts DEF Demote, Handling, InFlight, Session
  <2>2. /\ d \in Session /\ d.kind = "flow" /\ d.user = requests[r].sess.user
        /\ d.createdAt = now \/ d.createdAt = requests[r].sess.createdAt
    BY <1>0, <2>1 DEF Session, Kind
  <2>3. Sound(d) /\ ~Usable(d)
    BY <1>0, <2>1, <2>2 DEF Sound, Usable
  <2>7. q \in InFlight /\ q.sid = requests[r].sid /\ q.sess = d
    BY <2>1, <2>2 DEF InFlight
  <2>4. HeldGood(store, issued, q)
    BY <2>1, <2>3, <2>7 DEF HeldGood
  <2>5. requests' = [requests EXCEPT ![r] = q]
    BY <1>5, <2>1 DEF Demote, InFlight, Session
  <2> HIDE DEF q
  <2>6. Good(store, issued, requests')
    BY <1>0, <2>4, <2>5, PutKeepsGood
  <2> QED
    BY <1>0, <1>5, <2>6, StepReduces DEF Demote
<1>6. CASE RevokeOthers(r)
  <2>1. Good(store', issued, requests)
    BY <1>0, <1>6, PurgeKeepsGood DEF RevokeOthers
  <2>2. Good(store', issued, requests')
    BY <1>6, <2>1, DoneKeepsGood DEF RevokeOthers, Signed, Handling, Active
  <2> QED
    BY <1>0, <1>6, <2>2, StepReduces DEF RevokeOthers
<1>7. CASE Logout(r)
  <2>0. requests[r].sid \in issued \cup {NoSid}
    BY <1>7, ActiveFacts DEF Logout, Handling
  <2>1. Good(store', issued, requests)
    BY <1>0, <1>7, <2>0, DestroyKeepsGood DEF Logout
  <2>2. Good(store', issued, requests')
    BY <1>7, <2>1, LeaveKeepsGood DEF Logout
  <2> QED
    BY <1>0, <1>7, <2>2, StepReduces DEF Logout
<1>8. ASSUME NEW u \in User, DeleteAccount(r, u) PROVE IInv'
  <2>1. Good(store', issued, requests)
    BY <1>0, <1>8, PurgeKeepsGood DEF DeleteAccount
  <2>2. Good(store', issued, requests')
    BY <1>8, <2>1, DoneKeepsGood DEF DeleteAccount, Signed, Handling, Active
  <2> QED
    BY <1>0, <1>8, <2>2, StepReduces DEF DeleteAccount
<1> QED BY <1>1, <1>2, <1>3, <1>4, <1>5, <1>6, <1>7, <1>8

LEMMA EndGood == IInv /\ End => IInv'
<1> SUFFICES ASSUME IInv, NEW r \in Request,
                    \/ EndSave(r) \/ EndTouch(r) \/ EndUnsaved(r)
                    \/ \E f \in Sid : EndNew(r, f)
             PROVE  IInv'
  BY DEF End
<1>0. /\ Good(store, issued, requests)
      /\ accounts \subseteq User /\ adminDisabled \in BOOLEAN
  BY DEF IInv
<1>1. CASE EndSave(r)
  <2>1. /\ requests[r].sid \in issued /\ requests[r].sid \in Sid
        /\ requests[r].sess \in Session
        /\ Sound(requests[r].sess) /\ HeldGood(store, issued, requests[r])
    BY <1>1, ActiveFacts DEF EndSave
  <2>2. requests[r].sid \in store.ended /\ Usable(requests[r].sess)
          => Covered(store, requests[r].sid, requests[r].sess)
    BY <2>1 DEF HeldGood
  <2>3. Good(store', issued \cup {requests[r].sid}, requests)
    BY <1>0, <1>1, <2>1, <2>2, SetKeepsGood DEF EndSave
  <2>4. issued \cup {requests[r].sid} = issued
    BY <2>1
  <2>5. Good(store', issued, requests')
    BY <1>1, <2>3, <2>4, LeaveKeepsGood DEF EndSave, Leave
  <2> QED
    BY <1>0, <1>1, <2>5, StepReduces DEF EndSave
<1>2. CASE EndTouch(r)
  <2>1. /\ requests[r].sid \in issued /\ requests[r].sess \in Session
        /\ HeldGood(store, issued, requests[r])
    BY <1>2, ActiveFacts DEF EndTouch
  <2>2. requests[r].sid \in store.ended => ~UsableRow(store, requests[r].sid)
    BY <2>1 DEF HeldGood
  <2>3. Good(store', issued, requests)
    BY <1>0, <1>2, <2>1, <2>2, TouchKeepsGood DEF EndTouch
  <2>4. Good(store', issued, requests')
    BY <1>2, <2>3, LeaveKeepsGood DEF EndTouch, Leave
  <2> QED
    BY <1>0, <1>2, <2>4, StepReduces DEF EndTouch
<1>3. CASE EndUnsaved(r)
  <2>1. Good(store, issued, requests')
    BY <1>0, <1>3, LeaveKeepsGood DEF EndUnsaved, Leave
  <2> QED
    BY <1>0, <1>3, <2>1, StepReduces DEF EndUnsaved
<1>4. ASSUME NEW f \in Sid, EndNew(r, f) PROVE IInv'
  <2>1. requests[r].sess \in Session /\ Sound(requests[r].sess)
    BY <1>4, ActiveFacts DEF EndNew
  <2>2. f \notin store.ended
    BY <1>0, <1>4 DEF EndNew, Good, StoreGood
  <2>3. Good(store', issued', requests)
    BY <1>0, <1>4, <2>1, <2>2, SetKeepsGood DEF EndNew
  <2>4. Good(store', issued', requests')
    BY <1>4, <2>3, LeaveKeepsGood DEF EndNew, Leave
  <2> QED
    BY <1>0, <1>4, <2>4, StepReduces DEF EndNew
<1> QED BY <1>1, <1>2, <1>3, <1>4

\* A tombstone without the deletion is enough once no request is left.
LEMMA TombstoneOnlyGood ==
  ASSUME NEW st, NEW ids, NEW s \in ids, Good(st, ids, [r \in Request |-> NoRequest])
  PROVE  Good(TombstoneOnly(st, s), ids, [r \in Request |-> NoRequest])
<1> DEFINE reqs == [r \in Request |-> NoRequest]
           st2  == TombstoneOnly(st, s)
           full == Revoke(st, {s}, StoredExpiry(st))
<1>1. /\ st \in Store /\ ids \subseteq Sid /\ now \in Nat \ {0}
      /\ StoredExpiry(st) \in [Sid -> Nat]
  BY StoredExpiryType DEF Good, StoreGood
<1>2. Good(full, ids, reqs)
  BY <1>1, RevokeKeepsGood
<1>3. /\ st2 \in Store /\ st2.rows = st.rows /\ st2.tombs = full.tombs
      /\ st2.ended = st.ended \cup {s}
  BY <1>1, <1>2 DEF TombstoneOnly, Revoke, Good, StoreGood, Store
<1>4. /\ \A t \in Sid : st2.tombs[t] >= st.tombs[t]
                        /\ st.tombs[t] \in Nat /\ st2.tombs[t] \in Nat
      /\ st2.tombs[s] >= StoredExpiry(st)[s]
  BY <1>1, <1>3, RevocationTtlBound DEF Revoke, Store, Later
<1>5. ASSUME NEW t \in st2.ended, UsableRow(st2, t)
      PROVE  st2.tombs[t] >= st2.rows[t].expires \/ st2.rows[t].expires < now
  <2>1. t \in Sid /\ UsableRow(st, t) /\ st2.rows[t] = st.rows[t]
    BY <1>1, <1>3, <1>5 DEF UsableRow, HasRow, Store
  <2>2. st.rows[t].expires \in Nat
    BY <1>1, <2>1 DEF Store, Row, UsableRow, HasRow
  <2>3. CASE t = s
    BY <1>4, <2>1, <2>3 DEF StoredExpiry, UsableRow
  <2>4. CASE t # s
    <3>1. t \in st.ended
      BY <1>3, <2>4
    <3>2. st.tombs[t] >= st.rows[t].expires \/ st.rows[t].expires < now
      BY <2>1, <3>1 DEF Good, StoreGood
    <3> QED
      BY <1>4, <2>1, <2>2, <3>2
  <2> QED BY <2>3, <2>4
<1>6. StoreGood(st2, ids)
  <2>1. \A t \in Sid : HasRow(st2, t) => t \in ids /\ Sound(st2.rows[t].sess)
    BY <1>3 DEF Good, StoreGood, HasRow
  <2>2. st2.ended \subseteq ids
    BY <1>3 DEF Good, StoreGood
  <2> QED
    BY <1>3, <1>5, <2>1, <2>2 DEF StoreGood
<1> QED
  BY <1>6 DEF Good

LEMMA StartGood ==
  ASSUME IInv, NEW st, Good(st, issued, [r \in Request |-> NoRequest]),
         NEW disabled \in BOOLEAN, StartWith(st, disabled)
  PROVE  IInv'
<1> DEFINE reqs == [r \in Request |-> NoRequest]
<1>1. AdminSids(st) \in SUBSET issued /\ StoredExpiry(st) \in [Sid -> Nat]
  BY StoredExpiryType DEF AdminSids, Good, StoreGood
<1>2. Good(Revoke(st, AdminSids(st), StoredExpiry(st)), issued, reqs)
  BY <1>1, RevokeKeepsGood
<1>3. Good(store', issued', requests')
  BY <1>2 DEF StartWith
<1> QED
  BY <1>3, StepReduces DEF StartWith, IInv

LEMMA StopGood == IInv /\ Stop => IInv'
<1> SUFFICES ASSUME IInv, NEW disabled \in BOOLEAN,
                    \/ Restart(disabled)
                    \/ \E s \in issued : CrashInRevocation(s, disabled)
                    \/ \E r \in Request, ended \in SUBSET Sid :
                         CrashInPurge(r, ended, disabled)
             PROVE  IInv'
  BY DEF Stop
<1> DEFINE reqs == [r \in Request |-> NoRequest]
<1>0. /\ Good(store, issued, reqs)
      /\ accounts \subseteq User
  BY ClearKeepsGood DEF IInv
<1>1. CASE Restart(disabled)
  BY <1>0, <1>1, StartGood DEF Restart
<1>2. ASSUME NEW s \in issued, CrashInRevocation(s, disabled) PROVE IInv'
  <2>1. Good(TombstoneOnly(store, s), issued, reqs)
    BY <1>0, TombstoneOnlyGood
  <2> QED
    BY <1>0, <1>2, <2>1, StartGood DEF CrashInRevocation
<1>3. ASSUME NEW r \in Request, NEW ended \in SUBSET Sid,
             CrashInPurge(r, ended, disabled)
      PROVE  IInv'
  <2>1. ended \in SUBSET issued
    BY <1>0, <1>3, UserSidsIssued DEF CrashInPurge
  <2>2. StoredExpiry(store) \in [Sid -> Nat]
    BY <1>0, StoredExpiryType DEF Good, StoreGood
  <2>3. Good(Revoke(store, ended, StoredExpiry(store)), issued, reqs)
    BY <1>0, <2>1, <2>2, RevokeKeepsGood
  <2>5. StartWith(Revoke(store, ended, StoredExpiry(store)), disabled)
    BY <1>3 DEF CrashInPurge
  <2> QED
    BY <2>3, <2>5, StartGood
<1> QED BY <1>1, <1>2, <1>3

LEMMA NextGood == IInv /\ [Next]_vars => IInv'
<1> SUFFICES ASSUME IInv, [Next]_vars PROVE IInv'
  OBVIOUS
<1>1. CASE Tick
  BY <1>1, TickGood
<1>2. CASE Cleanup
  <2>1. Good(store', issued, requests)
    BY <1>2, SweepKeepsGood DEF Cleanup, IInv
  <2> QED
    BY <1>2, <2>1, StepReduces DEF Cleanup, IInv
<1>3. CASE Begin \/ Handle \/ End \/ Stop
  BY <1>3, BeginGood, HandleGood, EndGood, StopGood
<1>4. CASE UNCHANGED vars
  <2>1. Good(store', issued', requests')
    BY <1>4 DEF vars, IInv
  <2> QED
    BY <1>4, <2>1, StepReduces DEF vars, IInv
<1> QED
  BY <1>1, <1>2, <1>3, <1>4 DEF Next

LEMMA Invariance == Spec => []IInv
BY InitGood, NextGood, PTL DEF Spec

-----------------------------------------------------------------------------
\* Every table, request and setting keeps its type, whatever the constants.
THEOREM TypeCorrect == Spec => []TypeOK
<1>1. IInv => TypeOK
  BY DEF IInv, Good, StoreGood, TypeOK
<1> QED
  BY Invariance, <1>1, PTL

\* A revoked identifier never serves a usable session again, however long the
\* requests in flight at the revocation run and wherever the process crashes.
THEOREM RevocationIsFinal == Spec => []NoResurrection
<1>1. IInv => NoResurrection
  <2> SUFFICES ASSUME IInv, NEW s \in store.ended, Live(store, s),
                      Usable(store.rows[s].sess)
               PROVE  FALSE
    BY DEF NoResurrection
  <2>1. Good(store, issued, requests) /\ s \in Sid
    BY DEF IInv, Good, StoreGood
  <2> QED
    BY <2>1, LiveIsNotEnded
<1> QED
  BY Invariance, <1>1, PTL
-----------------------------------------------------------------------------
(* What is known under an identifier: the stored row, and the copies of the  *)
(* requests that work under it.  A step changes it in two ways only: content *)
(* that was known before is kept (its right perhaps taken away), and a       *)
(* sign-in or a rotation puts one content under an identifier never used     *)
(* before.  The second invariant, CInv, speaks of all that is known; one     *)
(* lemma per group of actions says which of the two a step is.               *)

Known(st, reqs, s, c) ==
  \/ s \in Sid /\ HasRow(st, s) /\ st.rows[s].sess = c
  \/ \E r \in Request : reqs[r] # NoRequest /\ reqs[r].sid = s /\ reqs[r].sess = c

\* What becomes of content d: itself, or content without a right and with the
\* same user or none.
Derived(c, d) == c.user \in {d.user, NoUser} /\ (Usable(c) => c = d)

Follows(s, c) ==
  \/ c = Anonymous
  \/ \E d : Known(store, requests, s, d) /\ Derived(c, d)

\* New content dates from a login of this moment or is a copy of known content;
\* its user was known already, or may sign in.
Allowed(c) ==
  \/ \E t : Known(store, requests, t, c)
  \/ /\ c.createdAt \in Nat /\ c.loginAt = c.createdAt
     /\ ~Blocked(c.user) \/ \E t, d : Known(store, requests, t, d) /\ d.user = c.user

KeepsContents ==
  \A s, c : Known(store', requests', s, c) => Follows(s, c)

AddsContent(f, c0) ==
  /\ f \in Sid \ issued
  /\ Allowed(c0)
  /\ \A s, c : Known(store', requests', s, c) => Follows(s, c) \/ (s = f /\ c = c0)

Traced == KeepsContents \/ \E f, c0 : AddsContent(f, c0)

OneLogin ==
  \A s \in Sid : \A c, d :
    /\ Known(store, requests, s, c) /\ Usable(c)
    /\ Known(store, requests, s, d) /\ Usable(d)
    => c.user = d.user /\ c.loginAt = d.loginAt

Dated ==
  \A s, c : Known(store, requests, s, c) /\ Usable(c) => c.createdAt <= c.loginAt

AdminFree ==
  adminDisabled => \A s, c : Known(store, requests, s, c) => c.user \notin Admin

CInv == OneLogin /\ Dated /\ AdminFree

\* Tables st2 hold nothing that tables st do not.
Shrinks(st2, st) ==
  \A t \in Sid : HasRow(st2, t) => HasRow(st, t) /\ st2.rows[t].sess = st.rows[t].sess

\* The same but for identifier s, under which there is content c or nothing.
Writes(st2, st, s, c) ==
  \A t \in Sid : HasRow(st2, t) =>
    IF t = s THEN st2.rows[t].sess = c
             ELSE HasRow(st, t) /\ st2.rows[t].sess = st.rows[t].sess

LEMMA RevokeShrinks ==
  ASSUME NEW st, NEW S, NEW expiry
  PROVE  Shrinks(Revoke(st, S, expiry), st)
BY DEF Shrinks, Revoke, HasRow

LEMMA DropShrinks ==
  ASSUME NEW st \in Store, NEW S
  PROVE  Shrinks(DropRows(st, S), st)
BY DEF Shrinks, DropRows, HasRow, Store

LEMMA DestroyShrinks ==
  ASSUME NEW st, NEW s
  PROVE  Shrinks(StoreDestroy(st, s), st)
BY RevokeShrinks DEF Shrinks, StoreDestroy

LEMMA TouchShrinks ==
  ASSUME NEW st \in Store, NEW s \in Sid, NEW c
  PROVE  Shrinks(StoreTouch(st, s, c), st)
<1>1. CASE PastAbsolute(c)
  BY <1>1, RevokeShrinks DEF StoreTouch
<1>2. CASE ~PastAbsolute(c) /\ (Tombstoned(st, s) \/ ~HasRow(st, s))
  BY <1>2, DropShrinks DEF StoreTouch
<1>3. CASE ~PastAbsolute(c) /\ ~Tombstoned(st, s) /\ HasRow(st, s)
  BY <1>3 DEF StoreTouch, Shrinks, HasRow, Store
<1> QED BY <1>1, <1>2, <1>3

LEMMA GetShrinks ==
  ASSUME NEW st \in Store, NEW s \in Sid
  PROVE  Shrinks(StoreGet(st, s), st)
BY DEF StoreGet, Shrinks, HasRow, Store

LEMMA SweepShrinks ==
  ASSUME NEW st
  PROVE  Shrinks(Sweep(st), st)
BY DEF Sweep, Shrinks, HasRow

LEMMA PurgeShrinks ==
  ASSUME NEW st \in Store, NEW u, NEW except
  PROVE  Shrinks(Purge(st, u, except), st)
BY DropShrinks, RevokeShrinks DEF Purge, Shrinks

LEMMA PruneShrinks ==
  ASSUME NEW st \in Store, NEW u, NEW keep
  PROVE  Shrinks(Prune(st, u, keep), st)
BY DropShrinks, RevokeShrinks DEF Prune, Shrinks

LEMMA SetWrites ==
  ASSUME NEW st \in Store, NEW s \in Sid, NEW c
  PROVE  Writes(StoreSet(st, s, c), st, s, c)
<1>1. CASE PastAbsolute(c)
  BY <1>1 DEF StoreSet, Revoke, Writes, HasRow
<1>2. CASE ~PastAbsolute(c) /\ Tombstoned(st, s)
  BY <1>2 DEF StoreSet, DropRows, Writes, HasRow, Store
<1>3. CASE ~PastAbsolute(c) /\ ~Tombstoned(st, s)
  BY <1>3 DEF StoreSet, Writes, HasRow, Store
<1> QED BY <1>1, <1>2, <1>3

LEMMA RenewWrites ==
  ASSUME NEW st, NEW ids, NEW reqs, Good(st, ids, reqs), NEW old \in ids \cup {NoSid},
         NEW f \in Sid, NEW c
  PROVE  Writes(Renew(st, old, f, c), st, f, c)
<1>1. StoreDestroy(st, old) \in Store
  BY DestroyKeepsGood DEF Good, StoreGood
<1> QED
  BY <1>1, DestroyShrinks, SetWrites DEF Renew, Writes, Shrinks

-----------------------------------------------------------------------------
\* A step that adds no row and gives no request new content.
LEMMA Keeping ==
  ASSUME Shrinks(store', store),
         \A r \in Request : requests'[r] # NoRequest =>
           Follows(requests'[r].sid, requests'[r].sess)
  PROVE  KeepsContents
<1> SUFFICES ASSUME NEW s, NEW c, Known(store', requests', s, c) PROVE Follows(s, c)
  BY DEF KeepsContents
<1>1. CASE s \in Sid /\ HasRow(store', s) /\ store'.rows[s].sess = c
  <2>1. Known(store, requests, s, c)
    BY <1>1 DEF Shrinks, Known
  <2> QED
    BY <2>1 DEF Follows, Derived
<1>2. CASE ~(s \in Sid /\ HasRow(store', s) /\ store'.rows[s].sess = c)
  BY <1>2 DEF Known
<1> QED BY <1>1, <1>2

\* The copies of the requests in flight follow from themselves.
LEMMA CopyFollows ==
  ASSUME NEW r \in Request, Active(r)
  PROVE  /\ Known(store, requests, requests[r].sid, requests[r].sess)
         /\ Follows(requests[r].sid, requests[r].sess)
BY DEF Known, Follows, Derived, Active

\* A rotation: the tables gain content c under the fresh f, as does request r.
LEMMA Rotating ==
  ASSUME IInv, NEW st, Shrinks(st, store), NEW r \in Request, Active(r),
         NEW f \in Sid \ issued, NEW c, Allowed(c), GoOn(r, f, c),
         Writes(store', st, f, c)
  PROVE  AddsContent(f, c)
<1> SUFFICES ASSUME NEW s, NEW d, Known(store', requests', s, d)
             PROVE  Follows(s, d) \/ (s = f /\ d = c)
  BY DEF AddsContent
<1>1. /\ requests \in [Request -> InFlight \cup {NoRequest}]
      /\ requests[r] \in InFlight
  BY ActiveFacts DEF IInv, Good
<1>2. /\ requests'[r].sid = f /\ requests'[r].sess = c
      /\ \A q \in Request \ {r} : requests'[q] = requests[q]
  BY <1>1 DEF GoOn, InFlight
<1>3. CASE s \in Sid /\ HasRow(store', s) /\ store'.rows[s].sess = d
  <2>1. CASE s = f
    BY <1>3, <2>1 DEF Writes
  <2>2. CASE s # f
    <3>1. Known(store, requests, s, d)
      BY <1>3, <2>2 DEF Writes, Shrinks, Known
    <3> QED
      BY <3>1 DEF Follows, Derived
  <2> QED BY <2>1, <2>2
<1>4. CASE \E q \in Request :
             requests'[q] # NoRequest /\ requests'[q].sid = s /\ requests'[q].sess = d
  <2>1. PICK q \in Request :
          requests'[q] # NoRequest /\ requests'[q].sid = s /\ requests'[q].sess = d
    BY <1>4
  <2>2. CASE q = r
    BY <1>2, <2>1, <2>2
  <2>3. CASE q # r
    BY <1>2, <2>1, <2>3, CopyFollows DEF Active
  <2> QED BY <2>2, <2>3
<1> QED BY <1>3, <1>4 DEF Known

LEMMA EnterTraced ==
  ASSUME IInv, Shrinks(store', store), NEW r \in Request, NEW s, NEW c, NEW login,
         Enter(r, s, c, login), Follows(s, c)
  PROVE  KeepsContents
<1>1. requests \in [Request -> InFlight \cup {NoRequest}]
  BY DEF IInv, Good
<1>2. \A q \in Request : requests'[q] # NoRequest =>
        Follows(requests'[q].sid, requests'[q].sess)
  BY <1>1, CopyFollows DEF Enter, Active
<1> QED
  BY <1>2, Keeping

LEMMA BeginTraced == IInv /\ Begin => KeepsContents
<1> SUFFICES ASSUME IInv, NEW r \in Request, NEW login \in Targets,
                    \/ BeginWithoutCookie(r, login)
                    \/ \E s \in issued : \/ BeginRefused(r, s, login)
                                         \/ BeginExpired(r, s, login)
                                         \/ BeginBlocked(r, s)
                                         \/ BeginAdmitted(r, s, login)
             PROVE  KeepsContents
  BY DEF Begin
<1>0. store \in Store /\ issued \subseteq Sid
  BY DEF IInv, Good, StoreGood
<1>1. Follows(NoSid, Anonymous)
  BY DEF Follows
<1>2. CASE BeginWithoutCookie(r, login)
  <2>1. Shrinks(store', store)
    BY <1>2 DEF BeginWithoutCookie, Shrinks
  <2> QED
    BY <1>1, <1>2, <2>1, EnterTraced DEF BeginWithoutCookie
<1>3. ASSUME NEW s \in issued, BeginRefused(r, s, login) PROVE KeepsContents
  <2>1. Shrinks(store', store)
    BY <1>0, <1>3, GetShrinks DEF BeginRefused
  <2> QED
    BY <1>1, <1>3, <2>1, EnterTraced DEF BeginRefused
<1>4. ASSUME NEW s \in issued,
             store' = StoreDestroy(StoreGet(store, s), s)
      PROVE  Shrinks(store', store)
  BY <1>0, <1>4, GetShrinks, DestroyShrinks DEF Shrinks
<1>5. ASSUME NEW s \in issued, BeginExpired(r, s, login) PROVE KeepsContents
  BY <1>1, <1>4, <1>5, EnterTraced DEF BeginExpired
<1>6. ASSUME NEW s \in issued, BeginBlocked(r, s) PROVE KeepsContents
  <2>1. Shrinks(store', store) /\ requests' = requests
    BY <1>4, <1>6 DEF BeginBlocked
  <2> QED
    BY <2>1, Keeping, CopyFollows DEF Active
<1>7. ASSUME NEW s \in issued, BeginAdmitted(r, s, login) PROVE KeepsContents
  <2> DEFINE c == store.rows[s].sess
  <2>1. Shrinks(store', store)
    BY <1>0, <1>7, GetShrinks DEF BeginAdmitted
  <2>2. Known(store, requests, s, c) /\ c \in Session
    BY <1>0, <1>7 DEF BeginAdmitted, Live, Known, HasRow, Store, Row
  <2>3. Derived(Admitted(c), c)
    BY <2>2 DEF Derived, Admitted, Session, Usable
  <2>4. Follows(s, Admitted(c))
    BY <2>2, <2>3 DEF Follows
  <2> QED
    BY <1>7, <2>1, <2>4, EnterTraced DEF BeginAdmitted
<1> QED BY <1>2, <1>3, <1>5, <1>6, <1>7

LEMMA SaveLimitedTraced ==
  ASSUME IInv, NEW r \in Request, Active(r), NEW f \in Sid \ issued, NEW c \in Session,
         Sound(c), Allowed(c), SaveLimited(r, f, c)
  PROVE  AddsContent(f, c)
<1> DEFINE saved == Renew(store, requests[r].sid, f, c)
<1>0. Good(store, issued, requests) /\ requests[r].sid \in issued \cup {NoSid}
  BY ActiveFacts DEF IInv
<1>1. Writes(saved, store, f, c)
  BY <1>0, RenewWrites
<1>2. saved \in Store
  <2>1. Good(store, issued \cup {f}, requests) /\ f \notin store.ended
    BY <1>0 DEF Good, StoreGood, HeldGood
  <2>2. f # requests[r].sid
    BY <1>0, NullAssumption DEF NullAssumption
  <2>3. requests[r].sid \in issued \cup {f} \cup {NoSid}
    BY <1>0
  <2>4. Good(saved, issued \cup {f}, requests)
    BY <2>1, <2>2, <2>3, RenewKeepsGood
  <2> QED
    BY <2>4 DEF Good, StoreGood
<1> HIDE DEF saved
<1>3. PICK keep : store' = Prune(saved, c.user, keep)
  BY DEF SaveLimited, saved
<1>4. Writes(store', store, f, c)
  BY <1>1, <1>2, <1>3, PruneShrinks DEF Writes, Shrinks
<1>5. Shrinks(store, store)
  BY DEF Shrinks
<1> QED
  BY <1>4, <1>5, Rotating DEF SaveLimited

\* A handler step that leaves the copies of the requests as they are.
LEMMA DoneTraced ==
  ASSUME IInv, Shrinks(store', store), NEW r \in Request, Active(r), Done(r)
  PROVE  KeepsContents
<1>1. /\ requests \in [Request -> InFlight \cup {NoRequest}]
      /\ requests[r] \in InFlight
  BY ActiveFacts DEF IInv, Good
<1>2. \A q \in Request : requests'[q] # NoRequest =>
        /\ Active(q)
        /\ requests'[q].sid = requests[q].sid /\ requests'[q].sess = requests[q].sess
  BY <1>1 DEF Done, InFlight, Active
<1> QED
  BY <1>2, Keeping, CopyFollows

LEMMA LeaveTraced ==
  ASSUME IInv, Shrinks(store', store), NEW r \in Request, Leave(r)
  PROVE  KeepsContents
<1>1. \A q \in Request : requests'[q] # NoRequest => Active(q) /\ requests'[q] = requests[q]
  BY DEF Leave, IInv, Good, Active
<1> QED
  BY <1>1, Keeping, CopyFollows

LEMMA HandleTraced == IInv /\ Handle => Traced
<1> SUFFICES ASSUME IInv, NEW r \in Request,
                    \/ \E f \in Sid, mfa \in BOOLEAN : Login(r, f, mfa)
                    \/ \E f \in Sid :
                         CompleteMfa(r, f) \/ Reauthenticate(r, f) \/ ChangePassword(r, f)
                    \/ \E cleared \in BOOLEAN : Demote(r, cleared)
                    \/ RevokeOthers(r)
                    \/ Logout(r)
                    \/ \E u \in User : DeleteAccount(r, u)
             PROVE  Traced
  BY DEF Handle
<1>0. /\ Good(store, issued, requests) /\ store \in Store
      /\ now \in Nat \ {0} /\ accounts \subseteq User
  BY DEF IInv, Good, StoreGood
<1>00. Active(r) => /\ requests[r] \in InFlight /\ requests[r].sess \in Session
                    /\ Sound(requests[r].sess)
                    /\ Known(store, requests, requests[r].sid, requests[r].sess)
                    /\ requests[r].sid \in issued \cup {NoSid}
  BY ActiveFacts, CopyFollows
<1>1. ASSUME NEW f \in Sid, NEW mfa \in BOOLEAN, Login(r, f, mfa) PROVE Traced
  <2> DEFINE c == [kind |-> IF mfa THEN "pending" ELSE "authenticated",
                   user |-> requests[r].login, createdAt |-> now,
                   loginAt |-> now]
  <2>1. /\ Active(r) /\ f \in Sid \ issued /\ SaveLimited(r, f, c)
        /\ ~Blocked(requests[r].login) /\ requests[r].login # NoUser
    BY <1>1 DEF Login, Handling
  <2>2. c \in Session /\ Sound(c)
    BY <1>0, <1>00, <2>1 DEF InFlight, Session, Kind, Sound, Usable
  <2>3. Allowed(c)
    BY <1>0, <2>1 DEF Allowed
  <2> HIDE DEF c
  <2> QED
    BY <2>1, <2>2, <2>3, SaveLimitedTraced DEF Traced
<1>2. ASSUME NEW f \in Sid, CompleteMfa(r, f) PROVE Traced
  <2> DEFINE c == [kind |-> "authenticated", user |-> requests[r].sess.user,
                   createdAt |-> now, loginAt |-> now]
  <2>1. /\ Active(r) /\ f \in Sid \ issued /\ SaveLimited(r, f, c)
        /\ ~Blocked(requests[r].sess.user) /\ requests[r].sess.kind = "pending"
    BY <1>2 DEF CompleteMfa, Handling
  <2>2. c \in Session /\ Sound(c)
    BY <1>0, <1>00, <2>1 DEF Session, Kind, Sound, Usable
  <2>3. Allowed(c)
    BY <1>0, <2>1 DEF Allowed
  <2> HIDE DEF c
  <2> QED
    BY <2>1, <2>2, <2>3, SaveLimitedTraced DEF Traced
<1>3. ASSUME NEW f \in Sid, Reauthenticate(r, f) PROVE Traced
  <2> DEFINE c == requests[r].sess
  <2>1. /\ Active(r) /\ f \in Sid \ issued /\ GoOn(r, f, c)
        /\ store' = Renew(store, requests[r].sid, f, c)
    BY <1>3 DEF Reauthenticate, Signed, Handling
  <2>2. Allowed(c)
    BY <1>00, <2>1 DEF Allowed
  <2>3. Writes(store', store, f, c) /\ Shrinks(store, store)
    BY <1>0, <1>00, <2>1, RenewWrites DEF Shrinks
  <2> HIDE DEF c
  <2> QED
    BY <2>1, <2>2, <2>3, Rotating DEF Traced
<1>4. ASSUME NEW f \in Sid, ChangePassword(r, f) PROVE Traced
  <2> DEFINE u  == requests[r].sess.user
             c  == [kind |-> "authenticated", user |-> u, createdAt |-> now,
                    loginAt |-> now]
             st == Purge(store, u, requests[r].sid)
  <2>1. /\ Active(r) /\ f \in Sid \ issued /\ GoOn(r, f, c)
        /\ store' = Renew(st, requests[r].sid, f, c)
    BY <1>4 DEF ChangePassword, Signed, Handling
  <2>2. Allowed(c)
    BY <1>0, <1>00, <2>1 DEF Allowed
  <2>3. Good(st, issued, requests) /\ Shrinks(st, store)
    BY <1>0, PurgeKeepsGood, PurgeShrinks
  <2>4. Writes(store', st, f, c)
    BY <1>00, <2>1, <2>3, RenewWrites
  <2> HIDE DEF c, st
  <2> QED
    BY <2>1, <2>2, <2>3, <2>4, Rotating DEF Traced
<1>5. ASSUME NEW cleared \in BOOLEAN, Demote(r, cleared) PROVE Traced
  <2>1. /\ Active(r) /\ requests[r].sess.user # NoUser /\ store' = store
        /\ requests' = [requests EXCEPT
             ![r].sess.kind = "flow",
             ![r].sess.createdAt = IF cleared THEN now ELSE @,
             ![r].done = TRUE]
    BY <1>5 DEF Demote, Handling
  <2>2. /\ requests'[r].sid = requests[r].sid
        /\ requests'[r].sess.kind = "flow"
        /\ requests'[r].sess.user = requests[r].sess.user
        /\ \A q \in Request \ {r} : requests'[q] = requests[q]
    BY <1>0, <1>00, <2>1 DEF Good, InFlight, Session
  <2>3. Follows(requests'[r].sid, requests'[r].sess)
    BY <1>00, <2>1, <2>2 DEF Follows, Derived, Usable
  <2>4. \A q \in Request : requests'[q] # NoRequest =>
          Follows(requests'[q].sid, requests'[q].sess)
    BY <2>2, <2>3, CopyFollows DEF Active
  <2>5. Shrinks(store', store)
    BY <2>1 DEF Shrinks
  <2> QED
    BY <2>4, <2>5, Keeping DEF Traced
<1>6. CASE RevokeOthers(r)
  BY <1>0, <1>6, PurgeShrinks, DoneTraced DEF RevokeOthers, Signed, Handling, Traced
<1>7. CASE Logout(r)
  BY <1>7, DestroyShrinks, LeaveTraced DEF Logout, Leave, Traced
<1>8. ASSUME NEW u \in User, DeleteAccount(r, u) PROVE Traced
  BY <1>0, <1>8, PurgeShrinks, DoneTraced DEF DeleteAccount, Signed, Handling, Traced
<1> QED BY <1>1, <1>2, <1>3, <1>4, <1>5, <1>6, <1>7, <1>8

LEMMA EndTraced == IInv /\ End => Traced
<1> SUFFICES ASSUME IInv, NEW r \in Request,
                    \/ EndSave(r) \/ EndTouch(r) \/ EndUnsaved(r)
                    \/ \E f \in Sid : EndNew(r, f)
             PROVE  Traced
  BY DEF End
<1>0. /\ store \in Store /\ issued \subseteq Sid
      /\ requests \in [Request -> InFlight \cup {NoRequest}]
  BY DEF IInv, Good, StoreGood
<1>00. Active(r) => /\ requests[r].sid \in issued \cup {NoSid}
                    /\ Known(store, requests, requests[r].sid, requests[r].sess)
                    /\ Follows(requests[r].sid, requests[r].sess)
  BY ActiveFacts, CopyFollows
<1>1. Leave(r) => \A q \in Request : requests'[q] # NoRequest =>
                    Active(q) /\ requests'[q] = requests[q]
  BY <1>0 DEF Leave, Active
<1>2. CASE EndSave(r)
  <2>1. /\ Active(r) /\ requests[r].sid \in Sid /\ Leave(r)
        /\ store' = StoreSet(store, requests[r].sid, requests[r].sess)
    BY <1>0, <1>00, <1>2 DEF EndSave
  <2>2. Writes(store', store, requests[r].sid, requests[r].sess)
    BY <1>0, <2>1, SetWrites
  <2>3. ASSUME NEW s, NEW c, Known(store', requests', s, c) PROVE Follows(s, c)
    <3>1. CASE s \in Sid /\ HasRow(store', s) /\ store'.rows[s].sess = c
      <4>1. CASE s = requests[r].sid
        BY <1>00, <2>1, <2>2, <3>1, <4>1 DEF Writes
      <4>2. CASE s # requests[r].sid
        <5>1. Known(store, requests, s, c)
          BY <2>2, <3>1, <4>2 DEF Writes, Known
        <5> QED
          BY <5>1 DEF Follows, Derived
      <4> QED BY <4>1, <4>2
    <3>2. CASE ~(s \in Sid /\ HasRow(store', s) /\ store'.rows[s].sess = c)
      BY <1>1, <2>1, <2>3, <3>2, CopyFollows DEF Known
    <3> QED BY <3>1, <3>2
  <2> QED
    BY <2>3 DEF Traced, KeepsContents
<1>3. CASE EndTouch(r)
  BY <1>0, <1>00, <1>3, TouchShrinks, LeaveTraced DEF EndTouch, Traced
<1>4. CASE EndUnsaved(r)
  <2>1. Shrinks(store', store) /\ Leave(r)
    BY <1>4 DEF EndUnsaved, Shrinks
  <2> QED
    BY <2>1, LeaveTraced DEF Traced
<1>5. ASSUME NEW f \in Sid, EndNew(r, f) PROVE Traced
  <2> DEFINE c0 == requests[r].sess
  <2>1. /\ Active(r) /\ f \in Sid \ issued /\ Leave(r)
        /\ store' = StoreSet(store, f, c0)
    BY <1>5 DEF EndNew
  <2>2. Writes(store', store, f, c0)
    BY <1>0, <2>1, SetWrites
  <2>3. Allowed(c0)
    BY <1>00, <2>1 DEF Allowed
  <2> HIDE DEF c0
  <2>4. ASSUME NEW s, NEW c, Known(store', requests', s, c)
        PROVE  Follows(s, c) \/ (s = f /\ c = c0)
    <3>1. CASE s \in Sid /\ HasRow(store', s) /\ store'.rows[s].sess = c
      <4>1. CASE s = f
        BY <2>2, <3>1, <4>1 DEF Writes
      <4>2. CASE s # f
        <5>1. Known(store, requests, s, c)
          BY <2>2, <3>1, <4>2 DEF Writes, Known
        <5> QED
          BY <5>1 DEF Follows, Derived
      <4> QED BY <4>1, <4>2
    <3>2. CASE ~(s \in Sid /\ HasRow(store', s) /\ store'.rows[s].sess = c)
      BY <1>1, <2>1, <2>4, <3>2, CopyFollows DEF Known
    <3> QED BY <3>1, <3>2
  <2> QED
    BY <2>1, <2>3, <2>4 DEF Traced, AddsContent
<1> QED BY <1>2, <1>3, <1>4, <1>5

\* Whatever the process was doing when it stopped: every request is gone and the
\* tables have lost rows only.
LEMMA StartTraced ==
  ASSUME NEW st, Shrinks(st, store), NEW disabled, StartWith(st, disabled)
  PROVE  /\ KeepsContents
         /\ \A s, c : Known(store', requests', s, c) =>
              /\ Known(store, requests, s, c)
              /\ disabled => c.user \notin Admin
<1>1. Shrinks(store', st)
  BY RevokeShrinks DEF StartWith, Shrinks
<1>2. ASSUME NEW s \in Sid, HasRow(store', s), disabled
      PROVE  store'.rows[s].sess.user \notin Admin
  BY <1>1, <1>2 DEF StartWith, Revoke, AdminSids, HasRow, Shrinks
<1>3. ASSUME NEW s, NEW c, Known(store', requests', s, c)
      PROVE  Known(store, requests, s, c) /\ (disabled => c.user \notin Admin)
  <2>1. s \in Sid /\ HasRow(store', s) /\ store'.rows[s].sess = c
    BY <1>3 DEF Known, StartWith
  <2> QED
    BY <1>1, <1>2, <2>1 DEF Known, Shrinks
<1> QED
  BY <1>3 DEF KeepsContents, Follows, Derived

LEMMA StopTraced ==
  ASSUME Stop
  PROVE  /\ KeepsContents
         /\ \A s, c : Known(store', requests', s, c) =>
              Known(store, requests, s, c) /\ (adminDisabled' => c.user \notin Admin)
<1> SUFFICES ASSUME NEW disabled \in BOOLEAN, NEW st,
                    Shrinks(st, store), StartWith(st, disabled)
             PROVE  /\ KeepsContents
                    /\ \A s, c : Known(store', requests', s, c) =>
                         /\ Known(store, requests, s, c)
                         /\ adminDisabled' => c.user \notin Admin
  <2>1. Shrinks(store, store)
    BY DEF Shrinks
  <2>2. \A s : Shrinks(TombstoneOnly(store, s), store)
    BY DEF Shrinks, TombstoneOnly, Revoke, HasRow
  <2>3. \A ended : Shrinks(Revoke(store, ended, StoredExpiry(store)), store)
    BY RevokeShrinks
  <2> QED
    BY <2>1, <2>2, <2>3 DEF Stop, Restart, CrashInRevocation, CrashInPurge
<1> QED
  BY StartTraced DEF StartWith

\* A fresh identifier is fresh: nothing is known under it yet.
LEMMA FreshIsUnknown ==
  ASSUME IInv, NEW f \in Sid \ issued, NEW c
  PROVE  ~Known(store, requests, f, c)
BY NullAssumption DEF Known, IInv, Good, StoreGood, HeldGood, NullAssumption

\* What is usable after a step was known before, or is the one new content.
LEMMA UsableFollows ==
  ASSUME NEW s, NEW c, Follows(s, c), Usable(c)
  PROVE  Known(store, requests, s, c)
BY DEF Follows, Derived, Usable, Anonymous

\* A step of either kind keeps CInv while the switch for administrators stays.
LEMMA TracedKeepsCInv ==
  ASSUME IInv, CInv, Traced, adminDisabled' = adminDisabled
  PROVE  CInv'
<1>1. OneLogin'
  <2> SUFFICES ASSUME NEW s \in Sid, NEW c, NEW d,
                      Known(store', requests', s, c), Usable(c),
                      Known(store', requests', s, d), Usable(d)
               PROVE  c.user = d.user /\ c.loginAt = d.loginAt
    BY DEF OneLogin, Known, HasRow, Usable
  <2>1. CASE KeepsContents
    BY <2>1, UsableFollows DEF KeepsContents, CInv, OneLogin
  <2>2. ASSUME NEW f, NEW c0, AddsContent(f, c0)
        PROVE  c.user = d.user /\ c.loginAt = d.loginAt
    <3>1. CASE s = f
      BY <2>2, <3>1, UsableFollows, FreshIsUnknown DEF AddsContent
    <3>2. CASE s # f
      BY <2>2, <3>2, UsableFollows DEF AddsContent, CInv, OneLogin
    <3> QED BY <3>1, <3>2
  <2> QED BY <2>1, <2>2 DEF Traced
<1>2. Dated'
  <2> SUFFICES ASSUME NEW s, NEW c, Known(store', requests', s, c), Usable(c)
               PROVE  c.createdAt <= c.loginAt
    BY DEF Dated, Known, HasRow, Usable
  <2>1. CASE KeepsContents
    BY <2>1, UsableFollows DEF KeepsContents, CInv, Dated
  <2>2. ASSUME NEW f, NEW c0, AddsContent(f, c0) PROVE c.createdAt <= c.loginAt
    <3>1. CASE Follows(s, c)
      BY <3>1, UsableFollows DEF CInv, Dated
    <3>2. CASE c = c0
      BY <2>2, <3>2 DEF AddsContent, Allowed, CInv, Dated
    <3> QED BY <2>2, <3>1, <3>2 DEF AddsContent
  <2> QED BY <2>1, <2>2 DEF Traced
<1>3. AdminFree'
  <2> SUFFICES ASSUME adminDisabled, NEW s, NEW c, Known(store', requests', s, c)
               PROVE  c.user \notin Admin
    BY DEF AdminFree, Known, HasRow
  <2>1. Follows(s, c) => c.user \notin Admin
    BY UserAssumption, NullAssumption
    DEF Follows, Derived, Anonymous, CInv, AdminFree, UserAssumption, NullAssumption
  <2>2. CASE KeepsContents
    BY <2>1, <2>2 DEF KeepsContents
  <2>3. ASSUME NEW f, NEW c0, AddsContent(f, c0) PROVE c.user \notin Admin
    BY <2>1, <2>3 DEF AddsContent, Allowed, Blocked, CInv, AdminFree
  <2> QED BY <2>2, <2>3 DEF Traced
<1> QED BY <1>1, <1>2, <1>3 DEF CInv

LEMMA InitCInv == Init => CInv
BY DEF Init, CInv, OneLogin, Dated, AdminFree, Known, HasRow

LEMMA NextCInv == IInv /\ CInv /\ [Next]_vars => CInv'
<1> SUFFICES ASSUME IInv, CInv, [Next]_vars PROVE CInv'
  OBVIOUS
<1>1. CASE Cleanup
  <2>1. Shrinks(store', store) /\ requests' = requests /\ adminDisabled' = adminDisabled
    BY <1>1, SweepShrinks DEF Cleanup
  <2>2. KeepsContents
    BY <2>1, Keeping, CopyFollows DEF Active
  <2> QED
    BY <2>1, <2>2, TracedKeepsCInv DEF Traced
<1>2. CASE Begin
  <2>1. adminDisabled' = adminDisabled
    BY <1>2 DEF Begin, BeginWithoutCookie, BeginRefused, BeginExpired, BeginBlocked,
                BeginAdmitted
  <2> QED
    BY <1>2, <2>1, BeginTraced, TracedKeepsCInv DEF Traced
<1>3. CASE Handle
  <2>1. adminDisabled' = adminDisabled
    BY <1>3 DEF Handle, Login, CompleteMfa, Reauthenticate, ChangePassword, Demote,
                RevokeOthers, Logout, DeleteAccount
  <2> QED
    BY <1>3, <2>1, HandleTraced, TracedKeepsCInv
<1>4. CASE End
  <2>1. adminDisabled' = adminDisabled
    BY <1>4 DEF End, EndSave, EndTouch, EndUnsaved, EndNew
  <2> QED
    BY <1>4, <2>1, EndTraced, TracedKeepsCInv
<1>5. CASE Stop
  <2>1. \A s, c : Known(store', requests', s, c) =>
          Known(store, requests, s, c) /\ (adminDisabled' => c.user \notin Admin)
    BY <1>5, StopTraced
  <2>2. \A s, c : Known(store, requests, s, c)' <=> Known(store', requests', s, c)
    BY DEF Known, HasRow
  <2> QED
    BY <2>1, <2>2 DEF CInv, OneLogin, Dated, AdminFree, Usable
<1>6. CASE Tick \/ UNCHANGED vars
  <2>1. store' = store /\ requests' = requests /\ adminDisabled' = adminDisabled
    BY <1>6 DEF Tick, vars
  <2> QED
    BY <2>1 DEF CInv, OneLogin, Dated, AdminFree, Known, HasRow, Usable
<1> QED BY <1>1, <1>2, <1>3, <1>4, <1>5, <1>6 DEF Next

LEMMA ContentsInvariance == Spec => [](IInv /\ CInv)
<1>1. Init => IInv /\ CInv
  BY InitGood, InitCInv
<1>2. IInv /\ CInv /\ [Next]_vars => IInv' /\ CInv'
  BY NextGood, NextCInv
<1> QED BY <1>1, <1>2, PTL DEF Spec

\* All that is known under one identifier belongs to one login, whatever the
\* interleaving of sign-ins, rotations, writes at the end and crashes.
THEOREM OneLoginPerIdentifier == Spec => []SidNamesOneLogin
<1>1. CInv => SidNamesOneLogin
  BY DEF CInv, OneLogin, SidNamesOneLogin, Known, Active
<1> QED
  BY ContentsInvariance, <1>1, PTL

\* While administrator access is disabled the table holds no administrator's
\* session, also after a crash in a revocation and with requests in flight.
THEOREM AdministratorsStayOut == Spec => []NoAdministratorSession
<1>1. CInv => NoAdministratorSession
  BY DEF CInv, AdminFree, NoAdministratorSession, Known
<1> QED
  BY ContentsInvariance, <1>1, PTL

\* No request enters with a right later than AbsoluteTtl after the login behind
\* it: rotations copy the time of the login, and nothing copies a later one.
THEOREM LifetimeIsAbsolute == Spec => AbsoluteLifetime
<1> DEFINE Entry ==
      \A r \in Request :
        /\ requests[r] = NoRequest /\ requests'[r] # NoRequest
        /\ Usable(requests'[r].sess)
        => now - requests'[r].sess.loginAt <= AbsoluteTtl
<1>1. ASSUME IInv, CInv, Next, NEW r \in Request, requests[r] = NoRequest,
             requests'[r] # NoRequest, Usable(requests'[r].sess)
      PROVE  now - requests'[r].sess.loginAt <= AbsoluteTtl
  <2> DEFINE c == requests'[r].sess
  <2>1. PICK s \in issued, login \in Targets : BeginAdmitted(r, s, login)
    <3>0. requests \in [Request -> InFlight \cup {NoRequest}]
      BY <1>1 DEF IInv, Good
    <3>6. ~Usable(Anonymous)
      BY DEF Usable, Anonymous
    <3>1. CASE Begin
      <4>1. PICK q \in Request, login \in Targets :
              \/ BeginWithoutCookie(q, login)
              \/ \E s \in issued : \/ BeginRefused(q, s, login)
                                   \/ BeginExpired(q, s, login)
                                   \/ BeginBlocked(q, s)
                                   \/ BeginAdmitted(q, s, login)
        BY <3>1 DEF Begin
      <4>2. q = r
        BY <1>1, <3>0, <4>1 DEF BeginWithoutCookie, BeginRefused, BeginExpired,
                                BeginBlocked, BeginAdmitted, Enter
      <4>3. ~BeginWithoutCookie(r, login)
        BY <1>1, <3>0, <3>6 DEF BeginWithoutCookie, Enter
      <4>4. \A s \in issued : ~BeginRefused(r, s, login) /\ ~BeginExpired(r, s, login)
        BY <1>1, <3>0, <3>6 DEF BeginRefused, BeginExpired, Enter
      <4>5. \A s \in issued : ~BeginBlocked(r, s)
        BY <1>1 DEF BeginBlocked
      <4> QED BY <4>1, <4>2, <4>3, <4>4, <4>5
    <3>2. CASE Tick \/ Cleanup
      BY <1>1, <3>2 DEF Tick, Cleanup
    <3>3. CASE Handle
      <4>1. PICK q \in Request :
              \/ \E f \in Sid, mfa \in BOOLEAN : Login(q, f, mfa)
              \/ \E f \in Sid :
                   CompleteMfa(q, f) \/ Reauthenticate(q, f) \/ ChangePassword(q, f)
              \/ \E cleared \in BOOLEAN : Demote(q, cleared)
              \/ RevokeOthers(q)
              \/ Logout(q)
              \/ \E u \in User : DeleteAccount(q, u)
        BY <3>3 DEF Handle
      <4>2. Handling(q)
        BY <4>1 DEF Login, CompleteMfa, Reauthenticate, ChangePassword, Demote,
                    RevokeOthers, Logout, DeleteAccount, Signed
      <4>3. q # r
        BY <1>1, <4>2 DEF Handling, Active
      <4>4. requests'[r] = requests[r]
        <5>1. \A f, c0 : GoOn(q, f, c0) \/ Done(q) => requests'[r] = requests[r]
          BY <3>0, <4>3 DEF GoOn, Done
        <5>2. (\E cleared \in BOOLEAN : Demote(q, cleared)) \/ Logout(q)
                => requests'[r] = requests[r]
          BY <3>0, <4>3 DEF Demote, Logout
        <5>3. \A f, c0 : SaveLimited(q, f, c0) => GoOn(q, f, c0)
          BY DEF SaveLimited
        <5>4. (\E f \in Sid, mfa \in BOOLEAN : Login(q, f, mfa))
                => requests'[r] = requests[r]
          BY <5>1, <5>3 DEF Login
        <5>5. (\E f \in Sid : CompleteMfa(q, f) \/ Reauthenticate(q, f)
                                 \/ ChangePassword(q, f))
                => requests'[r] = requests[r]
          BY <5>1, <5>3 DEF CompleteMfa, Reauthenticate, ChangePassword
        <5>6. RevokeOthers(q) \/ (\E u \in User : DeleteAccount(q, u))
                => requests'[r] = requests[r]
          BY <5>1 DEF RevokeOthers, DeleteAccount
        <5> QED BY <4>1, <5>2, <5>4, <5>5, <5>6
      <4> QED BY <1>1, <4>4
    <3>4. CASE End
      BY <1>1, <3>0, <3>4
      DEF End, EndSave, EndTouch, EndUnsaved, EndNew, Leave, Active
    <3>5. CASE Stop
      BY <1>1, <3>5
      DEF Stop, Restart, CrashInRevocation, CrashInPurge, StartWith
    <3> QED BY <1>1, <3>1, <3>2, <3>3, <3>4, <3>5 DEF Next
  <2> DEFINE d == store.rows[s].sess
  <2>2. /\ store \in Store /\ issued \subseteq Sid /\ now \in Nat \ {0}
        /\ requests \in [Request -> InFlight \cup {NoRequest}]
    BY <1>1 DEF IInv, Good, StoreGood
  <2>3. HasRow(store, s) /\ s \in Sid /\ d \in Session
    BY <2>1, <2>2 DEF BeginAdmitted, Live, HasRow, Store, Row
  <2>4. c = Admitted(d)
    BY <2>1, <2>2 DEF BeginAdmitted, Enter
  <2>5. c = d /\ Usable(d)
    BY <1>1, <2>3, <2>4 DEF Admitted, Usable, Session
  <2>6. Sound(d) /\ d.createdAt <= d.loginAt
    BY <1>1, <2>3, <2>5 DEF IInv, Good, StoreGood, CInv, Dated, Known
  <2>7. d.createdAt > 0 /\ d.user # NoUser
    BY <2>5, <2>6, NullAssumption DEF Sound, Usable, NullAssumption
  <2>8. ~PastAbsolute(d)
    BY <2>1, <2>7 DEF BeginAdmitted
  <2>9. /\ now \in Nat /\ d.createdAt \in Nat /\ d.loginAt \in Nat /\ AbsoluteTtl \in Nat
        /\ now - d.createdAt <= AbsoluteTtl
    BY <2>2, <2>3, <2>7, <2>8, TtlAssumption DEF PastAbsolute, Session, TtlAssumption
  <2> QED
    BY <2>5, <2>6, <2>9
<1>2. IInv /\ CInv /\ [Next]_vars => [Entry]_vars
  BY <1>1
<1>3. [][Entry]_vars <=> AbsoluteLifetime
  BY DEF AbsoluteLifetime
<1> QED
  BY ContentsInvariance, <1>2, <1>3, PTL DEF Spec
-----------------------------------------------------------------------------
(* The limit at a sign-in.  pruneUserSessions counts the account's sessions, *)
(* so their number has to be finite; and the session that just signed in is   *)
(* one of them only because a new identifier has no tombstone.  Both hold     *)
(* because identifiers come into the tables by being handed out.              *)

Untouched(st, ids) == \A s \in Sid \ ids : st.tombs[s] = 0

HandedOut == IsFiniteSet(issued) /\ Untouched(store, issued)

\* Tables st2 have no tombstone outside S that tables st have not.
Buries(st2, st, S) == \A s \in Sid \ S : st2.tombs[s] \in {st.tombs[s], 0}

LEMMA RevokeBuries ==
  ASSUME NEW st, NEW S, NEW expiry
  PROVE  Buries(Revoke(st, S, expiry), st, S)
BY DEF Buries, Revoke

LEMMA DropBuries ==
  ASSUME NEW st \in Store, NEW S
  PROVE  DropRows(st, S).tombs = st.tombs
BY DEF DropRows, Store

LEMMA DestroyBuries ==
  ASSUME NEW st, NEW s
  PROVE  Buries(StoreDestroy(st, s), st, {s})
BY RevokeBuries DEF StoreDestroy, Buries

LEMMA SetBuries ==
  ASSUME NEW st \in Store, NEW s \in Sid, NEW c
  PROVE  Buries(StoreSet(st, s, c), st, {s})
<1>1. CASE PastAbsolute(c)
  BY <1>1, RevokeBuries DEF StoreSet
<1>2. CASE ~PastAbsolute(c) /\ Tombstoned(st, s)
  BY <1>2, DropBuries DEF StoreSet, Buries
<1>3. CASE ~PastAbsolute(c) /\ ~Tombstoned(st, s)
  BY <1>3 DEF StoreSet, Buries, Store
<1> QED BY <1>1, <1>2, <1>3

LEMMA TouchBuries ==
  ASSUME NEW st \in Store, NEW s \in Sid, NEW c
  PROVE  Buries(StoreTouch(st, s, c), st, {s})
<1>1. CASE PastAbsolute(c)
  BY <1>1, RevokeBuries DEF StoreTouch
<1>2. CASE ~PastAbsolute(c) /\ (Tombstoned(st, s) \/ ~HasRow(st, s))
  BY <1>2, DropBuries DEF StoreTouch, Buries
<1>3. CASE ~PastAbsolute(c) /\ ~Tombstoned(st, s) /\ HasRow(st, s)
  BY <1>3 DEF StoreTouch, Buries, Store
<1> QED BY <1>1, <1>2, <1>3

LEMMA GetBuries ==
  ASSUME NEW st \in Store, NEW s \in Sid
  PROVE  Buries(StoreGet(st, s), st, {})
<1>1. /\ StoreGet(st, s).tombs = [st.tombs EXCEPT ![s] = IF Tombstoned(st, s) THEN @ ELSE 0]
      /\ st.tombs \in [Sid -> Nat]
  BY DEF StoreGet, Store
<1> QED BY <1>1 DEF Buries

LEMMA PurgeBuries ==
  ASSUME NEW st, NEW ids, NEW reqs, Good(st, ids, reqs), NEW u, NEW except
  PROVE  Buries(Purge(st, u, except), st, ids)
<1> DEFINE swept == DropRows(st, Lapsed(st))
<1>1. Good(swept, ids, reqs) /\ swept.tombs = st.tombs
  <2>1. st \in Store
    BY DEF Good, StoreGood
  <2> QED BY <2>1, DropKeepsGood, DropBuries
<1>2. UserSids(swept, u) \ {except} \subseteq ids
  BY <1>1, UserSidsIssued
<1> HIDE DEF swept
<1> DEFINE mine == UserSids(swept, u) \ {except}
           st2 == Revoke(swept, mine, StoredExpiry(swept))
<1>3. Buries(st2, swept, mine)
  BY RevokeBuries
<1>4. Purge(st, u, except) = st2
  BY DEF Purge, swept
<1> HIDE DEF mine, st2
<1>5. mine \subseteq ids
  BY <1>2 DEF mine
<1>6. Buries(st2, st, ids)
  BY <1>1, <1>3, <1>5 DEF Buries
<1> QED BY <1>4, <1>6

LEMMA PruneBuries ==
  ASSUME NEW st, NEW ids, NEW reqs, Good(st, ids, reqs), NEW u, NEW keep
  PROVE  Buries(Prune(st, u, keep), st, ids)
<1> DEFINE swept == DropRows(st, Lapsed(st))
<1>1. Good(swept, ids, reqs) /\ swept.tombs = st.tombs
  <2>1. st \in Store
    BY DEF Good, StoreGood
  <2> QED BY <2>1, DropKeepsGood, DropBuries
<1>2. UserSids(swept, u) \ keep \subseteq ids
  BY <1>1, UserSidsIssued
<1> HIDE DEF swept
<1> DEFINE mine == UserSids(swept, u) \ keep
           st2 == Revoke(swept, mine, StoredExpiry(swept))
<1>3. Buries(st2, swept, mine)
  BY RevokeBuries
<1>4. Prune(st, u, keep) = st2
  BY DEF Prune, swept
<1> HIDE DEF mine, st2
<1>5. mine \subseteq ids
  BY <1>2 DEF mine
<1>6. Buries(st2, st, ids)
  BY <1>1, <1>3, <1>5 DEF Buries
<1> QED BY <1>4, <1>6

LEMMA RenewBuries ==
  ASSUME NEW st, NEW ids, NEW reqs, Good(st, ids, reqs), NEW old \in ids \cup {NoSid},
         NEW f \in Sid, NEW c
  PROVE  Buries(Renew(st, old, f, c), st, {old, f})
<1>1. StoreDestroy(st, old) \in Store
  BY DestroyKeepsGood DEF Good, StoreGood
<1> QED
  BY <1>1, DestroyBuries, SetBuries DEF Renew, Buries

\* A step that buries what is handed out, and hands out at most one identifier.
LEMMA BuriesHandedOut ==
  ASSUME IInv, HandedOut, NEW F, F \subseteq Sid, IsFiniteSet(F), issued' = issued \cup F,
         Buries(store', store, issued')
  PROVE  HandedOut'
<1>1. IsFiniteSet(issued')
  BY FS_Union DEF HandedOut
<1>2. Untouched(store, issued)'
  BY DEF HandedOut, Untouched, Buries
<1> QED BY <1>1, <1>2 DEF HandedOut

LEMMA KeepsHandedOut ==
  ASSUME IInv, HandedOut, UNCHANGED issued, Buries(store', store, issued)
  PROVE  HandedOut'
<1>1. IsFiniteSet({}) /\ {} \subseteq Sid /\ issued' = issued \cup {}
  BY FS_EmptySet
<1> QED BY <1>1, BuriesHandedOut

LEMMA HandsOut ==
  ASSUME IInv, HandedOut, NEW f \in Sid, issued' = issued \cup {f},
         Buries(store', store, issued')
  PROVE  HandedOut'
<1>1. IsFiniteSet({f}) /\ {f} \subseteq Sid
  BY FS_Singleton
<1> QED BY <1>1, BuriesHandedOut

LEMMA SaveLimitedHandsOut ==
  ASSUME IInv, HandedOut, NEW r \in Request, Active(r), NEW f \in Sid \ issued,
         NEW c \in Session, Sound(c), SaveLimited(r, f, c)
  PROVE  HandedOut'
<1> DEFINE saved == Renew(store, requests[r].sid, f, c)
<1>1. Good(store, issued, requests) /\ requests[r].sid \in issued \cup {NoSid}
  BY ActiveFacts DEF IInv
<1>2. Good(store, issued', requests') /\ issued' = issued \cup {f}
  BY <1>1, GoOnKeepsGood DEF SaveLimited, GoOn, Active
<1>3. /\ requests[r].sid \in issued' \cup {NoSid}
      /\ f \in issued' /\ f \notin store.ended /\ f # requests[r].sid
  BY <1>1, <1>2, NullAssumption DEF Good, StoreGood, NullAssumption
<1>4. Good(saved, issued', requests')
  BY <1>2, <1>3, RenewKeepsGood
<1>5. Buries(saved, store, issued')
  BY <1>1, <1>2, RenewBuries, NullAssumption DEF Buries, NullAssumption
<1> HIDE DEF saved
<1>6. PICK keep : store' = Prune(saved, c.user, keep)
  BY DEF SaveLimited, saved
<1>7. Buries(store', saved, issued')
  BY <1>4, <1>6, PruneBuries
<1>8. Buries(store', store, issued')
  BY <1>5, <1>7 DEF Buries
<1> QED BY <1>2, <1>8, HandsOut

LEMMA RotateHandsOut ==
  ASSUME IInv, HandedOut, NEW st, Good(st, issued, requests), Buries(st, store, issued),
         NEW r \in Request, Active(r), NEW f \in Sid \ issued, NEW c, GoOn(r, f, c),
         store' = Renew(st, requests[r].sid, f, c)
  PROVE  HandedOut'
<1>1. requests[r].sid \in issued \cup {NoSid}
  BY ActiveFacts DEF IInv
<1>2. Buries(store', st, {requests[r].sid, f})
  BY <1>1, RenewBuries
<1>3. Buries(store', store, issued') /\ issued' = issued \cup {f}
  BY <1>1, <1>2, NullAssumption DEF Buries, GoOn, NullAssumption
<1> QED BY <1>3, HandsOut

LEMMA BeginHandedOut == IInv /\ HandedOut /\ Begin => HandedOut'
<1> SUFFICES ASSUME IInv, HandedOut, NEW r \in Request, NEW login \in Targets,
                    \/ BeginWithoutCookie(r, login)
                    \/ \E s \in issued : \/ BeginRefused(r, s, login)
                                         \/ BeginExpired(r, s, login)
                                         \/ BeginBlocked(r, s)
                                         \/ BeginAdmitted(r, s, login)
             PROVE  HandedOut'
  BY DEF Begin
<1>1. Good(store, issued, requests) /\ store \in Store /\ issued \subseteq Sid
  BY DEF IInv, Good, StoreGood
<1>2. CASE BeginWithoutCookie(r, login)
  BY <1>2, KeepsHandedOut DEF BeginWithoutCookie, Buries
<1>3. ASSUME NEW s \in issued, BeginRefused(r, s, login) \/ BeginAdmitted(r, s, login)
      PROVE  HandedOut'
  <2>1. Buries(StoreGet(store, s), store, {})
    BY <1>1, GetBuries
  <2>2. store' = StoreGet(store, s) /\ UNCHANGED issued
    BY <1>3 DEF BeginRefused, BeginAdmitted
  <2> QED BY <2>1, <2>2, KeepsHandedOut DEF Buries
<1>4. ASSUME NEW s \in issued, BeginExpired(r, s, login) \/ BeginBlocked(r, s)
      PROVE  HandedOut'
  <2>1. Buries(StoreGet(store, s), store, {})
    BY <1>1, GetBuries
  <2>2. Buries(StoreDestroy(StoreGet(store, s), s), StoreGet(store, s), {s})
    BY DestroyBuries
  <2>3. store' = StoreDestroy(StoreGet(store, s), s) /\ UNCHANGED issued
    BY <1>4 DEF BeginExpired, BeginBlocked
  <2> QED BY <2>1, <2>2, <2>3, KeepsHandedOut DEF Buries
<1> QED BY <1>2, <1>3, <1>4

LEMMA HandleHandedOut == IInv /\ HandedOut /\ Handle => HandedOut'
<1> SUFFICES ASSUME IInv, HandedOut, NEW r \in Request,
                    \/ \E f \in Sid, mfa \in BOOLEAN : Login(r, f, mfa)
                    \/ \E f \in Sid :
                         CompleteMfa(r, f) \/ Reauthenticate(r, f) \/ ChangePassword(r, f)
                    \/ \E cleared \in BOOLEAN : Demote(r, cleared)
                    \/ RevokeOthers(r)
                    \/ Logout(r)
                    \/ \E u \in User : DeleteAccount(r, u)
             PROVE  HandedOut'
  BY DEF Handle
<1>0. Good(store, issued, requests) /\ store \in Store /\ issued \subseteq Sid
  BY DEF IInv, Good, StoreGood
<1>1. ASSUME NEW f \in Sid, NEW mfa \in BOOLEAN, Login(r, f, mfa)
      PROVE  HandedOut'
  <2> DEFINE c == [kind |-> IF mfa THEN "pending" ELSE "authenticated",
                   user |-> requests[r].login, createdAt |-> now, loginAt |-> now]
  <2>1. Active(r) /\ f \in Sid \ issued /\ SaveLimited(r, f, c)
    BY <1>1 DEF Login, Handling
  <2>2. c \in Session /\ Sound(c)
    BY <1>0, <1>1, <2>1, ActiveFacts
    DEF Login, Session, Kind, Sound, Usable, Good, HeldGood, InFlight
  <2> QED BY <2>1, <2>2, SaveLimitedHandsOut
<1>2. ASSUME NEW f \in Sid, CompleteMfa(r, f)
      PROVE  HandedOut'
  <2> DEFINE c == [kind |-> "authenticated", user |-> requests[r].sess.user,
                   createdAt |-> now, loginAt |-> now]
  <2>1. Active(r) /\ f \in Sid \ issued /\ SaveLimited(r, f, c)
    BY <1>2 DEF CompleteMfa, Handling
  <2>2. c \in Session /\ Sound(c)
    BY <1>0, <1>2, <2>1, ActiveFacts
    DEF CompleteMfa, Session, Kind, Sound, Usable, Good, HeldGood, InFlight
  <2> QED BY <2>1, <2>2, SaveLimitedHandsOut
<1>3. ASSUME NEW f \in Sid, Reauthenticate(r, f)
      PROVE  HandedOut'
  BY <1>0, <1>3, RotateHandsOut DEF Reauthenticate, Signed, Handling, Buries
<1>4. ASSUME NEW f \in Sid, ChangePassword(r, f)
      PROVE  HandedOut'
  <2> DEFINE st == Purge(store, requests[r].sess.user, requests[r].sid)
  <2>1. Good(st, issued, requests) /\ Buries(st, store, issued)
    BY <1>0, PurgeKeepsGood, PurgeBuries
  <2> HIDE DEF st
  <2>2. /\ Active(r) /\ f \in Sid \ issued
        /\ \E c : store' = Renew(st, requests[r].sid, f, c) /\ GoOn(r, f, c)
    BY <1>4 DEF ChangePassword, Signed, Handling, st
  <2> QED BY <2>1, <2>2, RotateHandsOut
<1>5. ASSUME \E cleared \in BOOLEAN : Demote(r, cleared)
      PROVE  HandedOut'
  BY <1>5, KeepsHandedOut DEF Demote, Buries
<1>6. ASSUME RevokeOthers(r) \/ \E u \in User : DeleteAccount(r, u)
      PROVE  HandedOut'
  <2>1. \A u, except : Buries(Purge(store, u, except), store, issued)
    BY <1>0, PurgeBuries
  <2> QED BY <1>6, <2>1, KeepsHandedOut DEF RevokeOthers, DeleteAccount
<1>7. ASSUME Logout(r)
      PROVE  HandedOut'
  <2>1. Active(r)
    BY <1>7 DEF Logout, Handling
  <2>2. requests[r].sid \in issued \cup {NoSid}
    BY <1>0, <2>1, ActiveFacts
  <2>3. Buries(store', store, {requests[r].sid}) /\ UNCHANGED issued
    BY <1>7, DestroyBuries DEF Logout
  <2> QED BY <2>2, <2>3, KeepsHandedOut, NullAssumption DEF Buries, NullAssumption
<1> QED BY <1>1, <1>2, <1>3, <1>4, <1>5, <1>6, <1>7

LEMMA EndHandedOut == IInv /\ HandedOut /\ End => HandedOut'
<1> SUFFICES ASSUME IInv, HandedOut, NEW r \in Request,
                    \/ EndSave(r) \/ EndTouch(r) \/ EndUnsaved(r)
                    \/ \E f \in Sid : EndNew(r, f)
             PROVE  HandedOut'
  BY DEF End
<1>1. Good(store, issued, requests) /\ store \in Store /\ issued \subseteq Sid
  BY DEF IInv, Good, StoreGood
<1>2. ASSUME EndSave(r) \/ EndTouch(r)
      PROVE  HandedOut'
  <2>1. requests[r].sid \in issued /\ UNCHANGED issued
    BY <1>1, <1>2, ActiveFacts DEF EndSave, EndTouch
  <2>2. Buries(store', store, {requests[r].sid})
    BY <1>1, <1>2, <2>1, SetBuries, TouchBuries DEF EndSave, EndTouch
  <2> QED BY <2>1, <2>2, KeepsHandedOut DEF Buries
<1>3. CASE EndUnsaved(r)
  BY <1>3, KeepsHandedOut DEF EndUnsaved, Buries
<1>4. ASSUME NEW f \in Sid, EndNew(r, f)
      PROVE  HandedOut'
  <2>1. Buries(store', store, {f}) /\ issued' = issued \cup {f}
    BY <1>1, <1>4, SetBuries DEF EndNew
  <2> QED BY <2>1, HandsOut DEF Buries
<1> QED BY <1>2, <1>3, <1>4

LEMMA StopHandedOut == IInv /\ HandedOut /\ Stop => HandedOut'
<1> SUFFICES ASSUME IInv, HandedOut, NEW disabled \in BOOLEAN,
                    \/ Restart(disabled)
                    \/ \E s \in issued : CrashInRevocation(s, disabled)
                    \/ \E r \in Request, ended \in SUBSET Sid : CrashInPurge(r, ended, disabled)
             PROVE  HandedOut'
  BY DEF Stop
<1>0. Good(store, issued, requests) /\ store \in Store
  BY DEF IInv, Good, StoreGood
<1>1. \A s : Shrinks(TombstoneOnly(store, s), store) /\ Buries(TombstoneOnly(store, s), store, {s})
  BY DEF Shrinks, TombstoneOnly, Revoke, HasRow, Buries
<1>2. \A S : /\ Shrinks(Revoke(store, S, StoredExpiry(store)), store)
             /\ Buries(Revoke(store, S, StoredExpiry(store)), store, S)
  BY RevokeShrinks, RevokeBuries
<1>3. \A u : UserSids(store, u) \subseteq issued
  BY <1>0, UserSidsIssued
<1>4. PICK st : Shrinks(st, store) /\ Buries(st, store, issued) /\ StartWith(st, disabled)
  <2>1. CASE Restart(disabled)
    <3>1. Shrinks(store, store) /\ Buries(store, store, issued)
      BY DEF Shrinks, Buries
    <3> QED BY <2>1, <3>1 DEF Restart
  <2>2. CASE \E s \in issued : CrashInRevocation(s, disabled)
    BY <1>1, <2>2 DEF CrashInRevocation, Buries
  <2>3. CASE \E r \in Request, ended \in SUBSET Sid : CrashInPurge(r, ended, disabled)
    <3>1. PICK r \in Request, ended \in SUBSET Sid : CrashInPurge(r, ended, disabled)
      BY <2>3
    <3>2. ended \subseteq issued
      BY <1>3, <3>1 DEF CrashInPurge
    <3> QED BY <1>2, <3>1, <3>2 DEF CrashInPurge, Buries
  <2> QED BY <2>1, <2>2, <2>3
<1>5. AdminSids(st) \subseteq issued
  BY <1>0, <1>4 DEF AdminSids, Shrinks, Good, StoreGood
<1>6. Buries(Revoke(st, AdminSids(st), StoredExpiry(st)), st, AdminSids(st))
  BY RevokeBuries
<1>7. Buries(store', store, issued) /\ UNCHANGED issued
  BY <1>4, <1>5, <1>6 DEF StartWith, Buries
<1> QED BY <1>7, KeepsHandedOut

LEMMA NextHandedOut == IInv /\ HandedOut /\ [Next]_vars => HandedOut'
<1>1. ASSUME IInv, HandedOut, Tick \/ UNCHANGED vars
      PROVE  HandedOut'
  BY <1>1, KeepsHandedOut DEF Tick, vars, Buries
<1>2. ASSUME IInv, HandedOut, Cleanup
      PROVE  HandedOut'
  BY <1>2, KeepsHandedOut DEF Cleanup, Sweep, Buries
<1> QED
  BY <1>1, <1>2, BeginHandedOut, HandleHandedOut, EndHandedOut, StopHandedOut DEF Next

LEMMA HandedOutInvariance == Spec => [](IInv /\ HandedOut)
<1>1. Init => IInv /\ HandedOut
  BY InitGood, FS_EmptySet DEF Init, HandedOut, Untouched
<1>2. IInv /\ HandedOut /\ [Next]_vars => IInv' /\ HandedOut'
  BY NextGood, NextHandedOut
<1> QED BY <1>1, <1>2, PTL DEF Spec

\* What a sign-in leaves: its own session, and no more than the limit.
LEMMA SaveLimitedLimits ==
  ASSUME IInv, HandedOut, NEW r \in Request, Active(r), NEW f \in Sid \ issued,
         NEW c \in Session, Sound(c), Usable(c), c.createdAt = now, SaveLimited(r, f, c)
  PROVE  /\ f \in UsableSids(store', c.user)
         /\ Cardinality(UsableSids(store', c.user)) <= SessionLimit
<1> DEFINE saved == Renew(store, requests[r].sid, f, c)
           swept == DropRows(saved, Lapsed(saved))
           mine == UserSids(swept, c.user)
<1>1. Good(store, issued, requests) /\ requests[r].sid \in issued \cup {NoSid}
  BY ActiveFacts DEF IInv
<1>2. /\ now \in Nat \ {0} /\ AbsoluteTtl \in Nat \ {0} /\ IdleTtl \in Nat \ {0}
      /\ SessionLimit \in Nat
  BY <1>1, TtlAssumption, BoundAssumption DEF Good, TtlAssumption, BoundAssumption
<1>3. /\ saved \in Store /\ HasRow(saved, f) /\ saved.tombs[f] = 0
      /\ saved.rows[f] = [sess |-> c, expires |-> now + IdleTtl]
  <2> DEFINE st == StoreDestroy(store, requests[r].sid)
  <2>1. Good(st, issued, requests)
    BY <1>1, DestroyKeepsGood
  <2>2. st \in Store
    BY <2>1 DEF Good, StoreGood
  <2>3. st.tombs[f] = 0
    BY <1>1, DestroyBuries, NullAssumption DEF Buries, HandedOut, Untouched, NullAssumption
  <2> HIDE DEF st
  <2>4. ~PastAbsolute(c) /\ ~Tombstoned(st, f)
    BY <1>2, <2>3 DEF PastAbsolute, Tombstoned
  <2>5. StoreSet(st, f, c) = [st EXCEPT !.rows[f] = [sess |-> c, expires |-> now + IdleTtl]]
    BY <2>4 DEF StoreSet
  <2>6. [sess |-> c, expires |-> now + IdleTtl] \in Row
    BY <1>2 DEF Row
  <2>7. /\ StoreSet(st, f, c).tombs = st.tombs /\ StoreSet(st, f, c) \in Store
        /\ StoreSet(st, f, c).rows[f] = [sess |-> c, expires |-> now + IdleTtl]
    BY <2>2, <2>5, <2>6 DEF Store
  <2>8. HasRow(StoreSet(st, f, c), f)
    BY <2>6, <2>7, RowAssumption DEF HasRow
  <2> QED BY <2>3, <2>7, <2>8 DEF Renew, st
<1>4. /\ swept \in Store /\ HasRow(swept, f) /\ swept.rows[f] = saved.rows[f]
      /\ swept.tombs[f] = 0 /\ \A s \in Sid : HasRow(swept, s) => s \in issued \cup {f}
  <2>1. ~(saved.rows[f].expires <= now)
    BY <1>2, <1>3
  <2>2. f \notin Lapsed(saved)
    BY <2>1 DEF Lapsed
  <2>3. swept.tombs = saved.tombs /\ swept \in Store
        /\ \A s \in Sid : swept.rows[s] = IF s \in Lapsed(saved) THEN NoRow ELSE saved.rows[s]
    BY <1>3 DEF DropRows, Store
  <2>4. Writes(saved, store, f, c)
    BY <1>1, RenewWrites
  <2> QED
    BY <1>1, <1>3, <2>2, <2>3, <2>4 DEF Writes, HasRow, Good, StoreGood
<1>5. PICK keep \in Kept(swept, c.user, f) : store' = Prune(saved, c.user, keep)
  BY DEF SaveLimited
<1> HIDE DEF saved
<1>6. store' = Revoke(swept, mine \ keep, StoredExpiry(swept))
  BY <1>5 DEF Prune
<1> HIDE DEF swept
<1>7. f \in mine
  BY <1>3, <1>4 DEF UserSids
<1>8. f \in keep /\ keep \subseteq mine /\ Cardinality(keep) <= SessionLimit
  <2>1. /\ keep \in SUBSET mine /\ f \in keep
        /\ Cardinality(keep) = IF Cardinality(mine) <= SessionLimit
                               THEN Cardinality(mine) ELSE SessionLimit
    BY <1>5, <1>7 DEF Kept
  <2> QED BY <1>2, <2>1
<1>9. f \in UsableSids(store', c.user)
  <2>1. store'.rows[f] = swept.rows[f] /\ store'.tombs[f] = 0
    BY <1>4, <1>6, <1>8 DEF Revoke
  <2>2. store'.rows[f].sess = c /\ store'.rows[f].expires = now + IdleTtl
    BY <1>3, <1>4, <2>1
  <2> QED
    BY <1>2, <1>4, <2>1, <2>2 DEF UsableSids, Live, HasRow, Tombstoned
<1>10. UsableSids(store', c.user) \subseteq keep
  <2> SUFFICES ASSUME NEW s \in UsableSids(store', c.user) PROVE s \in keep
    OBVIOUS
  <2>1. s \in Sid /\ HasRow(store', s) /\ store'.rows[s].sess.user = c.user
    BY DEF UsableSids, Live
  <2>2. store'.rows[s] = IF s \in mine \ keep THEN NoRow ELSE swept.rows[s]
    BY <1>6, <2>1 DEF Revoke
  <2>3. s \notin mine \ keep /\ HasRow(swept, s) /\ swept.rows[s].sess.user = c.user
    BY <2>1, <2>2 DEF HasRow
  <2> QED
    BY <2>1, <2>3 DEF UserSids
<1>11. IsFiniteSet(keep)
  <2>1. mine \subseteq issued \cup {f}
    BY <1>4 DEF UserSids
  <2>2. IsFiniteSet(issued \cup {f})
    BY FS_AddElement DEF HandedOut
  <2> QED BY <1>8, <2>1, <2>2, FS_Subset
<1>12. /\ Cardinality(UsableSids(store', c.user)) <= Cardinality(keep)
       /\ Cardinality(UsableSids(store', c.user)) \in Nat /\ Cardinality(keep) \in Nat
  BY <1>10, <1>11, FS_Subset, FS_CardinalityType
<1> QED
  BY <1>2, <1>8, <1>9, <1>12

\* Requests of other steps: a request's new identifier comes from a step of its own that
\* signs in or rotates.
LEMMA NewSidOfRequest ==
  ASSUME IInv, Next, NEW r \in Request, NEW f \in Sid \ issued, Active(r), f \in issued',
         requests'[r] # NoRequest, requests'[r].sid = f,
         requests[r].login # NoUser \/ requests[r].sess.kind = "pending"
  PROVE  \E c \in Session : /\ Sound(c) /\ Usable(c) /\ c.createdAt = now
                            /\ SaveLimited(r, f, c) /\ requests'[r].sess = c
<1>1. /\ Good(store, issued, requests) /\ requests \in [Request -> InFlight \cup {NoRequest}]
      /\ requests[r] \in InFlight /\ requests[r].sid # f
  BY ActiveFacts, NullAssumption DEF IInv, Good, NullAssumption
<1>2. ASSUME NEW q \in Request, NEW g, NEW c, GoOn(q, g, c)
      PROVE  q = r /\ g = f /\ requests'[r].sess = c
  <2>1. q = r
    BY <1>1, <1>2 DEF GoOn
  <2>2. requests'[r] = [requests[r] EXCEPT !.sid = g, !.sess = c, !.renewed = TRUE, !.done = TRUE]
    BY <1>1, <1>2, <2>1 DEF GoOn
  <2>3. requests'[r].sid = g /\ requests'[r].sess = c
    BY <1>1, <2>2 DEF InFlight
  <2> QED BY <2>1, <2>3
<1>3. CASE Tick \/ Cleanup \/ Begin
  <2>1. UNCHANGED issued
    BY <1>3 DEF Tick, Cleanup, Begin, BeginWithoutCookie, BeginRefused, BeginExpired,
                BeginBlocked, BeginAdmitted
  <2> QED BY <2>1
<1>4. CASE Stop
  <2>1. UNCHANGED issued
    BY <1>4 DEF Stop, Restart, CrashInRevocation, CrashInPurge, StartWith
  <2> QED BY <2>1
<1>5. CASE End
  <2>1. PICK q \in Request : Leave(q)
    BY <1>5 DEF End, EndSave, EndTouch, EndUnsaved, EndNew
  <2> QED BY <1>1, <2>1 DEF Leave
<1>6. CASE Handle
  <2>1. PICK q \in Request :
              \/ \E g \in Sid, mfa \in BOOLEAN : Login(q, g, mfa)
              \/ \E g \in Sid :
                   CompleteMfa(q, g) \/ Reauthenticate(q, g) \/ ChangePassword(q, g)
              \/ \E cleared \in BOOLEAN : Demote(q, cleared)
              \/ RevokeOthers(q)
              \/ Logout(q)
              \/ \E u \in User : DeleteAccount(q, u)
    BY <1>6 DEF Handle
  <2>2. ASSUME NEW g \in Sid, NEW mfa \in BOOLEAN, Login(q, g, mfa)
        PROVE  \E c \in Session : /\ Sound(c) /\ Usable(c) /\ c.createdAt = now
                                  /\ SaveLimited(r, f, c) /\ requests'[r].sess = c
    <3> DEFINE c == [kind |-> IF mfa THEN "pending" ELSE "authenticated",
                     user |-> requests[q].login, createdAt |-> now, loginAt |-> now]
    <3>1. SaveLimited(q, g, c) /\ Active(q) /\ requests[q].login # NoUser
      BY <2>2 DEF Login, Handling
    <3>2. GoOn(q, g, c)
      BY <3>1 DEF SaveLimited
    <3>3. q = r /\ g = f /\ requests'[r].sess = c
      BY <1>2, <3>2
    <3>4. c \in Session /\ Sound(c) /\ Usable(c) /\ c.createdAt = now
      BY <1>1, <3>1, <3>3 DEF Session, Kind, Sound, Usable, Good, InFlight
    <3> QED BY <3>1, <3>3, <3>4
  <2>3. ASSUME NEW g \in Sid, CompleteMfa(q, g)
        PROVE  \E c \in Session : /\ Sound(c) /\ Usable(c) /\ c.createdAt = now
                                  /\ SaveLimited(r, f, c) /\ requests'[r].sess = c
    <3> DEFINE c == [kind |-> "authenticated", user |-> requests[q].sess.user,
                     createdAt |-> now, loginAt |-> now]
    <3>1. SaveLimited(q, g, c) /\ Active(q) /\ requests[q].sess.kind = "pending"
      BY <2>3 DEF CompleteMfa, Handling
    <3>2. GoOn(q, g, c)
      BY <3>1 DEF SaveLimited
    <3>3. q = r /\ g = f /\ requests'[r].sess = c
      BY <1>2, <3>2
    <3>4. c \in Session /\ Sound(c) /\ Usable(c) /\ c.createdAt = now
      BY <1>1, <3>1, <3>3 DEF Session, Kind, Sound, Usable, Good, HeldGood, Active, InFlight
    <3> QED BY <3>1, <3>3, <3>4
  <2>4. ASSUME NEW g \in Sid, Reauthenticate(q, g) \/ ChangePassword(q, g)
        PROVE  FALSE
    <3>1. Signed(q) /\ \E c : GoOn(q, g, c)
      BY <2>4 DEF Reauthenticate, ChangePassword
    <3>2. q = r
      BY <1>2, <3>1
    <3> QED BY <3>1, <3>2 DEF Signed
  <2>5. ASSUME \/ \E cleared \in BOOLEAN : Demote(q, cleared)
               \/ RevokeOthers(q)
               \/ Logout(q)
               \/ \E u \in User : DeleteAccount(q, u)
        PROVE  FALSE
    <3>1. UNCHANGED issued
      BY <2>5 DEF Demote, RevokeOthers, Logout, DeleteAccount
    <3> QED BY <3>1
  <2> QED BY <2>1, <2>2, <2>3, <2>4, <2>5
<1> QED BY <1>3, <1>4, <1>5, <1>6 DEF Next

\* A completed sign-in leaves its own session usable and the account with at most
\* MAX_SESSIONS_PER_USER sessions (pruneUserSessions), whatever the other requests of the
\* account and the revocations did while it waited.
THEOREM LimitHoldsAfterSignIn == Spec => LimitAfterSignIn
<1> DEFINE Limited ==
      \A r \in Request, f \in Sid \ issued :
        /\ Active(r) /\ f \in issued' /\ requests'[r] # NoRequest
        /\ requests'[r].sid = f
        /\ requests[r].login # NoUser \/ requests[r].sess.kind = "pending"
        => LET u == requests'[r].sess.user
           IN  /\ f \in UsableSids(store', u)
               /\ Cardinality(UsableSids(store', u)) <= SessionLimit
<1>1. ASSUME IInv, HandedOut, Next
      PROVE  Limited
  <2> SUFFICES ASSUME NEW r \in Request, NEW f \in Sid \ issued,
                      Active(r), f \in issued', requests'[r] # NoRequest, requests'[r].sid = f,
                      requests[r].login # NoUser \/ requests[r].sess.kind = "pending"
               PROVE  /\ f \in UsableSids(store', requests'[r].sess.user)
                      /\ Cardinality(UsableSids(store', requests'[r].sess.user)) <= SessionLimit
    OBVIOUS
  <2>1. PICK c \in Session : /\ Sound(c) /\ Usable(c) /\ c.createdAt = now
                             /\ SaveLimited(r, f, c) /\ requests'[r].sess = c
    BY <1>1, NewSidOfRequest
  <2> QED BY <1>1, <2>1, SaveLimitedLimits
<1>2. IInv /\ HandedOut /\ [Next]_vars => [Limited]_vars
  BY <1>1
<1>3. [][Limited]_vars <=> LimitAfterSignIn
  BY DEF LimitAfterSignIn
<1> QED
  BY HandedOutInvariance, <1>2, <1>3, PTL DEF Spec
=============================================================================
