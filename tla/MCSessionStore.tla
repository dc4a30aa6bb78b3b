----------------------------- MODULE MCSessionStore -----------------------------
(* SessionStore on small instances: every identifier and every request is      *)
(* interchangeable with every other (the store compares digests for equality,   *)
(* and its one use of their order is a nondeterministic choice in Kept).        *)
EXTENDS SessionStore, FiniteSetsExt, TLC

Symmetric == Permutations(Sid) \cup Permutations(Request)

\* Without administrators the switch that disables them decides nothing.
WithoutSwitch == <<now, store, issued, requests, accounts>>

\* Two of the states Spec reaches: every identifier unused with one tick left,
\* or all but two spent on sessions that were ended and the whole time ahead.
SignInInit ==
  /\ \/ issued = {} /\ now = MaxTime - 1
     \/ issued \in kSubset(Cardinality(Sid) - 2, Sid) /\ now = 1
  /\ store = [rows  |-> [s \in Sid |-> NoRow],
              tombs |-> [s \in Sid |-> IF s \in issued THEN now + RevocationTtl ELSE 0],
              ended |-> issued]
  /\ requests = [r \in Request |-> NoRequest]
  /\ accounts = User
  /\ adminDisabled = FALSE

SignInSpec == SignInInit /\ [][Next]_vars

\* No request is served as a user beyond the absolute lifetime of the sign-in, however
\* often the session was rotated; and a row or tombstone that has lapsed is removed in
\* the end, by the cleanup timer alone (app.js:131-162, session-store.js:304-316).
SessionsEnd == AbsoluteLifetime /\ LapsedIsSwept
=============================================================================
