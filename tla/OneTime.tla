-------------------------------- MODULE OneTime ---------------------------------
(***************************************************************************)
(* What the second factors promise: a token that proves possession (a TOTP *)
(* code, a recovery key, the answer to a WebAuthn challenge) is accepted at *)
(* most once.  Tokens are granted before they can be used, may be           *)
(* withdrawn at any time, and one that was used is never granted again.     *)
(***************************************************************************)
EXTENDS Integers

CONSTANT Token

VARIABLES
  open,   \* tokens that would be accepted now
  spent,  \* tokens that were accepted
  uses    \* how often a token was accepted

oneTimeVars == <<open, spent, uses>>

Init ==
  /\ open \subseteq Token
  /\ spent = {}
  /\ uses = 0

\* Some tokens become acceptable and others cease to be.
Change ==
  /\ open' \in SUBSET (Token \ spent)
  /\ UNCHANGED <<spent, uses>>

\* One token is accepted; others may lapse with it.
Use(t) ==
  /\ t \notin spent
  /\ open' \subseteq open \ {t}
  /\ spent' = spent \cup {t}
  /\ uses' = uses + 1

Next == Change \/ (\E t \in open : Use(t))

Spec == Init /\ [][Next]_oneTimeVars
=============================================================================
