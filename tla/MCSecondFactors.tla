-------------------------- MODULE MCSecondFactors --------------------------
(* What stands between a password and a session, part by part: sign-ins with   *)
(* a second factor (MfaLogin), the settings that change the factors            *)
(* (MfaSettings), and the limiter of attempts (RateLimiter).  The parts share  *)
(* no variable: a behaviour is one of the part that was chosen.                *)
EXTENDS MfaLogin, MfaSettings, RateLimiter, TLC

VARIABLE part

factorVars == <<part, loginVars, settingsVars, vars>>

FactorsInit ==
  /\ part \in {"login", "settings", "limiter"}
  /\ LoginInit /\ SettingsInit /\ Init

FactorsNext ==
  /\ UNCHANGED part
  /\ \/ part = "login" /\ LoginNext /\ UNCHANGED <<settingsVars, vars>>
     \/ part = "settings" /\ SettingsNext /\ UNCHANGED <<loginVars, vars>>
     \/ part = "limiter" /\ Next /\ UNCHANGED <<loginVars, settingsVars>>

FactorsSpec == FactorsInit /\ [][FactorsNext]_factorVars

\* Everything of one kind is interchangeable.  Accounts and requests of the
\* limiter take their names from sessions and requests of the other parts, so that
\* one group serves all of them.
Symmetry ==
  Permutations(Sid) \cup Permutations(Flight) \cup Permutations(Challenge)
    \cup Permutations(Browser) \cup Permutations(Handler) \cup Permutations(Code)

\* The history of the limiter grows without bound once records are evicted; what the
\* limiter does never depends on it.
WithoutHistory == <<part, loginVars, settingsVars, records, attempts, detached>>

\* Types of every part; and recovery keys are few and stand in for a method
\* (security-service.js:141-221).
FactorsOK ==
  /\ LoginTypeOK /\ SettingsTypeOK /\ TypeOK
  /\ CodesStandIn(account) /\ CodesStandIn(factors)
=============================================================================
