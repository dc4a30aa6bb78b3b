------------------------------ MODULE MCRepositories ------------------------------
\* Three parts of the repositories side by side: the tree of rows and data, access
\* times, and the activity log.  They share no variable: a behaviour is one of the
\* part that was chosen, and the others stay as they were.
EXTENDS RepositoryTree, AccessTimes, ActivityLog, TLC

VARIABLE part

vars == <<part, treeVars, timesVars, logVars>>

Init ==
  /\ part \in {"tree", "times", "log"}
  /\ TreeInit /\ TimesInit /\ LogInit
  /\ part # "times" => \A f \in Stored : initial[f] = NoTime
  /\ part # "log" => \A m \in Maximum : maxRows <= m

Next ==
  /\ UNCHANGED part
  /\ \/ part = "tree" /\ TreeNext /\ UNCHANGED <<timesVars, logVars>>
     \/ part = "times" /\ TimesNext /\ UNCHANGED <<treeVars, logVars>>
     \/ part = "log" /\ LogNext /\ UNCHANGED <<treeVars, timesVars>>

Spec == Init /\ [][Next]_vars

Symmetry ==
  Permutations(User) \cup Permutations(Repo) \cup Permutations(Folder)

\* Types of the three parts.
RepositoriesTypeOK == TreeTypeOK /\ TimesTypeOK /\ LogTypeOK
=============================================================================
