---------------------------- MODULE RepositoryProofs ----------------------------
(***************************************************************************)
(* Proofs about RepositoryTree, AccessTimes and ActivityLog, as Spec of      *)
(* MCRepositories composes them.                                            *)
(*                                                                         *)
(* The line of folders above a folder is a recursive function.  What it is,  *)
(* for every depth, is proved by induction on numbers in the form that a set *)
(* of natural numbers has a least element (LeastNumber), and by induction    *)
(* along the tree (NoEndlessLine): a set of folders that contains the parent *)
(* of each of its members is empty.  TreeInv, the inductive invariant of the *)
(* tree, says that folders can be numbered by depth, that identifiers are    *)
(* not used twice, and that the deletion that runs takes exactly the data of *)
(* the rows that go with it.                                                *)
(***************************************************************************)
EXTENDS MCRepositories, FiniteSetTheorems, WellFoundedInduction, TLAPS

-----------------------------------------------------------------------------
\* Induction on numbers, as a fact about sets.
LEMMA LeastNumber ==
  ASSUME NEW T \in SUBSET Nat, T # {}
  PROVE  \E m \in T : \A n \in T : m <= n
<1> DEFINE Intervals == {1..k : k \in T}
           R == StrictSubsetOrdering(Nat)
           S == FiniteSubsetsOf(Nat)
<1>1. IsWellFoundedOn(R, S)
  BY FS_StrictSubsetOrderingWellFounded
<1>2. Intervals \subseteq S /\ Intervals # {}
  <2>1. \A k \in Nat : 1..k \in SUBSET Nat /\ IsFiniteSet(1..k)
    BY FS_Interval
  <2> QED
    BY <2>1 DEF FiniteSubsetsOf
<1>3. \E X \in Intervals : \A Y \in Intervals : <<Y, X>> \notin R
  <2> HIDE DEF Intervals, R, S
  <2> QED BY <1>1, <1>2, WFMin
<1>4. PICK m \in T : \A n \in T : <<1..n, 1..m>> \notin R
  BY <1>3
<1>5. ASSUME NEW n \in T, n < m PROVE FALSE
  <2>1. 1..n \subseteq 1..m /\ 1..n # 1..m
    <3>1. m \in 1..m /\ m \notin 1..n
      BY <1>5
    <3> QED BY <3>1, <1>5
  <2>2. 1..n \in SUBSET Nat /\ 1..m \in SUBSET Nat
    OBVIOUS
  <2> QED
    BY <1>4, <2>1, <2>2 DEF StrictSubsetOrdering
<1> QED BY <1>5

-----------------------------------------------------------------------------
(* The line of folders above a folder.                                       *)

Step(fs, s) == s \cup ({fs[x].parent : x \in s} \cap DOMAIN fs)

\* The stages of Line, up to number k.
Climbs(fs, d, k, u) ==
  u = [n \in 0..k |-> IF n = 0 THEN {d} \cap DOMAIN fs ELSE Step(fs, u[n - 1])]

Climb(fs, d) == CHOOSE u : Climbs(fs, d, MaxDepth, u)

LEMMA ClimbExists ==
  ASSUME NEW fs, NEW d, NEW k \in Nat
  PROVE  \E u : Climbs(fs, d, k, u)
<1> DEFINE T == {n \in Nat : ~\E u : Climbs(fs, d, n, u)}
<1> SUFFICES ASSUME T # {} PROVE FALSE
  OBVIOUS
<1>1. PICK m \in T : \A n \in T : m <= n
  BY LeastNumber
<1>2. m # 0
  <2> DEFINE u == [n \in 0..0 |-> IF n = 0 THEN {d} \cap DOMAIN fs ELSE Step(fs, {})]
  <2>1. Climbs(fs, d, 0, u)
    BY DEF Climbs
  <2> QED
    BY <2>1, <1>1
<1>3. m - 1 \in Nat /\ m - 1 \notin T
  BY <1>1, <1>2
<1>4. PICK u : Climbs(fs, d, m - 1, u)
  BY <1>3
<1> DEFINE v == [n \in 0..m |-> IF n = 0 THEN {d} \cap DOMAIN fs ELSE Step(fs, u[n - 1])]
<1>5. \A n \in 0..(m - 1) : v[n] = u[n]
  <2>1. \A n \in 0..(m - 1) : u[n] = IF n = 0 THEN {d} \cap DOMAIN fs ELSE Step(fs, u[n - 1])
    BY <1>4, Zenon DEF Climbs
  <2>2. \A n \in 0..(m - 1) : n \in 0..m
    BY <1>3
  <2> QED
    BY <2>1, <2>2, Zenon
<1>6. \A n \in 0..m : v[n] = IF n = 0 THEN {d} \cap DOMAIN fs ELSE Step(fs, v[n - 1])
  <2>1. \A n \in 0..m : n = 0 \/ n - 1 \in 0..(m - 1)
    BY <1>3
  <2>2. \A n \in 0..m : v[n] = IF n = 0 THEN {d} \cap DOMAIN fs ELSE Step(fs, u[n - 1])
    OBVIOUS
  <2> HIDE DEF v
  <2> QED
    BY <1>5, <2>1, <2>2
<1>7. Climbs(fs, d, m, v)
  <2>1. DOMAIN v = 0..m /\ v = [n \in 0..m |-> v[n]]
    OBVIOUS
  <2> HIDE DEF v
  <2> QED BY <1>6, <2>1, Zenon DEF Climbs
<1> QED
  BY <1>1, <1>7

LEMMA ClimbFacts ==
  ASSUME NEW fs, NEW d
  PROVE  /\ Line(fs, d) = Climb(fs, d)[MaxDepth]
         /\ Climb(fs, d)[0] = {d} \cap DOMAIN fs
         /\ \A n \in 1..MaxDepth : Climb(fs, d)[n] = Step(fs, Climb(fs, d)[n - 1])
<1>0. MaxDepth \in Nat \ {0}
  BY TreeAssumption DEF TreeAssumption
<1>1. Climbs(fs, d, MaxDepth, Climb(fs, d))
  BY <1>0, ClimbExists DEF Climb
<1>2. Line(fs, d) = Climb(fs, d)[MaxDepth]
  BY DEF Line, Climb, Climbs, Step
<1> HIDE DEF Climb
<1>3. Climb(fs, d)[0] = {d} \cap DOMAIN fs
  BY <1>0, <1>1 DEF Climbs
<1>4. ASSUME NEW n \in 1..MaxDepth PROVE Climb(fs, d)[n] = Step(fs, Climb(fs, d)[n - 1])
  <2>1. n \in 0..MaxDepth /\ n # 0
    BY <1>0
  <2>2. \A u : Climbs(fs, d, MaxDepth, u) => u[n] = Step(fs, u[n - 1])
    BY <2>1, Zenon DEF Climbs
  <2> QED
    BY <1>1, <2>2
<1> QED BY <1>2, <1>3, <1>4

\* A set of numbers that goes down without end is empty: induction, for a set of
\* counterexamples.
LEMMA NoDescent ==
  ASSUME NEW B \in SUBSET Nat, 0 \notin B, \A n \in B : n - 1 \in B
  PROVE  B = {}
<1> SUFFICES ASSUME B # {} PROVE FALSE
  OBVIOUS
<1>1. PICK m \in B : \A n \in B : m <= n
  BY LeastNumber
<1> QED
  BY <1>1

LEMMA SelfInClimb ==
  ASSUME NEW fs, NEW d \in DOMAIN fs
  PROVE  \A n \in 0..MaxDepth : d \in Climb(fs, d)[n]
<1> DEFINE B == {n \in 0..MaxDepth : d \notin Climb(fs, d)[n]}
<1>0. MaxDepth \in Nat
  BY TreeAssumption DEF TreeAssumption
<1>1. B \in SUBSET Nat /\ 0 \notin B
  BY ClimbFacts
<1>2. ASSUME NEW n \in B PROVE n - 1 \in B
  <2>1. n \in 1..MaxDepth /\ n - 1 \in 0..MaxDepth
    BY <1>0, <1>1
  <2> QED
    BY <2>1, ClimbFacts DEF Step
<1>3. B = {}
  <2> HIDE DEF B
  <2> QED BY <1>1, <1>2, NoDescent
<1> QED BY <1>3

LEMMA RootClimb ==
  ASSUME NEW fs, NEW x \in DOMAIN fs, fs[x].parent \notin DOMAIN fs
  PROVE  \A n \in 0..MaxDepth : Climb(fs, x)[n] = {x}
<1> DEFINE B == {n \in 0..MaxDepth : Climb(fs, x)[n] # {x}}
<1>0. MaxDepth \in Nat
  BY TreeAssumption DEF TreeAssumption
<1>1. B \in SUBSET Nat /\ 0 \notin B
  BY ClimbFacts
<1>2. ASSUME NEW n \in B PROVE n - 1 \in B
  <2>1. n \in 1..MaxDepth /\ n - 1 \in 0..MaxDepth
    BY <1>0, <1>1
  <2> QED
    BY <2>1, ClimbFacts DEF Step
<1>3. B = {}
  <2> HIDE DEF B
  <2> QED BY <1>1, <1>2, NoDescent
<1> QED BY <1>3

LEMMA ChildClimb ==
  ASSUME NEW fs, NEW x \in DOMAIN fs, NEW p \in DOMAIN fs, fs[x].parent = p
  PROVE  \A n \in 1..MaxDepth : Climb(fs, x)[n] = {x} \cup Climb(fs, p)[n - 1]
<1> DEFINE B == {n \in 1..MaxDepth : Climb(fs, x)[n] # {x} \cup Climb(fs, p)[n - 1]}
<1>0. MaxDepth \in Nat
  BY TreeAssumption DEF TreeAssumption
<1>1. B \in SUBSET Nat /\ 0 \notin B
  OBVIOUS
<1>2. ASSUME NEW n \in B PROVE n - 1 \in B
  <2>1. CASE n = 1
    <3>1. Climb(fs, x)[0] = {x} /\ Climb(fs, p)[0] = {p}
      BY ClimbFacts
    <3>2. Climb(fs, x)[1] = Step(fs, Climb(fs, x)[0])
      BY <1>2, <2>1, ClimbFacts
    <3>3. Climb(fs, x)[1] = {x, p}
      BY <3>1, <3>2 DEF Step
    <3> QED BY <1>2, <2>1, <3>1, <3>3
  <2>2. CASE n # 1
    <3>1. /\ n \in 1..MaxDepth /\ n - 1 \in 1..MaxDepth /\ n - 1 \in 0..MaxDepth
          /\ (n - 1) - 1 \in 0..MaxDepth
      BY <1>0, <1>2, <2>2
    <3>2. /\ Climb(fs, x)[n] = Step(fs, Climb(fs, x)[n - 1])
          /\ Climb(fs, p)[n - 1] = Step(fs, Climb(fs, p)[(n - 1) - 1])
      BY <3>1, ClimbFacts
    <3>3. p \in Climb(fs, p)[n - 1]
      BY <3>1, SelfInClimb
    <3>4. ASSUME Climb(fs, x)[n - 1] = {x} \cup Climb(fs, p)[(n - 1) - 1]
          PROVE  Climb(fs, x)[n] = {x} \cup Climb(fs, p)[n - 1]
      BY <3>2, <3>3, <3>4 DEF Step
    <3> QED BY <1>2, <3>1, <3>4
  <2> QED BY <2>1, <2>2
<1>3. B = {}
  <2> HIDE DEF B
  <2> QED BY <1>1, <1>2, NoDescent
<1> QED BY <1>3

\* A numbering of the folders by their depth: there is one exactly when folders form
\* trees, in one repository each, within the limit.
Ranked(fs, h) ==
  /\ h \in [DOMAIN fs -> 1..MaxDepth]
  /\ \A x \in DOMAIN fs :
       \/ fs[x].parent = NoFolder /\ h[x] = 1
       \/ /\ fs[x].parent \in DOMAIN fs
          /\ fs[fs[x].parent].repo = fs[x].repo
          /\ h[x] = h[fs[x].parent] + 1

\* Induction along the tree, for a set of counterexamples.
LEMMA NoEndlessLine ==
  ASSUME NEW fs, NEW h, Ranked(fs, h), NoFolder \notin DOMAIN fs,
         NEW B \in SUBSET DOMAIN fs, \A x \in B : fs[x].parent \in B
  PROVE  B = {}
<1> SUFFICES ASSUME B # {} PROVE FALSE
  OBVIOUS
<1>0. MaxDepth \in Nat
  BY TreeAssumption DEF TreeAssumption
<1> DEFINE H == {h[x] : x \in B}
<1>1. H \in SUBSET Nat /\ H # {}
  BY <1>0 DEF Ranked
<1>2. \E m \in H : \A n \in H : m <= n
  <2> HIDE DEF H
  <2> QED BY <1>1, LeastNumber
<1>3. PICK x \in B : \A y \in B : h[x] <= h[y]
  BY <1>2
<1>4. h[x] = h[fs[x].parent] + 1 /\ h[fs[x].parent] \in Nat
  BY <1>0, <1>3 DEF Ranked
<1> QED
  BY <1>3, <1>4

LEMMA ClimbStops ==
  ASSUME NEW fs, NEW h, Ranked(fs, h), NoFolder \notin DOMAIN fs
  PROVE  \A x \in DOMAIN fs : \A n \in (h[x] - 1)..MaxDepth :
           Climb(fs, x)[n] = Climb(fs, x)[h[x] - 1]
<1> DEFINE Stops(x) == \A n \in (h[x] - 1)..MaxDepth : Climb(fs, x)[n] = Climb(fs, x)[h[x] - 1]
           B == {x \in DOMAIN fs : ~Stops(x)}
<1>0. MaxDepth \in Nat /\ \A x \in DOMAIN fs : h[x] \in 1..MaxDepth
  BY TreeAssumption DEF TreeAssumption, Ranked
<1>1. ASSUME NEW x \in B PROVE fs[x].parent \in B
  <2> DEFINE p == fs[x].parent
  <2>1. PICK n \in (h[x] - 1)..MaxDepth : Climb(fs, x)[n] # Climb(fs, x)[h[x] - 1]
    OBVIOUS
  <2>2. n \in 0..MaxDepth /\ h[x] - 1 \in 0..MaxDepth /\ h[x] \in 1..MaxDepth
    BY <1>0, <2>1
  <2>3. p \in DOMAIN fs
    <3>1. SUFFICES ASSUME fs[x].parent \notin DOMAIN fs PROVE FALSE
      OBVIOUS
    <3>2. \A m \in 0..MaxDepth : Climb(fs, x)[m] = {x}
      BY <3>1, RootClimb
    <3> QED BY <2>1, <2>2, <3>2
  <2>4. h[x] = h[p] + 1 /\ h[p] \in 1..MaxDepth
    BY <1>0, <2>3 DEF Ranked
  <2>5. /\ n \in 1..MaxDepth /\ h[x] - 1 \in 1..MaxDepth
        /\ n - 1 \in (h[p] - 1)..MaxDepth /\ (h[x] - 1) - 1 = h[p] - 1
    BY <1>0, <2>1, <2>2, <2>4
  <2>6. /\ Climb(fs, x)[n] = {x} \cup Climb(fs, p)[n - 1]
        /\ Climb(fs, x)[h[x] - 1] = {x} \cup Climb(fs, p)[(h[x] - 1) - 1]
    BY <2>3, <2>5, ChildClimb
  <2>7. Climb(fs, p)[n - 1] # Climb(fs, p)[h[p] - 1]
    BY <2>1, <2>5, <2>6
  <2> QED
    BY <2>3, <2>5, <2>7
<1>2. B = {}
  <2> HIDE DEF B
  <2>1. B \in SUBSET DOMAIN fs
    BY DEF B
  <2> QED BY <1>1, <2>1, NoEndlessLine
<1> QED BY <1>2

\* The line of a folder is the folder and the line of its parent.
LEMMA LineRoot ==
  ASSUME NEW fs, NEW x \in DOMAIN fs, fs[x].parent \notin DOMAIN fs
  PROVE  Line(fs, x) = {x}
BY RootClimb, ClimbFacts, TreeAssumption DEF TreeAssumption

LEMMA LineChild ==
  ASSUME NEW fs, NEW h, Ranked(fs, h), NoFolder \notin DOMAIN fs,
         NEW x \in DOMAIN fs, NEW p \in DOMAIN fs, fs[x].parent = p
  PROVE  Line(fs, x) = {x} \cup Line(fs, p)
<1>1. /\ MaxDepth \in 1..MaxDepth /\ h[p] \in 1..MaxDepth /\ h[p] + 1 \in 1..MaxDepth
      /\ MaxDepth \in Nat
  BY TreeAssumption DEF TreeAssumption, Ranked
<1>2. MaxDepth - 1 \in (h[p] - 1)..MaxDepth /\ MaxDepth \in (h[p] - 1)..MaxDepth
  BY <1>1
<1>3. Climb(fs, p)[MaxDepth - 1] = Climb(fs, p)[MaxDepth]
  BY <1>2, ClimbStops
<1> QED
  BY <1>1, <1>3, ChildClimb, ClimbFacts

\* Who is above whom, and how many they are.
LEMMA LineFacts ==
  ASSUME NEW fs, NEW h, Ranked(fs, h), NoFolder \notin DOMAIN fs
  PROVE  \A x \in DOMAIN fs :
           /\ x \in Line(fs, x) /\ Line(fs, x) \subseteq DOMAIN fs
           /\ \A y \in Line(fs, x) : h[y] <= h[x] /\ fs[y].repo = fs[x].repo
           /\ \E y \in Line(fs, x) : fs[y].parent = NoFolder
           /\ IsFiniteSet(Line(fs, x)) /\ Cardinality(Line(fs, x)) = h[x]
<1> DEFINE Good(x) == /\ x \in Line(fs, x) /\ Line(fs, x) \subseteq DOMAIN fs
                      /\ \A y \in Line(fs, x) : h[y] <= h[x] /\ fs[y].repo = fs[x].repo
                      /\ \E y \in Line(fs, x) : fs[y].parent = NoFolder
                      /\ IsFiniteSet(Line(fs, x)) /\ Cardinality(Line(fs, x)) = h[x]
           B == {x \in DOMAIN fs : ~Good(x)}
<1>0. MaxDepth \in Nat /\ \A x \in DOMAIN fs : h[x] \in 1..MaxDepth /\ h[x] \in Nat
  BY TreeAssumption DEF TreeAssumption, Ranked
<1>1. ASSUME NEW x \in DOMAIN fs, fs[x].parent = NoFolder PROVE Good(x)
  <2>1. Line(fs, x) = {x} /\ h[x] = 1
    BY <1>1, LineRoot DEF Ranked
  <2>2. IsFiniteSet({x}) /\ Cardinality({x}) = 1
    BY FS_Singleton
  <2> QED
    BY <1>1, <2>1, <2>2
<1>2. ASSUME NEW x \in DOMAIN fs, fs[x].parent \in DOMAIN fs, Good(fs[x].parent) PROVE Good(x)
  <2> DEFINE p == fs[x].parent
  <2>1. Line(fs, x) = {x} \cup Line(fs, p)
    BY <1>2, LineChild
  <2>2. h[x] = h[p] + 1 /\ fs[p].repo = fs[x].repo
    BY <1>2 DEF Ranked
  <2>3. x \notin Line(fs, p)
    BY <1>0, <1>2, <2>2
  <2>4. Cardinality(Line(fs, x)) = Cardinality(Line(fs, p)) + 1 /\ IsFiniteSet(Line(fs, x))
    BY <1>2, <2>1, <2>3, FS_AddElement
  <2>5. ASSUME NEW y \in Line(fs, x) PROVE h[y] <= h[x] /\ fs[y].repo = fs[x].repo
    <3>1. h[y] \in Nat /\ h[p] \in Nat /\ h[x] \in Nat
      BY <1>0, <1>2, <2>1
    <3>2. CASE y \in Line(fs, p)
      BY <1>2, <2>2, <3>1, <3>2
    <3> QED BY <2>1, <3>1, <3>2
  <2> QED
    BY <1>2, <2>1, <2>2, <2>4, <2>5
<1>3. \A x \in B : fs[x].parent \in B
  BY <1>1, <1>2 DEF Ranked
<1>4. B = {}
  <2> HIDE DEF B
  <2>1. B \in SUBSET DOMAIN fs
    BY DEF B
  <2> QED BY <1>3, <2>1, NoEndlessLine
<1> QED BY <1>4

-----------------------------------------------------------------------------
(* The invariant of the tree.                                                *)

\* Folders form trees, with different names under one parent, in repositories that
\* exist; a file lies in a folder of its repository.
RowsOK ==
  /\ \E h : Ranked(folders, h)
  /\ \A d \in DOMAIN folders : folders[d].repo \in DOMAIN repos
  /\ \A d, e \in DOMAIN folders :
       /\ folders[d].repo = folders[e].repo
       /\ folders[d].parent = folders[e].parent
       /\ folders[d].name = folders[e].name
       => d = e
  /\ \A f \in DOMAIN files :
       /\ files[f].repo \in DOMAIN repos
       /\ files[f].folder # NoFolder =>
            files[f].folder \in DOMAIN folders /\ folders[files[f].folder].repo = files[f].repo

Open(q) == uploads[q].at = "open"

\* Identifiers are not used twice: what an upload holds has no row, and no other
\* upload holds it.
HeldOK ==
  /\ DOMAIN repos \subseteq handedOut
  /\ DOMAIN folders \subseteq handedOut
  /\ DOMAIN files \subseteq handedOut
  /\ \A q \in Upload : Open(q) =>
       uploads[q].got \subseteq handedOut /\ uploads[q].got \cap DOMAIN files = {}
  /\ \A p, q \in Upload : Open(p) /\ Open(q) /\ p # q =>
       uploads[p].got \cap uploads[q].got = {}

\* The rows of files that go with a deletion.
Doomed(what, row) ==
  CASE what = "file" -> {row} \cap DOMAIN files
    [] what = "folder" -> FilesIn(Below(row))
    [] OTHER -> {f \in DOMAIN files : files[f].repo = row}

\* The deletion that runs takes the data of exactly the rows that go with it.
RemovalOK ==
  removal # NoRemoval =>
    /\ \A f \in Doomed(removal.what, removal.row) :
         /\ files[f].repo = removal.repo
         /\ <<removal.repo, f>> \in disk => f \in removal.todo
    /\ \A f \in removal.todo : f \in DOMAIN files /\ files[f].repo = removal.repo =>
         f \in Doomed(removal.what, removal.row)

DataOK ==
  /\ \A b \in disk :
       \/ b[2] \in DOMAIN files /\ files[b[2]].repo = b[1]
       \/ \E q \in Upload : Open(q) /\ uploads[q].repo = b[1] /\ b[2] \in uploads[q].got
       \/ b[2] \in leftover
  /\ \A f \in DOMAIN files :
       \/ <<files[f].repo, f>> \in disk
       \/ f \in leftover
       \/ /\ removal # NoRemoval
          /\ f \in Doomed(removal.what, removal.row) \ removal.todo

TreeInv == TreeTypeOK /\ RowsOK /\ AccessIsCurrent /\ HeldOK /\ RemovalOK /\ DataOK

-----------------------------------------------------------------------------
(* Tables.                                                                   *)

LEMMA WithoutFacts ==
  ASSUME NEW f, NEW keys
  PROVE  /\ DOMAIN Without(f, keys) = DOMAIN f \ keys
         /\ \A k \in DOMAIN f \ keys : Without(f, keys)[k] = f[k]
BY DEF Without, Restrict

LEMMA WithFacts ==
  ASSUME NEW f, NEW key, NEW row
  PROVE  /\ DOMAIN With(f, key, row) = DOMAIN f \cup {key}
         /\ With(f, key, row)[key] = row
         /\ \A k \in DOMAIN f : k # key => With(f, key, row)[k] = f[k]
BY DEF With

LEMMA WithoutTable ==
  ASSUME NEW f, NEW keys, NEW K, NEW row, IsTable(f, K, row)
  PROVE  IsTable(Without(f, keys), K, row)
<1> DEFINE t == Without(f, keys)
<1>1. DOMAIN t = DOMAIN f \ keys /\ \A k \in DOMAIN f \ keys : t[k] = f[k]
  BY WithoutFacts, Zenon
<1> HIDE DEF t
<1>2. IsTable(t, K, row)
  BY <1>1 DEF IsTable
<1> QED BY <1>2 DEF t

LEMMA WithTable ==
  ASSUME NEW f, NEW K, NEW row, IsTable(f, K, row), NEW key \in K, NEW value \in row
  PROVE  IsTable(With(f, key, value), K, row)
<1> DEFINE t == With(f, key, value)
<1>1. /\ DOMAIN t = DOMAIN f \cup {key} /\ t[key] = value
      /\ \A k \in DOMAIN f : k # key => t[k] = f[k]
  BY DEF With
<1> HIDE DEF t
<1>2. IsTable(t, K, row)
  BY <1>1 DEF IsTable
<1> QED BY <1>2 DEF t

-----------------------------------------------------------------------------
(* Steps that leave a part of the invariant alone.                           *)

LEMMA RowsFrame == RowsOK /\ UNCHANGED <<repos, folders, files>> => RowsOK'
BY DEF RowsOK

LEMMA AccessFrame == AccessIsCurrent /\ UNCHANGED <<users, repos, grants>> => AccessIsCurrent'
BY DEF AccessIsCurrent

LEMMA HeldFrame ==
  HeldOK /\ UNCHANGED <<uploads, repos, folders, files>> /\ handedOut \subseteq handedOut'
  => HeldOK'
BY DEF HeldOK, Open

LEMMA DataFrame ==
  ASSUME Free, DataOK, UNCHANGED <<disk, files, uploads, leftover>>
  PROVE  DataOK'
BY DEF DataOK, Free, Open

LEMMA QuietRemoval == removal' = NoRemoval => RemovalOK'
BY DEF RemovalOK

-----------------------------------------------------------------------------
(* One lemma for each action.                                                *)

LEMMA TreeInvInit == TreeInit => TreeInv
<1> SUFFICES ASSUME TreeInit PROVE TreeInv
  OBVIOUS
<1>1. TreeTypeOK
  BY DEF TreeInit, TreeTypeOK, IsTable
<1>2. RowsOK
  <2>1. folders = <<>> /\ files = <<>> /\ DOMAIN folders = {} /\ DOMAIN files = {}
    BY DEF TreeInit
  <2>2. Ranked(folders, [x \in DOMAIN folders |-> 1])
    BY <2>1 DEF Ranked
  <2> QED BY <2>1, <2>2 DEF RowsOK
<1>3. AccessIsCurrent /\ HeldOK /\ DataOK /\ RemovalOK
  <2>1. /\ DOMAIN folders = {} /\ DOMAIN files = {} /\ DOMAIN grants = {} /\ DOMAIN repos = {}
        /\ disk = {} /\ removal = NoRemoval /\ \A q \in Upload : uploads[q] = NoUpload
    BY DEF TreeInit
  <2>2. NoUpload.at # "open"
    BY DEF NoUpload
  <2> QED BY <2>1, <2>2 DEF AccessIsCurrent, HeldOK, DataOK, RemovalOK, Open
<1> QED BY <1>1, <1>2, <1>3 DEF TreeInv

LEMMA CreateUserStep ==
  ASSUME TreeInv, NEW u \in User, CreateUser(u)
  PROVE  TreeInv'
<1> USE DEF TreeInv, CreateUser
<1>1. TreeTypeOK'
  BY DEF TreeTypeOK
<1>2. RowsOK' /\ RemovalOK' /\ DataOK' /\ HeldOK'
  BY RowsFrame, QuietRemoval, DataFrame, HeldFrame DEF Free
<1>3. AccessIsCurrent'
  BY DEF AccessIsCurrent
<1> QED BY <1>1, <1>2, <1>3

LEMMA DeleteUserStep ==
  ASSUME TreeInv, NEW u \in User, DeleteUser(u)
  PROVE  TreeInv'
<1> USE DEF TreeInv
<1>0. /\ Free /\ u \in users /\ users' = users \ {u}
      /\ UNCHANGED <<folders, disk, handedOut, uploads, removal, leftover>>
      /\ grants' = Without(grants, Repo \X {u})
  BY DEF DeleteUser
<1>1. /\ DOMAIN repos' = DOMAIN repos
      /\ \A r \in DOMAIN repos :
           repos'[r] = IF repos[r].owner = u THEN [repos[r] EXCEPT !.owner = NoUser] ELSE repos[r]
  BY DEF DeleteUser
<1>2. /\ DOMAIN files' = DOMAIN files
      /\ \A f \in DOMAIN files :
           files'[f] = IF files[f].by = u THEN [files[f] EXCEPT !.by = NoUser] ELSE files[f]
  BY DEF DeleteUser
<1>3. \A r \in DOMAIN repos :
        /\ repos'[r] \in RepoRow
        /\ repos'[r].owner = IF repos[r].owner = u THEN NoUser ELSE repos[r].owner
  BY <1>1 DEF TreeTypeOK, IsTable, RepoRow
<1>4. \A f \in DOMAIN files :
        /\ files'[f] \in FileRow
        /\ files'[f].repo = files[f].repo /\ files'[f].folder = files[f].folder
  BY <1>2 DEF TreeTypeOK, IsTable, FileRow
<1>5. TreeTypeOK'
  <2>1. IsTable(repos', Repo, RepoRow) /\ IsTable(files', File, FileRow)
    BY <1>1, <1>2, <1>3, <1>4 DEF TreeTypeOK, IsTable
  <2>2. IsTable(grants', Repo \X User, (SUBSET Permission) \ {{}})
    BY <1>0, WithoutTable DEF TreeTypeOK
  <2> QED BY <1>0, <2>1, <2>2 DEF TreeTypeOK
<1>6. RowsOK'
  BY <1>0, <1>1, <1>2, <1>4 DEF RowsOK
<1>7. AccessIsCurrent'
  <2>1. \A g \in DOMAIN grants' : g \in DOMAIN grants /\ g \in Repo \X User /\ g[2] # u
    <3>1. DOMAIN grants' = DOMAIN grants \ (Repo \X {u}) /\ DOMAIN grants \subseteq Repo \X User
      BY <1>0, WithoutFacts DEF TreeTypeOK, IsTable
    <3> QED BY <3>1
  <2>2. \A r \in DOMAIN repos' : repos'[r].owner \in users' \cup {NoUser}
    BY <1>0, <1>1, <1>3 DEF AccessIsCurrent
  <2>3. ASSUME NEW g \in DOMAIN grants'
        PROVE  g[1] \in DOMAIN repos' /\ g[2] \in users' /\ repos'[g[1]].owner # g[2]
    <3>1. g[1] \in DOMAIN repos /\ g[2] \in users /\ repos[g[1]].owner # g[2] /\ g[2] \in User
      BY <2>1 DEF AccessIsCurrent
    <3>2. NoUser # g[2]
      BY <3>1, TreeAssumption DEF TreeAssumption
    <3> QED BY <1>0, <1>1, <1>3, <2>1, <3>1, <3>2
  <2> QED BY <2>2, <2>3 DEF AccessIsCurrent
<1>8. HeldOK'
  BY <1>0, <1>1, <1>2 DEF HeldOK, Open
<1>9. RemovalOK'
  BY <1>0, QuietRemoval DEF Free
<1>10. DataOK'
  BY <1>0, <1>2, <1>4 DEF DataOK, Open, Free
<1> QED BY <1>5, <1>6, <1>7, <1>8, <1>9, <1>10

LEMMA CreateRepoStep ==
  ASSUME TreeInv, NEW u \in User, NEW r \in Repo, NEW n \in Name, CreateRepo(u, r, n)
  PROVE  TreeInv'
<1> USE DEF TreeInv
<1>0. /\ Free /\ u \in users /\ r \notin handedOut /\ handedOut' = handedOut \cup {r}
      /\ UNCHANGED <<users, grants, folders, files, disk, uploads, removal, leftover>>
      /\ repos' = With(repos, r, [owner |-> u, name |-> n])
  BY DEF CreateRepo
<1>1. /\ DOMAIN repos' = DOMAIN repos \cup {r} /\ repos'[r] = [owner |-> u, name |-> n]
      /\ \A k \in DOMAIN repos : k # r => repos'[k] = repos[k]
  BY <1>0 DEF With
<1>1a. r \notin DOMAIN repos
  BY <1>0 DEF HeldOK
<1>2. TreeTypeOK'
  <2>1. [owner |-> u, name |-> n] \in RepoRow
    BY DEF RepoRow
  <2>2. IsTable(repos', Repo, RepoRow)
    BY <1>0, <2>1, WithTable DEF TreeTypeOK
  <2> QED BY <1>0, <2>2 DEF TreeTypeOK
<1>3. RowsOK'
  BY <1>0, <1>1, <1>1a DEF RowsOK
<1>4. AccessIsCurrent'
  BY <1>0, <1>1, <1>1a DEF AccessIsCurrent
<1>5. HeldOK'
  BY <1>0, <1>1, <1>1a DEF HeldOK, Open
<1>6. RemovalOK' /\ DataOK'
  BY <1>0, QuietRemoval, DataFrame DEF Free
<1> QED BY <1>2, <1>3, <1>4, <1>5, <1>6

LEMMA GrantStep ==
  ASSUME TreeInv, NEW u \in User \cup {Admin}, NEW r \in Repo, NEW v \in User,
         NEW P \in SUBSET Permission, Grant(u, r, v, P)
  PROVE  TreeInv'
<1> USE DEF TreeInv
<1>0. /\ Free /\ r \in DOMAIN repos /\ v \in users /\ repos[r].owner # v /\ P # {}
      /\ UNCHANGED <<users, repos, folders, files, disk, handedOut, uploads, removal, leftover>>
      /\ grants' = With(grants, <<r, v>>, P)
  BY DEF Grant, Grantee, SomePermission
<1>1. DOMAIN grants' = DOMAIN grants \cup {<<r, v>>}
  BY <1>0, WithFacts
<1>2. TreeTypeOK'
  <2>1. <<r, v>> \in Repo \X User /\ P \in (SUBSET Permission) \ {{}}
    BY <1>0
  <2>2. IsTable(With(grants, <<r, v>>, P), Repo \X User, (SUBSET Permission) \ {{}})
    BY <2>1, WithTable DEF TreeTypeOK
  <2> QED BY <1>0, <2>2 DEF TreeTypeOK
<1>3. AccessIsCurrent'
  BY <1>0, <1>1 DEF AccessIsCurrent
<1>4. RowsOK' /\ HeldOK' /\ RemovalOK' /\ DataOK'
  BY <1>0, RowsFrame, HeldFrame, QuietRemoval, DataFrame DEF Free
<1> QED BY <1>2, <1>3, <1>4

LEMMA RevokeStep ==
  ASSUME TreeInv, NEW u \in User \cup {Admin}, NEW r \in Repo, NEW v \in User, Revoke(u, r, v)
  PROVE  TreeInv'
<1> USE DEF TreeInv
<1>0. /\ Free
      /\ UNCHANGED <<users, repos, folders, files, disk, handedOut, uploads, removal, leftover>>
      /\ grants' = Without(grants, {<<r, v>>})
  BY DEF Revoke
<1>1. DOMAIN grants' \subseteq DOMAIN grants
  BY <1>0, WithoutFacts
<1>2. TreeTypeOK'
  <2>1. IsTable(grants', Repo \X User, (SUBSET Permission) \ {{}})
    BY <1>0, WithoutTable DEF TreeTypeOK
  <2> QED BY <1>0, <2>1 DEF TreeTypeOK
<1>3. AccessIsCurrent'
  BY <1>0, <1>1 DEF AccessIsCurrent
<1>4. RowsOK' /\ HeldOK' /\ RemovalOK' /\ DataOK'
  BY <1>0, RowsFrame, HeldFrame, QuietRemoval, DataFrame DEF Free
<1> QED BY <1>2, <1>3, <1>4

\* Depth goes on one level with a new folder.
LEMMA RankGrows ==
  ASSUME NEW fs, NEW h, Ranked(fs, h), NoFolder \notin DOMAIN fs,
         NEW d, d \notin DOMAIN fs, d # NoFolder, NEW row,
         \/ row.parent = NoFolder
         \/ /\ row.parent \in DOMAIN fs /\ fs[row.parent].repo = row.repo
            /\ Cardinality(Line(fs, row.parent)) < MaxDepth
  PROVE  \E g : Ranked(With(fs, d, row), g)
<1>0. MaxDepth \in Nat \ {0}
  BY TreeAssumption DEF TreeAssumption
<1> DEFINE new == With(fs, d, row)
           g == [x \in DOMAIN new |-> IF x # d THEN h[x]
                                      ELSE IF row.parent = NoFolder THEN 1 ELSE h[row.parent] + 1]
<1>1. /\ DOMAIN new = DOMAIN fs \cup {d} /\ new[d] = row
      /\ \A x \in DOMAIN fs : x # d /\ new[x] = fs[x]
  BY DEF With
<1>2. h \in [DOMAIN fs -> 1..MaxDepth]
  BY DEF Ranked
<1>3. row.parent # NoFolder => h[row.parent] + 1 \in 1..MaxDepth
  <2>1. SUFFICES ASSUME row.parent # NoFolder PROVE h[row.parent] < MaxDepth
    BY <1>0, <1>2
  <2> QED
    BY <2>1, LineFacts
<1> HIDE DEF new
<1>4. g \in [DOMAIN new -> 1..MaxDepth]
  BY <1>0, <1>1, <1>2, <1>3
<1>5. ASSUME NEW x \in DOMAIN new
      PROVE  \/ new[x].parent = NoFolder /\ g[x] = 1
             \/ /\ new[x].parent \in DOMAIN new
                /\ new[new[x].parent].repo = new[x].repo
                /\ g[x] = g[new[x].parent] + 1
  <2>1. CASE x = d
    BY <1>1, <2>1
  <2>2. CASE x # d
    <3>1. x \in DOMAIN fs /\ new[x] = fs[x] /\ g[x] = h[x]
      BY <1>1, <2>2
    <3>2. \/ fs[x].parent = NoFolder /\ h[x] = 1
          \/ /\ fs[x].parent \in DOMAIN fs
             /\ fs[fs[x].parent].repo = fs[x].repo
             /\ h[x] = h[fs[x].parent] + 1
      BY <3>1 DEF Ranked
    <3> QED BY <1>1, <3>1, <3>2
  <2> QED BY <2>1, <2>2
<1>6. Ranked(new, g)
  <2> HIDE DEF g
  <2> QED BY <1>4, <1>5 DEF Ranked
<1> QED BY <1>6 DEF new

LEMMA CreateFolderStep ==
  ASSUME TreeInv, NEW u \in User \cup {Admin}, NEW r \in Repo, NEW p \in Folder \cup {NoFolder},
         NEW n \in Name, NEW d \in Folder, CreateFolder(u, r, p, n, d)
  PROVE  TreeInv'
<1> USE DEF TreeInv
<1> DEFINE row == [repo |-> r, parent |-> p, name |-> n]
<1>0. /\ Free /\ d \notin handedOut /\ r \in DOMAIN repos
      /\ p # NoFolder => p \in DOMAIN folders /\ folders[p].repo = r /\ FitsBelow(p)
      /\ \A x \in Siblings(r, p) : folders[x].name # n
      /\ folders' = With(folders, d, row) /\ handedOut' = handedOut \cup {d}
      /\ UNCHANGED <<users, repos, grants, files, disk, uploads, removal, leftover>>
  BY DEF CreateFolder, Allows
<1>1. /\ DOMAIN folders' = DOMAIN folders \cup {d} /\ folders'[d] = row
      /\ \A x \in DOMAIN folders : x # d => folders'[x] = folders[x]
  BY <1>0 DEF With
<1>2. d \notin DOMAIN folders /\ d # NoFolder /\ NoFolder \notin DOMAIN folders
  BY <1>0, TreeAssumption DEF HeldOK, TreeAssumption, TreeTypeOK, IsTable
<1>3. TreeTypeOK'
  <2>1. row \in FolderRow
    BY DEF FolderRow
  <2>2. IsTable(folders', Folder, FolderRow)
    BY <1>0, <2>1, WithTable DEF TreeTypeOK
  <2> QED BY <1>0, <2>2 DEF TreeTypeOK
<1>4. RowsOK'
  <2>1. PICK h : Ranked(folders, h)
    BY DEF RowsOK
  <2>2. row.parent = p /\ row.repo = r /\ row.name = n
    OBVIOUS
  <2> HIDE DEF row
  <2>3. \/ row.parent = NoFolder
        \/ /\ row.parent \in DOMAIN folders /\ folders[row.parent].repo = row.repo
           /\ Cardinality(Line(folders, row.parent)) < MaxDepth
    BY <1>0, <2>2 DEF FitsBelow
  <2>4. \E g : Ranked(folders', g)
    BY <1>0, <1>2, <2>1, <2>3, RankGrows
  <2>5. \A e \in DOMAIN folders' : folders'[e].repo \in DOMAIN repos'
    BY <1>0, <1>1, <2>2 DEF RowsOK
  <2>6. ASSUME NEW x \in DOMAIN folders', NEW y \in DOMAIN folders',
               folders'[x].repo = folders'[y].repo, folders'[x].parent = folders'[y].parent,
               folders'[x].name = folders'[y].name
        PROVE  x = y
    <3>1. \A z \in DOMAIN folders :
            ~(folders[z].repo = r /\ folders[z].parent = p /\ folders[z].name = n)
      BY <1>0 DEF Siblings
    <3>2. CASE x # d /\ y # d
      BY <1>1, <2>6, <3>2 DEF RowsOK
    <3>3. CASE x = d \/ y = d
      BY <1>1, <1>2, <2>2, <2>6, <3>1, <3>3
    <3> QED BY <3>2, <3>3
  <2>7. \A f \in DOMAIN files' :
          /\ files'[f].repo \in DOMAIN repos'
          /\ files'[f].folder # NoFolder =>
               /\ files'[f].folder \in DOMAIN folders'
               /\ folders'[files'[f].folder].repo = files'[f].repo
    BY <1>0, <1>1, <1>2 DEF RowsOK
  <2> QED BY <2>4, <2>5, <2>6, <2>7 DEF RowsOK
<1>5. HeldOK'
  BY <1>0, <1>1 DEF HeldOK, Open
<1>6. AccessIsCurrent' /\ RemovalOK' /\ DataOK'
  BY <1>0, AccessFrame, QuietRemoval, DataFrame DEF Free
<1> QED BY <1>3, <1>4, <1>5, <1>6

-----------------------------------------------------------------------------
(* Deletion.                                                                 *)

LEMMA BeginStep ==
  ASSUME TreeInv, NEW what \in {"file", "folder", "repository"}, NEW row \in File \cup Folder \cup Repo,
         NEW r \in Repo, NEW todo \in SUBSET File, Begin(what, row, r, todo),
         \A f \in Doomed(what, row) :
           files[f].repo = r /\ (<<r, f>> \in disk => f \in todo),
         \A f \in todo : f \in DOMAIN files /\ files[f].repo = r => f \in Doomed(what, row)
  PROVE  TreeInv'
<1> USE DEF TreeInv
<1>0. /\ Free /\ removal' = [what |-> what, row |-> row, repo |-> r, todo |-> todo]
      /\ UNCHANGED <<users, repos, grants, folders, files, disk, handedOut, uploads, leftover>>
  BY DEF Begin
<1>1. TreeTypeOK'
  BY <1>0 DEF TreeTypeOK
<1>2. RowsOK' /\ AccessIsCurrent' /\ HeldOK' /\ DataOK'
  BY <1>0, RowsFrame, AccessFrame, HeldFrame, DataFrame
<1>3. Doomed(what, row)' = Doomed(what, row)
  BY <1>0 DEF Doomed, FilesIn, Below
<1>4. RemovalOK'
  BY <1>0, <1>3 DEF RemovalOK
<1> QED BY <1>1, <1>2, <1>4

LEMMA BeginDeleteFileStep ==
  ASSUME TreeInv, NEW u \in User \cup {Admin}, NEW f \in File, BeginDeleteFile(u, f)
  PROVE  TreeInv'
<1>1. f \in DOMAIN files /\ files[f].repo \in Repo /\ Begin("file", f, files[f].repo, {f})
  BY DEF BeginDeleteFile, TreeInv, TreeTypeOK, IsTable, FileRow
<1>2. Doomed("file", f) = {f}
  BY <1>1 DEF Doomed
<1>3. {f} \in SUBSET File
  OBVIOUS
<1> QED BY <1>1, <1>2, <1>3, BeginStep

\* What lies below a folder lies in its repository.
LEMMA BelowInRepo ==
  ASSUME TreeTypeOK, RowsOK, NEW d \in DOMAIN folders
  PROVE  \A f \in FilesIn(Below(d)) : f \in DOMAIN files /\ files[f].repo = folders[d].repo
<1>1. PICK h : Ranked(folders, h)
  BY DEF RowsOK
<1>2. NoFolder \notin DOMAIN folders
  BY TreeAssumption DEF TreeAssumption, TreeTypeOK, IsTable
<1>3. \A x \in Below(d) : x \in DOMAIN folders /\ folders[d].repo = folders[x].repo
  BY <1>1, <1>2, LineFacts DEF Below
<1> QED BY <1>2, <1>3 DEF FilesIn, RowsOK

LEMMA BeginDeleteFolderStep ==
  ASSUME TreeInv, NEW u \in User \cup {Admin}, NEW d \in Folder, BeginDeleteFolder(u, d)
  PROVE  TreeInv'
<1>1. /\ d \in DOMAIN folders /\ folders[d].repo \in Repo
      /\ Begin("folder", d, folders[d].repo, DataBelow(d))
  BY DEF BeginDeleteFolder, TreeInv, TreeTypeOK, IsTable, FolderRow
<1>2. Doomed("folder", d) = DataBelow(d)
  BY DEF Doomed, DataBelow
<1>3. DataBelow(d) \in SUBSET File
  BY DEF DataBelow, FilesIn, TreeInv, TreeTypeOK, IsTable
<1>4. \A f \in DataBelow(d) : files[f].repo = folders[d].repo
  BY <1>1, BelowInRepo DEF TreeInv, DataBelow
<1> QED BY <1>1, <1>2, <1>3, <1>4, BeginStep

LEMMA BeginDeleteRepoStep ==
  ASSUME TreeInv, NEW u \in User \cup {Admin}, NEW r \in Repo, BeginDeleteRepo(u, r)
  PROVE  TreeInv'
<1> DEFINE todo == {f \in File : <<r, f>> \in disk}
<1>1. Begin("repository", r, r, todo)
  BY DEF BeginDeleteRepo
<1>2. Doomed("repository", r) = {f \in DOMAIN files : files[f].repo = r}
  BY DEF Doomed
<1>3. \A f \in Doomed("repository", r) : f \in File /\ files[f].repo = r
  BY <1>2 DEF TreeInv, TreeTypeOK, IsTable
<1>4. todo \in SUBSET File
  OBVIOUS
<1>5. /\ \A f \in Doomed("repository", r) :
           files[f].repo = r /\ (<<r, f>> \in disk => f \in todo)
      /\ \A f \in todo : f \in DOMAIN files /\ files[f].repo = r => f \in Doomed("repository", r)
  BY <1>2, <1>3
<1> HIDE DEF todo
<1> QED BY <1>1, <1>4, <1>5, BeginStep

LEMMA RemoveDataStep ==
  ASSUME TreeInv, NEW f \in File, RemoveData(f)
  PROVE  TreeInv'
<1> USE DEF TreeInv
<1>0. /\ removal # NoRemoval /\ f \in removal.todo /\ disk' = disk \ {<<removal.repo, f>>}
      /\ UNCHANGED <<users, repos, grants, folders, files, handedOut, uploads, leftover>>
  BY DEF RemoveData
<1>1. /\ removal' \in [what : {"file", "folder", "repository"}, row : File \cup Folder \cup Repo,
                       repo : Repo, todo : SUBSET File]
      /\ removal'.what = removal.what /\ removal'.row = removal.row
      /\ removal'.repo = removal.repo /\ removal'.todo = removal.todo \ {f}
  BY DEF RemoveData, TreeTypeOK
<1>2. removal' # NoRemoval
  BY <1>1 DEF NoRemoval
<1>3. TreeTypeOK'
  BY <1>0, <1>1 DEF TreeTypeOK
<1>4. RowsOK' /\ AccessIsCurrent' /\ HeldOK'
  BY <1>0, RowsFrame, AccessFrame, HeldFrame
<1>5. Doomed(removal.what, removal.row)' = Doomed(removal.what, removal.row)
  BY <1>0, <1>1 DEF Doomed, FilesIn, Below
<1>6. RemovalOK'
  BY <1>0, <1>1, <1>5 DEF RemovalOK
<1>7. DataOK'
  <2>1. \A b \in disk' :
          \/ b[2] \in DOMAIN files' /\ files'[b[2]].repo = b[1]
          \/ \E q \in Upload : /\ Open(q)' /\ uploads'[q].repo = b[1] /\ b[2] \in uploads'[q].got
          \/ b[2] \in leftover'
    BY <1>0 DEF DataOK, Open
  <2>2. ASSUME NEW g \in DOMAIN files'
        PROVE  \/ <<files'[g].repo, g>> \in disk'
               \/ g \in leftover'
               \/ /\ removal' # NoRemoval
                  /\ g \in Doomed(removal.what, removal.row)' \ removal'.todo
    <3>1. \/ <<files[g].repo, g>> \in disk
          \/ g \in leftover
          \/ g \in Doomed(removal.what, removal.row) \ removal.todo
      BY <1>0 DEF DataOK
    <3>2. CASE g = f /\ files[g].repo = removal.repo
      <4>1. g \in Doomed(removal.what, removal.row)
        BY <1>0, <3>2 DEF RemovalOK
      <4> QED BY <1>1, <1>2, <1>5, <3>2, <4>1
    <3>3. CASE <<files[g].repo, g>> # <<removal.repo, f>>
      BY <1>0, <1>1, <1>2, <1>5, <3>1, <3>3
    <3> QED BY <3>2, <3>3
  <2> QED BY <2>1, <2>2 DEF DataOK
<1> QED BY <1>3, <1>4, <1>6, <1>7

LEMMA GiveUpRemovalStep ==
  ASSUME TreeInv, GiveUpRemoval
  PROVE  TreeInv'
<1> USE DEF TreeInv
<1>0. /\ removal' = NoRemoval
      /\ leftover' = leftover \cup {f \in DOMAIN files : <<files[f].repo, f>> \notin disk}
      /\ UNCHANGED <<users, repos, grants, folders, files, disk, handedOut, uploads>>
  BY DEF GiveUpRemoval
<1>1. TreeTypeOK'
  BY <1>0 DEF TreeTypeOK, IsTable
<1>2. RowsOK' /\ AccessIsCurrent' /\ HeldOK' /\ RemovalOK'
  BY <1>0, RowsFrame, AccessFrame, HeldFrame, QuietRemoval
<1>3. DataOK'
  BY <1>0 DEF DataOK, Open
<1> QED BY <1>1, <1>2, <1>3

\* A set of folders with everything below it can go.
LEMMA RankShrinks ==
  ASSUME NEW fs, NEW h, Ranked(fs, h), NEW gone,
         \A x \in DOMAIN fs \ gone : fs[x].parent \notin gone
  PROVE  \E g : Ranked(Without(fs, gone), g)
<1> DEFINE new == Without(fs, gone)
           g == [x \in DOMAIN new |-> h[x]]
<1>1. DOMAIN new = DOMAIN fs \ gone /\ \A x \in DOMAIN fs \ gone : new[x] = fs[x]
  BY WithoutFacts
<1> HIDE DEF new
<1>2. h \in [DOMAIN fs -> 1..MaxDepth]
  BY DEF Ranked
<1>3. g \in [DOMAIN new -> 1..MaxDepth]
  BY <1>1, <1>2
<1>4. Ranked(new, g)
  <2>1. \A x \in DOMAIN new :
          \/ new[x].parent = NoFolder /\ g[x] = 1
          \/ /\ new[x].parent \in DOMAIN new
             /\ new[new[x].parent].repo = new[x].repo
             /\ g[x] = g[new[x].parent] + 1
    BY <1>1 DEF Ranked
  <2> HIDE DEF g
  <2> QED BY <1>3, <2>1 DEF Ranked
<1> QED BY <1>4 DEF new

LEMMA BelowStays ==
  ASSUME TreeTypeOK, NEW h, Ranked(folders, h), NEW d
  PROVE  \A x \in DOMAIN folders \ Below(d) : folders[x].parent \notin Below(d)
<1>1. NoFolder \notin DOMAIN folders
  BY TreeAssumption DEF TreeAssumption, TreeTypeOK, IsTable
<1>2. SUFFICES ASSUME NEW x \in DOMAIN folders, folders[x].parent \in Below(d)
               PROVE  x \in Below(d)
  OBVIOUS
<1>3. folders[x].parent \in DOMAIN folders /\ d \in Line(folders, folders[x].parent)
  BY <1>2 DEF Below
<1>4. Line(folders, x) = {x} \cup Line(folders, folders[x].parent)
  BY <1>1, <1>3, LineChild
<1> QED BY <1>3, <1>4 DEF Below

\* What a table keeps of its rows when some of them go.
Remains(new, old, gone) ==
  DOMAIN new = DOMAIN old \ gone /\ \A k \in DOMAIN new : new[k] = old[k]

LEMMA WithoutRemains ==
  ASSUME NEW new, NEW old, NEW keys, NEW gone, new = Without(old, keys),
         gone \cap DOMAIN old = keys \cap DOMAIN old
  PROVE  Remains(new, old, gone)
<1>1. DOMAIN new = DOMAIN old \ keys /\ \A k \in DOMAIN old \ keys : new[k] = old[k]
  BY DEF Without, Restrict
<1> QED BY <1>1 DEF Remains

LEMMA DeleteRowStep ==
  ASSUME TreeInv, DeleteRow
  PROVE  TreeInv'
<1> USE DEF TreeInv
<1> DEFINE row == removal.row
           kind == removal.what
           Doom == Doomed(kind, row)
           R == IF kind \in {"file", "folder"} THEN {} ELSE {row}
           D == IF kind = "file" THEN {} ELSE IF kind = "folder" THEN Below(row)
                ELSE {d \in DOMAIN folders : folders[d].repo = row}
<1>0. /\ removal # NoRemoval /\ removal.todo = {} /\ removal' = NoRemoval
      /\ UNCHANGED <<users, disk, handedOut, uploads, leftover>>
      /\ kind \in {"file", "folder", "repository"}
  <2>1. removal # NoRemoval /\ removal.todo = {} /\ removal' = NoRemoval
        /\ UNCHANGED <<users, disk, handedOut, uploads, leftover>>
    BY DEF DeleteRow
  <2> QED BY <2>1 DEF TreeTypeOK
<1>1. Remains(files', files, Doom)
  <2>1. CASE kind = "file"
    <3>1. files' = Without(files, {row}) /\ Doom = {row} \cap DOMAIN files
      BY <2>1 DEF DeleteRow, Doomed
    <3> QED BY <3>1, WithoutRemains
  <2>2. CASE kind = "folder"
    <3>1. files' = Without(files, FilesIn(Below(row))) /\ Doom = FilesIn(Below(row))
      BY <2>2 DEF DeleteRow, Doomed
    <3> QED BY <3>1, WithoutRemains
  <2>3. CASE kind = "repository"
    <3>1. files' = Without(files, {f \in DOMAIN files : files[f].repo = row})
          /\ Doom = {f \in DOMAIN files : files[f].repo = row}
      BY <2>3 DEF DeleteRow, Doomed
    <3> QED BY <3>1, WithoutRemains
  <2> QED BY <1>0, <2>1, <2>2, <2>3
<1>2. Remains(repos', repos, R)
  <2>1. CASE kind \in {"file", "folder"}
    <3>1. repos' = repos
      BY <2>1 DEF DeleteRow
    <3> QED BY <2>1, <3>1 DEF Remains
  <2>2. CASE kind = "repository"
    <3>1. repos' = Without(repos, {row}) /\ R = {row}
      BY <2>2 DEF DeleteRow
    <3> QED BY <3>1, WithoutRemains
  <2> QED BY <1>0, <2>1, <2>2
<1>3. Remains(grants', grants, R \X User)
  <2>1. CASE kind \in {"file", "folder"}
    <3>1. grants' = grants /\ R = {}
      BY <2>1 DEF DeleteRow
    <3> QED BY <3>1 DEF Remains
  <2>2. CASE kind = "repository"
    <3>1. grants' = Without(grants, {row} \X User) /\ R = {row}
      BY <2>2 DEF DeleteRow
    <3> QED BY <3>1, WithoutRemains
  <2> QED BY <1>0, <2>1, <2>2
<1>4. Remains(folders', folders, D)
  <2>1. CASE kind = "file"
    <3>1. folders' = folders /\ D = {}
      BY <2>1 DEF DeleteRow
    <3> QED BY <3>1 DEF Remains
  <2>2. CASE kind = "folder"
    <3>1. folders' = Without(folders, Below(row)) /\ D = Below(row)
      BY <2>2 DEF DeleteRow
    <3> QED BY <3>1, WithoutRemains
  <2>3. CASE kind = "repository"
    <3>1. folders' = Without(folders, {d \in DOMAIN folders : folders[d].repo = row})
          /\ D = {d \in DOMAIN folders : folders[d].repo = row}
      BY <2>3 DEF DeleteRow
    <3> QED BY <3>1, WithoutRemains
  <2> QED BY <1>0, <2>1, <2>2, <2>3
<1>5. PICK h : Ranked(folders, h)
  BY DEF RowsOK
\* No folder that stays is below one that goes, and no file that stays lies in one.
<1>6. /\ \A d \in DOMAIN folders \ D : folders[d].parent \notin D
      /\ \A f \in DOMAIN files \ Doom : files[f].folder \notin D
      /\ \A d \in DOMAIN folders \ D : folders[d].repo \notin R
      /\ \A f \in DOMAIN files \ Doom : files[f].repo \notin R
  <2>1. CASE kind = "file"
    BY <2>1
  <2>2. CASE kind = "folder"
    <3>1. D = Below(row) /\ R = {} /\ Doom = FilesIn(Below(row))
      BY <2>2 DEF Doomed
    <3> QED BY <1>5, <3>1, BelowStays DEF FilesIn
  <2>3. CASE kind = "repository"
    <3>1. /\ D = {d \in DOMAIN folders : folders[d].repo = row} /\ R = {row}
          /\ Doom = {f \in DOMAIN files : files[f].repo = row}
      BY <2>3 DEF Doomed
    <3>2. NoFolder \notin DOMAIN folders
      BY TreeAssumption DEF TreeAssumption, TreeTypeOK, IsTable
    <3>3. \A d \in DOMAIN folders : folders[d].parent \in D => d \in D
      BY <1>5, <3>1, <3>2 DEF Ranked
    <3>4. \A f \in DOMAIN files : files[f].folder \in D => f \in Doom
      BY <3>1, <3>2 DEF RowsOK
    <3> QED BY <3>1, <3>3, <3>4
  <2> QED BY <1>0, <2>1, <2>2, <2>3
<1> HIDE DEF Doom, R, D
<1>7. TreeTypeOK'
  BY <1>0, <1>1, <1>2, <1>3, <1>4 DEF TreeTypeOK, IsTable, Remains
<1>8. RowsOK'
  <2>1. \E g : Ranked(folders', g)
    <3> DEFINE g == [x \in DOMAIN folders' |-> h[x]]
    <3>1. g \in [DOMAIN folders' -> 1..MaxDepth]
      BY <1>4, <1>5 DEF Remains, Ranked
    <3>2. \A x \in DOMAIN folders' :
            \/ folders'[x].parent = NoFolder /\ g[x] = 1
            \/ /\ folders'[x].parent \in DOMAIN folders'
               /\ folders'[folders'[x].parent].repo = folders'[x].repo
               /\ g[x] = g[folders'[x].parent] + 1
      BY <1>4, <1>5, <1>6 DEF Remains, Ranked
    <3> HIDE DEF g
    <3> QED BY <3>1, <3>2 DEF Ranked
  <2>2. \A d \in DOMAIN folders' : folders'[d].repo \in DOMAIN repos'
    BY <1>2, <1>4, <1>6 DEF Remains, RowsOK
  <2>3. \A d, e \in DOMAIN folders' :
          /\ folders'[d].repo = folders'[e].repo
          /\ folders'[d].parent = folders'[e].parent
          /\ folders'[d].name = folders'[e].name
          => d = e
    BY <1>4 DEF Remains, RowsOK
  <2>4. \A f \in DOMAIN files' :
          /\ files'[f].repo \in DOMAIN repos'
          /\ files'[f].folder # NoFolder =>
               /\ files'[f].folder \in DOMAIN folders'
               /\ folders'[files'[f].folder].repo = files'[f].repo
    BY <1>1, <1>2, <1>4, <1>6 DEF Remains, RowsOK
  <2> QED BY <2>1, <2>2, <2>3, <2>4 DEF RowsOK
<1>9. AccessIsCurrent'
  <2>1. \A g \in DOMAIN grants' : g \in DOMAIN grants /\ g[1] \in DOMAIN repos'
    <3>1. DOMAIN grants \subseteq Repo \X User
      BY DEF TreeTypeOK, IsTable
    <3>2. \A g \in DOMAIN grants' : g \in DOMAIN grants /\ g[1] \notin R
      BY <1>3, <3>1 DEF Remains
    <3> QED BY <1>2, <3>2 DEF Remains, AccessIsCurrent
  <2> QED BY <1>0, <1>2, <2>1 DEF Remains, AccessIsCurrent
<1>10. HeldOK'
  BY <1>0, <1>1, <1>2, <1>4 DEF Remains, HeldOK, Open
<1>11. RemovalOK'
  BY <1>0, QuietRemoval
<1>12. DataOK'
  <2>1. \A f \in Doom : files[f].repo = removal.repo /\ <<removal.repo, f>> \notin disk
    BY <1>0 DEF RemovalOK, Doom
  <2>2. disk \subseteq Repo \X File
    BY DEF TreeTypeOK
  <2>3. ASSUME NEW b \in disk'
        PROVE  \/ b[2] \in DOMAIN files' /\ files'[b[2]].repo = b[1]
               \/ \E q \in Upload : /\ Open(q)' /\ uploads'[q].repo = b[1]
                                    /\ b[2] \in uploads'[q].got
               \/ b[2] \in leftover'
    <3>1. b \in disk /\ b = <<b[1], b[2]>>
      BY <1>0, <2>2
    <3>2. CASE b[2] \in DOMAIN files /\ files[b[2]].repo = b[1]
      <4>1. b[2] \notin Doom
        BY <2>1, <3>1, <3>2
      <4> QED BY <1>1, <3>2, <4>1 DEF Remains
    <3>3. CASE ~(b[2] \in DOMAIN files /\ files[b[2]].repo = b[1])
      BY <1>0, <3>1, <3>3 DEF DataOK, Open
    <3> QED BY <3>2, <3>3
  <2>4. \A f \in DOMAIN files' : <<files'[f].repo, f>> \in disk' \/ f \in leftover'
    BY <1>0, <1>1 DEF DataOK, Remains, Doom
  <2> QED BY <2>3, <2>4 DEF DataOK
<1> QED BY <1>7, <1>8, <1>9, <1>10, <1>11, <1>12

-----------------------------------------------------------------------------
(* Uploads.                                                                  *)

OpenUpload ==
  [at : {"open"}, user : User \cup {Admin}, repo : Repo, folder : Folder \cup {NoFolder},
   got : SUBSET File]

LEMMA OpenType ==
  ASSUME TreeTypeOK, NEW q \in Upload
  PROVE  /\ uploads[q].at = "open" => uploads[q] \in OpenUpload
         /\ NoUpload.at # "open"
BY DEF TreeTypeOK, NoUpload, OpenUpload

LEMMA BeginUploadStep ==
  ASSUME TreeInv, NEW u \in User \cup {Admin}, NEW r \in Repo, NEW q \in Upload,
         NEW d \in Folder \cup {NoFolder}, BeginUpload(q, u, r, d)
  PROVE  TreeInv'
<1> USE DEF TreeInv
<1> DEFINE new == [at |-> "open", user |-> u, repo |-> r, folder |-> d, got |-> {}]
<1>0. /\ Free /\ uploads[q] = NoUpload /\ uploads' = [uploads EXCEPT ![q] = new]
      /\ UNCHANGED <<users, repos, grants, folders, files, disk, handedOut, removal, leftover>>
  BY DEF BeginUpload
<1>1. /\ uploads'[q] = new /\ \A p \in Upload : p # q => uploads'[p] = uploads[p]
      /\ new \in OpenUpload /\ new.got = {} /\ ~Open(q)
  BY <1>0 DEF TreeTypeOK, OpenUpload, Open, NoUpload
<1> HIDE DEF new
<1>2. TreeTypeOK'
  BY <1>0, <1>1 DEF TreeTypeOK, OpenUpload
<1>3. RowsOK' /\ AccessIsCurrent' /\ RemovalOK'
  BY <1>0, RowsFrame, AccessFrame, QuietRemoval DEF Free
<1>4. HeldOK'
  <2>1. \A p \in Upload : uploads'[p].got = {} \/ (uploads'[p] = uploads[p] /\ p # q)
    BY <1>1
  <2> QED BY <1>0, <2>1 DEF HeldOK, Open
<1>5. DataOK'
  BY <1>0, <1>1 DEF DataOK, Open, Free
<1> QED BY <1>2, <1>3, <1>4, <1>5

LEMMA ReceiveFileStep ==
  ASSUME TreeInv, NEW q \in Upload, NEW f \in File, ReceiveFile(q, f)
  PROVE  TreeInv'
<1> USE DEF TreeInv
<1>0. /\ Free /\ Open(q) /\ f \notin handedOut /\ disk' = disk \cup {<<uploads[q].repo, f>>}
      /\ handedOut' = handedOut \cup {f}
      /\ UNCHANGED <<users, repos, grants, folders, files, removal, leftover>>
  BY DEF ReceiveFile, Open
<1>1. /\ uploads[q] \in OpenUpload /\ uploads'[q] \in OpenUpload
      /\ uploads'[q].repo = uploads[q].repo /\ uploads'[q].got = uploads[q].got \cup {f}
      /\ \A p \in Upload : p # q => uploads'[p] = uploads[p]
  BY <1>0, OpenType DEF ReceiveFile, OpenUpload, TreeTypeOK, Open
<1>2. uploads[q].repo \in Repo /\ uploads'[q].at = "open"
  BY <1>1 DEF OpenUpload
<1>3. TreeTypeOK'
  <2>1. DOMAIN uploads' = Upload /\ uploads' = [p \in Upload |-> uploads'[p]]
    BY DEF ReceiveFile, TreeTypeOK
  <2>2. \A p \in Upload : uploads'[p] \in {NoUpload} \cup OpenUpload
    BY <1>1 DEF TreeTypeOK, OpenUpload
  <2>3. uploads' \in [Upload -> {NoUpload} \cup OpenUpload]
    BY <2>1, <2>2
  <2> QED BY <1>0, <1>2, <2>3 DEF TreeTypeOK, OpenUpload
<1>4. RowsOK' /\ AccessIsCurrent' /\ RemovalOK'
  BY <1>0, RowsFrame, AccessFrame, QuietRemoval DEF Free
<1>5. HeldOK'
  <2>1. f \notin DOMAIN files /\ \A p \in Upload : Open(p) => f \notin uploads[p].got
    BY <1>0 DEF HeldOK
  <2> QED BY <1>0, <1>1, <2>1 DEF HeldOK, Open
<1>6. DataOK'
  <2>1. \A p \in Upload : Open(p) =>
          Open(p)' /\ uploads'[p].repo = uploads[p].repo /\ uploads[p].got \subseteq uploads'[p].got
    BY <1>1, <1>2 DEF Open
  <2>2. f \in uploads'[q].got
    BY <1>1
  <2>3. Open(q)'
    BY <1>2 DEF Open
  <2>4. ASSUME NEW b \in disk'
        PROVE  \/ b[2] \in DOMAIN files' /\ files'[b[2]].repo = b[1]
               \/ \E p \in Upload : /\ Open(p)' /\ uploads'[p].repo = b[1]
                                    /\ b[2] \in uploads'[p].got
               \/ b[2] \in leftover'
    <3>1. CASE b \in disk
      BY <1>0, <2>1, <3>1 DEF DataOK
    <3>2. CASE b = <<uploads[q].repo, f>>
      BY <1>1, <2>2, <2>3, <3>2
    <3> QED BY <1>0, <3>1, <3>2
  <2>5. \A g \in DOMAIN files' : <<files'[g].repo, g>> \in disk' \/ g \in leftover'
    BY <1>0 DEF DataOK, Free
  <2> QED BY <2>4, <2>5 DEF DataOK
<1> QED BY <1>3, <1>4, <1>5, <1>6

\* What the end of an upload request leaves of the others.
LEMMA EndUploadFacts ==
  ASSUME TreeInv, NEW q \in Upload, Open(q), EndUpload(q)
  PROVE  /\ uploads' \in [Upload -> {NoUpload} \cup OpenUpload]
         /\ ~Open(q)'
         /\ \A p \in Upload : p # q => uploads'[p] = uploads[p]
         /\ \A p \in Upload : Open(p)' => p # q /\ Open(p)
         /\ uploads[q] \in OpenUpload
<1>1. /\ uploads' = [uploads EXCEPT ![q] = NoUpload]
      /\ uploads \in [Upload -> {NoUpload} \cup OpenUpload]
  BY DEF EndUpload, TreeInv, TreeTypeOK, OpenUpload
<1>2. NoUpload.at # "open"
  BY DEF NoUpload
<1>3. uploads'[q] = NoUpload /\ \A p \in Upload : p # q => uploads'[p] = uploads[p]
  BY <1>1
<1> QED BY <1>1, <1>2, <1>3 DEF Open

LEMMA RefuseUploadStep ==
  ASSUME TreeInv, NEW q \in Upload, RefuseUpload(q)
  PROVE  TreeInv'
<1> USE DEF TreeInv
<1>0. /\ Free /\ Open(q) /\ EndUpload(q)
      /\ disk' = disk \ ({uploads[q].repo} \X uploads[q].got)
      /\ UNCHANGED <<users, repos, grants, folders, files, handedOut, removal, leftover>>
  BY DEF RefuseUpload, Open, CleanedUp
<1>1. /\ uploads' \in [Upload -> {NoUpload} \cup OpenUpload]
      /\ ~Open(q)'
      /\ \A p \in Upload : p # q => uploads'[p] = uploads[p]
      /\ \A p \in Upload : Open(p)' => p # q /\ Open(p)
  BY <1>0, EndUploadFacts
<1>2. TreeTypeOK'
  BY <1>0, <1>1 DEF TreeTypeOK, OpenUpload
<1>3. RowsOK' /\ AccessIsCurrent' /\ RemovalOK'
  BY <1>0, RowsFrame, AccessFrame, QuietRemoval DEF Free
<1>4. HeldOK'
  BY <1>0, <1>1 DEF HeldOK
<1>5. DataOK'
  <2>1. disk \subseteq Repo \X File
    BY DEF TreeTypeOK
  <2>2. ASSUME NEW b \in disk'
        PROVE  \/ b[2] \in DOMAIN files' /\ files'[b[2]].repo = b[1]
               \/ \E p \in Upload : /\ Open(p)' /\ uploads'[p].repo = b[1]
                                    /\ b[2] \in uploads'[p].got
               \/ b[2] \in leftover'
    <3>1. b \in disk /\ b = <<b[1], b[2]>> /\ ~(b[1] = uploads[q].repo /\ b[2] \in uploads[q].got)
      BY <1>0, <2>1
    <3>2. \A p \in Upload : Open(p) /\ p # q => Open(p)'
      BY <1>1 DEF Open
    <3> QED BY <1>0, <1>1, <3>1, <3>2 DEF DataOK
  <2>3. ASSUME NEW g \in DOMAIN files'
        PROVE  <<files'[g].repo, g>> \in disk' \/ g \in leftover'
    <3>1. g \notin uploads[q].got
      BY <1>0, <2>3 DEF HeldOK
    <3>2. <<files[g].repo, g>> \in disk \/ g \in leftover
      BY <1>0, <2>3 DEF DataOK, Free
    <3> QED BY <1>0, <3>1, <3>2
  <2> QED BY <2>2, <2>3 DEF DataOK
<1> QED BY <1>2, <1>3, <1>4, <1>5

\* The rows of an upload that is recorded.
LEMMA NewRows ==
  ASSUME TreeInv, NEW q \in Upload, Open(q), Records(q), EndUpload(q), files' = NewFiles(q),
         UNCHANGED <<users, repos, grants, folders, handedOut>>
  PROVE  /\ DOMAIN files' = DOMAIN files \cup uploads[q].got
         /\ \A f \in DOMAIN files : files'[f] = files[f]
         /\ \A f \in uploads[q].got : files'[f].repo = uploads[q].repo
         /\ IsTable(files', File, FileRow)
         /\ RowsOK' /\ AccessIsCurrent' /\ HeldOK'
<1> USE DEF TreeInv
<1> DEFINE row == [repo |-> uploads[q].repo, folder |-> uploads[q].folder, by |-> uploads[q].user]
<1>0. /\ uploads[q] \in OpenUpload
      /\ \A p \in Upload : p # q => uploads'[p] = uploads[p]
      /\ \A p \in Upload : Open(p)' => p # q /\ Open(p)
  BY EndUploadFacts
<1>1. uploads[q].got \cap DOMAIN files = {} /\ uploads[q].got \subseteq handedOut
  BY DEF HeldOK
<1>2. /\ DOMAIN files' = DOMAIN files \cup uploads[q].got
      /\ \A f \in DOMAIN files : files'[f] = files[f]
      /\ \A f \in uploads[q].got : files'[f] = row
  BY <1>1 DEF NewFiles
<1>3. row \in FileRow /\ row.repo = uploads[q].repo /\ row.folder = uploads[q].folder
      /\ uploads[q].got \subseteq File
  BY <1>0 DEF FileRow, OpenUpload
<1> HIDE DEF row
<1>4. IsTable(files', File, FileRow)
  BY <1>2, <1>3 DEF TreeTypeOK, IsTable
<1>5. RowsOK'
  <2>1. /\ uploads[q].repo \in DOMAIN repos
        /\ uploads[q].folder # NoFolder =>
             /\ uploads[q].folder \in DOMAIN folders
             /\ folders[uploads[q].folder].repo = uploads[q].repo
    BY DEF Records, RowsFit, FolderFound
  <2>2. \A f \in DOMAIN files' :
          /\ files'[f].repo \in DOMAIN repos'
          /\ files'[f].folder # NoFolder =>
               /\ files'[f].folder \in DOMAIN folders'
               /\ folders'[files'[f].folder].repo = files'[f].repo
    BY <1>2, <1>3, <2>1 DEF RowsOK
  <2> QED BY <2>2 DEF RowsOK
<1>6. HeldOK'
  BY <1>0, <1>1, <1>2 DEF HeldOK, Open
<1> QED BY <1>2, <1>3, <1>4, <1>5, <1>6, AccessFrame

LEMMA RecordUploadStep ==
  ASSUME TreeInv, NEW q \in Upload, RecordUpload(q)
  PROVE  TreeInv'
<1> USE DEF TreeInv
<1>0. /\ Free /\ Open(q) /\ EndUpload(q) /\ Records(q) /\ files' = NewFiles(q)
      /\ UNCHANGED <<users, repos, grants, folders, disk, handedOut, removal, leftover>>
  BY DEF RecordUpload, Open
<1>1. /\ uploads' \in [Upload -> {NoUpload} \cup OpenUpload]
      /\ \A p \in Upload : p # q => uploads'[p] = uploads[p]
  BY <1>0, EndUploadFacts
<1>2. /\ DOMAIN files' = DOMAIN files \cup uploads[q].got
      /\ \A f \in DOMAIN files : files'[f] = files[f]
      /\ \A f \in uploads[q].got : files'[f].repo = uploads[q].repo
      /\ IsTable(files', File, FileRow)
      /\ RowsOK' /\ AccessIsCurrent' /\ HeldOK'
  BY <1>0, NewRows
<1>3. TreeTypeOK'
  BY <1>0, <1>1, <1>2 DEF TreeTypeOK, OpenUpload
<1>4. DataOK'
  <2>1. ASSUME NEW b \in disk'
        PROVE  \/ b[2] \in DOMAIN files' /\ files'[b[2]].repo = b[1]
               \/ \E p \in Upload : /\ Open(p)' /\ uploads'[p].repo = b[1]
                                    /\ b[2] \in uploads'[p].got
               \/ b[2] \in leftover'
    <3>1. \A p \in Upload : Open(p) /\ p # q => Open(p)'
      BY <1>1 DEF Open
    <3> QED BY <1>0, <1>1, <1>2, <3>1 DEF DataOK
  <2>2. ASSUME NEW g \in DOMAIN files'
        PROVE  <<files'[g].repo, g>> \in disk' \/ g \in leftover'
    <3>1. \A f \in uploads[q].got : <<uploads[q].repo, f>> \in disk
      BY <1>0 DEF Records, DataThere
    <3> QED BY <1>0, <1>2, <3>1 DEF DataOK, Free
  <2> QED BY <2>1, <2>2 DEF DataOK
<1> QED BY <1>0, <1>2, <1>3, <1>4, QuietRemoval DEF Free

LEMMA RecordThenFailStep ==
  ASSUME TreeInv, NEW q \in Upload, RecordThenFail(q)
  PROVE  TreeInv'
<1> USE DEF TreeInv
<1>0. /\ Free /\ Open(q) /\ EndUpload(q) /\ Records(q) /\ files' = NewFiles(q)
      /\ disk' = disk \ ({uploads[q].repo} \X uploads[q].got)
      /\ leftover' = leftover \cup uploads[q].got
      /\ UNCHANGED <<users, repos, grants, folders, handedOut, removal>>
  BY DEF RecordThenFail, Open, CleanedUp
<1>1. /\ uploads' \in [Upload -> {NoUpload} \cup OpenUpload]
      /\ \A p \in Upload : p # q => uploads'[p] = uploads[p]
      /\ uploads[q].got \subseteq File
  BY <1>0, EndUploadFacts DEF OpenUpload
<1>2. /\ DOMAIN files' = DOMAIN files \cup uploads[q].got
      /\ \A f \in DOMAIN files : files'[f] = files[f]
      /\ IsTable(files', File, FileRow)
      /\ RowsOK' /\ AccessIsCurrent' /\ HeldOK'
  BY <1>0, NewRows
<1>3. TreeTypeOK'
  BY <1>0, <1>1, <1>2 DEF TreeTypeOK, OpenUpload
<1>4. DataOK'
  <2>1. disk \subseteq Repo \X File
    BY DEF TreeTypeOK
  <2>2. ASSUME NEW b \in disk'
        PROVE  \/ b[2] \in DOMAIN files' /\ files'[b[2]].repo = b[1]
               \/ \E p \in Upload : /\ Open(p)' /\ uploads'[p].repo = b[1]
                                    /\ b[2] \in uploads'[p].got
               \/ b[2] \in leftover'
    <3>1. \A p \in Upload : Open(p) /\ p # q => Open(p)'
      BY <1>1 DEF Open
    <3>2. b \in disk /\ b = <<b[1], b[2]>>
      BY <1>0, <2>1
    <3> QED BY <1>0, <1>1, <1>2, <3>1, <3>2 DEF DataOK
  <2>3. ASSUME NEW g \in DOMAIN files'
        PROVE  <<files'[g].repo, g>> \in disk' \/ g \in leftover'
    <3>1. CASE g \in uploads[q].got
      BY <1>0, <3>1
    <3>2. CASE g \notin uploads[q].got
      <4>1. g \in DOMAIN files /\ (<<files[g].repo, g>> \in disk \/ g \in leftover)
        BY <1>0, <1>2, <3>2 DEF DataOK, Free
      <4> QED BY <1>0, <1>2, <3>2, <4>1
    <3> QED BY <3>1, <3>2
  <2> QED BY <2>2, <2>3 DEF DataOK
<1> QED BY <1>0, <1>2, <1>3, <1>4, QuietRemoval DEF Free

LEMMA CrashStep ==
  ASSUME TreeInv, Crash
  PROVE  TreeInv'
<1> USE DEF TreeInv
<1> DEFINE arriving == UNION {uploads[q].got : q \in {p \in Upload : Open(p)}}
<1>0. /\ uploads' = [q \in Upload |-> NoUpload] /\ removal' = NoRemoval
      /\ leftover' = leftover \cup arriving
                        \cup {f \in DOMAIN files : <<files[f].repo, f>> \notin disk}
      /\ UNCHANGED <<users, repos, grants, folders, files, disk, handedOut>>
  BY DEF Crash, Open
<1>1. \A q \in Upload : ~Open(q)'
  <2>1. NoUpload.at # "open"
    BY DEF NoUpload
  <2> QED BY <1>0, <2>1 DEF Open
<1>2. \A q \in Upload : Open(q) => uploads[q].got \subseteq File
  BY OpenType DEF OpenUpload, Open
<1>2a. arriving \subseteq File /\ \A q \in Upload : Open(q) => uploads[q].got \subseteq arriving
  BY <1>2
<1> HIDE DEF arriving
<1>3. leftover' \subseteq File
  BY <1>0, <1>2a DEF TreeTypeOK, IsTable
<1>4. TreeTypeOK'
  BY <1>0, <1>3 DEF TreeTypeOK
<1>5. RowsOK' /\ AccessIsCurrent' /\ RemovalOK'
  BY <1>0, RowsFrame, AccessFrame, QuietRemoval
<1>6. HeldOK'
  BY <1>0, <1>1 DEF HeldOK
<1>7. DataOK'
  <2>1. /\ leftover \subseteq leftover'
        /\ \A f \in DOMAIN files : <<files[f].repo, f>> \in disk \/ f \in leftover'
    BY <1>0
  <2>2. \A q \in Upload : Open(q) => uploads[q].got \subseteq leftover'
    BY <1>0, <1>2a
  <2>3. \A b \in disk' : \/ b[2] \in DOMAIN files' /\ files'[b[2]].repo = b[1]
                        \/ b[2] \in leftover'
    BY <1>0, <2>1, <2>2 DEF DataOK
  <2> QED BY <1>0, <2>1, <2>3 DEF DataOK
<1> QED BY <1>4, <1>5, <1>6, <1>7

-----------------------------------------------------------------------------
LEMMA TreeStutter == TreeInv /\ UNCHANGED treeVars => TreeInv'
<1> SUFFICES ASSUME TreeInv, UNCHANGED treeVars PROVE TreeInv'
  OBVIOUS
<1>1. UNCHANGED <<users, repos, grants, folders, files, disk, handedOut, uploads, removal,
                  leftover>>
  BY DEF treeVars
<1>2. TreeTypeOK'
  BY <1>1 DEF TreeInv, TreeTypeOK
<1>3. RowsOK' /\ AccessIsCurrent' /\ HeldOK'
  BY <1>1, RowsFrame, AccessFrame, HeldFrame DEF TreeInv
<1>4. Doomed(removal.what, removal.row)' = Doomed(removal.what, removal.row)
  BY <1>1 DEF Doomed, FilesIn, Below
<1>5. RemovalOK' /\ DataOK'
  BY <1>1, <1>4 DEF TreeInv, RemovalOK, DataOK, Open
<1> QED BY <1>2, <1>3, <1>5 DEF TreeInv

LEMMA TreeInvStep == TreeInv /\ [TreeNext]_treeVars => TreeInv'
<1> SUFFICES ASSUME TreeInv, TreeNext PROVE TreeInv'
  BY TreeStutter
<1>1. ASSUME NEW u \in User, CreateUser(u) \/ DeleteUser(u) PROVE TreeInv'
  BY <1>1, CreateUserStep, DeleteUserStep
<1>2. ASSUME NEW u \in User, NEW r \in Repo, NEW n \in Name, CreateRepo(u, r, n) PROVE TreeInv'
  BY <1>2, CreateRepoStep
<1>3. ASSUME NEW u \in User \cup {Admin}, NEW r \in Repo, BeginDeleteRepo(u, r) PROVE TreeInv'
  BY <1>3, BeginDeleteRepoStep
<1>4. ASSUME NEW u \in User \cup {Admin}, NEW r \in Repo, NEW v \in User, Revoke(u, r, v)
      PROVE  TreeInv'
  BY <1>4, RevokeStep
<1>5. ASSUME NEW u \in User \cup {Admin}, NEW r \in Repo, NEW v \in User,
             NEW P \in SUBSET Permission, Grant(u, r, v, P)
      PROVE  TreeInv'
  BY <1>5, GrantStep
<1>6. ASSUME NEW u \in User \cup {Admin}, NEW r \in Repo, NEW p \in Folder \cup {NoFolder},
             NEW n \in Name, NEW d \in Folder, CreateFolder(u, r, p, n, d)
      PROVE  TreeInv'
  BY <1>6, CreateFolderStep
<1>7. ASSUME NEW u \in User \cup {Admin}, NEW r \in Repo, NEW q \in Upload,
             NEW d \in Folder \cup {NoFolder}, BeginUpload(q, u, r, d)
      PROVE  TreeInv'
  BY <1>7, BeginUploadStep
<1>8. ASSUME NEW u \in User \cup {Admin}, NEW f \in File, BeginDeleteFile(u, f) PROVE TreeInv'
  BY <1>8, BeginDeleteFileStep
<1>9. ASSUME NEW u \in User \cup {Admin}, NEW d \in Folder, BeginDeleteFolder(u, d) PROVE TreeInv'
  BY <1>9, BeginDeleteFolderStep
<1>10. ASSUME NEW f \in File, RemoveData(f) PROVE TreeInv'
  BY <1>10, RemoveDataStep
<1>11. ASSUME NEW q \in Upload, RecordUpload(q) \/ RefuseUpload(q) \/ RecordThenFail(q)
       PROVE  TreeInv'
  BY <1>11, RecordUploadStep, RefuseUploadStep, RecordThenFailStep
<1>12. ASSUME NEW q \in Upload, NEW f \in File, ReceiveFile(q, f) PROVE TreeInv'
  BY <1>12, ReceiveFileStep
<1>13. ASSUME GiveUpRemoval \/ DeleteRow \/ Crash PROVE TreeInv'
  BY <1>13, GiveUpRemovalStep, DeleteRowStep, CrashStep
<1> QED
  BY <1>1, <1>2, <1>3, <1>4, <1>5, <1>6, <1>7, <1>8, <1>9, <1>10, <1>11, <1>12, <1>13, Zenon
  DEF TreeNext

LEMMA TreeInvHolds == Spec => []TreeInv
<1>1. Init => TreeInv
  BY TreeInvInit DEF Init
<1>2. TreeInv /\ [Next]_vars => TreeInv'
  <2>1. [Next]_vars => [TreeNext]_treeVars
    BY DEF Next, vars, treeVars
  <2> QED BY <2>1, TreeInvStep
<1> QED BY <1>1, <1>2, PTL DEF Spec

\* Folders form trees inside one repository, no deeper than the limit, with different
\* names under one parent, and a file lies in a folder of its own repository, for every
\* number of folders and every limit: whatever is created, uploaded, cascaded, deleted
\* half-way or cut off by a crash (repository-folders.js).
THEOREM FoldersFormTrees == Spec => []Forest
<1>1. TreeInv => Forest
  <2> SUFFICES ASSUME TreeInv PROVE Forest
    OBVIOUS
  <2>1. PICK h : Ranked(folders, h)
    BY DEF TreeInv, RowsOK
  <2>2. NoFolder \notin DOMAIN folders /\ MaxDepth \in Nat
    BY TreeAssumption DEF TreeAssumption, TreeInv, TreeTypeOK, IsTable
  <2>3. ASSUME NEW d \in DOMAIN folders
        PROVE  /\ \E x \in Line(folders, d) : folders[x].parent = NoFolder
               /\ Cardinality(Line(folders, d)) <= MaxDepth
    <3>1. Cardinality(Line(folders, d)) = h[d] /\ h[d] \in 1..MaxDepth
      BY <2>1, <2>2, LineFacts DEF Ranked
    <3> QED BY <2>1, <2>2, <3>1, LineFacts
  <2>4. ASSUME NEW d \in DOMAIN folders
        PROVE  /\ folders[d].repo \in DOMAIN repos
               /\ folders[d].parent # NoFolder =>
                    /\ folders[d].parent \in DOMAIN folders
                    /\ folders[folders[d].parent].repo = folders[d].repo
    BY <2>1 DEF TreeInv, RowsOK, Ranked
  <2>5. ASSUME NEW d \in DOMAIN folders,
               NEW x \in Siblings(folders[d].repo, folders[d].parent),
               folders[x].name = folders[d].name
        PROVE  x = d
    BY <2>5 DEF Siblings, TreeInv, RowsOK
  <2> QED BY <2>3, <2>4, <2>5 DEF Forest, TreeInv, RowsOK
<1> QED BY <1>1, TreeInvHolds, PTL

\* Access comes from an account that exists: owners and grantees do, an owner is in no
\* grant, and a grant goes with its repository and with its account
\* (repository-access.js, the foreign keys of database.js).
THEOREM AccessStaysCurrent == Spec => []AccessIsCurrent
<1>1. TreeInv => AccessIsCurrent
  BY DEF TreeInv
<1> QED BY <1>1, TreeInvHolds, PTL

\* Data that no row names belongs to an upload that is not finished or was left by a
\* crash, and a row without data is being deleted, or its deletion or its upload failed
\* half-way (repositories.js:729-829, repository-folders.js:212-245).
THEOREM DataAndRowsMatch == Spec => []DataMatchesRows
<1>1. TreeInv => DataMatchesRows
  <2> SUFFICES ASSUME TreeInv PROVE DataMatchesRows
    OBVIOUS
  <2>1. \A f \in DOMAIN files :
          \/ <<files[f].repo, f>> \in disk
          \/ f \in leftover
          \/ removal # NoRemoval /\ removal.repo = files[f].repo /\ f \notin removal.todo
    BY DEF TreeInv, DataOK, RemovalOK
  <2> QED BY <2>1 DEF TreeInv, DataOK, Open, DataMatchesRows
<1> QED BY <1>1, TreeInvHolds, PTL

-----------------------------------------------------------------------------
(* Access times.                                                             *)

\* Outside `stale` a recorded time is the one the file should have, and reads know it.
RecordedOK ==
  /\ \A f \in Stored \ stale : initial[f] = original[f]
  /\ \A r \in Read : reads[r] # NotReading /\ reads[r].file \notin stale =>
       reads[r].initial = original[reads[r].file]

TimesInv == TimesTypeOK /\ RecordedOK /\ TimesPreserved

ReadRow == [file : Stored, at : Nat, initial : Nat]

LEMMA TimesInvInit == TimesInit => TimesInv
<1> SUFFICES ASSUME TimesInit PROVE TimesInv
  OBVIOUS
<1>1. TimesTypeOK
  <2>1. clock \in 2..MaxClock
    BY TimesAssumption DEF TimesInit, TimesAssumption
  <2>2. /\ initial \in [Stored -> Nat \cup {NoTime}]
        /\ atime \in [Stored -> Nat] /\ original \in [Stored -> Nat]
    BY DEF TimesInit, Storing
  <2> QED BY <2>1, <2>2 DEF TimesInit, TimesTypeOK
<1>2. RecordedOK /\ TimesPreserved
  BY DEF TimesInit, RecordedOK, TimesPreserved, Storing
<1> QED BY <1>1, <1>2 DEF TimesInv

\* The time a read or a restoration takes for the stored one.
LEMMA KnownFacts ==
  ASSUME TimesInv, NEW f \in Stored
  PROVE  Known(f) \in Nat /\ (f \notin stale => Known(f) = original[f])
<1>1. initial[f] \in Nat \cup {NoTime} /\ original[f] \in Nat /\ NoTime \notin Nat
  BY TimesAssumption DEF TimesInv, TimesTypeOK, TimesAssumption
<1>2. f \notin stale => initial[f] = original[f]
  BY DEF TimesInv, RecordedOK
<1> QED BY <1>1, <1>2 DEF Known, Epoch

LEMMA ReadTypes ==
  ASSUME TimesInv
  PROVE  /\ clock \in Nat /\ atime \in [Stored -> Nat] /\ original \in [Stored -> Nat]
         /\ initial \in [Stored -> Nat \cup {NoTime}]
         /\ reads \in [Read -> {NotReading} \cup ReadRow]
         /\ \A f \in Stored : NotReading.file # f
BY TimesAssumption DEF TimesInv, TimesTypeOK, TimesAssumption, ReadRow, NotReading

LEMMA BeginReadStep ==
  ASSUME TimesInv, NEW r \in Read, NEW f \in Stored, BeginRead(r, f)
  PROVE  TimesInv'
<1> USE DEF TimesInv
<1> DEFINE new == [file |-> f, at |-> clock, initial |-> Known(f)]
<1>1. /\ reads[r] = NotReading /\ reads' = [reads EXCEPT ![r] = new]
      /\ atime' = atime \/ atime' = [atime EXCEPT ![f] = clock]
      /\ UNCHANGED <<clock, updating, shared, served, initial, original, disturbed, stale>>
  BY DEF BeginRead, settings
<1>2. /\ clock \in Nat /\ atime \in [Stored -> Nat]
      /\ reads \in [Read -> {NotReading} \cup ReadRow]
      /\ \A g \in Stored : NotReading.file # g
  BY ReadTypes
<1>3. Known(f) \in Nat /\ (f \notin stale => Known(f) = original[f])
  BY KnownFacts
<1>4. new \in ReadRow /\ new.file = f /\ new.initial = Known(f)
  BY <1>2, <1>3 DEF ReadRow
<1> HIDE DEF new
<1>5. reads'[r] = new /\ \A q \in Read : q # r => reads'[q] = reads[q]
  BY <1>1, <1>2
<1>6. atime' \in [Stored -> Nat] /\ \A g \in Stored \ {f} : atime'[g] = atime[g]
  BY <1>1, <1>2
<1>7. TimesTypeOK'
  <2>1. reads' \in [Read -> {NotReading} \cup ReadRow]
    BY <1>1, <1>2, <1>4
  <2> QED BY <1>1, <1>6, <2>1 DEF TimesTypeOK, ReadRow
<1>8. RecordedOK'
  <2>1. ASSUME NEW q \in Read, reads'[q] # NotReading, reads'[q].file \notin stale'
        PROVE  reads'[q].initial = original'[reads'[q].file]
    <3>1. CASE q = r
      BY <1>1, <1>3, <1>4, <1>5, <2>1, <3>1
    <3>2. CASE q # r
      BY <1>1, <1>5, <2>1, <3>2 DEF RecordedOK
    <3> QED BY <3>1, <3>2
  <2> QED BY <1>1, <2>1 DEF RecordedOK
<1>9. TimesPreserved'
  <2>1. ASSUME ~updating', NEW g \in Stored, Reading(g)' = {}, g \notin (disturbed \cup stale)'
        PROVE  atime'[g] = original'[g]
    <3>1. g # f
      BY <1>4, <1>5, <2>1 DEF Reading
    <3>2. \A q \in Read : reads[q].file # g
      BY <1>1, <1>2, <1>5, <2>1 DEF Reading
    <3>3. Reading(g) = {}
      BY <3>2 DEF Reading
    <3> QED BY <1>1, <1>6, <2>1, <3>1, <3>3 DEF TimesPreserved
  <2> QED BY <1>1, <2>1 DEF TimesPreserved
<1> QED BY <1>7, <1>8, <1>9

\* The end of a read: its file gets a time, or is disturbed.
LEMMA EndReadStep ==
  ASSUME TimesInv, NEW r \in Read, EndRead(r) \/ LoseRead(r)
  PROVE  TimesInv'
<1> USE DEF TimesInv
<1> DEFINE f == reads[r].file
<1>1. /\ reads[r] # NotReading /\ reads' = [reads EXCEPT ![r] = NotReading]
      /\ UNCHANGED <<clock, updating, shared, served, initial, original, stale>>
  BY DEF EndRead, LoseRead, settings
<1>2. /\ atime \in [Stored -> Nat] /\ reads \in [Read -> {NotReading} \cup ReadRow]
      /\ f \in Stored /\ reads[r].at \in Nat /\ reads[r].initial \in Nat
      /\ f \notin stale => reads[r].initial = original[f]
  BY <1>1 DEF TimesTypeOK, ReadRow, RecordedOK
<1>3. /\ atime' \in [Stored -> Nat] /\ disturbed' \subseteq disturbed \cup {f}
      /\ \A g \in Stored : g # f => atime'[g] = atime[g] /\ (g \in disturbed => g \in disturbed')
      /\ ~updating => f \in disturbed' \/ f \in stale \/ atime'[f] = original[f]
  <2>1. CASE EndRead(r)
    BY <1>2, <2>1 DEF EndRead, Target
  <2>2. CASE LoseRead(r)
    BY <1>2, <2>2 DEF LoseRead
  <2> QED BY <2>1, <2>2
<1>4. reads'[r] = NotReading /\ \A q \in Read : q # r => reads'[q] = reads[q]
  BY <1>1, <1>2
<1> HIDE DEF f
<1>5. TimesTypeOK'
  <2>1. reads' \in [Read -> {NotReading} \cup ReadRow]
    BY <1>1, <1>2
  <2> QED BY <1>1, <1>2, <1>3, <2>1 DEF TimesTypeOK, ReadRow
<1>6. RecordedOK'
  BY <1>1, <1>4 DEF RecordedOK
<1>7. TimesPreserved'
  <2>1. ASSUME ~updating', NEW g \in Stored, Reading(g)' = {}, g \notin (disturbed \cup stale)'
        PROVE  atime'[g] = original'[g]
    <3>1. CASE g = f
      BY <1>1, <1>3, <2>1, <3>1
    <3>2. CASE g # f
      <4>1. Reading(g) = {}
        BY <1>4, <2>1, <3>2 DEF Reading, f
      <4> QED BY <1>1, <1>3, <2>1, <3>2, <4>1 DEF TimesPreserved
    <3> QED BY <3>1, <3>2
  <2> QED BY <1>1, <2>1 DEF TimesPreserved
<1> QED BY <1>5, <1>6, <1>7

\* Restoring some files, whatever happens to the settings, as long as a policy that
\* begins to preserve times finds the others disturbed.
LEMMA RestoreStep ==
  ASSUME TimesInv, NEW fs \in SUBSET Stored, RestoreTimes(fs),
         UNCHANGED <<clock, served, initial, reads, original, stale>>,
         updating' \in BOOLEAN, shared' \in BOOLEAN, shared' => ~updating',
         disturbed' \subseteq Stored, disturbed \ fs \subseteq disturbed',
         updating /\ ~updating' => Stored \ fs \subseteq disturbed'
  PROVE  TimesInv'
<1> USE DEF TimesInv
<1>1. /\ \A f \in fs : Known(f) \in Nat /\ (f \notin stale => Known(f) = original[f])
      /\ atime \in [Stored -> Nat]
  BY KnownFacts, ReadTypes
<1>2. atime' = [f \in Stored |-> IF f \in fs THEN Known(f) ELSE atime[f]]
  BY DEF RestoreTimes
<1>3. /\ atime' \in [Stored -> Nat]
      /\ \A f \in fs : f \notin stale => atime'[f] = original[f]
      /\ \A f \in Stored \ fs : atime'[f] = atime[f]
  BY <1>1, <1>2
<1>4. TimesTypeOK' /\ RecordedOK'
  BY <1>3 DEF TimesTypeOK, RecordedOK
<1>5. TimesPreserved'
  BY <1>3 DEF TimesPreserved, Reading
<1> QED BY <1>4, <1>5

LEMMA SmbTouchStep ==
  ASSUME TimesInv, NEW f \in Stored, SmbTouch(f)
  PROVE  TimesInv'
<1> USE DEF TimesInv
<1>1. /\ atime' = [atime EXCEPT ![f] = clock] /\ original' = [original EXCEPT ![f] = clock]
      /\ stale' = stale \cup {f}
      /\ UNCHANGED <<clock, updating, shared, served, initial, reads, disturbed>>
  BY DEF SmbTouch, settings
<1>2. /\ clock \in Nat /\ atime \in [Stored -> Nat] /\ original \in [Stored -> Nat]
      /\ \A r \in Read : reads[r] # NotReading => reads[r].file \in Stored
  BY ReadTypes DEF ReadRow
<1>3. /\ atime' \in [Stored -> Nat] /\ original' \in [Stored -> Nat]
      /\ \A g \in Stored : g # f => atime'[g] = atime[g] /\ original'[g] = original[g]
  BY <1>1, <1>2
<1>4. TimesTypeOK'
  BY <1>1, <1>3 DEF TimesTypeOK
<1>5. RecordedOK'
  BY <1>1, <1>2, <1>3 DEF RecordedOK
<1>6. TimesPreserved'
  BY <1>1, <1>3 DEF TimesPreserved, Reading
<1> QED BY <1>4, <1>5, <1>6

\* A pass in a shared repository: the policy preserves times, so a file that is not
\* exempt has the right one, and recording it changes nothing.
LEMMA SyncPassStep ==
  ASSUME TimesInv, NEW fs \in SUBSET Stored, SyncPass(fs)
  PROVE  TimesInv'
<1> USE DEF TimesInv
<1>1. /\ initial' = [f \in Stored |-> IF f \in fs THEN atime[f] ELSE initial[f]]
      /\ stale' = (stale \ fs) \cup {f \in fs : Outdated(f)}
      /\ UNCHANGED <<clock, updating, shared, served, atime, reads, original, disturbed>>
      /\ ~updating
  BY DEF SyncPass, settings, TimesPreserved
<1>2. /\ atime \in [Stored -> Nat] /\ initial \in [Stored -> Nat \cup {NoTime}]
      /\ \A r \in Read : reads[r] # NotReading => reads[r].file \in Stored
  BY ReadTypes DEF ReadRow
<1>3. TimesTypeOK'
  <2>1. initial' \in [Stored -> Nat \cup {NoTime}]
    BY <1>1, <1>2
  <2>2. stale' \subseteq Stored
    BY <1>1 DEF TimesTypeOK
  <2> QED BY <1>1, <2>1, <2>2 DEF TimesTypeOK
<1>4. RecordedOK'
  <2>1. ASSUME NEW f \in Stored \ stale' PROVE initial'[f] = original'[f]
    BY <1>1, <2>1 DEF RecordedOK, Outdated
  <2>2. ASSUME NEW r \in Read, reads[r] # NotReading, reads[r].file \notin stale'
        PROVE  reads[r].initial = original[reads[r].file]
    <3>1. reads[r].file \in Stored /\ r \in Reading(reads[r].file)
      BY <1>2, <2>2 DEF Reading
    <3>2. reads[r].file \notin stale
      BY <1>1, <2>2, <3>1 DEF Outdated
    <3> QED BY <2>2, <3>2 DEF RecordedOK
  <2> QED BY <1>1, <2>1, <2>2 DEF RecordedOK
<1>5. TimesPreserved'
  <2>1. ASSUME NEW g \in Stored, Reading(g) = {}, g \notin disturbed, g \notin stale'
        PROVE  atime[g] = original[g]
    BY <1>1, <2>1 DEF TimesPreserved, Outdated
  <2>2. \A g \in Stored : Reading(g)' = Reading(g)
    BY <1>1 DEF Reading
  <2> QED BY <1>1, <2>1, <2>2 DEF TimesPreserved
<1> QED BY <1>3, <1>4, <1>5

LEMMA SyncReplacesStep ==
  ASSUME TimesInv, NEW f \in Stored, SyncReplaces(f)
  PROVE  TimesInv'
<1> USE DEF TimesInv
<1>1. /\ atime' = [atime EXCEPT ![f] = clock] /\ original' = [original EXCEPT ![f] = clock]
      /\ initial' = [initial EXCEPT ![f] = clock]
      /\ reads' = [r \in Read |-> IF reads[r].file = f THEN NotReading ELSE reads[r]]
      /\ disturbed' = disturbed \ {f} /\ stale' = stale \ {f}
      /\ UNCHANGED <<clock, updating, shared, served>>
  BY DEF SyncReplaces, settings
<1>2. /\ clock \in Nat /\ atime \in [Stored -> Nat] /\ original \in [Stored -> Nat]
      /\ initial \in [Stored -> Nat \cup {NoTime}]
      /\ reads \in [Read -> {NotReading} \cup ReadRow]
      /\ \A g \in Stored : NotReading.file # g
  BY ReadTypes
<1>3. /\ atime' \in [Stored -> Nat] /\ original' \in [Stored -> Nat]
      /\ initial' \in [Stored -> Nat \cup {NoTime}]
      /\ atime'[f] = clock /\ original'[f] = clock /\ initial'[f] = clock
      /\ \A g \in Stored : g # f => /\ atime'[g] = atime[g] /\ original'[g] = original[g]
                                    /\ initial'[g] = initial[g]
  BY <1>1, <1>2
<1>4. /\ reads' \in [Read -> {NotReading} \cup ReadRow]
      /\ \A r \in Read : reads'[r] # NotReading => reads'[r] = reads[r] /\ reads[r].file # f
      /\ \A r \in Read : reads[r].file # f => reads'[r] = reads[r]
  BY <1>1, <1>2
<1>5. TimesTypeOK'
  BY <1>1, <1>3, <1>4 DEF TimesTypeOK, ReadRow
<1>6. RecordedOK'
  <2>1. ASSUME NEW g \in Stored \ stale' PROVE initial'[g] = original'[g]
    BY <1>1, <1>3, <2>1 DEF RecordedOK
  <2>2. ASSUME NEW r \in Read, reads'[r] # NotReading, reads'[r].file \notin stale'
        PROVE  reads'[r].initial = original'[reads'[r].file]
    <3>1. reads'[r] = reads[r] /\ reads[r].file # f /\ reads[r].file \in Stored
      BY <1>2, <1>4, <2>2 DEF ReadRow
    <3>2. reads[r].file \notin stale
      BY <1>1, <2>2, <3>1
    <3>3. reads[r].initial = original[reads[r].file]
      BY <2>2, <3>1, <3>2 DEF RecordedOK
    <3> QED BY <1>3, <3>1, <3>3
  <2> QED BY <2>1, <2>2 DEF RecordedOK
<1>7. TimesPreserved'
  <2>1. ASSUME ~updating', NEW g \in Stored, Reading(g)' = {}, g \notin (disturbed \cup stale)'
        PROVE  atime'[g] = original'[g]
    <3>1. CASE g = f
      BY <1>3, <3>1
    <3>2. CASE g # f
      <4>1. Reading(g) = {}
        BY <1>4, <2>1, <3>2 DEF Reading
      <4>2. g \notin disturbed \cup stale
        BY <1>1, <2>1, <3>2
      <4> QED BY <1>1, <1>3, <2>1, <3>2, <4>1, <4>2 DEF TimesPreserved
    <3> QED BY <3>1, <3>2
  <2> QED BY <1>1, <2>1 DEF TimesPreserved
<1> QED BY <1>5, <1>6, <1>7

LEMMA RestartTimesStep ==
  ASSUME TimesInv, NEW fs \in SUBSET Stored, RestartTimes(fs)
  PROVE  TimesInv'
<1> USE DEF TimesInv
<1>1. /\ reads' = [r \in Read |-> NotReading]
      /\ disturbed' = disturbed \cup {f \in Stored : Reading(f) # {}}
      /\ initial' = [f \in Stored |-> IF f \in fs THEN atime[f] ELSE initial[f]]
      /\ original' = [f \in Stored |-> IF f \in fs THEN atime[f] ELSE original[f]]
      /\ stale' = stale \ fs
      /\ UNCHANGED <<clock, updating, shared, served, atime>>
  BY DEF RestartTimes, settings
<1>2. /\ atime \in [Stored -> Nat] /\ original \in [Stored -> Nat]
      /\ initial \in [Stored -> Nat \cup {NoTime}]
  BY ReadTypes
<1>3. initial' \in [Stored -> Nat \cup {NoTime}] /\ original' \in [Stored -> Nat]
  BY <1>1, <1>2
<1>4. TimesTypeOK'
  BY <1>1, <1>3 DEF TimesTypeOK
<1>5. RecordedOK'
  BY <1>1 DEF RecordedOK
<1>6. TimesPreserved'
  BY <1>1 DEF TimesPreserved
<1> QED BY <1>4, <1>5, <1>6

LEMMA TimesInvStep == TimesInv /\ [TimesNext]_timesVars => TimesInv'
<1> SUFFICES ASSUME TimesInv, [TimesNext]_timesVars PROVE TimesInv'
  OBVIOUS
<1> USE DEF TimesInv
<1>1. ASSUME NEW r \in Read, EndRead(r) \/ LoseRead(r) PROVE TimesInv'
  BY <1>1, EndReadStep
<1>2. ASSUME NEW r \in Read, NEW f \in Stored, BeginRead(r, f) PROVE TimesInv'
  BY <1>2, BeginReadStep
<1>3. ASSUME NEW fs \in SUBSET Stored, FailToDisable(fs) PROVE TimesInv'
  <2>1. /\ RestoreTimes(fs) /\ disturbed' = disturbed \ fs
        /\ UNCHANGED <<clock, updating, shared, served, initial, reads, original, stale>>
    BY <1>3 DEF FailToDisable, settings
  <2>2. /\ updating' \in BOOLEAN /\ shared' \in BOOLEAN /\ disturbed' \subseteq Stored
        /\ shared' => ~updating'
    BY <2>1 DEF TimesTypeOK, TimesPreserved
  <2> QED BY <2>1, <2>2, RestoreStep
<1>4. ASSUME NEW fs \in SUBSET Stored, DisableStopped(fs) PROVE TimesInv'
  <2>1. /\ RestoreTimes(fs) /\ updating' = FALSE
        /\ disturbed' = (disturbed \cup (IF updating THEN Stored ELSE {})) \ fs
        /\ UNCHANGED <<clock, shared, served, initial, reads, original, stale>>
    BY <1>4 DEF DisableStopped
  <2>2. /\ updating' \in BOOLEAN /\ shared' \in BOOLEAN /\ disturbed' \subseteq Stored
        /\ disturbed \ fs \subseteq disturbed'
        /\ updating => Stored \ fs \subseteq disturbed'
    BY <2>1 DEF TimesTypeOK
  <2> QED BY <2>1, <2>2, RestoreStep
<1>5. CASE Disable \/ Share
  <2>1. /\ RestoreTimes(Stored) /\ updating' = FALSE /\ disturbed' = {}
        /\ shared' \in {shared, TRUE}
        /\ UNCHANGED <<clock, served, initial, reads, original, stale>>
    BY <1>5 DEF Disable, Share
  <2>2. /\ updating' \in BOOLEAN /\ shared' \in BOOLEAN /\ disturbed' \subseteq Stored
        /\ disturbed \ Stored \subseteq disturbed' /\ Stored \ Stored \subseteq disturbed'
    BY <2>1 DEF TimesTypeOK
  <2> QED BY <2>1, <2>2, RestoreStep
<1>6. ASSUME NEW f \in Stored, SmbTouch(f) PROVE TimesInv'
  BY <1>6, SmbTouchStep
<1>7. ASSUME NEW fs \in SUBSET Stored, SyncPass(fs) PROVE TimesInv'
  BY <1>7, SyncPassStep
<1>8. ASSUME NEW f \in Stored, SyncReplaces(f) PROVE TimesInv'
  BY <1>8, SyncReplacesStep
<1>9. ASSUME NEW fs \in SUBSET Stored, RestartTimes(fs) PROVE TimesInv'
  BY <1>9, RestartTimesStep
<1>10. CASE Enable
  BY <1>10 DEF Enable, MayUpdate, TimesTypeOK, RecordedOK, TimesPreserved
<1>11. CASE Unshare \/ Follow \/ TimesTick
  <2>1. /\ UNCHANGED <<updating, initial, atime, reads, original, disturbed, stale>>
        /\ clock' \in 2..MaxClock /\ served' \in BOOLEAN /\ shared' \in BOOLEAN
        /\ shared' => shared
    <3>1. CASE Unshare
      BY <3>1 DEF Unshare, TimesTypeOK
    <3>2. CASE Follow
      BY <3>2 DEF Follow, TimesTypeOK, settings
    <3>3. CASE TimesTick
      <4>1. clock \in 2..MaxClock /\ MaxClock \in Nat /\ clock < MaxClock /\ clock' = clock + 1
        BY <3>3, TimesAssumption DEF TimesTick, TimesTypeOK, TimesAssumption
      <4>2. clock' \in 2..MaxClock
        BY <4>1
      <4> QED BY <3>3, <4>2 DEF TimesTick, TimesTypeOK, settings
    <3> QED BY <1>11, <3>1, <3>2, <3>3
  <2> QED BY <2>1 DEF TimesTypeOK, RecordedOK, TimesPreserved, Reading
<1>12. CASE UNCHANGED timesVars
  BY <1>12 DEF timesVars, settings, TimesTypeOK, RecordedOK, TimesPreserved, Reading
<1> QED
  BY <1>1, <1>2, <1>3, <1>4, <1>5, <1>6, <1>7, <1>8, <1>9, <1>10, <1>11, <1>12
  DEF TimesNext

LEMMA TimesInvHolds == Spec => []TimesInv
<1>1. Init => TimesInv
  BY TimesInvInit DEF Init
<1>2. TimesInv /\ [Next]_vars => TimesInv'
  <2>1. [Next]_vars => [TimesNext]_timesVars
    BY DEF Next, vars, timesVars
  <2> QED BY <2>1, TimesInvStep
<1> QED BY <1>1, <1>2, PTL DEF Spec

\* While a repository preserves access times, a file that nobody reads has the time it
\* was stored with, or the one a user of the share left, for every number of files and of
\* reads that overlap changes of the policy, failures, passes and restarts; only the files
\* TimesPreserved exempts may have another (file-access-time.js:217-283).
THEOREM AccessTimesArePreserved == Spec => []TimesPreserved
<1>1. TimesInv => TimesPreserved
  BY DEF TimesInv
<1> QED BY <1>1, TimesInvHolds, PTL

-----------------------------------------------------------------------------
(* The activity log.                                                         *)

LogInv == LogTypeOK /\ rowCount = Len(rows) /\ LogKeepsNewest

LEMMA TrimToFacts ==
  ASSUME NEW m \in Nat \ {0}
  PROVE  TrimTo(m) \in Nat /\ TrimTo(m) < m
<1>1. m \div 10 \in Nat /\ (m \div 10 <= m)
  OBVIOUS
<1> QED BY <1>1 DEF TrimTo, TrimBatch

\* The end of a sequence.
LEMMA SuffixFacts ==
  ASSUME NEW S, NEW s \in Seq(S), NEW k \in Nat, k <= Len(s)
  PROVE  /\ SubSeq(s, k + 1, Len(s)) \in Seq(S)
         /\ Len(SubSeq(s, k + 1, Len(s))) = Len(s) - k
         /\ \A i \in 1..(Len(s) - k) : SubSeq(s, k + 1, Len(s))[i] = s[k + i]
<1>1. SubSeq(s, k + 1, Len(s)) \in Seq(S)
  OBVIOUS
<1>2. Len(SubSeq(s, k + 1, Len(s))) = Len(s) - k
  OBVIOUS
<1>3. \A i \in 1..(Len(s) - k) : SubSeq(s, k + 1, Len(s))[i] = s[k + i]
  OBVIOUS
<1> QED BY <1>1, <1>2, <1>3

\* The newest rows of a log without a gap: a log without a gap.
LEMMA NewestFacts ==
  ASSUME NEW S, NEW s \in Seq(S), NEW drop \in Int, drop <= Len(s), NEW wr \in Nat,
         \A i \in 1..Len(s) : s[i] = wr - Len(s) + i
  PROVE  /\ Newest(s, drop) \in Seq(S)
         /\ Len(Newest(s, drop)) = IF drop < 0 THEN Len(s) ELSE Len(s) - drop
         /\ \A i \in 1..Len(Newest(s, drop)) :
              Newest(s, drop)[i] = wr - Len(Newest(s, drop)) + i
<1> DEFINE k == IF drop < 0 THEN 0 ELSE drop
<1>1. k \in Nat /\ k <= Len(s) /\ Len(s) \in Nat
      /\ k = IF drop < 0 THEN 0 ELSE drop
  OBVIOUS
<1>2. Newest(s, drop) = SubSeq(s, k + 1, Len(s))
  BY DEF Newest
<1> HIDE DEF k
<1> DEFINE t == SubSeq(s, k + 1, Len(s))
<1>3. t \in Seq(S) /\ Len(t) = Len(s) - k /\ \A i \in 1..(Len(s) - k) : t[i] = s[k + i]
  BY <1>1, SuffixFacts
<1> HIDE DEF t
<1>4. \A i \in 1..Len(t) : t[i] = wr - Len(t) + i
  <2> TAKE i \in 1..Len(t)
  <2>1. k + i \in 1..Len(s) /\ i \in 1..(Len(s) - k)
    BY <1>1, <1>3
  <2>2. t[i] = s[k + i] /\ s[k + i] = wr - Len(s) + (k + i)
    BY <1>3, <2>1
  <2> QED BY <1>1, <1>3, <2>1, <2>2
<1>5. t \in Seq(S) /\ Len(t) = IF drop < 0 THEN Len(s) ELSE Len(s) - drop
  BY <1>1, <1>3
<1> QED BY <1>2, <1>4, <1>5 DEF t

LEMMA LogInvInit == LogInit => LogInv
<1> SUFFICES ASSUME LogInit PROVE LogInv
  OBVIOUS
<1>1. /\ rows = <<>> /\ written = 0 /\ rowCount = 0 /\ untrimmed = FALSE /\ maxRows \in Maximum
      /\ Maximum \subseteq Nat \ {0} /\ MaxEntries \in Nat
  BY LogAssumption DEF LogInit, LogAssumption
<1>2. rows \in Seq(1..MaxEntries) /\ Len(rows) = 0
  BY <1>1
<1>3. /\ written \in 0..MaxEntries /\ rowCount \in Nat /\ untrimmed \in BOOLEAN
      /\ 1..Len(rows) = {} /\ Len(rows) <= maxRows /\ rowCount = Len(rows)
  <2>1. maxRows \in Nat /\ written = 0 /\ rowCount = 0 /\ untrimmed = FALSE
    BY <1>1
  <2>2. written \in 0..MaxEntries
    BY <1>1, <2>1
  <2>3. 1..Len(rows) = {}
    BY <1>2
  <2>4. Len(rows) <= maxRows
    BY <1>2, <2>1
  <2> QED BY <1>2, <2>1, <2>2, <2>3, <2>4
<1> QED BY <1>1, <1>2, <1>3, Zenon DEF LogInv, LogTypeOK, LogKeepsNewest

LEMMA LogInvStep == LogInv /\ [LogNext]_logVars => LogInv'
<1> SUFFICES ASSUME LogInv, [LogNext]_logVars PROVE LogInv'
  OBVIOUS
<1>0. /\ MaxEntries \in Nat /\ Maximum \subseteq Nat \ {0}
      /\ rows \in Seq(1..MaxEntries) /\ Len(rows) \in Nat /\ written \in Nat
      /\ written <= MaxEntries /\ maxRows \in Maximum /\ maxRows \in Nat
      /\ rowCount = Len(rows)
      /\ \A i \in 1..Len(rows) : rows[i] = written - Len(rows) + i
  BY LogAssumption DEF LogAssumption, LogInv, LogTypeOK, LogKeepsNewest
\* It is enough to know the rows and the count of the next state.
<1>1. ASSUME rows' \in Seq(1..MaxEntries), written' \in Nat, written' <= MaxEntries,
             maxRows' \in Maximum, rowCount' = Len(rows'), untrimmed' \in BOOLEAN,
             ~untrimmed' => Len(rows') <= maxRows',
             \A i \in 1..Len(rows') : rows'[i] = written' - Len(rows') + i
      PROVE  LogInv'
  <2>1. Len(rows') \in Nat /\ written' \in 0..MaxEntries
    BY <1>0, <1>1
  <2>2. LogTypeOK'
    BY <1>1, <2>1 DEF LogTypeOK
  <2>3. LogKeepsNewest'
    BY <1>1 DEF LogKeepsNewest
  <2> QED BY <1>1, <2>2, <2>3 DEF LogInv
<1> DEFINE all == Append(rows, written + 1)
<1>2. written < MaxEntries =>
        /\ all \in Seq(1..MaxEntries) /\ Len(all) = Len(rows) + 1
        /\ \A i \in 1..Len(all) : all[i] = (written + 1) - Len(all) + i
  BY <1>0
<1> HIDE DEF all
<1>3. CASE Log
  <2>0. /\ written < MaxEntries /\ written' = written + 1 /\ untrimmed' = FALSE
        /\ maxRows' = maxRows
        /\ rowCount + 1 <= maxRows => rows' = all /\ rowCount' = rowCount + 1
        /\ ~(rowCount + 1 <= maxRows) =>
             /\ rows' = Newest(all, (rowCount + 1) - TrimTo(maxRows))
             /\ rowCount' = Len(rows')
    <3>1. written < MaxEntries /\ written' = written + 1 /\ untrimmed' = FALSE /\ maxRows' = maxRows
      BY <1>3 DEF Log
    <3>2. ASSUME rowCount + 1 <= maxRows PROVE rows' = all /\ rowCount' = rowCount + 1
      BY <1>3, <3>2, Zenon DEF Log, all
    <3>3. ASSUME ~(rowCount + 1 <= maxRows)
          PROVE  /\ rows' = Newest(all, (rowCount + 1) - TrimTo(maxRows))
                 /\ rowCount' = Len(rows')
      BY <1>3, <3>3, Zenon DEF Log, Recount, all
    <3> QED BY <3>1, <3>2, <3>3
  <2>1. CASE rowCount + 1 <= maxRows
    <3>1. /\ rows' = all /\ written' = written + 1 /\ written' \in Nat /\ written' <= MaxEntries
          /\ Len(rows') <= maxRows'
      BY <1>0, <1>2, <2>0, <2>1
    <3>2. rowCount' = Len(rows')
      BY <1>0, <1>2, <2>0, <2>1
    <3>3. rows' \in Seq(1..MaxEntries) /\ maxRows' \in Maximum /\ untrimmed' \in BOOLEAN
      BY <1>0, <1>2, <2>0, <3>1
    <3>4. \A i \in 1..Len(rows') : rows'[i] = written' - Len(rows') + i
      BY <1>2, <2>0, <3>1
    <3> QED BY <1>1, <3>1, <3>2, <3>3, <3>4
  <2>2. CASE ~(rowCount + 1 <= maxRows)
    <3> DEFINE drop == (rowCount + 1) - TrimTo(maxRows)
    <3>1. TrimTo(maxRows) \in Nat /\ TrimTo(maxRows) < maxRows
      BY <1>0, TrimToFacts
    <3>2. /\ drop \in Int /\ drop <= Len(all) /\ ~(drop < 0)
          /\ Len(all) - drop = TrimTo(maxRows) /\ Len(all) \in Nat
      <4>1. /\ rowCount \in Nat /\ Len(all) = rowCount + 1 /\ maxRows \in Nat
            /\ ~(rowCount + 1 <= maxRows)
        BY <1>0, <1>2, <2>0, <2>2
      <4> QED BY <3>1, <4>1
    <3>3. rows' = Newest(all, drop)
      BY <2>0, <2>2
    <3> HIDE DEF drop
    <3>4. /\ rows' \in Seq(1..MaxEntries) /\ Len(rows') = Len(all) - drop
          /\ \A i \in 1..Len(rows') : rows'[i] = (written + 1) - Len(rows') + i
      <4>1. written + 1 \in Nat
        BY <1>0
      <4>2. /\ all \in Seq(1..MaxEntries)
            /\ \A i \in 1..Len(all) : all[i] = (written + 1) - Len(all) + i
        BY <1>2, <2>0
      <4>3. ~(drop < 0) /\ drop \in Int /\ drop <= Len(all)
        BY <3>2
      <4> DEFINE w == written + 1
      <4>4. w \in Nat /\ \A i \in 1..Len(all) : all[i] = w - Len(all) + i
        BY <4>1, <4>2
      <4> HIDE DEF w
      <4>5. /\ Newest(all, drop) \in Seq(1..MaxEntries)
            /\ Len(Newest(all, drop)) = Len(all) - drop
            /\ \A i \in 1..Len(Newest(all, drop)) :
                 Newest(all, drop)[i] = w - Len(Newest(all, drop)) + i
        <5> DEFINE Entries == 1..MaxEntries
        <5>1. all \in Seq(Entries)
          BY <4>2
        <5> HIDE DEF Entries
        <5>2. /\ Newest(all, drop) \in Seq(Entries)
              /\ Len(Newest(all, drop)) = IF drop < 0 THEN Len(all) ELSE Len(all) - drop
              /\ \A i \in 1..Len(Newest(all, drop)) :
                   Newest(all, drop)[i] = w - Len(Newest(all, drop)) + i
          BY <4>3, <4>4, <5>1, NewestFacts
        <5> QED BY <4>3, <5>2 DEF Entries
      <4> QED BY <3>3, <4>5 DEF w
    <3>5. Len(rows') <= maxRows' /\ written + 1 \in Nat /\ written + 1 <= MaxEntries
      <4>1. /\ written \in Nat /\ written < MaxEntries /\ MaxEntries \in Nat /\ maxRows' = maxRows
            /\ maxRows \in Nat /\ Len(rows') = TrimTo(maxRows)
        BY <1>0, <2>0, <3>2, <3>4
      <4> QED BY <3>1, <4>1
    <3>6. rowCount' = Len(rows') /\ maxRows' \in Maximum /\ untrimmed' \in BOOLEAN
      BY <1>0, <2>0, <2>2
    <3> QED BY <1>1, <2>0, <3>4, <3>5, <3>6
  <2> QED BY <2>1, <2>2
<1>4. CASE LogUntrimmed
  <2>1. /\ written < MaxEntries /\ written' = written + 1 /\ rows' = all
        /\ rowCount' = rowCount + 1 /\ untrimmed' = TRUE /\ maxRows' = maxRows
    BY <1>4 DEF LogUntrimmed, all
  <2> QED BY <1>0, <1>1, <1>2, <2>1
<1>5. ASSUME NEW m \in Maximum, Configure(m) PROVE LogInv'
  <2> DEFINE drop == Len(rows) - m
  <2>0. /\ maxRows' = m /\ rows' = Newest(rows, drop) /\ rowCount' = Len(rows')
        /\ untrimmed' = FALSE /\ written' = written
    BY <1>5 DEF Configure
  <2>1. m \in Nat /\ drop \in Int /\ drop <= Len(rows)
        /\ (IF drop < 0 THEN Len(rows) ELSE Len(rows) - drop) <= m
    BY <1>0
  <2> HIDE DEF drop
  <2>2. /\ rows' \in Seq(1..MaxEntries)
        /\ Len(rows') = IF drop < 0 THEN Len(rows) ELSE Len(rows) - drop
        /\ \A i \in 1..Len(rows') : rows'[i] = written - Len(rows') + i
    <3>1. /\ rows \in Seq(1..MaxEntries) /\ drop \in Int /\ drop <= Len(rows) /\ written \in Nat
          /\ \A i \in 1..Len(rows) : rows[i] = written - Len(rows) + i
      BY <1>0, <2>1
    <3>2. /\ Newest(rows, drop) \in Seq(1..MaxEntries)
          /\ Len(Newest(rows, drop)) = IF drop < 0 THEN Len(rows) ELSE Len(rows) - drop
          /\ \A i \in 1..Len(Newest(rows, drop)) :
               Newest(rows, drop)[i] = written - Len(Newest(rows, drop)) + i
      BY <3>1, NewestFacts
    <3>3. rows' = Newest(rows, drop)
      BY <2>0
    <3> HIDE DEF drop
    <3> QED BY <3>2, <3>3
  <2>3. Len(rows') <= maxRows' /\ written' \in Nat /\ written' <= MaxEntries
    BY <1>0, <2>0, <2>1, <2>2
  <2> QED BY <1>1, <2>0, <2>2, <2>3
<1>6. CASE UNCHANGED logVars
  BY <1>6 DEF logVars, LogInv, LogTypeOK, LogKeepsNewest
<1> QED BY <1>3, <1>4, <1>5, <1>6 DEF LogNext, RestartLog

LEMMA LogInvHolds == Spec => []LogInv
<1>1. Init => LogInv
  BY LogInvInit DEF Init
<1>2. LogInv /\ [Next]_vars => LogInv'
  <2>1. [Next]_vars => [LogNext]_logVars
    BY DEF Next, vars, logVars
  <2> QED BY <2>1, LogInvStep
<1> QED BY <1>1, <1>2, PTL DEF Spec

\* The log keeps its newest entries without a gap, and no more of them than the maximum
\* after every entry whose clean-up worked, for every maximum and although it may shrink
\* from one start to the next (database.js:17-53).
THEOREM LogIsBounded == Spec => []LogKeepsNewest
<1>1. LogInv => LogKeepsNewest
  BY DEF LogInv
<1> QED BY <1>1, LogInvHolds, PTL

\* Types of the three parts.
THEOREM RepositoriesTypeCorrect == Spec => []RepositoriesTypeOK
<1>1. TreeInv /\ TimesInv /\ LogInv => RepositoriesTypeOK
  BY DEF TreeInv, TimesInv, LogInv, RepositoriesTypeOK
<1> QED BY <1>1, TreeInvHolds, TimesInvHolds, LogInvHolds, PTL
=============================================================================
