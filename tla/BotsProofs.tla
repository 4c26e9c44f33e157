------------------------------ MODULE BotsProofs ------------------------------
(***************************************************************************)
(* Theorems about Bots, for every set of Bots, groups and commands: the      *)
(* account keeps its shape, and handoffs arrive.                             *)
(***************************************************************************)
EXTENDS Bots, FiniteSetTheorems, WellFoundedInduction, TLAPS

-----------------------------------------------------------------------------
(***************************************************************************)
(* Induction, with a set of numbers for the predicate.                      *)
(***************************************************************************)

\* A set of numbers that is not empty has a least one.
LEMMA Least ==
    ASSUME NEW S \in SUBSET Nat, S # {}
    PROVE  \E n \in S : \A m \in S : n <= m
<1> DEFINE R == {ss \in Nat \X Nat : ss[1] < ss[2]}
<1>1. IsWellFoundedOn(R, Nat)
  BY NatLessThanWellFounded DEF OpToRel
<1>2. PICK n \in S : \A m \in S : <<m, n>> \notin R
  BY <1>1, WFMin
<1>3. \A m \in S : ~(m < n)
  BY <1>2
<1>4. QED
  BY <1>3

\* A set that has zero, and the next of every number it has, has them all.
LEMMA Steps ==
    ASSUME NEW S, 0 \in S, \A n \in Nat : n \in S => n + 1 \in S
    PROVE  Nat \subseteq S
<1> SUFFICES ASSUME Nat \ S # {} PROVE FALSE
  OBVIOUS
<1>1. PICK n \in Nat \ S : \A m \in Nat \ S : n <= m
  BY Least
<1>2. n # 0 /\ n - 1 \in Nat /\ n - 1 \in S
  BY <1>1
<1>3. QED
  BY <1>1, <1>2

\* A file that was never used, when there is one.
LEMMA FreshIsUnused ==
    ASSUME Used # Files
    PROVE  Fresh \in Files \ Used
<1>1. Files \ Used # {} /\ Files \ Used \in SUBSET Nat
  BY JobsAssumption DEF Used, Files
<1>2. \E f \in Files \ Used : \A g \in Files \ Used : f <= g
  BY <1>1, Least
<1>3. QED
  BY <1>2 DEF Fresh

-----------------------------------------------------------------------------
(***************************************************************************)
(* What a sequence holds.                                                  *)
(***************************************************************************)

LEMMA ToSetAppend ==
    ASSUME NEW S, NEW t \in Seq(S), NEW x \in S
    PROVE  ToSet(Append(t, x)) = ToSet(t) \cup {x}
<1> DEFINE u == Append(t, x)
<1>1. /\ DOMAIN t = 1 .. Len(t) /\ DOMAIN u = 1 .. (Len(t) + 1)
      /\ \A i \in 1 .. Len(t) : u[i] = t[i]
      /\ u[Len(t) + 1] = x
      /\ Len(t) \in Nat
  OBVIOUS
<1> HIDE DEF u
<1>2. DOMAIN u = DOMAIN t \cup {Len(t) + 1}
  BY <1>1
<1>3. QED
  BY <1>1, <1>2 DEF ToSet, u

LEMMA ToSetConcat ==
    ASSUME NEW S, NEW s \in Seq(S), NEW t \in Seq(S)
    PROVE  ToSet(s \o t) = ToSet(s) \cup ToSet(t)
<1> DEFINE u == s \o t
<1>1. /\ DOMAIN s = 1 .. Len(s) /\ DOMAIN t = 1 .. Len(t)
      /\ DOMAIN u = 1 .. (Len(s) + Len(t))
      /\ Len(s) \in Nat /\ Len(t) \in Nat
      /\ \A i \in 1 .. Len(s) : u[i] = s[i]
      /\ \A i \in 1 .. (Len(s) + Len(t)) : i > Len(s) => u[i] = t[i - Len(s)]
  OBVIOUS
<1> HIDE DEF u
<1>2. \A i \in DOMAIN t : i + Len(s) \in DOMAIN u /\ u[i + Len(s)] = t[i]
  BY <1>1
<1>3. \A i \in DOMAIN s : i \in DOMAIN u /\ u[i] = s[i]
  BY <1>1
<1>4. \A i \in DOMAIN u : \/ i \in DOMAIN s
                          \/ i - Len(s) \in DOMAIN t /\ u[i] = t[i - Len(s)]
  BY <1>1
<1>5. \A i \in DOMAIN u : u[i] \in ToSet(s) \cup ToSet(t)
  <2>1. \A i \in DOMAIN u : (i \in DOMAIN s => u[i] = s[i])
    BY <1>3
  <2>2. QED
    BY <1>4, <2>1 DEF ToSet
<1>6. ToSet(u) \subseteq ToSet(s) \cup ToSet(t)
  BY <1>5 DEF ToSet
<1>7. ToSet(s) \subseteq ToSet(u)
  BY <1>3 DEF ToSet
<1>8. ToSet(t) \subseteq ToSet(u)
  BY <1>2 DEF ToSet
<1>9. QED
  BY <1>6, <1>7, <1>8 DEF u

-----------------------------------------------------------------------------
(***************************************************************************)
(* Picking places out of a sequence.                                        *)
(***************************************************************************)

PickOne(t, s, n, I) == IF n \in I THEN Append(t, s[n]) ELSE t

LEMMA PickedSolves ==
    ASSUME NEW s, NEW I, Len(s) \in Nat
    PROVE  \E f : /\ f = [n \in 0 .. Len(s) |->
                             IF n = 0 THEN <<>> ELSE PickOne(f[n - 1], s, n, I)]
                  /\ Picked(s, I) = f[Len(s)]
<1> DEFINE G(f, m) == f = [n \in 0 .. m |->
                              IF n = 0 THEN <<>> ELSE PickOne(f[n - 1], s, n, I)]
<1> DEFINE S == {m \in Nat : \E f : G(f, m)}
<1>1. 0 \in S
  <2>1. G([n \in 0 .. 0 |-> <<>>], 0)
    OBVIOUS
  <2>2. QED
    BY <2>1
<1>2. ASSUME NEW m \in Nat, m \in S
      PROVE  m + 1 \in S
  <2>1. PICK f : G(f, m)
    BY <1>2
  <2> DEFINE g == [n \in 0 .. (m + 1) |->
                      IF n <= m THEN f[n] ELSE PickOne(f[m], s, m + 1, I)]
  <2>2. \A n \in 0 .. m : g[n] = f[n]
    OBVIOUS
  <2>3. \A n \in 0 .. m : n # 0 => g[n] = PickOne(g[n - 1], s, n, I)
    BY <2>1, <2>2
  <2>4. g[0] = <<>>
    BY <2>1, <2>2
  <2>5. m \in 0 .. m /\ g[m] = f[m] /\ g[m + 1] = PickOne(f[m], s, m + 1, I)
    BY <2>2
  <2>6. g = [n \in 0 .. (m + 1) |-> g[n]]
    OBVIOUS
  <2> HIDE DEF g
  <2>7. g[m + 1] = PickOne(g[(m + 1) - 1], s, m + 1, I)
    BY <2>5
  <2>8. \A n \in 0 .. (m + 1) : n = 0 \/ n = m + 1 \/ (n \in 0 .. m /\ n # 0)
    OBVIOUS
  <2>9. \A n \in 0 .. (m + 1) :
           g[n] = IF n = 0 THEN <<>> ELSE PickOne(g[n - 1], s, n, I)
    BY <2>3, <2>4, <2>7, <2>8
  <2>10. G(g, m + 1)
    BY <2>6, <2>9
  <2>11. QED
    BY <2>10
<1>3. Len(s) \in S
  BY <1>1, <1>2, Steps
<1> DEFINE P(f) == f = [n \in 0 .. Len(s) |->
                           IF n = 0 THEN <<>> ELSE PickOne(f[n - 1], s, n, I)]
<1> DEFINE F == CHOOSE f : P(f)
<1>4. P(F)
  <2>1. \E f : P(f)
    BY <1>3
  <2> HIDE DEF P
  <2>2. QED
    BY <2>1
<1>5. Picked(s, I) = F[Len(s)]
  BY DEF Picked, PickOne
<1> HIDE DEF F
<1>6. QED
  BY <1>4, <1>5

\* What is picked is a sequence of the elements at those places.
LEMMA PickedIs ==
    ASSUME NEW S, NEW s \in Seq(S), NEW I
    PROVE  /\ Picked(s, I) \in Seq(S)
           /\ ToSet(Picked(s, I)) = {s[i] : i \in DOMAIN s \cap I}
<1>1. PICK f : /\ f = [n \in 0 .. Len(s) |->
                          IF n = 0 THEN <<>> ELSE PickOne(f[n - 1], s, n, I)]
               /\ Picked(s, I) = f[Len(s)]
  BY PickedSolves
<1> DEFINE Taken(n) == {s[i] : i \in (1 .. n) \cap I}
<1> DEFINE N == {n \in Nat : n <= Len(s) => f[n] \in Seq(S) /\ ToSet(f[n]) = Taken(n)}
<1>2. 0 \in N
  <2>1. f[0] = <<>>
    BY <1>1
  <2>2. <<>> \in Seq(S) /\ ToSet(<<>>) = {} /\ Taken(0) = {}
    BY DEF ToSet
  <2>3. QED
    BY <2>1, <2>2
<1>3. ASSUME NEW n \in Nat, n \in N
      PROVE  n + 1 \in N
  <2>1. SUFFICES ASSUME n + 1 <= Len(s)
                 PROVE  f[n + 1] \in Seq(S) /\ ToSet(f[n + 1]) = Taken(n + 1)
    OBVIOUS
  <2>2. f[n] \in Seq(S) /\ ToSet(f[n]) = Taken(n)
    BY <1>3, <2>1
  <2>3. f[n + 1] = PickOne(f[n], s, n + 1, I)
    BY <1>1, <2>1
  <2>4. 1 .. (n + 1) = (1 .. n) \cup {n + 1}
    OBVIOUS
  <2>5. CASE n + 1 \in I
    <3>1. f[n + 1] = Append(f[n], s[n + 1]) /\ s[n + 1] \in S
      BY <2>1, <2>3, <2>5 DEF PickOne
    <3>2. /\ ToSet(Append(f[n], s[n + 1])) = ToSet(f[n]) \cup {s[n + 1]}
          /\ Append(f[n], s[n + 1]) \in Seq(S)
      BY <2>2, <3>1, ToSetAppend
    <3>3. Taken(n + 1) = Taken(n) \cup {s[n + 1]}
      BY <2>4, <2>5
    <3>4. QED
      BY <2>2, <3>1, <3>2, <3>3
  <2>6. CASE n + 1 \notin I
    <3>1. Taken(n + 1) = Taken(n)
      BY <2>4, <2>6
    <3>2. QED
      BY <2>2, <2>3, <2>6, <3>1 DEF PickOne
  <2>7. QED
    BY <2>5, <2>6
<1>4. Len(s) \in Nat /\ DOMAIN s = 1 .. Len(s)
  OBVIOUS
<1> HIDE DEF N
<1>5. Len(s) \in N
  BY <1>2, <1>3, <1>4, Steps
<1>6. QED
  BY <1>1, <1>4, <1>5 DEF N

-----------------------------------------------------------------------------
(***************************************************************************)
(* Types.                                                                  *)
(***************************************************************************)

JobState == [pc : Sections, bot : Ids \cup {None}, prof : Profile \cup {None},
             todo : SUBSET Stale, got : Seq(Line), file : Files \cup {None},
             after : SUBSET Jobs]

StateTyped ==
    /\ profile \in [Ids -> Profile \cup {None}]
    /\ log \in [Ids -> SUBSET Jobs]
    /\ inbox \in [Ids -> Files \cup {None}]
    /\ taken \in [Ids -> Files \cup {None}]
    /\ file \in [Files -> Seq(Line) \cup {None}]
    /\ groups \in [Gids -> Seq(Ids) \cup {None}]
    /\ glog \in [Gids -> SUBSET Jobs]
    /\ job \in [Jobs -> JobState]
    /\ shown \in Seq([by : Jobs, run : Jobs])
    /\ arrived \subseteq Jobs

\* An inbox file that has a name was created, and a file has one name.
Linked ==
    \A b \in Ids :
        /\ inbox[b] # None => file[inbox[b]] # None
        /\ taken[b] # None => file[taken[b]] # None
        /\ inbox[b] # None => inbox[b] # taken[b]

\* The sections in which a command has not found its Bot yet, or is over.
Loose == {"idle", "check", "saveGroup", "done", "failed", "dead"}

\* A command is in a section of its own, with what that section needs.
Fits(j) ==
    LET pc == job[j].pc  op == Job[j].op IN
    /\ pc \notin Loose => job[j].bot \in Ids
    /\ pc = "idle" => job[j].got = <<>> /\ job[j].after = {}
    /\ pc \in {"check", "saveNew"} => op \in {"create", "dup"}
    /\ pc = "check" /\ op = "dup" => job[j].prof \in Profile
    /\ pc \in {"saveNew", "saveName", "saveBrief", "saveHidden"} => job[j].prof \in Profile
    /\ pc = "saveNew" => job[j].bot \in Ids
    /\ pc \in {"rename", "saveName", "describe", "saveBrief"} => op = "set"
    /\ pc = "rename" => Job[j].name # None
    /\ pc = "saveHidden" => op = "hide"
    /\ pc = "forget" => op = "forget"
    /\ pc \in {"count", "leave"} => op = "delete"
    /\ pc = "saveGroup" => op = "group"
    /\ pc \in {"open", "write"} => op = "send"
    /\ pc \in Taking => op = "run"
    /\ pc \in {"work", "append"} => op \in {"run", "turn", "post"}
    /\ pc = "write" => job[j].file \in Files /\ file[job[j].file] # None

TypeInv == StateTyped /\ Linked /\ \A j \in Jobs : Fits(j)

LEMMA FilesAre == Files \subseteq Nat /\ None \notin Files /\ None \notin Seq(Line)
BY JobsAssumption, NoneAssumption DEF Files

LEMMA NoLines == <<>> \in Seq(Line) /\ <<>> # None
<1>1. <<>> \in Seq(Line)
  OBVIOUS
<1>2. QED
  BY <1>1, FilesAre

LEMMA TypeInvImpliesTypeOK == TypeInv => TypeOK
<1> SUFFICES ASSUME TypeInv PROVE TypeOK
  OBVIOUS
<1>1. StateTyped /\ Linked
  BY DEF TypeInv
<1>2. \A b \in Ids : {inbox[b], taken[b]} \subseteq Used \cup {None}
  BY <1>1 DEF StateTyped, Linked, Used
<1>3. \A b \in Ids : inbox[b] = taken[b] => inbox[b] = None
  BY <1>1 DEF Linked
<1>4. \A f \in Files : file[f] = None \/ \A i \in DOMAIN file[f] : file[f][i] \in Line
  BY <1>1 DEF StateTyped
<1>5. \A j \in Jobs : /\ job[j].pc \in Sections
                      /\ job[j].bot \in Ids \cup {None}
                      /\ job[j].prof \in Profile \cup {None}
                      /\ job[j].todo \subseteq Stale
                      /\ job[j].file \in Files \cup {None}
                      /\ job[j].after \subseteq Jobs
  BY <1>1 DEF StateTyped, JobState
<1>6. QED
  BY <1>1, <1>2, <1>3, <1>4, <1>5 DEF TypeOK, StateTyped

LEMMA InitTyped == Init => TypeInv
<1> SUFFICES ASSUME Init PROVE TypeInv
  OBVIOUS
<1>1. Idle \in JobState
  BY DEF Idle, JobState, Sections
<1>2. StateTyped
  BY <1>1, JobsAssumption DEF Init, StateTyped, Profile
<1>3. Linked
  BY DEF Init, Linked
<1>4. \A j \in Jobs : Fits(j)
  BY DEF Init, Fits, Idle, Loose, Taking
<1>5. QED
  BY <1>2, <1>3, <1>4 DEF TypeInv

\* What a command of the command line may do to the rest of the account: nothing
\* to another command, and no file disappears.
LEMMA OneJobFits ==
    ASSUME TypeInv, NEW j \in Jobs, NEW new \in JobState,
           job' = [job EXCEPT ![j] = new],
           \A f \in Files : file[f] # None => file'[f] # None,
           Fits(j)'
    PROVE  /\ job' \in [Jobs -> JobState]
           /\ \A k \in Jobs : Fits(k)'
<1>1. job \in [Jobs -> JobState] /\ \A k \in Jobs : Fits(k)
  BY DEF TypeInv, StateTyped
<1>2. job' \in [Jobs -> JobState] /\ \A k \in Jobs \ {j} : job'[k] = job[k]
  BY <1>1
<1>3. \A k \in Jobs \ {j} : Fits(k)'
  BY <1>1, <1>2 DEF Fits
<1>4. QED
  BY <1>2, <1>3

LEMMA HitIsListed ==
    ASSUME NEW n, Resolves(n)
    PROVE  TheHit(n) \in Listed /\ TheHit(n) \in Ids /\ Hits(n) = {TheHit(n)}
BY DEF Resolves, TheHit, Hits, Listed

\* Where a command that has found its Bot goes on is a section of its own.
LEMMA FirstSectionFits ==
    ASSUME NEW j \in Jobs, Job[j].op \in OnBot
    PROVE  /\ FirstSection(j) \in Sections \ {"write", "idle", "saveGroup", "saveNew",
                                              "saveName", "saveBrief"}
           /\ FirstSection(j) = "check" => Job[j].op = "dup"
           /\ FirstSection(j) \in {"rename", "describe"} => Job[j].op = "set"
           /\ FirstSection(j) = "rename" => Job[j].name # None
           /\ FirstSection(j) = "saveHidden" => Job[j].op = "hide"
           /\ FirstSection(j) = "forget" => Job[j].op = "forget"
           /\ FirstSection(j) \in {"count", "leave"} => Job[j].op = "delete"
           /\ FirstSection(j) = "open" => Job[j].op = "send"
           /\ FirstSection(j) \in Taking => Job[j].op = "run"
           /\ FirstSection(j) \in {"work", "append"} => Job[j].op = "turn"
BY DEF FirstSection, OnBot, Sections, Taking


\* A command that only moves on: to its end, or to a section it has all it needs for.
LEMMA GotoFits ==
    ASSUME TypeInv, NEW j \in Jobs, NEW pc \in Sections, Goto(j, pc),
           \A f \in Files : file[f] # None => file'[f] # None,
           Fits(j)'
    PROVE  /\ job' \in [Jobs -> JobState]
           /\ \A k \in Jobs : Fits(k)'
<1> DEFINE new == [job[j] EXCEPT !.pc = pc]
<1>1. job[j] \in JobState
  BY DEF TypeInv, StateTyped
<1>2. new \in JobState
  BY <1>1 DEF JobState
<1>3. job' = [job EXCEPT ![j] = new]
  BY DEF Goto
<1> HIDE DEF new
<1>4. QED
  BY <1>2, <1>3, OneJobFits

LEMMA EndFits ==
    ASSUME TypeInv, NEW j \in Jobs, NEW pc \in {"done", "failed", "dead"}, Goto(j, pc),
           \A f \in Files : file[f] # None => file'[f] # None
    PROVE  /\ job' \in [Jobs -> JobState]
           /\ \A k \in Jobs : Fits(k)'
<1>1. job[j] \in JobState
  BY DEF TypeInv, StateTyped
<1>2. job'[j].pc = pc
  BY <1>1 DEF Goto, TypeInv, StateTyped, JobState
<1>3. Fits(j)'
  BY <1>2 DEF Fits, Loose, Taking
<1>4. QED
  BY <1>3, GotoFits DEF Sections

\* A step that changes no file and no name of one.
LEMMA SameBoxes ==
    ASSUME TypeInv, UNCHANGED <<inbox, taken, file>>
    PROVE  Linked' /\ \A f \in Files : file[f] # None => file'[f] # None
BY DEF TypeInv, Linked

LEMMA RosterTypes ==
    ASSUME TypeInv, NEW j \in Jobs,
           \/ Resolve(j) \/ NotResolved(j)
           \/ StartCreate(j) \/ CheckNew(j) \/ RefuseNew(j) \/ SaveNew(j)
           \/ Rename(j) \/ RefuseRename(j) \/ SaveName(j)
           \/ Describe(j) \/ RefuseDescribe(j) \/ SaveBrief(j)
           \/ SaveHidden(j) \/ Forget(j)
    PROVE  TypeInv'
<1>0. /\ StateTyped /\ Fits(j) /\ job[j] \in JobState /\ Job[j].op \in Ops
      /\ job \in [Jobs -> JobState]
  BY JobsAssumption DEF TypeInv, StateTyped
<1>b. UNCHANGED <<inbox, taken, file>>
  BY DEF Resolve, NotResolved, StartCreate, CheckNew, RefuseNew, SaveNew, Rename, RefuseRename,
         SaveName, Describe, RefuseDescribe, SaveBrief, SaveHidden, Forget, Fail, Replace, boxes
<1>c. Linked' /\ \A f \in Files : file[f] # None => file'[f] # None
  BY <1>b, SameBoxes
<1>d. UNCHANGED <<groups, glog, shown, arrived>>
  BY DEF Resolve, NotResolved, StartCreate, CheckNew, RefuseNew, SaveNew, Rename, RefuseRename,
         SaveName, Describe, RefuseDescribe, SaveBrief, SaveHidden, Forget, Fail, Replace,
         roster, ghosts
<1>e. SUFFICES /\ profile' \in [Ids -> Profile \cup {None}] /\ log' \in [Ids -> SUBSET Jobs]
               /\ job' \in [Jobs -> JobState] /\ \A k \in Jobs : Fits(k)'
  BY <1>0, <1>b, <1>c, <1>d DEF TypeInv, StateTyped
<1>1. CASE Resolve(j)
  <2> DEFINE b == TheHit(Job[j].bot)
  <2> DEFINE new == [job[j] EXCEPT !.pc = FirstSection(j), !.bot = b, !.prof = profile[b]]
  <2>1. Job[j].op \in OnBot /\ b \in Listed /\ b \in Ids
    BY <1>1, HitIsListed DEF Resolve
  <2>2. profile[b] \in Profile
    BY <1>0, <2>1 DEF Listed, StateTyped
  <2>3. FirstSection(j) \in Sections
    BY <2>1, FirstSectionFits
  <2>4. new \in JobState
    BY <1>0, <2>1, <2>2, <2>3 DEF JobState
  <2>5. job' = [job EXCEPT ![j] = new]
    BY <1>1 DEF Resolve
  <2>6. job'[j] = new /\ new.pc = FirstSection(j) /\ new.bot = b /\ new.prof = profile[b]
    BY <1>0, <2>5 DEF JobState
  <2> HIDE DEF new, b
  <2>7. Fits(j)'
    BY <2>1, <2>2, <2>6, FirstSectionFits DEF Fits, Loose
  <2>8. UNCHANGED <<profile, log>>
    BY <1>1 DEF Resolve, roster
  <2>9. QED
    BY <1>0, <1>c, <2>4, <2>5, <2>7, <2>8, OneJobFits DEF StateTyped
<1>2. CASE NotResolved(j) \/ RefuseNew(j) \/ RefuseRename(j) \/ RefuseDescribe(j)
  <2>1. Fail(j)
    BY <1>2 DEF NotResolved, RefuseNew, RefuseRename, RefuseDescribe
  <2>2. QED
    BY <1>0, <1>c, <2>1, EndFits DEF Fail, roster, StateTyped
<1>3. CASE StartCreate(j)
  <2>1. Goto(j, "check") /\ Job[j].op = "create" /\ UNCHANGED <<profile, log>>
    BY <1>3 DEF StartCreate, roster
  <2>2. job'[j].pc = "check"
    BY <1>0, <2>1 DEF Goto, JobState
  <2>3. Fits(j)'
    BY <2>1, <2>2 DEF Fits, Loose, Taking
  <2>4. QED
    BY <1>0, <1>c, <2>1, <2>3, GotoFits DEF Sections, StateTyped
<1>4. CASE CheckNew(j)
  <2> DEFINE prof == [name |-> Job[j].name, brief |-> Job[j].op = "dup" /\ job[j].prof.brief,
                      hidden |-> FALSE]
  <2> DEFINE new == [job[j] EXCEPT !.pc = "saveNew", !.bot = Job[j].name, !.prof = prof]
  <2>1. Job[j].op \in {"create", "dup"} /\ Job[j].name \in Ids
    BY <1>4, JobsAssumption DEF CheckNew
  <2>2. prof \in Profile
    BY <1>0, <2>1 DEF Profile
  <2>3. job' = [job EXCEPT ![j] = new]
    BY <1>4 DEF CheckNew
  <2> HIDE DEF prof
  <2>4. new \in JobState
    BY <1>0, <2>1, <2>2 DEF JobState, Sections
  <2>5. job'[j] = new /\ new.pc = "saveNew" /\ new.bot = Job[j].name /\ new.prof = prof
    BY <1>0, <2>3 DEF JobState
  <2> HIDE DEF new
  <2>6. Fits(j)'
    BY <2>1, <2>2, <2>5 DEF Fits, Loose, Taking
  <2>7. UNCHANGED <<profile, log>>
    BY <1>4 DEF CheckNew, roster
  <2>8. QED
    BY <1>0, <1>c, <2>3, <2>4, <2>6, <2>7, OneJobFits DEF StateTyped
<1>5. CASE SaveNew(j) \/ SaveBrief(j) \/ SaveHidden(j)
  <2>1. PICK p : Replace(j, p, "done") /\ p \in Profile
    <3>1. CASE SaveNew(j) \/ SaveBrief(j)
      BY <1>0, <3>1 DEF SaveNew, SaveBrief, Fits, At
    <3>2. CASE SaveHidden(j)
      <4>1. job[j].prof \in Profile /\ Job[j].hidden \in BOOLEAN
        BY <1>0, <3>2, JobsAssumption DEF SaveHidden, Fits, At
      <4>2. [job[j].prof EXCEPT !.hidden = Job[j].hidden] \in Profile
        BY <4>1 DEF Profile
      <4>3. QED
        BY <3>2, <4>2 DEF SaveHidden
    <3>3. QED
      BY <1>5, <3>1, <3>2
  <2>2. Goto(j, "done") /\ profile' \in [Ids -> Profile \cup {None}] /\ UNCHANGED log
    BY <1>0, <2>1 DEF Replace, StateTyped
  <2>3. QED
    BY <1>0, <1>c, <2>2, EndFits DEF StateTyped
<1>6. CASE Rename(j) \/ Describe(j)
  <2>1. /\ Job[j].op = "set" /\ Hits(job[j].bot) = {job[j].bot}
        /\ job[j].bot \in Ids
        /\ Rename(j) => Job[j].name \in Ids
    BY <1>0, <1>6, JobsAssumption DEF Rename, Describe, At, Fits, Loose
  <2>2. profile[job[j].bot] \in Profile
    <3>1. job[j].bot \in Listed
      BY <2>1 DEF Hits
    <3>2. QED
      BY <1>0, <3>1 DEF Listed, StateTyped
  <2>3. PICK p, pc : /\ job' = [job EXCEPT ![j].pc = pc, ![j].prof = p]
                     /\ p \in Profile /\ pc \in {"saveName", "saveBrief"}
                     /\ UNCHANGED <<profile, log>>
    <3>1. CASE Rename(j)
      <4>1. [profile[job[j].bot] EXCEPT !.name = Job[j].name] \in Profile
        BY <2>1, <2>2, <3>1 DEF Profile
      <4>2. QED
        BY <3>1, <4>1 DEF Rename, roster
    <3>2. CASE Describe(j)
      <4>1. [profile[job[j].bot] EXCEPT !.brief = TRUE] \in Profile
        BY <2>2 DEF Profile
      <4>2. QED
        BY <3>2, <4>1 DEF Describe, roster
    <3>3. QED
      BY <1>6, <3>1, <3>2
  <2> DEFINE new == [job[j] EXCEPT !.pc = pc, !.prof = p]
  <2>4. job' = [job EXCEPT ![j] = new] /\ new \in JobState
    BY <1>0, <2>3 DEF JobState, Sections
  <2>5. job'[j] = new /\ new.pc = pc /\ new.prof = p /\ new.bot = job[j].bot
    BY <1>0, <2>4 DEF JobState
  <2> HIDE DEF new
  <2>6. Fits(j)'
    BY <2>1, <2>3, <2>5 DEF Fits, Loose, Taking
  <2>7. QED
    BY <1>0, <1>c, <2>3, <2>4, <2>6, OneJobFits DEF StateTyped
<1>7. CASE SaveName(j)
  <2> DEFINE pc == IF Job[j].brief THEN "describe" ELSE "done"
  <2>1. /\ job[j].prof \in Profile /\ Job[j].op = "set" /\ job[j].bot \in Ids
        /\ Goto(j, pc) /\ profile' = [profile EXCEPT ![job[j].bot] = job[j].prof]
        /\ UNCHANGED log
    BY <1>0, <1>7 DEF SaveName, Replace, At, Fits, Loose
  <2>2. job'[j].pc = pc /\ job'[j].bot = job[j].bot
    BY <1>0, <2>1 DEF Goto, JobState
  <2>3. Fits(j)'
    BY <2>1, <2>2 DEF Fits, Loose, Taking
  <2>4. QED
    BY <1>0, <1>c, <2>1, <2>3, GotoFits DEF Sections, StateTyped
<1>8. CASE Forget(j)
  <2>1. Goto(j, "done") /\ UNCHANGED profile /\ log' = [log EXCEPT ![job[j].bot] = {}]
    BY <1>8 DEF Forget, roster
  <2>2. QED
    BY <1>0, <1>c, <2>1, EndFits DEF StateTyped
<1>9. QED
  BY <1>1, <1>2, <1>3, <1>4, <1>5, <1>6, <1>7, <1>8


LEMMA StaleFields == \A s \in Stale : s.id \in Gids /\ s.members \in Seq(Ids)
BY DEF Stale

\* The members asked for, when their names resolve, are Bots there are.
LEMMA DedupedAreListed ==
    ASSUME NEW j \in Jobs, Job[j].op = "group",
           \A i \in DOMAIN Job[j].members : Resolves(Job[j].members[i])
    PROVE  Deduped(j) \in Seq(Ids) /\ ToSet(Deduped(j)) \subseteq Listed
<1> DEFINE named == [i \in DOMAIN Job[j].members |-> TheHit(Job[j].members[i])]
<1> DEFINE I == {i \in DOMAIN named : \A k \in 1 .. (i - 1) : named[k] # named[i]}
<1>1. /\ Len(Job[j].members) \in Nat
      /\ DOMAIN Job[j].members = 1 .. Len(Job[j].members)
  BY JobsAssumption
<1>2. \A i \in DOMAIN Job[j].members : /\ TheHit(Job[j].members[i]) \in Ids
                                       /\ TheHit(Job[j].members[i]) \in Listed
  BY HitIsListed
<1>3. named \in Seq(Ids) /\ \A i \in DOMAIN named : named[i] \in Listed
  BY <1>1, <1>2
<1>4. Deduped(j) = Picked(named, I)
  BY DEF Deduped
<1> HIDE DEF named, I
<1>5. Picked(named, I) \in Seq(Ids) /\ ToSet(Picked(named, I)) = {named[i] : i \in DOMAIN named \cap I}
  BY <1>3, PickedIs
<1>6. QED
  BY <1>3, <1>4, <1>5

\* What is left of a group when a Bot leaves it.
LeftOf(s, b) == Picked(s.members, {i \in DOMAIN s.members : s.members[i] # b})

LEMMA LeftIs ==
    ASSUME NEW s \in Stale, NEW b
    PROVE  LeftOf(s, b) \in Seq(Ids) /\ ToSet(LeftOf(s, b)) = ToSet(s.members) \ {b}
<1>1. s.members \in Seq(Ids)
  BY StaleFields
<1>2. /\ LeftOf(s, b) \in Seq(Ids)
      /\ ToSet(LeftOf(s, b))
            = {s.members[i] : i \in DOMAIN s.members
                                    \cap {i \in DOMAIN s.members : s.members[i] # b}}
  BY <1>1, PickedIs DEF LeftOf
<1>3. QED
  BY <1>2 DEF ToSet

LEMMA GroupTypes ==
    ASSUME TypeInv, NEW j \in Jobs,
           \/ CreateGroup(j) \/ RefuseGroup(j) \/ SaveGroup(j) \/ RemoveGroup(j)
           \/ Count(j) \/ LeaveGroup(j) \/ Post(j)
    PROVE  TypeInv'
<1>0. /\ StateTyped /\ Fits(j) /\ job[j] \in JobState /\ Job[j].op \in Ops
      /\ job \in [Jobs -> JobState]
  BY JobsAssumption DEF TypeInv, StateTyped
<1>b. UNCHANGED <<inbox, taken, file>>
  BY DEF CreateGroup, RefuseGroup, SaveGroup, RemoveGroup, Count, LeaveGroup, Post, Fail, boxes
<1>c. Linked' /\ \A f \in Files : file[f] # None => file'[f] # None
  BY <1>b, SameBoxes
<1>d. UNCHANGED <<profile, log, shown, arrived>>
  BY DEF CreateGroup, RefuseGroup, SaveGroup, RemoveGroup, Count, LeaveGroup, Post, Fail,
         roster, ghosts
<1>e. SUFFICES /\ groups' \in [Gids -> Seq(Ids) \cup {None}] /\ glog' \in [Gids -> SUBSET Jobs]
               /\ job' \in [Jobs -> JobState] /\ \A k \in Jobs : Fits(k)'
  BY <1>0, <1>b, <1>c, <1>d DEF TypeInv, StateTyped
<1>1. CASE CreateGroup(j)
  <2> DEFINE new == [job[j] EXCEPT !.pc = "saveGroup",
                                   !.todo = {[id |-> Job[j].name, members |-> Deduped(j)]}]
  <2>1. /\ Job[j].op = "group" /\ Job[j].name \in Gids
        /\ \A i \in DOMAIN Job[j].members : Resolves(Job[j].members[i])
    BY <1>1, JobsAssumption DEF CreateGroup, MayGroup
  <2>2. [id |-> Job[j].name, members |-> Deduped(j)] \in Stale
    BY <2>1, DedupedAreListed DEF Stale
  <2>3. job' = [job EXCEPT ![j] = new]
    BY <1>1 DEF CreateGroup
  <2>4. new \in JobState
    BY <1>0, <2>2 DEF JobState, Sections
  <2>5. job'[j] = new /\ new.pc = "saveGroup"
    BY <1>0, <2>3 DEF JobState
  <2> HIDE DEF new
  <2>6. Fits(j)'
    BY <2>1, <2>5 DEF Fits, Loose, Taking
  <2>7. UNCHANGED <<groups, glog>>
    BY <1>1 DEF CreateGroup, roster
  <2>8. QED
    BY <1>0, <1>c, <2>3, <2>4, <2>6, <2>7, OneJobFits DEF StateTyped
<1>2. CASE RefuseGroup(j)
  <2>1. Goto(j, "failed") /\ UNCHANGED <<groups, glog>>
    BY <1>2 DEF RefuseGroup, Fail, roster
  <2>2. QED
    BY <1>0, <1>c, <2>1, EndFits DEF StateTyped
<1>3. CASE SaveGroup(j)
  <2>1. PICK s \in job[j].todo : groups' = [groups EXCEPT ![s.id] = s.members]
    BY <1>3 DEF SaveGroup
  <2>2. s \in Stale
    BY <1>0 DEF JobState
  <2>3. s.members \in Seq(Ids) /\ s.id \in Gids
    BY <2>2, StaleFields
  <2>4. groups' \in [Gids -> Seq(Ids) \cup {None}]
    BY <1>0, <2>1, <2>3 DEF StateTyped
  <2>5. Goto(j, "done") /\ UNCHANGED glog
    BY <1>3 DEF SaveGroup
  <2>6. QED
    BY <1>0, <1>c, <2>4, <2>5, EndFits DEF StateTyped
<1>4. CASE RemoveGroup(j)
  <2>1. /\ groups' \in [Gids -> Seq(Ids) \cup {None}] /\ glog' \in [Gids -> SUBSET Jobs]
        /\ Goto(j, "failed") \/ Goto(j, "done")
    BY <1>0, <1>4 DEF RemoveGroup, StateTyped
  <2>2. QED
    BY <1>c, <2>1, EndFits
<1>5. CASE Count(j)
  <2>1. UNCHANGED <<groups, glog>> /\ job[j].bot \in Ids /\ Job[j].op = "delete"
    BY <1>0, <1>5 DEF Count, roster, At, Fits, Loose
  <2>2. CASE Goto(j, "failed")
    BY <1>0, <1>c, <2>1, <2>2, EndFits DEF StateTyped
  <2>3. CASE job' = [job EXCEPT ![j].pc = "leave", ![j].todo = MustLeave(job[j].bot)]
    <3> DEFINE new == [job[j] EXCEPT !.pc = "leave", !.todo = MustLeave(job[j].bot)]
    <3>1. MustLeave(job[j].bot) \subseteq Stale
      BY <1>0 DEF MustLeave, Groups, Stale, StateTyped
    <3>2. new \in JobState /\ job' = [job EXCEPT ![j] = new]
      BY <1>0, <2>3, <3>1 DEF JobState, Sections
    <3>3. job'[j] = new /\ new.pc = "leave" /\ new.bot = job[j].bot
      BY <1>0, <3>2 DEF JobState
    <3> HIDE DEF new
    <3>4. Fits(j)'
      BY <2>1, <3>3 DEF Fits, Loose, Taking
    <3>5. QED
      BY <1>0, <1>c, <2>1, <3>2, <3>4, OneJobFits DEF StateTyped
  <2>4. QED
    BY <1>5, <2>2, <2>3 DEF Count
<1>6. CASE LeaveGroup(j)
  <2>0. Job[j].op = "delete" /\ job[j].bot \in Ids
    BY <1>0, <1>6 DEF LeaveGroup, At, Fits, Loose
  <2>1. PICK s \in job[j].todo :
           \/ /\ groups' = [groups EXCEPT ![s.id] = IF LeftOf(s, job[j].bot) = <<>> THEN None
                                                    ELSE LeftOf(s, job[j].bot)]
              /\ glog' = IF LeftOf(s, job[j].bot) = <<>> THEN [glog EXCEPT ![s.id] = {}] ELSE glog
              /\ job' = [job EXCEPT ![j].todo = @ \ {s}]
           \/ Goto(j, "failed") /\ UNCHANGED <<groups, glog>>
    BY <1>6 DEF LeaveGroup, LeftOf
  <2>2. s \in Stale
    BY <1>0 DEF JobState
  <2>3. LeftOf(s, job[j].bot) \in Seq(Ids)
    BY <2>2, LeftIs
  <2>4. CASE Goto(j, "failed") /\ UNCHANGED <<groups, glog>>
    BY <1>0, <1>c, <2>4, EndFits DEF StateTyped
  <2>5. CASE /\ groups' = [groups EXCEPT ![s.id] = IF LeftOf(s, job[j].bot) = <<>> THEN None
                                                   ELSE LeftOf(s, job[j].bot)]
             /\ glog' = IF LeftOf(s, job[j].bot) = <<>> THEN [glog EXCEPT ![s.id] = {}] ELSE glog
             /\ job' = [job EXCEPT ![j].todo = @ \ {s}]
    <3> DEFINE new == [job[j] EXCEPT !.todo = @ \ {s}]
    <3>1. groups' \in [Gids -> Seq(Ids) \cup {None}] /\ glog' \in [Gids -> SUBSET Jobs]
      BY <1>0, <2>3, <2>5 DEF StateTyped
    <3>2. new \in JobState /\ job' = [job EXCEPT ![j] = new]
      BY <1>0, <2>5 DEF JobState
    <3>3. job'[j] = new /\ new.pc = job[j].pc /\ new.bot = job[j].bot /\ job[j].pc = "leave"
      BY <1>0, <1>6, <3>2 DEF JobState, LeaveGroup, At
    <3> HIDE DEF new
    <3>4. Fits(j)'
      BY <2>0, <3>3 DEF Fits, Loose, Taking
    <3>5. QED
      BY <1>c, <3>1, <3>2, <3>4, OneJobFits
  <2>6. QED
    BY <2>1, <2>4, <2>5
<1>7. CASE Post(j)
  <2>1. UNCHANGED <<groups, glog>>
    BY <1>7 DEF Post, roster
  <2>2. CASE Goto(j, "failed")
    BY <1>0, <1>c, <2>1, <2>2, EndFits DEF StateTyped
  <2>3. CASE ~Goto(j, "failed")
    <3>1. PICK owner \in Listed : job' = [job EXCEPT ![j].pc = "work", ![j].bot = owner]
      BY <1>7, <2>3 DEF Post
    <3> DEFINE new == [job[j] EXCEPT !.pc = "work", !.bot = owner]
    <3>2. owner \in Ids /\ Job[j].op = "post"
      BY <1>7, <3>1 DEF Listed, Post
    <3>3. new \in JobState /\ job' = [job EXCEPT ![j] = new]
      BY <1>0, <3>1, <3>2 DEF JobState, Sections
    <3>4. job'[j] = new /\ new.pc = "work" /\ new.bot = owner
      BY <1>0, <3>3 DEF JobState
    <3> HIDE DEF new
    <3>5. Fits(j)'
      BY <3>2, <3>4 DEF Fits, Loose, Taking
    <3>6. QED
      BY <1>0, <1>c, <2>1, <3>3, <3>5, OneJobFits DEF StateTyped
  <2>4. QED
    BY <2>2, <2>3
<1>8. QED
  BY <1>1, <1>2, <1>3, <1>4, <1>5, <1>6, <1>7


LEMMA HoldingTyped ==
    ASSUME StateTyped, Linked, NEW b \in Ids
    PROVE  Holding(inbox[b]) \in Seq(Line) /\ Holding(taken[b]) \in Seq(Line)
BY DEF StateTyped, Linked, Holding

LEMMA NextSeqTyped ==
    ASSUME StateTyped, Linked, NEW b \in Ids
    PROVE  NextSeq(b) \in Nat
<1> DEFINE waiting == Holding(inbox[b])
<1>1. waiting \in Seq(Line)
  BY HoldingTyped
<1>2. CASE waiting = <<>>
  BY <1>2 DEF NextSeq
<1>3. CASE waiting # <<>>
  <2>1. waiting[Len(waiting)] \in Line
    BY <1>1, <1>3
  <2>2. waiting[Len(waiting)].seq \in Nat
    BY <2>1 DEF Line
  <2> HIDE DEF waiting
  <2>3. NextSeq(b) = waiting[Len(waiting)].seq + 1
    BY <1>3 DEF NextSeq, Last, waiting
  <2>4. QED
    BY <2>2, <2>3
<1>4. QED
  BY <1>2, <1>3

\* The inbox of a Bot may be a new file, holding what is given.
LEMMA NewInbox ==
    ASSUME StateTyped, Linked, NEW b \in Ids, Used # Files, NEW lines \in Seq(Line),
           file' = [file EXCEPT ![Fresh] = lines],
           inbox' = [inbox EXCEPT ![b] = Fresh],
           UNCHANGED taken
    PROVE  /\ file' \in [Files -> Seq(Line) \cup {None}]
           /\ inbox' \in [Ids -> Files \cup {None}]
           /\ Linked'
           /\ \A f \in Files : file[f] # None => file'[f] # None
           /\ inbox'[b] \in Files /\ file'[inbox'[b]] = lines
           /\ file[inbox'[b]] = None
<1>1. Fresh \in Files /\ file[Fresh] = None
  BY FreshIsUnused DEF Used
<1>2. lines # None
  BY FilesAre
<1>3. file' \in [Files -> Seq(Line) \cup {None}] /\ inbox' \in [Ids -> Files \cup {None}]
  BY <1>1 DEF StateTyped
<1>4. \A f \in Files : f # Fresh => file'[f] = file[f]
  BY <1>1 DEF StateTyped
<1>5. file'[Fresh] = lines /\ inbox'[b] = Fresh /\ \A c \in Ids \ {b} : inbox'[c] = inbox[c]
  BY <1>1 DEF StateTyped
<1>6. \A c \in Ids : inbox[c] # Fresh /\ taken[c] # Fresh
  BY <1>1, FilesAre DEF Linked
<1>7. Linked'
  <2>1. SUFFICES ASSUME NEW c \in Ids
                 PROVE  /\ inbox'[c] # None => file'[inbox'[c]] # None
                        /\ taken[c] # None => file'[taken[c]] # None
                        /\ inbox'[c] # None => inbox'[c] # taken[c]
    BY DEF Linked
  <2>2. taken[c] # None => taken[c] \in Files /\ file'[taken[c]] = file[taken[c]]
    BY <1>4, <1>6 DEF StateTyped
  <2>3. CASE c = b
    BY <1>2, <1>5, <1>6, <2>2, <2>3 DEF Linked
  <2>4. CASE c # b
    <3>1. inbox[c] # None => inbox[c] \in Files /\ file'[inbox[c]] = file[inbox[c]]
      BY <1>4, <1>6 DEF StateTyped
    <3>2. QED
      BY <1>5, <2>2, <2>4, <3>1 DEF Linked
  <2>5. QED
    BY <2>3, <2>4
<1>8. QED
  BY <1>1, <1>2, <1>3, <1>4, <1>5, <1>7

LEMMA InboxTypes ==
    ASSUME TypeInv, NEW j \in Jobs,
           \/ SendOpen(j) \/ SendWrite(j) \/ Recover(j) \/ Merge(j) \/ DropTaken(j)
    PROVE  TypeInv'
<1>0. /\ StateTyped /\ Linked /\ Fits(j) /\ job[j] \in JobState /\ Job[j].op \in Ops
      /\ job \in [Jobs -> JobState]
  BY JobsAssumption DEF TypeInv, StateTyped
<1>d. UNCHANGED <<profile, groups, log, glog, shown>>
  BY DEF SendOpen, SendWrite, Recover, Merge, DropTaken, ghosts, roster
<1>e. SUFFICES /\ inbox' \in [Ids -> Files \cup {None}] /\ taken' \in [Ids -> Files \cup {None}]
               /\ file' \in [Files -> Seq(Line) \cup {None}] /\ Linked'
               /\ job' \in [Jobs -> JobState] /\ \A k \in Jobs : Fits(k)'
               /\ arrived' \subseteq Jobs
  BY <1>0, <1>d DEF TypeInv, StateTyped
<1>1. CASE SendOpen(j)
  <2> DEFINE b == job[j].bot
  <2>1. b \in Ids /\ Job[j].op = "send" /\ job[j].pc = "open" /\ arrived' = arrived
    BY <1>0, <1>1 DEF SendOpen, At, Fits, Loose, ghosts
  <2>2. CASE Goto(j, "failed") /\ UNCHANGED boxes
    <3>1. UNCHANGED <<inbox, taken, file>>
      BY <2>2 DEF boxes
    <3>2. QED
      BY <1>0, <2>1, <2>2, <3>1, SameBoxes, EndFits DEF StateTyped
  <2>3. CASE ~(Goto(j, "failed") /\ UNCHANGED boxes)
    <3> DEFINE line == [from |-> Job[j].from, text |-> Job[j].text, seq |-> NextSeq(b), by |-> j]
    <3>1. /\ job' = [job EXCEPT ![j].pc = "write", ![j].file = inbox'[b], ![j].after = arrived,
                                ![j].got = <<line>>]
          /\ UNCHANGED taken
          /\ \/ /\ inbox[b] = None /\ Used # Files
                /\ file' = [file EXCEPT ![Fresh] = <<>>]
                /\ inbox' = [inbox EXCEPT ![b] = Fresh]
             \/ inbox[b] # None /\ UNCHANGED <<inbox, file>>
      BY <1>1, <2>3 DEF SendOpen
    <3>2. line \in Line
      BY <1>0, <2>1, JobsAssumption, NextSeqTyped DEF Line
    <3>3. /\ file' \in [Files -> Seq(Line) \cup {None}] /\ inbox' \in [Ids -> Files \cup {None}]
          /\ Linked' /\ \A f \in Files : file[f] # None => file'[f] # None
          /\ inbox'[b] \in Files /\ file'[inbox'[b]] # None
      <4>1. CASE inbox[b] = None
        <5>1. QED
          BY <1>0, <2>1, <3>1, <4>1, NoLines, NewInbox
      <4>2. CASE inbox[b] # None
        BY <1>0, <2>1, <3>1, <4>2, SameBoxes DEF StateTyped, Linked
      <4>3. QED
        BY <4>1, <4>2
    <3> HIDE DEF line
    <3> DEFINE new == [job[j] EXCEPT !.pc = "write", !.file = inbox'[b], !.after = arrived,
                                     !.got = <<line>>]
    <3>4. <<line>> \in Seq(Line) /\ arrived \in SUBSET Jobs
      BY <1>0, <3>2 DEF StateTyped
    <3>5. new \in JobState /\ job' = [job EXCEPT ![j] = new]
      BY <1>0, <3>1, <3>3, <3>4 DEF JobState, Sections
    <3>6. job'[j] = new /\ new.pc = "write" /\ new.bot = b /\ new.file = inbox'[b]
      BY <1>0, <3>5 DEF JobState
    <3> HIDE DEF new
    <3>7. Fits(j)'
      BY <2>1, <3>3, <3>6 DEF Fits, Loose, Taking
    <3>8. QED
      BY <1>0, <2>1, <3>1, <3>3, <3>5, <3>7, OneJobFits DEF StateTyped
  <2>4. QED
    BY <2>2, <2>3
<1>2. CASE SendWrite(j)
  <2> DEFINE f == job[j].file
  <2>1. /\ f \in Files /\ file[f] \in Seq(Line) /\ Job[j].op = "send"
        /\ file' = [file EXCEPT ![f] = @ \o job[j].got]
        /\ arrived' = arrived \cup {j} /\ UNCHANGED <<inbox, taken>>
        /\ job' = [job EXCEPT ![j].pc = "done", ![j].got = <<>>, ![j].file = None]
    BY <1>0, <1>2 DEF SendWrite, At, Fits, StateTyped
  <2>2. file[f] \o job[j].got \in Seq(Line) /\ None \notin Seq(Line)
    BY <1>0, <2>1, FilesAre DEF JobState
  <2>3. /\ file' \in [Files -> Seq(Line) \cup {None}]
        /\ \A g \in Files : file[g] # None => file'[g] # None
    BY <1>0, <2>1, <2>2 DEF StateTyped
  <2>4. Linked'
    BY <1>0, <2>1, <2>3 DEF Linked, StateTyped
  <2> DEFINE new == [job[j] EXCEPT !.pc = "done", !.got = <<>>, !.file = None]
  <2>5. new \in JobState /\ job' = [job EXCEPT ![j] = new]
    BY <1>0, <2>1, NoLines DEF JobState, Sections
  <2>6. job'[j] = new /\ new.pc = "done"
    BY <1>0, <2>5 DEF JobState
  <2> HIDE DEF new
  <2>7. Fits(j)'
    BY <2>1, <2>6 DEF Fits, Loose, Taking
  <2>8. QED
    BY <1>0, <2>1, <2>3, <2>4, <2>5, <2>7, OneJobFits DEF StateTyped
<1>3. CASE Recover(j)
  <2> DEFINE b == job[j].bot
  <2>1. /\ b \in Ids /\ Job[j].op = "run" /\ UNCHANGED <<inbox, taken, file, arrived>>
        /\ job[j].pc = "recover"
    BY <1>0, <1>3 DEF Recover, At, Fits, Loose, Taking, boxes, ghosts
  <2>2. Linked' /\ \A f \in Files : file[f] # None => file'[f] # None
    BY <2>1, SameBoxes
  <2>3. CASE \E pc \in {"drain", "dropTaken"} : Goto(j, pc)
    <3>1. PICK pc \in {"drain", "dropTaken"} : Goto(j, pc)
      BY <2>3
    <3>2. job'[j].pc = pc /\ job'[j].bot = b
      BY <1>0, <3>1 DEF Goto, JobState
    <3>3. Fits(j)'
      BY <2>1, <3>1, <3>2 DEF Fits, Loose, Taking
    <3>4. QED
      BY <1>0, <2>1, <2>2, <3>1, <3>3, GotoFits DEF Sections, StateTyped
  <2>4. CASE job' = [job EXCEPT ![j].pc = "merge",
                               ![j].got = Merged(Holding(taken[b]), Holding(inbox[b]))]
    <3> DEFINE new == [job[j] EXCEPT !.pc = "merge",
                                     !.got = Merged(Holding(taken[b]), Holding(inbox[b]))]
    <3>1. Merged(Holding(taken[b]), Holding(inbox[b])) \in Seq(Line)
      BY <1>0, <2>1, HoldingTyped DEF Merged
    <3>2. new \in JobState /\ job' = [job EXCEPT ![j] = new]
      BY <1>0, <2>4, <3>1 DEF JobState, Sections
    <3>3. job'[j] = new /\ new.pc = "merge" /\ new.bot = b
      BY <1>0, <3>2 DEF JobState
    <3> HIDE DEF new
    <3>4. Fits(j)'
      BY <2>1, <3>3 DEF Fits, Loose, Taking
    <3>5. QED
      BY <1>0, <2>1, <2>2, <3>2, <3>4, OneJobFits DEF StateTyped
  <2>5. QED
    BY <1>3, <2>3, <2>4 DEF Recover
<1>4. CASE Merge(j)
  <2> DEFINE b == job[j].bot
  <2>1. /\ b \in Ids /\ Job[j].op = "run" /\ UNCHANGED <<taken, arrived>> /\ job[j].pc = "merge"
    BY <1>0, <1>4 DEF Merge, At, Fits, Loose, Taking, ghosts
  <2>2. PICK pc \in {"dropTaken", "failed"} : job' = [job EXCEPT ![j].pc = pc, ![j].got = <<>>]
    BY <1>4 DEF Merge
  <2> DEFINE new == [job[j] EXCEPT !.pc = pc, !.got = <<>>]
  <2>3. new \in JobState /\ job' = [job EXCEPT ![j] = new]
    BY <1>0, <2>2, NoLines DEF JobState, Sections
  <2>4. job'[j] = new /\ new.pc = pc /\ new.bot = b
    BY <1>0, <2>3 DEF JobState
  <2>5. /\ inbox' \in [Ids -> Files \cup {None}] /\ file' \in [Files -> Seq(Line) \cup {None}]
        /\ Linked' /\ \A f \in Files : file[f] # None => file'[f] # None
    <3>1. CASE UNCHANGED <<inbox, file>>
      BY <1>0, <2>1, <3>1, SameBoxes DEF StateTyped
    <3>2. CASE ~UNCHANGED <<inbox, file>>
      <4>1. /\ Used # Files /\ file' = [file EXCEPT ![Fresh] = job[j].got]
            /\ inbox' = [inbox EXCEPT ![b] = Fresh]
        BY <1>4, <3>2 DEF Merge
      <4>2. job[j].got \in Seq(Line)
        BY <1>0 DEF JobState
      <4>3. QED
        BY <1>0, <2>1, <4>1, <4>2, NewInbox
    <3>3. QED
      BY <3>1, <3>2
  <2> HIDE DEF new
  <2>6. Fits(j)'
    BY <2>1, <2>2, <2>4 DEF Fits, Loose, Taking
  <2>7. QED
    BY <1>0, <2>1, <2>3, <2>5, <2>6, OneJobFits DEF StateTyped
<1>5. CASE DropTaken(j)
  <2> DEFINE b == job[j].bot
  <2>1. /\ b \in Ids /\ Job[j].op = "run" /\ UNCHANGED <<inbox, file, arrived>>
        /\ taken' = [taken EXCEPT ![b] = None]
    BY <1>0, <1>5 DEF DropTaken, At, Fits, Loose, Taking, ghosts
  <2>2. PICK pc \in {"drain", "failed"} : Goto(j, pc)
    BY <1>5 DEF DropTaken
  <2>3. job'[j].pc = pc /\ job'[j].bot = b
    BY <1>0, <2>2 DEF Goto, JobState
  <2>4. Fits(j)'
    BY <2>1, <2>2, <2>3 DEF Fits, Loose, Taking
  <2>5. Linked' /\ taken' \in [Ids -> Files \cup {None}]
    BY <1>0, <2>1 DEF Linked, StateTyped
  <2>6. QED
    BY <1>0, <2>1, <2>2, <2>4, <2>5, GotoFits DEF Sections, StateTyped
<1>6. QED
  BY <1>1, <1>2, <1>3, <1>4, <1>5


LEMMA DrainTypes ==
    ASSUME TypeInv, NEW j \in Jobs, Drain(j) \/ Take(j) \/ Read(j) \/ Drop(j)
    PROVE  TypeInv'
<1> DEFINE b == job[j].bot
<1>0. /\ StateTyped /\ Linked /\ Fits(j) /\ job[j] \in JobState /\ Job[j].op \in Ops
      /\ job \in [Jobs -> JobState]
  BY JobsAssumption DEF TypeInv, StateTyped
<1>a. b \in Ids /\ Job[j].op = "run"
  BY <1>0 DEF Drain, Take, Read, Drop, At, Fits, Loose, Taking
<1>d. UNCHANGED <<profile, groups, log, glog, shown, arrived, file>>
  BY DEF Drain, Take, Read, Drop, ghosts, roster, boxes
<1>e. SUFFICES /\ inbox' \in [Ids -> Files \cup {None}] /\ taken' \in [Ids -> Files \cup {None}]
               /\ Linked' /\ job' \in [Jobs -> JobState] /\ \A k \in Jobs : Fits(k)'
  BY <1>0, <1>d DEF TypeInv, StateTyped
<1>1. /\ inbox' \in [Ids -> Files \cup {None}] /\ taken' \in [Ids -> Files \cup {None}]
      /\ Linked'
  <2>1. CASE Take(j) /\ inbox[b] # None
    <3>1. taken' = [taken EXCEPT ![b] = inbox[b]] /\ inbox' = [inbox EXCEPT ![b] = None]
      BY <2>1 DEF Take
    <3>2. QED
      BY <1>0, <1>a, <1>d, <3>1 DEF StateTyped, Linked
  <2>2. CASE ~(Take(j) /\ inbox[b] # None)
    <3>1. inbox' = inbox /\ (taken' = taken \/ taken' = [taken EXCEPT ![b] = None])
      BY <2>2 DEF Drain, Take, Read, Drop, boxes
    <3>2. QED
      BY <1>0, <1>a, <1>d, <3>1 DEF StateTyped, Linked
  <2>3. QED
    BY <2>1, <2>2
<1>2. CASE \E pc \in {"work", "take", "failed", "read"} : Goto(j, pc)
  <2>1. PICK pc \in {"work", "take", "failed", "read"} : Goto(j, pc)
    BY <1>2
  <2>2. job'[j].pc = pc /\ job'[j].bot = b
    BY <1>0, <2>1 DEF Goto, JobState
  <2>3. Fits(j)'
    BY <1>a, <2>1, <2>2 DEF Fits, Loose, Taking
  <2>4. QED
    BY <1>1, <1>d, <2>1, <2>3, GotoFits DEF Sections
<1>3. CASE Read(j) /\ taken[b] # None
  <2> DEFINE new == [job[j] EXCEPT !.pc = "drop", !.got = Holding(taken[b])]
  <2>1. Holding(taken[b]) \in Seq(Line)
    BY <1>0, <1>a, HoldingTyped
  <2>2. new \in JobState /\ job' = [job EXCEPT ![j] = new]
    BY <1>0, <1>3, <2>1 DEF JobState, Sections, Read
  <2>3. job'[j] = new /\ new.pc = "drop" /\ new.bot = b
    BY <1>0, <2>2 DEF JobState
  <2> HIDE DEF new
  <2>4. Fits(j)'
    BY <1>a, <2>3 DEF Fits, Loose, Taking
  <2>5. QED
    BY <1>1, <1>d, <2>2, <2>4, OneJobFits
<1>4. QED
  BY <1>2, <1>3 DEF Drain, Take, Read, Drop

\* What a run shows is what it had taken, in that order.
Given2Run(j) == [i \in DOMAIN job[j].got |-> [by |-> job[j].got[i].by, run |-> j]]

LEMMA ShownTyped ==
    ASSUME StateTyped, NEW j \in Jobs
    PROVE  Given2Run(j) \in Seq([by : Jobs, run : Jobs])
<1>1. job[j].got \in Seq(Line)
  BY DEF StateTyped, JobState
<1>2. \A i \in 1 .. Len(job[j].got) : job[j].got[i].by \in Jobs
  <2>1. \A i \in 1 .. Len(job[j].got) : job[j].got[i] \in Line
    BY <1>1
  <2>2. \A line \in Line : line.by \in Jobs
    BY DEF Line
  <2>3. QED
    BY <2>1, <2>2
<1>3. DOMAIN job[j].got = 1 .. Len(job[j].got) /\ Len(job[j].got) \in Nat
  BY <1>1
<1>4. QED
  BY <1>2, <1>3 DEF Given2Run

LEMMA TurnTypes ==
    ASSUME TypeInv, NEW j \in Jobs, Work(j) \/ AppendTurn(j) \/ Crash(j) \/ RemoveDir(j)
    PROVE  TypeInv'
<1> DEFINE b == job[j].bot
<1>0. /\ StateTyped /\ Linked /\ Fits(j) /\ job[j] \in JobState /\ Job[j].op \in Ops
      /\ job \in [Jobs -> JobState]
  BY JobsAssumption DEF TypeInv, StateTyped
<1>d. UNCHANGED <<groups, file, arrived>>
  BY DEF Work, AppendTurn, Crash, RemoveDir, ghosts, roster, boxes
<1>f. \A f \in Files : file[f] # None => file'[f] # None
  BY <1>d
<1>1. CASE Work(j)
  <2>1. /\ b \in Ids /\ Job[j].op \in {"run", "turn", "post"}
        /\ shown' = shown \o Given2Run(j)
        /\ job' = [job EXCEPT ![j].pc = "append", ![j].got = <<>>]
        /\ UNCHANGED <<profile, log, glog, inbox, taken>>
    BY <1>0, <1>1 DEF Work, At, Fits, Loose, Given2Run, roster, boxes
  <2> DEFINE new == [job[j] EXCEPT !.pc = "append", !.got = <<>>]
  <2>2. new \in JobState /\ job' = [job EXCEPT ![j] = new]
    BY <1>0, <2>1, NoLines DEF JobState, Sections
  <2>3. job'[j] = new /\ new.pc = "append" /\ new.bot = b
    BY <1>0, <2>2 DEF JobState
  <2> HIDE DEF new
  <2>4. Fits(j)'
    BY <2>1, <2>3 DEF Fits, Loose, Taking
  <2>5. shown' \in Seq([by : Jobs, run : Jobs])
    BY <1>0, <2>1, ShownTyped DEF StateTyped
  <2>6. Linked'
    BY <1>d, <2>1, SameBoxes
  <2>7. job' \in [Jobs -> JobState] /\ \A k \in Jobs : Fits(k)'
    BY <1>f, <2>2, <2>4, OneJobFits
  <2>8. QED
    BY <1>0, <1>d, <2>1, <2>5, <2>6, <2>7 DEF TypeInv, StateTyped
<1>2. CASE AppendTurn(j)
  <2>1. /\ b \in Ids /\ Job[j].op = "post" => Job[j].name \in Gids
        /\ Goto(j, "done") /\ UNCHANGED <<profile, shown, inbox, taken>>
    BY <1>0, <1>2, JobsAssumption DEF AppendTurn, At, Fits, Loose, roster, boxes, ghosts
  <2>2. log' \in [Ids -> SUBSET Jobs] /\ glog' \in [Gids -> SUBSET Jobs]
    BY <1>0, <1>2, <2>1 DEF AppendTurn, StateTyped
  <2>3. Linked'
    BY <1>d, <2>1, SameBoxes
  <2>4. QED
    BY <1>0, <1>d, <1>f, <2>1, <2>2, <2>3, EndFits DEF TypeInv, StateTyped
<1>3. CASE Crash(j)
  <2> DEFINE new == [job[j] EXCEPT !.pc = "dead", !.got = IF At(j, "merge") THEN <<>> ELSE @]
  <2>1. job' = [job EXCEPT ![j] = new] /\ UNCHANGED <<profile, log, glog, shown, inbox, taken>>
    BY <1>3 DEF Crash, roster, boxes, ghosts
  <2>2. Linked'
    BY <1>d, <2>1, SameBoxes
  <2>3. new \in JobState
    BY <1>0, NoLines DEF JobState, Sections
  <2>4. job'[j] = new /\ new.pc = "dead"
    BY <1>0, <2>1 DEF JobState
  <2> HIDE DEF new
  <2>5. Fits(j)'
    BY <2>4 DEF Fits, Loose, Taking
  <2>6. job' \in [Jobs -> JobState] /\ \A k \in Jobs : Fits(k)'
    BY <1>f, <2>1, <2>3, <2>5, OneJobFits
  <2>7. QED
    BY <1>0, <1>d, <2>1, <2>2, <2>6 DEF TypeInv, StateTyped
<1>4. CASE RemoveDir(j)
  <2>1. b \in Ids /\ UNCHANGED <<glog, shown>> /\ (Goto(j, "done") \/ Goto(j, "failed"))
    BY <1>0, <1>4 DEF RemoveDir, At, Fits, Loose
  <2>2. \/ UNCHANGED <<profile, log, inbox, taken>>
        \/ /\ profile' = [profile EXCEPT ![b] = None] /\ log' = [log EXCEPT ![b] = {}]
           /\ inbox' = [inbox EXCEPT ![b] = None] /\ taken' = [taken EXCEPT ![b] = None]
    BY <1>4 DEF RemoveDir
  <2>3. /\ profile' \in [Ids -> Profile \cup {None}] /\ log' \in [Ids -> SUBSET Jobs]
        /\ inbox' \in [Ids -> Files \cup {None}] /\ taken' \in [Ids -> Files \cup {None}]
    BY <1>0, <2>1, <2>2 DEF StateTyped
  <2>4. Linked'
    BY <1>0, <1>d, <2>1, <2>2 DEF StateTyped, Linked
  <2>5. QED
    BY <1>0, <1>d, <1>f, <2>1, <2>3, <2>4, EndFits DEF TypeInv, StateTyped
<1>5. QED
  BY <1>1, <1>2, <1>3, <1>4

LEMMA TypeInductive == TypeInv /\ [Next]_vars => TypeInv'
<1> SUFFICES ASSUME TypeInv, [Next]_vars PROVE TypeInv'
  OBVIOUS
<1>1. CASE UNCHANGED vars
  BY <1>1 DEF vars, TypeInv, StateTyped, Linked, Fits
<1>2. CASE Next
  <2>1. PICK j \in Jobs : Step(j)
    BY <1>2 DEF Next
  <2>2. QED
    BY <2>1, RosterTypes, GroupTypes, InboxTypes, DrainTypes, TurnTypes DEF Step
<1>3. QED
  BY <1>1, <1>2


-----------------------------------------------------------------------------
(***************************************************************************)
(* The roster.                                                             *)
(***************************************************************************)

\* While no two commands have edited the roster at once, one does at most, and what
\* it read is still so.
OneEditor == \A j, k \in Jobs : Edits(j) /\ Edits(k) => j = k

EditorHolds(j) ==
    LET pc == job[j].pc  b == job[j].bot IN
    /\ pc = "saveNew" => profile[b] = None /\ Room
    /\ pc \in {"saveName", "saveBrief", "saveHidden"} => profile[b] # None
    /\ pc = "saveGroup" => Room /\ \A s \in job[j].todo : ToSet(s.members) \subseteq Listed
    /\ pc = "leave" =>
          /\ \A s \in job[j].todo : groups[s.id] = s.members
          /\ \A g \in Groups : b \in ToSet(groups[g]) =>
                [id |-> g, members |-> groups[g]] \in job[j].todo

RosterInv ==
    /\ IsFiniteSet(Listed) /\ IsFiniteSet(Groups)
    /\ MembersExist /\ CapHolds
    /\ overlap \/ (OneEditor /\ \A j \in Jobs : EditorHolds(j))

\* The sections in which an editor relies on what it read.
Relies == {"saveNew", "saveName", "saveBrief", "saveHidden", "saveGroup", "leave"}

LEMMA ReliesEdits ==
    ASSUME TypeInv, NEW j \in Jobs, job[j].pc \in Relies
    PROVE  Edits(j)
<1>1. Fits(j)
  BY DEF TypeInv
<1>2. QED
  BY <1>1 DEF Relies, Edits, Fits, Editing, At, Ended

LEMMA InitRoster == Init => RosterInv
<1> SUFFICES ASSUME Init PROVE RosterInv
  OBVIOUS
<1>1. Listed = Existing
  <2>1. \A b \in Existing : [name |-> b, brief |-> FALSE, hidden |-> FALSE] \in Profile
    BY JobsAssumption DEF Profile
  <2>2. QED
    BY <2>1, NoneAssumption, JobsAssumption DEF Init, Listed
<1>2. Groups = {}
  BY DEF Init, Groups
<1>3. IsFiniteSet(Listed) /\ IsFiniteSet(Groups)
  BY <1>1, <1>2, JobsAssumption, FS_EmptySet
<1>4. CapHolds
  <2>1. Cardinality(Listed) \in Nat /\ Cardinality(Groups) = 0
    BY <1>2, <1>3, FS_CardinalityType, FS_EmptySet
  <2>2. QED
    BY <1>1, <2>1, JobsAssumption DEF CapHolds
<1>5. MembersExist
  BY <1>2 DEF MembersExist
<1>6. OneEditor /\ \A j \in Jobs : EditorHolds(j)
  BY DEF Init, OneEditor, Edits, EditorHolds, At, Idle
<1>7. QED
  BY <1>3, <1>4, <1>5, <1>6 DEF RosterInv

\* What a step of one command leaves alone.
LEMMA OneJob ==
    ASSUME TypeInv, NEW j \in Jobs, Step(j)
    PROVE  \A k \in Jobs \ {j} : job'[k] = job[k]
<1>1. job \in [Jobs -> JobState]
  BY DEF TypeInv, StateTyped
<1>2. CASE \/ Resolve(j) \/ NotResolved(j) \/ StartCreate(j) \/ CheckNew(j) \/ RefuseNew(j)
           \/ SaveNew(j) \/ Rename(j) \/ RefuseRename(j) \/ SaveName(j)
           \/ Describe(j) \/ RefuseDescribe(j) \/ SaveBrief(j)
           \/ SaveHidden(j) \/ Forget(j)
  BY <1>1, <1>2 DEF Resolve, NotResolved, StartCreate, CheckNew, RefuseNew, SaveNew, Rename,
         RefuseRename, SaveName, Describe, RefuseDescribe, SaveBrief, SaveHidden, Forget, Fail,
         Replace, Goto
<1>3. CASE \/ CreateGroup(j) \/ RefuseGroup(j) \/ SaveGroup(j) \/ RemoveGroup(j)
           \/ Count(j) \/ LeaveGroup(j) \/ RemoveDir(j) \/ Post(j)
  BY <1>1, <1>3 DEF CreateGroup, RefuseGroup, SaveGroup, RemoveGroup, Count, LeaveGroup, RemoveDir,
         Post, Fail, Goto
<1>4. CASE \/ SendOpen(j) \/ SendWrite(j)
           \/ Recover(j) \/ Merge(j) \/ DropTaken(j)
           \/ Drain(j) \/ Take(j) \/ Read(j) \/ Drop(j)
           \/ Work(j) \/ AppendTurn(j) \/ Crash(j)
  BY <1>1, <1>4 DEF SendOpen, SendWrite, Recover, Merge, DropTaken, Drain, Take, Read, Drop, Work,
         AppendTurn, Crash, Goto
<1>5. QED
  BY <1>2, <1>3, <1>4 DEF Step

\* A command that edits the roster starts alone, or the overlap is noted.
LEMMA StartsAlone ==
    ASSUME TypeInv, NEW j \in Jobs, Step(j)
    PROVE  /\ overlap => overlap'
           /\ \/ ~At(j, "idle") /\ ~Ended(j)
              \/ ~Edits(j)' /\ UNCHANGED roster
              \/ overlap' = (overlap \/ (Job[j].op \in Editing /\ \E k \in Jobs \ {j} : Edits(k)))
<1>1. job \in [Jobs -> JobState]
  BY DEF TypeInv, StateTyped
<1>2. CASE Resolve(j) \/ StartCreate(j) \/ CreateGroup(j) \/ RemoveGroup(j)
  BY <1>2 DEF Resolve, StartCreate, CreateGroup, RemoveGroup, NoteOverlap
<1>3. CASE NotResolved(j) \/ RefuseGroup(j)
  <2>1. Goto(j, "failed") /\ UNCHANGED <<overlap, roster>>
    BY <1>3 DEF NotResolved, RefuseGroup, Fail, ghosts
  <2>2. job'[j].pc = "failed"
    BY <1>1, <2>1 DEF Goto, JobState
  <2>3. QED
    BY <2>1, <2>2 DEF Edits, Ended
<1>4. CASE Post(j)
  BY <1>4 DEF Post, Edits, Editing, ghosts
<1>5. CASE \/ CheckNew(j) \/ RefuseNew(j) \/ SaveNew(j)
           \/ Rename(j) \/ RefuseRename(j) \/ SaveName(j)
           \/ Describe(j) \/ RefuseDescribe(j) \/ SaveBrief(j)
           \/ SaveHidden(j) \/ Forget(j)
           \/ SaveGroup(j) \/ Count(j) \/ LeaveGroup(j) \/ RemoveDir(j)
  <2>1. overlap' = overlap
    BY <1>5 DEF CheckNew, RefuseNew, SaveNew, Rename, RefuseRename, SaveName, Describe,
         RefuseDescribe, SaveBrief, SaveHidden, Forget, SaveGroup, Count, LeaveGroup, RemoveDir,
         Fail, Replace, ghosts
  <2>2. ~At(j, "idle") /\ ~Ended(j)
    BY <1>5 DEF CheckNew, RefuseNew, SaveNew, Rename, RefuseRename, SaveName, Describe,
         RefuseDescribe, SaveBrief, SaveHidden, Forget, SaveGroup, Count, LeaveGroup, RemoveDir,
         At, Ended
  <2>3. QED
    BY <2>1, <2>2
<1>6. CASE \/ SendOpen(j) \/ SendWrite(j)
           \/ Recover(j) \/ Merge(j) \/ DropTaken(j)
           \/ Drain(j) \/ Take(j) \/ Read(j) \/ Drop(j)
           \/ Work(j) \/ AppendTurn(j) \/ Crash(j)
  <2>1. overlap' = overlap
    BY <1>6 DEF SendOpen, SendWrite, Recover, Merge, DropTaken, Drain, Take, Read, Drop, Work,
         AppendTurn, Crash, ghosts
  <2>2. ~At(j, "idle") /\ ~Ended(j)
    BY <1>6 DEF SendOpen, SendWrite, Recover, Merge, DropTaken, Drain, Take, Read, Drop, Work,
         AppendTurn, Crash, At, Ended
  <2>3. QED
    BY <2>1, <2>2
<1>7. QED
  BY <1>2, <1>3, <1>4, <1>5, <1>6 DEF Step

\* So at most one edits it as long as none overlapped.
LEMMA OneEditorKept ==
    ASSUME TypeInv, NEW j \in Jobs, Step(j), ~overlap', OneEditor
    PROVE  /\ OneEditor'
           /\ UNCHANGED roster \/ \A k \in Jobs \ {j} : ~Edits(k)
<1>1. \A k \in Jobs \ {j} : Edits(k)' <=> Edits(k)
  BY OneJob DEF Edits, At, Ended
<1>2. CASE ~At(j, "idle") /\ ~Ended(j)
  <2>1. Job[j].op \in Editing => Edits(j)
    BY <1>2 DEF Edits
  <2>2. Edits(j)' => Edits(j)
    BY <2>1 DEF Edits
  <2>3. OneEditor'
    BY <1>1, <2>2 DEF OneEditor
  <2>4. Job[j].op \notin Editing => UNCHANGED roster
    <3>1. Job[j].op \notin Editing /\ ~At(j, "idle") => job[j].pc \notin Relies
      BY ReliesEdits DEF Edits
    <3>2. QED
      BY <1>2, <3>1 DEF Step, Resolve, NotResolved, StartCreate, CheckNew, RefuseNew, SaveNew,
           Rename, RefuseRename, SaveName, Describe, RefuseDescribe, SaveBrief, SaveHidden, Forget,
           Fail, CreateGroup, RefuseGroup, SaveGroup, RemoveGroup, Count, LeaveGroup, RemoveDir,
           Post, SendOpen, SendWrite, Recover, Merge, DropTaken, Drain, Take, Read, Drop, Work,
           AppendTurn, Crash, Given, At, Relies, roster
  <2>5. Job[j].op \in Editing => \A k \in Jobs \ {j} : ~Edits(k)
    BY <2>1 DEF OneEditor
  <2>6. QED
    BY <2>3, <2>4, <2>5
<1>3. CASE ~Edits(j)' /\ UNCHANGED roster
  BY <1>1, <1>3 DEF OneEditor
<1>4. CASE overlap' = (overlap \/ (Job[j].op \in Editing /\ \E k \in Jobs \ {j} : Edits(k)))
           /\ At(j, "idle")
  <2>1. Job[j].op \in Editing => \A k \in Jobs \ {j} : ~Edits(k)
    BY <1>4
  <2>2. OneEditor'
    BY <1>1, <2>1 DEF OneEditor, Edits
  <2>3. Job[j].op \notin Editing => UNCHANGED roster
    BY <1>4 DEF Step, Resolve, NotResolved, StartCreate, CheckNew, RefuseNew, SaveNew,
           Rename, RefuseRename, SaveName, Describe, RefuseDescribe, SaveBrief, SaveHidden, Forget,
           Fail, CreateGroup, RefuseGroup, SaveGroup, RemoveGroup, Count, LeaveGroup, RemoveDir,
           Post, SendOpen, SendWrite, Recover, Merge, DropTaken, Drain, Take, Read, Drop, Work,
           AppendTurn, Crash, Given, At, roster, Editing
  <2>4. QED
    BY <2>1, <2>2, <2>3
<1>5. CASE Ended(j)
  BY <1>5 DEF Step, Resolve, NotResolved, StartCreate, CheckNew, RefuseNew, SaveNew,
           Rename, RefuseRename, SaveName, Describe, RefuseDescribe, SaveBrief, SaveHidden, Forget,
           CreateGroup, RefuseGroup, SaveGroup, RemoveGroup, Count, LeaveGroup, RemoveDir,
           Post, SendOpen, SendWrite, Recover, Merge, DropTaken, Drain, Take, Read, Drop, Work,
           AppendTurn, Crash, Given, At, Ended
<1>6. QED
  BY <1>2, <1>3, <1>4, <1>5, StartsAlone

\* A step brings a command to a section where it relies on what it read only when it
\* has just read it, or leaves a group.
LEMMA ReliesAfter ==
    ASSUME TypeInv, NEW j \in Jobs, Step(j), job'[j].pc \in Relies
    PROVE  \/ Resolve(j) \/ CheckNew(j) \/ Rename(j) \/ Describe(j)
           \/ CreateGroup(j) \/ Count(j) \/ LeaveGroup(j)
<1>1. job \in [Jobs -> JobState] /\ job[j] \in JobState
  BY DEF TypeInv, StateTyped
<1>2. CASE \E pc \in {"check", "done", "failed", "describe", "work", "drain", "dropTaken", "take",
                      "read"} : Goto(j, pc)
  BY <1>1, <1>2 DEF Goto, JobState, Relies
<1>3. CASE \/ NotResolved(j) \/ StartCreate(j) \/ RefuseNew(j) \/ SaveNew(j)
           \/ RefuseRename(j) \/ SaveName(j) \/ RefuseDescribe(j) \/ SaveBrief(j)
           \/ SaveHidden(j) \/ Forget(j)
           \/ RefuseGroup(j) \/ SaveGroup(j) \/ RemoveGroup(j) \/ RemoveDir(j)
           \/ DropTaken(j) \/ Drain(j) \/ Take(j) \/ Drop(j) \/ AppendTurn(j)
  BY <1>2, <1>3 DEF NotResolved, StartCreate, RefuseNew, SaveNew, RefuseRename, SaveName,
       RefuseDescribe, SaveBrief, SaveHidden, Forget, RefuseGroup, SaveGroup, RemoveGroup,
       RemoveDir, DropTaken, Drain, Take, Drop, AppendTurn, Fail, Replace
<1>4. CASE \/ Post(j) \/ SendOpen(j) \/ SendWrite(j) \/ Recover(j) \/ Merge(j) \/ Read(j) \/ Work(j)
           \/ Crash(j)
  <2>1. CASE Post(j) \/ SendOpen(j) \/ SendWrite(j)
    BY <1>1, <2>1 DEF Post, SendOpen, SendWrite, Goto, JobState, Relies
  <2>2. CASE Recover(j) \/ Merge(j)
    BY <1>1, <2>2 DEF Recover, Merge, Goto, JobState, Relies
  <2>3. CASE Read(j) \/ Work(j)
    BY <1>1, <2>3 DEF Read, Work, Goto, JobState, Relies
  <2>4. CASE Crash(j)
    BY <1>1, <2>4 DEF Crash, JobState, Relies
  <2>5. QED
    BY <1>4, <2>1, <2>2, <2>3, <2>4
<1>5. QED
  BY <1>3, <1>4 DEF Step

\* What the roster is after a step that leaves it alone.
LEMMA SameRoster ==
    ASSUME UNCHANGED roster
    PROVE  /\ Listed' = Listed /\ Groups' = Groups
           /\ \A b : Hits(b)' = Hits(b)
BY DEF roster, Listed, Groups, Hits

\* The steps that leave the roster alone.
Looks(j) ==
    \/ Resolve(j) \/ NotResolved(j)
    \/ StartCreate(j) \/ CheckNew(j) \/ RefuseNew(j)
    \/ Rename(j) \/ RefuseRename(j) \/ Describe(j) \/ RefuseDescribe(j) \/ Forget(j)
    \/ CreateGroup(j) \/ RefuseGroup(j) \/ Count(j) \/ Post(j)
    \/ SendOpen(j) \/ SendWrite(j)
    \/ Recover(j) \/ Merge(j) \/ DropTaken(j)
    \/ Drain(j) \/ Take(j) \/ Read(j) \/ Drop(j)
    \/ Work(j) \/ AppendTurn(j) \/ Crash(j)

LEMMA LooksOnly == ASSUME NEW j, Looks(j) PROVE UNCHANGED roster
BY DEF Looks, Resolve, NotResolved, StartCreate, CheckNew, RefuseNew, Rename, RefuseRename,
       Describe, RefuseDescribe, Forget, Fail, CreateGroup, RefuseGroup, Count, Post, SendOpen,
       SendWrite, Recover, Merge, DropTaken, Drain, Take, Read, Drop, Work, AppendTurn, Crash,
       roster

\* A command that has just read the roster relies on what it is.
LEMMA JustRead ==
    ASSUME TypeInv, MembersExist, ~overlap, NEW j \in Jobs, Step(j), Looks(j)
    PROVE  EditorHolds(j)'
<1>0. /\ StateTyped /\ Fits(j) /\ job[j] \in JobState /\ job \in [Jobs -> JobState]
  BY DEF TypeInv, StateTyped
<1>1. UNCHANGED roster /\ Listed' = Listed /\ Groups' = Groups
  BY LooksOnly, SameRoster
<1>2. CASE job'[j].pc \notin Relies
  BY <1>2 DEF Relies, EditorHolds
<1>3. CASE Resolve(j)
  <2> DEFINE b == TheHit(Job[j].bot)
  <2>1. /\ Job[j].op \in OnBot /\ b \in Listed
        /\ job' = [job EXCEPT ![j].pc = FirstSection(j), ![j].bot = b, ![j].prof = profile[b]]
    BY <1>3, HitIsListed DEF Resolve
  <2>2. job'[j].pc = FirstSection(j) /\ job'[j].bot = b
    BY <1>0, <2>1 DEF JobState
  <2>3. FirstSection(j) \notin {"saveNew", "saveGroup", "leave"}
    BY <2>1 DEF FirstSection, OnBot
  <2>4. profile'[b] # None
    BY <1>1, <2>1 DEF Listed, roster
  <2>5. /\ job'[j].pc \notin {"saveNew", "saveGroup", "leave"}
        /\ profile'[job'[j].bot] # None
    BY <2>2, <2>3, <2>4
  <2>6. QED
    BY <2>5 DEF EditorHolds
<1>4. CASE CheckNew(j)
  <2>1. /\ job'[j].pc = "saveNew" /\ job'[j].bot = Job[j].name
        /\ profile[Job[j].name] = None /\ Room
    BY <1>0, <1>4 DEF CheckNew, MayCreate, JobState
  <2>2. Room' /\ profile' = profile
    BY <1>1, <2>1 DEF Room, roster
  <2>3. QED
    BY <2>1, <2>2 DEF EditorHolds
<1>5. CASE Rename(j) \/ Describe(j)
  <2>1. /\ job'[j].pc \in {"saveName", "saveBrief"} /\ job'[j].bot = job[j].bot
        /\ Hits(job[j].bot) = {job[j].bot}
    BY <1>0, <1>5 DEF Rename, Describe, JobState
  <2>2. profile'[job[j].bot] # None
    BY <1>1, <2>1 DEF Hits, Listed, roster
  <2>3. QED
    BY <2>1, <2>2 DEF EditorHolds
<1>6. CASE CreateGroup(j)
  <2>1. /\ Room /\ ToSet(Deduped(j)) \subseteq Listed
        /\ job' = [job EXCEPT ![j].pc = "saveGroup",
                              ![j].todo = {[id |-> Job[j].name, members |-> Deduped(j)]}]
    BY <1>6, DedupedAreListed DEF CreateGroup, MayGroup
  <2>2. /\ job'[j].pc = "saveGroup"
        /\ job'[j].todo = {[id |-> Job[j].name, members |-> Deduped(j)]}
    BY <1>0, <2>1 DEF JobState
  <2>3. Room'
    BY <1>1, <2>1 DEF Room
  <2>4. \A s \in job'[j].todo : ToSet(s.members) \subseteq Listed'
    <3>1. [id |-> Job[j].name, members |-> Deduped(j)].members = Deduped(j)
      OBVIOUS
    <3>2. \A s \in job'[j].todo : s = [id |-> Job[j].name, members |-> Deduped(j)]
      BY <2>2
    <3>3. \A s \in job'[j].todo : s.members = Deduped(j)
      BY <3>1, <3>2
    <3>4. QED
      BY <1>1, <2>1, <3>3
  <2>5. QED
    BY <2>2, <2>3, <2>4 DEF EditorHolds
<1>7. CASE Count(j)
  <2>1. CASE Goto(j, "failed")
    BY <1>0, <2>1 DEF Goto, EditorHolds, JobState
  <2>2. CASE job' = [job EXCEPT ![j].pc = "leave", ![j].todo = MustLeave(job[j].bot)]
    <3>1. /\ job'[j].pc = "leave" /\ job'[j].todo = MustLeave(job[j].bot)
          /\ job'[j].bot = job[j].bot
      BY <1>0, <2>2 DEF JobState
    <3>2. groups' = groups
      BY <1>1 DEF roster
    <3>3. \A s \in MustLeave(job[j].bot) : groups[s.id] = s.members
      BY DEF MustLeave
    <3>4. \A g \in Groups : job[j].bot \in ToSet(groups[g]) =>
             [id |-> g, members |-> groups[g]] \in MustLeave(job[j].bot)
      BY DEF MustLeave
    <3>5. QED
      BY <1>1, <3>1, <3>2, <3>3, <3>4 DEF EditorHolds
  <2>3. QED
    BY <1>7, <2>1, <2>2 DEF Count
<1>8. ~LeaveGroup(j) \/ job'[j].pc \notin Relies
  <2>1. SUFFICES ASSUME LeaveGroup(j) PROVE job'[j].pc \notin Relies
    OBVIOUS
  <2>2. At(j, "leave")
    BY <2>1 DEF LeaveGroup
  <2>3. Crash(j)
    BY <2>2 DEF At, Looks, Resolve, NotResolved, StartCreate, CheckNew, RefuseNew, Rename,
       RefuseRename,
       Describe, RefuseDescribe, Forget, CreateGroup, RefuseGroup, Count, Post, SendOpen,
       SendWrite, Recover, Merge, DropTaken, Drain, Take, Read, Drop, Work, AppendTurn, Given
  <2>4. QED
    BY <1>0, <2>3 DEF Crash, Goto, Relies, JobState
<1>9. QED
  BY <1>2, <1>3, <1>4, <1>5, <1>6, <1>7, <1>8, ReliesAfter


\* What another command relies on is still so.
LEMMA OthersHold ==
    ASSUME TypeInv, RosterInv, NEW j \in Jobs, Step(j), ~overlap', ~overlap
    PROVE  OneEditor' /\ \A k \in Jobs \ {j} : EditorHolds(k)'
<1>1. OneEditor /\ \A k \in Jobs : EditorHolds(k)
  BY DEF RosterInv
<1>2. \A k \in Jobs \ {j} : job'[k] = job[k]
  BY OneJob
<1>3. CASE UNCHANGED roster
  <2>1. Listed' = Listed /\ Groups' = Groups /\ UNCHANGED <<profile, groups>> /\ (Room' <=> Room)
    BY <1>3, SameRoster DEF Room, roster
  <2>2. \A k \in Jobs \ {j} : EditorHolds(k)'
    BY <1>1, <1>2, <2>1 DEF EditorHolds
  <2>3. QED
    BY <1>1, <2>2, OneEditorKept
<1>4. CASE \A k \in Jobs \ {j} : ~Edits(k)
  <2>1. \A k \in Jobs \ {j} : job'[k].pc \notin Relies
    BY <1>2, <1>4, ReliesEdits
  <2>2. \A k \in Jobs \ {j} : EditorHolds(k)'
    BY <2>1 DEF EditorHolds, Relies
  <2>3. QED
    BY <1>1, <2>2, OneEditorKept
<1>5. QED
  BY <1>1, <1>3, <1>4, OneEditorKept

\* A profile is replaced, or there is a new one.
LEMMA SavesKept ==
    ASSUME TypeInv, RosterInv, NEW j \in Jobs, Step(j),
           SaveNew(j) \/ SaveName(j) \/ SaveBrief(j) \/ SaveHidden(j)
    PROVE  /\ IsFiniteSet(Listed') /\ IsFiniteSet(Groups') /\ overlap' = overlap
           /\ ~overlap => MembersExist' /\ CapHolds' /\ EditorHolds(j)'
<1> DEFINE b == job[j].bot
<1>0. /\ StateTyped /\ Fits(j) /\ job[j] \in JobState /\ job \in [Jobs -> JobState]
      /\ IsFiniteSet(Listed) /\ IsFiniteSet(Groups)
  BY DEF TypeInv, StateTyped, RosterInv
<1>1. b \in Ids
  BY <1>0 DEF SaveNew, SaveName, SaveBrief, SaveHidden, At, Fits, Loose
<1>2. PICK p \in Profile, next \in {"describe", "done"} : Replace(j, p, next)
  <2>1. CASE SaveNew(j) \/ SaveBrief(j) \/ SaveName(j)
    BY <1>0, <2>1 DEF SaveNew, SaveBrief, SaveName, Fits, At
  <2>2. CASE SaveHidden(j)
    <3>1. job[j].prof \in Profile /\ Job[j].hidden \in BOOLEAN
      BY <1>0, <2>2, JobsAssumption DEF SaveHidden, Fits, At
    <3>2. [job[j].prof EXCEPT !.hidden = Job[j].hidden] \in Profile
      BY <3>1 DEF Profile
    <3>3. QED
      BY <2>2, <3>2 DEF SaveHidden
  <2>3. QED
    BY <2>1, <2>2
<1>3. p # None
  BY NoneAssumption
<1>4. /\ Listed' = Listed \cup {b} /\ Groups' = Groups /\ groups' = groups
      /\ overlap' = overlap /\ job'[j].pc = next
  BY <1>0, <1>1, <1>2, <1>3 DEF Replace, Goto, Listed, Groups, StateTyped, JobState, ghosts
<1>5. IsFiniteSet(Listed')
  BY <1>0, <1>4, FS_AddElement
<1>6. EditorHolds(j)'
  BY <1>2, <1>4 DEF EditorHolds
<1>7. ASSUME ~overlap PROVE MembersExist' /\ CapHolds'
  <2>1. MembersExist /\ CapHolds /\ EditorHolds(j)
    BY <1>7 DEF RosterInv
  <2>2. MembersExist'
    BY <1>4, <1>7, <2>1 DEF MembersExist
  <2>3. CASE SaveNew(j)
    <3>1. Room /\ b \notin Listed
      BY <2>1, <2>3 DEF EditorHolds, SaveNew, At, Listed
    <3>2. Cardinality(Listed') = Cardinality(Listed) + 1
      BY <1>0, <1>4, <3>1, FS_AddElement
    <3>3. Cardinality(Listed) \in Nat /\ Cardinality(Groups) \in Nat /\ MaxListed \in Nat
      BY <1>0, FS_CardinalityType, JobsAssumption
    <3>4. CapHolds'
      BY <1>4, <3>1, <3>2, <3>3 DEF CapHolds, Room
    <3>5. QED
      BY <2>2, <3>4
  <2>4. CASE SaveName(j) \/ SaveBrief(j) \/ SaveHidden(j)
    <3>1. b \in Listed
      BY <1>1, <2>1, <2>4 DEF EditorHolds, SaveName, SaveBrief, SaveHidden, At, Listed
    <3>2. Listed' = Listed
      BY <1>4, <3>1
    <3>3. CapHolds'
      BY <1>4, <1>7, <2>1, <3>2 DEF CapHolds
    <3>4. QED
      BY <2>2, <3>3
  <2>5. QED
    BY <2>3, <2>4
<1>8. QED
  BY <1>0, <1>4, <1>5, <1>6, <1>7

\* A group is written.
LEMMA GroupSaved ==
    ASSUME TypeInv, RosterInv, NEW j \in Jobs, Step(j), SaveGroup(j)
    PROVE  /\ IsFiniteSet(Listed') /\ IsFiniteSet(Groups') /\ overlap' = overlap
           /\ ~overlap => MembersExist' /\ CapHolds' /\ EditorHolds(j)'
<1>0. /\ StateTyped /\ job[j] \in JobState /\ job \in [Jobs -> JobState]
      /\ IsFiniteSet(Listed) /\ IsFiniteSet(Groups)
  BY DEF TypeInv, StateTyped, RosterInv
<1>1. PICK s \in job[j].todo : groups' = [groups EXCEPT ![s.id] = s.members]
  BY DEF SaveGroup
<1>2. s \in Stale /\ s.id \in Gids /\ s.members \in Seq(Ids) /\ s.members # None
  <2>1. s \in Stale
    BY <1>0 DEF JobState
  <2>2. QED
    BY <2>1, StaleFields, NoneAssumption
<1>3. /\ Listed' = Listed /\ Groups' = Groups \cup {s.id}
      /\ overlap' = overlap /\ job'[j].pc = "done"
      /\ groups'[s.id] = s.members /\ \A g \in Gids \ {s.id} : groups'[g] = groups[g]
  BY <1>0, <1>1, <1>2 DEF SaveGroup, Goto, Listed, Groups, StateTyped, JobState, ghosts
<1>4. IsFiniteSet(Groups') /\ IsFiniteSet(Listed')
  BY <1>0, <1>3, FS_AddElement
<1>5. EditorHolds(j)'
  BY <1>3 DEF EditorHolds
<1>6. ASSUME ~overlap PROVE MembersExist' /\ CapHolds'
  <2>1. MembersExist /\ CapHolds /\ EditorHolds(j)
    BY <1>6 DEF RosterInv
  <2>2. Room /\ ToSet(s.members) \subseteq Listed
    BY <1>1, <2>1 DEF EditorHolds, SaveGroup, At
  <2>3. \A g \in Groups' : ToSet(groups'[g]) \subseteq Listed
    <3>1. \A g \in Groups : ToSet(groups[g]) \subseteq Listed
      BY <1>6, <2>1 DEF MembersExist
    <3>2. \A g \in Groups : g \in Gids
      BY DEF Groups
    <3>3. ToSet(groups'[s.id]) \subseteq Listed
      BY <1>3, <2>2
    <3>4. \A g \in Groups' : g # s.id => g \in Groups /\ groups'[g] = groups[g]
      BY <1>3, <3>2
    <3>5. QED
      BY <3>1, <3>3, <3>4
  <2>4. MembersExist'
    BY <1>3, <2>3 DEF MembersExist
  <2>5. Cardinality(Groups') <= Cardinality(Groups) + 1 /\ Cardinality(Groups') \in Nat
    BY <1>0, <1>3, <1>4, FS_AddElement, FS_CardinalityType
  <2>6. Cardinality(Listed) \in Nat /\ Cardinality(Groups) \in Nat /\ MaxListed \in Nat
    BY <1>0, FS_CardinalityType, JobsAssumption
  <2>7. CapHolds'
    BY <1>3, <2>2, <2>5, <2>6 DEF CapHolds, Room
  <2>8. QED
    BY <2>4, <2>7
<1>7. QED
  BY <1>3, <1>4, <1>5, <1>6

\* Fewer groups and Bots stay under the cap.
LEMMA FewerFit ==
    ASSUME RosterInv, ~overlap, Listed' \subseteq Listed, Groups' \subseteq Groups
    PROVE  IsFiniteSet(Listed') /\ IsFiniteSet(Groups') /\ CapHolds'
<1>1. IsFiniteSet(Listed) /\ IsFiniteSet(Groups) /\ CapHolds
  BY DEF RosterInv
<1>2. /\ IsFiniteSet(Listed') /\ Cardinality(Listed') <= Cardinality(Listed)
      /\ IsFiniteSet(Groups') /\ Cardinality(Groups') <= Cardinality(Groups)
  BY <1>1, FS_Subset
<1>3. /\ Cardinality(Listed) \in Nat /\ Cardinality(Groups) \in Nat /\ MaxListed \in Nat
      /\ Cardinality(Listed') \in Nat /\ Cardinality(Groups') \in Nat
  BY <1>1, <1>2, FS_CardinalityType, JobsAssumption
<1>4. QED
  BY <1>1, <1>2, <1>3 DEF CapHolds


\* A group is removed.
LEMMA GroupRemoved ==
    ASSUME TypeInv, RosterInv, NEW j \in Jobs, Step(j), RemoveGroup(j)
    PROVE  /\ IsFiniteSet(Listed') /\ IsFiniteSet(Groups')
           /\ ~overlap => MembersExist' /\ CapHolds' /\ EditorHolds(j)'
<1>0. /\ StateTyped /\ job[j] \in JobState /\ job \in [Jobs -> JobState]
      /\ IsFiniteSet(Listed) /\ IsFiniteSet(Groups)
  BY DEF TypeInv, StateTyped, RosterInv
<1>1. groups' = groups \/ groups' = [groups EXCEPT ![Job[j].name] = None]
  BY DEF RemoveGroup
<1>2. \A g \in Gids : groups'[g] = None \/ groups'[g] = groups[g]
  BY <1>0, <1>1 DEF StateTyped
<1>3. Listed' = Listed /\ Groups' \subseteq Groups
  BY <1>2 DEF RemoveGroup, Listed, Groups
<1>4. IsFiniteSet(Listed') /\ IsFiniteSet(Groups')
  BY <1>0, <1>3, FS_Subset
<1>5. job'[j].pc \in {"failed", "done"}
  BY <1>0 DEF RemoveGroup, Goto, JobState
<1>6. EditorHolds(j)'
  BY <1>5 DEF EditorHolds
<1>7. ASSUME ~overlap PROVE MembersExist' /\ CapHolds'
  <2>1. CapHolds' /\ MembersExist
    BY <1>3, <1>7, FewerFit DEF RosterInv
  <2>2. \A g \in Groups' : g \in Groups /\ groups'[g] = groups[g]
    BY <1>2, <1>3 DEF Groups
  <2>3. \A g \in Groups : ToSet(groups[g]) \subseteq Listed
    BY <1>7, <2>1 DEF MembersExist
  <2>4. MembersExist'
    BY <1>3, <2>2, <2>3 DEF MembersExist
  <2>5. QED
    BY <2>1, <2>4
<1>8. QED
  BY <1>4, <1>6, <1>7

\* A Bot that is being deleted leaves a group.
LEMMA GroupLeft ==
    ASSUME TypeInv, RosterInv, NEW j \in Jobs, Step(j), LeaveGroup(j)
    PROVE  /\ IsFiniteSet(Listed') /\ IsFiniteSet(Groups') /\ overlap' = overlap
           /\ ~overlap => MembersExist' /\ CapHolds' /\ EditorHolds(j)'
<1> DEFINE b == job[j].bot
<1>0. /\ StateTyped /\ job[j] \in JobState /\ job \in [Jobs -> JobState]
      /\ IsFiniteSet(Listed) /\ IsFiniteSet(Groups)
  BY DEF TypeInv, StateTyped, RosterInv
<1>1. PICK s \in job[j].todo :
         \/ /\ groups' = [groups EXCEPT ![s.id] = IF LeftOf(s, b) = <<>> THEN None
                                                  ELSE LeftOf(s, b)]
            /\ job' = [job EXCEPT ![j].todo = @ \ {s}]
         \/ Goto(j, "failed") /\ groups' = groups
  BY DEF LeaveGroup, LeftOf
<1>2. /\ s \in Stale /\ s.id \in Gids /\ s.members \in Seq(Ids) /\ s.members # None
      /\ LeftOf(s, b) \in Seq(Ids) /\ ToSet(LeftOf(s, b)) = ToSet(s.members) \ {b}
      /\ LeftOf(s, b) # None
  <2>1. s \in Stale
    BY <1>0 DEF JobState
  <2>2. QED
    BY <2>1, StaleFields, LeftIs, NoneAssumption
<1>3. Listed' = Listed /\ overlap' = overlap /\ Groups' \subseteq Groups \cup {s.id}
  <2>1. \A g \in Gids \ {s.id} : groups'[g] = groups[g]
    BY <1>0, <1>1 DEF StateTyped
  <2>2. Groups' \subseteq Groups \cup {s.id}
    BY <2>1 DEF Groups
  <2>3. QED
    BY <2>2 DEF LeaveGroup, Listed, ghosts
<1>4. IsFiniteSet(Listed') /\ IsFiniteSet(Groups')
  <2>1. IsFiniteSet(Groups \cup {s.id})
    BY <1>0, FS_AddElement
  <2>2. QED
    BY <1>0, <1>3, <2>1, FS_Subset
<1>5. ASSUME ~overlap PROVE MembersExist' /\ CapHolds' /\ EditorHolds(j)'
  <2>1. /\ MembersExist /\ CapHolds /\ job[j].pc = "leave"
        /\ \A t \in job[j].todo : groups[t.id] = t.members
        /\ \A g \in Groups : b \in ToSet(groups[g]) =>
              [id |-> g, members |-> groups[g]] \in job[j].todo
    BY <1>5 DEF RosterInv, EditorHolds, LeaveGroup, At
  <2>2. \A g \in Groups : ToSet(groups[g]) \subseteq Listed
    BY <1>5, <2>1 DEF MembersExist
  <2>3. groups[s.id] = s.members /\ s.id \in Groups
    BY <1>1, <1>2, <2>1 DEF Groups
  <2>4. Groups' \subseteq Groups
    BY <1>3, <2>3
  <2>5. CapHolds'
    BY <1>3, <1>5, <2>4, FewerFit
  <2>6. CASE Goto(j, "failed") /\ groups' = groups
    <3>1. job'[j].pc = "failed" /\ Groups' = Groups
      BY <1>0, <2>6 DEF Goto, JobState, Groups
    <3>2. EditorHolds(j)'
      BY <3>1 DEF EditorHolds
    <3>3. MembersExist'
      BY <1>3, <2>2, <2>6, <3>1 DEF MembersExist
    <3>4. QED
      BY <2>5, <3>2, <3>3
  <2>7. CASE /\ groups' = [groups EXCEPT ![s.id] = IF LeftOf(s, b) = <<>> THEN None
                                                   ELSE LeftOf(s, b)]
             /\ job' = [job EXCEPT ![j].todo = @ \ {s}]
    <3>1. /\ groups'[s.id] \in {None, LeftOf(s, b)}
          /\ \A g \in Gids \ {s.id} : groups'[g] = groups[g]
          /\ job'[j].pc = "leave" /\ job'[j].bot = b /\ job'[j].todo = job[j].todo \ {s}
      BY <1>0, <1>2, <2>1, <2>7 DEF StateTyped, JobState
    <3>2. \A g \in Groups' : g \in Gids /\ g \in Groups
      BY <2>4 DEF Groups
    <3>3. \A g \in Groups' : ToSet(groups'[g]) \subseteq ToSet(groups[g])
      <4>1. SUFFICES ASSUME NEW g \in Groups' PROVE ToSet(groups'[g]) \subseteq ToSet(groups[g])
        OBVIOUS
      <4>2. CASE g = s.id
        <5>1. groups'[g] = LeftOf(s, b)
          BY <3>1, <4>2 DEF Groups
        <5>2. QED
          BY <1>2, <2>3, <4>2, <5>1
      <4>3. CASE g # s.id
        BY <3>1, <3>2, <4>3
      <4>4. QED
        BY <4>2, <4>3
    <3>4. MembersExist'
      BY <1>3, <2>2, <3>2, <3>3 DEF MembersExist
    <3>5. \A t \in job[j].todo \ {s} : t.id # s.id /\ groups'[t.id] = t.members
      <4>1. SUFFICES ASSUME NEW t \in job[j].todo, t # s
                     PROVE  t.id # s.id /\ groups'[t.id] = t.members
        OBVIOUS
      <4>2. t \in Stale /\ t.id \in Gids
        <5>1. t \in Stale
          BY <1>0 DEF JobState
        <5>2. QED
          BY <5>1, StaleFields
      <4>3. t.id # s.id
        <5>1. t = [id |-> t.id, members |-> t.members] /\ s = [id |-> s.id, members |-> s.members]
          BY <1>2, <4>2 DEF Stale
        <5>2. t.members = groups[t.id] /\ s.members = groups[s.id]
          BY <1>1, <2>1
        <5>3. QED
          BY <4>1, <5>1, <5>2
      <4>4. QED
        BY <2>1, <3>1, <4>2, <4>3
    <3>6. \A g \in Groups' : b \in ToSet(groups'[g]) =>
             [id |-> g, members |-> groups'[g]] \in job[j].todo \ {s}
      <4>1. SUFFICES ASSUME NEW g \in Groups', b \in ToSet(groups'[g])
                     PROVE  [id |-> g, members |-> groups'[g]] \in job[j].todo \ {s}
        OBVIOUS
      <4>2. g # s.id
        <5>1. SUFFICES ASSUME g = s.id PROVE FALSE
          OBVIOUS
        <5>2. groups'[g] = LeftOf(s, b)
          BY <3>1, <5>1 DEF Groups
        <5>3. QED
          BY <1>2, <4>1, <5>2
      <4>3. groups'[g] = groups[g] /\ g \in Groups
        BY <3>1, <3>2, <4>2
      <4>4. [id |-> g, members |-> groups[g]] \in job[j].todo
        BY <2>1, <4>1, <4>3
      <4>5. [id |-> g, members |-> groups[g]].id = g
        OBVIOUS
      <4>6. [id |-> g, members |-> groups[g]] # s
        BY <4>2, <4>5
      <4>7. QED
        BY <4>3, <4>4, <4>6
    <3>7. EditorHolds(j)'
      BY <3>1, <3>5, <3>6 DEF EditorHolds
    <3>8. QED
      BY <2>5, <3>4, <3>7
  <2>8. QED
    BY <1>1, <2>6, <2>7
<1>6. QED
  BY <1>3, <1>4, <1>5

\* The Bot's directory goes last.
LEMMA BotRemoved ==
    ASSUME TypeInv, RosterInv, NEW j \in Jobs, Step(j), RemoveDir(j)
    PROVE  /\ IsFiniteSet(Listed') /\ IsFiniteSet(Groups') /\ overlap' = overlap
           /\ ~overlap => MembersExist' /\ CapHolds' /\ EditorHolds(j)'
<1> DEFINE b == job[j].bot
<1>0. /\ StateTyped /\ job[j] \in JobState /\ job \in [Jobs -> JobState]
      /\ IsFiniteSet(Listed) /\ IsFiniteSet(Groups)
  BY DEF TypeInv, StateTyped, RosterInv
<1>1. /\ profile' = profile \/ profile' = [profile EXCEPT ![b] = None]
      /\ groups' = groups /\ overlap' = overlap /\ job[j].todo = {} /\ job[j].pc = "leave"
      /\ Goto(j, "failed") \/ Goto(j, "done")
  BY DEF RemoveDir, At
<1>2. job'[j].pc \in {"failed", "done"}
  BY <1>0, <1>1 DEF Goto, JobState
<1>3. EditorHolds(j)'
  BY <1>2 DEF EditorHolds
<1>4. Groups' = Groups /\ Listed' \subseteq Listed /\ Listed \subseteq Listed' \cup {b}
  BY <1>0, <1>1 DEF Groups, Listed, StateTyped
<1>5. IsFiniteSet(Listed') /\ IsFiniteSet(Groups')
  BY <1>0, <1>4, FS_Subset
<1>6. ASSUME ~overlap PROVE MembersExist' /\ CapHolds'
  <2>1. CapHolds' /\ MembersExist /\ EditorHolds(j)
    BY <1>4, <1>6, FewerFit DEF RosterInv
  <2>2. \A g \in Groups : b \notin ToSet(groups[g])
    BY <1>1, <2>1 DEF EditorHolds
  <2>3. \A g \in Groups : ToSet(groups[g]) \subseteq Listed
    BY <1>6, <2>1 DEF MembersExist
  <2>4. \A g \in Groups : ToSet(groups[g]) \subseteq Listed'
    BY <1>4, <2>2, <2>3
  <2>5. MembersExist'
    BY <1>1, <1>4, <2>4 DEF MembersExist
  <2>6. QED
    BY <2>1, <2>5
<1>7. QED
  BY <1>1, <1>3, <1>5, <1>6

LEMMA RosterInductive == TypeInv /\ RosterInv /\ [Next]_vars => RosterInv'
<1> SUFFICES ASSUME TypeInv, RosterInv, [Next]_vars PROVE RosterInv'
  OBVIOUS
<1>1. CASE UNCHANGED vars
  <2>1. UNCHANGED <<profile, groups, job, overlap>>
    BY <1>1 DEF vars
  <2>2. QED
    BY <2>1 DEF RosterInv, MembersExist, CapHolds, OneEditor, EditorHolds, Edits, At, Ended,
                Listed, Groups, Room
<1>2. CASE Next
  <2>1. PICK j \in Jobs : Step(j)
    BY <1>2 DEF Next
  <2>2. overlap => overlap'
    BY <2>1, StartsAlone
  <2>3. /\ IsFiniteSet(Listed') /\ IsFiniteSet(Groups')
        /\ ~overlap => MembersExist' /\ CapHolds' /\ EditorHolds(j)'
    <3>1. CASE Looks(j)
      <4>1. Listed' = Listed /\ Groups' = Groups /\ groups' = groups
        BY <3>1, LooksOnly, SameRoster DEF roster
      <4>2. IsFiniteSet(Listed') /\ IsFiniteSet(Groups')
        BY <4>1 DEF RosterInv
      <4>3. ASSUME ~overlap PROVE MembersExist' /\ CapHolds'
        BY <4>1, <4>3 DEF RosterInv, MembersExist, CapHolds
      <4>4. ASSUME ~overlap PROVE EditorHolds(j)'
        BY <2>1, <3>1, <4>4, JustRead DEF RosterInv
      <4>5. QED
        BY <4>2, <4>3, <4>4
    <3>2. QED
      BY <2>1, <3>1, SavesKept, GroupSaved, GroupRemoved, GroupLeft, BotRemoved DEF Step, Looks
  <2>4. CASE overlap'
    BY <2>3, <2>4 DEF RosterInv, MembersExist, CapHolds
  <2>5. CASE ~overlap'
    <3>1. OneEditor' /\ \A k \in Jobs \ {j} : EditorHolds(k)'
      BY <2>1, <2>2, <2>5, OthersHold
    <3>2. \A k \in Jobs : EditorHolds(k)'
      BY <2>2, <2>3, <2>5, <3>1
    <3>3. QED
      BY <2>2, <2>3, <2>5, <3>1, <3>2 DEF RosterInv
  <2>6. QED
    BY <2>4, <2>5
<1>3. QED
  BY <1>1, <1>2

\* However commands interleave and die, the account keeps its shape: it is well-typed,
\* no group names a Bot that is not there, and Bots and groups together stay within
\* the cap - as long as one command edits the roster at a time.
THEOREM AccountKeepsItsShape == Spec => []RosterIsWhole
<1>1. Init => TypeInv /\ RosterInv
  BY InitTyped, InitRoster
<1>2. TypeInv /\ RosterInv /\ [Next]_vars => TypeInv' /\ RosterInv'
  BY TypeInductive, RosterInductive
<1>3. TypeInv /\ RosterInv => RosterIsWhole
  BY TypeInvImpliesTypeOK DEF RosterInv, RosterIsWhole
<1>4. QED
  BY <1>1, <1>2, <1>3, PTL DEF Spec

-----------------------------------------------------------------------------
(***************************************************************************)
(* Handoffs.                                                               *)
(***************************************************************************)

\* What waits in an inbox, what was taken out of it, and who wrote it.
In(b)     == Holding(inbox[b])
Out(b)    == Holding(taken[b])
By(lines) == Senders(ToSet(lines))
ShownBy   == Senders(ToSet(shown))

\* The runs of a Bot in a section, and those that may still deliver what they hold.
Runs(b, pcs) == {j \in Jobs : job[j].bot = b /\ job[j].pc \in pcs}
Live(b)      == Runs(b, {"merge", "drop", "work"})

\* A line tells who wrote it, to which Bot, and what.
LineOf(b, x) ==
    /\ x.by \in arrived /\ job[x.by].bot = b
    /\ x.from = Job[x.by].from /\ x.text = Job[x.by].text

LinesInv ==
    /\ \A s \in arrived : job[s].pc = "done" /\ Job[s].op = "send" /\ job[s].bot \in Ids
    /\ raced \subseteq arrived
    /\ \A j \in Jobs : job[j].after \subseteq arrived \ {j}
    /\ \A b \in Ids : \A x \in ToSet(In(b)) \cup ToSet(Out(b)) : LineOf(b, x)
    /\ \A b \in Ids : \A j \in Live(b) : \A x \in ToSet(job[j].got) : LineOf(b, x)
    /\ \A j \in Jobs : job[j].pc = "write" =>
          /\ Len(job[j].got) = 1
          /\ job[j].got[1].by = j
          /\ job[j].got[1].from = Job[j].from /\ job[j].got[1].text = Job[j].text
    /\ \A j \in Jobs : job[j].pc \in Taking \ {"merge", "drop"} => job[j].got = <<>>
    /\ \A i \in DOMAIN shown : /\ shown[i].by \in arrived
                               /\ job[shown[i].run].pc \in {"append", "done", "dead"}

\* A file is the inbox of one Bot, and is written to by who sends to that Bot.
FilesInv ==
    /\ \A b, c \in Ids : b # c => {inbox[b], taken[b]} \cap {inbox[c], taken[c]} \subseteq {None}
    /\ \A j \in Jobs : \A b \in Ids :
          job[j].pc = "write" /\ job[j].file \in {inbox[b], taken[b]} => job[j].bot = b

\* One run at a time takes an inbox that is not crowded.
Alone == \A b \in Ids : b \notin crowded => \A j, k \in Runs(b, Taking) : j = k

\* Nothing is lost.
KeptAt(b) ==
    /\ \A j \in Runs(b, {"merge"}) : \A s \in By(In(b)) \cup By(Out(b)) :
          s \in raced \/ s \in By(job[j].got)
    /\ Runs(b, {"dropTaken"}) # {} => \A s \in By(Out(b)) :
          s \in raced \/ s \in By(In(b)) \/ HasATwin(s)
    /\ Runs(b, {"drain", "take"}) # {} => taken[b] = None
    /\ \A j \in Runs(b, {"drop"}) : \A s \in By(Out(b)) : s \in raced \/ s \in By(job[j].got)

KeptInv == /\ HandoffsKept
           /\ \A b \in Ids : b \notin crowded \cup gone => KeptAt(b)

\* Nothing is twice in what can still be shown.
Uniq(s) == \A p, q \in DOMAIN s : s[p].by = s[q].by => p = q

OnceAt(b) ==
    /\ Uniq(In(b)) /\ Uniq(Out(b))
    /\ IsPrefix(Out(b), In(b)) \/ By(Out(b)) \cap By(In(b)) = {}
    /\ (By(In(b)) \cup By(Out(b))) \cap ShownBy = {}
    /\ \A j \in Live(b) : Uniq(job[j].got) /\ By(job[j].got) \cap ShownBy = {}
    /\ \A j, k \in Live(b) : j = k \/ By(job[j].got) \cap By(job[k].got) = {}
    /\ \A j \in Runs(b, {"work"}) : By(job[j].got) \cap (By(In(b)) \cup By(Out(b))) = {}
    /\ Runs(b, {"read"}) # {} => By(Out(b)) \cap By(In(b)) = {}
    /\ \A j \in Runs(b, {"drop"}) : By(job[j].got) \cap By(In(b)) = {}
    /\ \A j \in Runs(b, {"merge"}) : IsPrefix(Out(b), job[j].got)
    /\ \A i, k \in DOMAIN shown :
          shown[i].by = shown[k].by /\ job[shown[i].by].bot = b => i = k

OnceInv == \A b \in Ids : b \notin crowded \cup blurred => OnceAt(b)

\* What is shown, and what waits, is in order.
Before(old, new) == old \in job[new].after /\ {old, new} \cap raced = {}
Sorted(s)   == \A p, q \in DOMAIN s : p <= q => ~Before(s[q].by, s[p].by)
Cross(s, t) == \A new \in s : \A old \in t : ~Before(old, new)

\* The handoffs that have left the inbox for good, and those that are still to come.
Left(b)   == {s \in ShownBy : job[s].bot = b}
                \cup UNION {By(job[j].got) : j \in Runs(b, {"work"})}
ToCome(b) == By(In(b)) \cup By(Out(b)) \cup UNION {By(job[j].got) : j \in Runs(b, {"merge"})}

OrderAt(b) ==
    /\ Sorted(In(b)) /\ Sorted(Out(b))
    /\ IsPrefix(Out(b), In(b)) \/ Cross(By(Out(b)), By(In(b)))
    /\ \A j \in Live(b) : Sorted(job[j].got)
    /\ \A j \in Runs(b, {"write"}) : job[j].file = taken[b] =>
          \A old \in By(In(b)) : (old \in job[j].after /\ old \notin raced) =>
             Out(b) # <<>> /\ IsPrefix(Out(b), In(b))
    /\ Runs(b, {"merge"}) # {} => Out(b) # <<>>
    /\ Runs(b, {"read"}) # {} => Cross(By(Out(b)), By(In(b)))
    /\ \A j \in Runs(b, {"drop"}) : Cross(By(job[j].got), By(In(b)))
    /\ Cross(Left(b), ToCome(b))
    /\ \A i, k \in DOMAIN shown :
          (shown[i].run = shown[k].run /\ job[shown[i].by].bot = b /\ i <= k) =>
             ~Before(shown[k].by, shown[i].by)

OrderInv == \A b \in Ids : b \notin crowded \cup blurred \cup gone => OrderAt(b)


-----------------------------------------------------------------------------
(***************************************************************************)
(* What a sequence of lines holds, and in which order.                       *)
(***************************************************************************)

LEMMA SeqFacts ==
    ASSUME NEW s \in Seq(Line)
    PROVE  DOMAIN s = 1 .. Len(s) /\ Len(s) \in Nat /\ \A i \in 1 .. Len(s) : s[i] \in Line
OBVIOUS

LEMMA ConcatFacts ==
    ASSUME NEW s \in Seq(Line), NEW t \in Seq(Line)
    PROVE  /\ s \o t \in Seq(Line)
           /\ Len(s \o t) = Len(s) + Len(t)
           /\ \A i \in 1 .. Len(s) : (s \o t)[i] = s[i]
           /\ \A i \in 1 .. Len(t) : (s \o t)[Len(s) + i] = t[i]
OBVIOUS

\* Each place of two sequences put together is a place of one of them.
LEMMA ConcatPlaces ==
    ASSUME NEW s \in Seq(Line), NEW t \in Seq(Line), NEW p \in DOMAIN (s \o t)
    PROVE  \/ p \in DOMAIN s /\ (s \o t)[p] = s[p]
           \/ p - Len(s) \in DOMAIN t /\ (s \o t)[p] = t[p - Len(s)] /\ p > Len(s)
BY SeqFacts, ConcatFacts

LEMMA PrefixIs ==
    ASSUME NEW S, NEW s \in Seq(S), NEW t \in Seq(S)
    PROVE  IsPrefix(s, t) <=> Len(s) <= Len(t) /\ \A i \in 1 .. Len(s) : s[i] = t[i]
<1>1. CASE Len(s) <= Len(t)
  <2>1. SubSeq(s, 1, Len(s)) = [i \in 1 .. Len(s) |-> s[i]]
    OBVIOUS
  <2>2. SubSeq(t, 1, Len(s)) = [i \in 1 .. Len(s) |-> t[i]]
    BY <1>1
  <2>3. QED
    BY <1>1, <2>1, <2>2 DEF IsPrefix
<1>2. CASE ~(Len(s) <= Len(t))
  BY <1>2 DEF IsPrefix
<1>3. QED
  BY <1>1, <1>2

LEMMA LinePrefix ==
    ASSUME NEW s \in Seq(Line), NEW t \in Seq(Line)
    PROVE  IsPrefix(s, t) <=> Len(s) <= Len(t) /\ \A i \in 1 .. Len(s) : s[i] = t[i]
BY PrefixIs

LEMMA ByConcat ==
    ASSUME NEW s \in Seq(Line), NEW t \in Seq(Line)
    PROVE  By(s \o t) = By(s) \cup By(t)
BY ToSetConcat DEF By, Senders

LEMMA ByAt ==
    ASSUME NEW s \in Seq(Line)
    PROVE  /\ \A p \in DOMAIN s : s[p].by \in By(s)
           /\ \A x \in By(s) : \E p \in DOMAIN s : s[p].by = x
           /\ By(s) \subseteq Jobs
<1>1. \A p \in DOMAIN s : s[p].by \in Jobs
  BY SeqFacts DEF Line
<1>2. QED
  BY <1>1 DEF By, Senders, ToSet

LEMMA PrefixBy ==
    ASSUME NEW s \in Seq(Line), NEW t \in Seq(Line), IsPrefix(s, t)
    PROVE  By(s) \subseteq By(t)
<1>1. \A p \in DOMAIN s : p \in DOMAIN t /\ s[p] = t[p]
  BY PrefixIs, SeqFacts
<1>2. QED
  BY <1>1 DEF By, Senders, ToSet

LEMMA UniqConcat ==
    ASSUME NEW s \in Seq(Line), NEW t \in Seq(Line),
           Uniq(s), Uniq(t), By(s) \cap By(t) = {}
    PROVE  Uniq(s \o t)
<1>1. SUFFICES ASSUME NEW p \in DOMAIN (s \o t), NEW q \in DOMAIN (s \o t),
                      (s \o t)[p].by = (s \o t)[q].by
               PROVE  p = q
  BY DEF Uniq
<1>2. /\ \A i \in DOMAIN s : s[i].by \in By(s)
      /\ \A i \in DOMAIN t : t[i].by \in By(t)
  BY ByAt
<1>3. CASE p \in DOMAIN s /\ (s \o t)[p] = s[p]
  <2>1. q \in DOMAIN s /\ (s \o t)[q] = s[q]
    BY <1>1, <1>2, <1>3, ConcatPlaces
  <2>2. QED
    BY <1>1, <1>3, <2>1 DEF Uniq
<1>4. CASE p - Len(s) \in DOMAIN t /\ (s \o t)[p] = t[p - Len(s)]
  <2>1. q - Len(s) \in DOMAIN t /\ (s \o t)[q] = t[q - Len(s)]
    BY <1>1, <1>2, <1>4, ConcatPlaces
  <2>2. p - Len(s) = q - Len(s)
    BY <1>1, <1>4, <2>1 DEF Uniq
  <2>3. p \in Int /\ q \in Int /\ Len(s) \in Int
    BY SeqFacts, ConcatFacts
  <2>4. QED
    BY <2>2, <2>3
<1>5. QED
  BY <1>3, <1>4, ConcatPlaces

LEMMA SortedConcat ==
    ASSUME NEW s \in Seq(Line), NEW t \in Seq(Line),
           Sorted(s), Sorted(t), Cross(By(s), By(t))
    PROVE  Sorted(s \o t)
<1>1. SUFFICES ASSUME NEW p \in DOMAIN (s \o t), NEW q \in DOMAIN (s \o t), p <= q
               PROVE  ~Before((s \o t)[q].by, (s \o t)[p].by)
  BY DEF Sorted
<1>2. /\ \A i \in DOMAIN s : s[i].by \in By(s)
      /\ \A i \in DOMAIN t : t[i].by \in By(t)
  BY ByAt
<1>3. p \in Nat /\ q \in Nat /\ Len(s) \in Nat /\ DOMAIN s = 1 .. Len(s)
  BY SeqFacts, ConcatFacts
<1>4. CASE p \in DOMAIN s /\ q \in DOMAIN s /\ (s \o t)[p] = s[p] /\ (s \o t)[q] = s[q]
  BY <1>1, <1>4 DEF Sorted
<1>5. CASE /\ p \in DOMAIN s /\ (s \o t)[p] = s[p]
           /\ q - Len(s) \in DOMAIN t /\ (s \o t)[q] = t[q - Len(s)]
  BY <1>2, <1>5 DEF Cross
<1>6. CASE /\ p - Len(s) \in DOMAIN t /\ (s \o t)[p] = t[p - Len(s)]
           /\ q - Len(s) \in DOMAIN t /\ (s \o t)[q] = t[q - Len(s)]
  <2>1. p - Len(s) <= q - Len(s)
    BY <1>1, <1>3
  <2>2. QED
    BY <1>6, <2>1 DEF Sorted
<1>7. CASE p > Len(s) /\ q \in DOMAIN s
  BY <1>1, <1>3, <1>7
<1>8. QED
  BY <1>4, <1>5, <1>6, <1>7, ConcatPlaces


LEMMA ByOne ==
    ASSUME NEW x \in Line
    PROVE  <<x>> \in Seq(Line) /\ By(<<x>>) = {x.by} /\ Uniq(<<x>>)
<1>1. <<x>> \in Seq(Line) /\ DOMAIN <<x>> = {1} /\ <<x>>[1] = x
  OBVIOUS
<1>2. QED
  BY <1>1 DEF By, Senders, ToSet, Uniq

LEMMA ByNone == By(<<>>) = {} /\ Uniq(<<>>) /\ Sorted(<<>>)
<1>1. DOMAIN <<>> = {}
  OBVIOUS
<1>2. QED
  BY <1>1 DEF By, Senders, ToSet, Uniq, Sorted

LEMMA PrefixOfConcat ==
    ASSUME NEW s \in Seq(Line), NEW t \in Seq(Line)
    PROVE  IsPrefix(s, s \o t)
<1>1. s \o t \in Seq(Line)
  BY ConcatFacts
<1>2. Len(s) <= Len(s) + Len(t)
  BY SeqFacts
<1>3. QED
  BY <1>1, <1>2, ConcatFacts, LinePrefix

LEMMA PrefixGrows ==
    ASSUME NEW s \in Seq(Line), NEW t \in Seq(Line), NEW u \in Seq(Line), IsPrefix(s, t)
    PROVE  IsPrefix(s, t \o u)
<1> DEFINE v == t \o u
<1>1. /\ t \o u \in Seq(Line) /\ Len(t \o u) = Len(t) + Len(u)
      /\ \A i \in 1 .. Len(t) : (t \o u)[i] = t[i]
  BY ConcatFacts
<1>2. Len(s) \in Nat /\ Len(t) \in Nat /\ Len(u) \in Nat
  BY SeqFacts
<1>3. Len(s) <= Len(t) /\ \A i \in 1 .. Len(s) : s[i] = t[i]
  BY LinePrefix
<1> HIDE DEF v
<1>4. v \in Seq(Line) /\ Len(s) <= Len(v) /\ \A i \in 1 .. Len(s) : s[i] = v[i]
  BY <1>1, <1>2, <1>3 DEF v
<1>5. IsPrefix(s, v)
  BY <1>4, LinePrefix
<1>6. QED
  BY <1>5 DEF v

LEMMA EmptyPrefix == ASSUME NEW t \in Seq(Line) PROVE IsPrefix(<<>>, t)
<1>1. <<>> \in Seq(Line) /\ Len(<<>>) = 0 /\ Len(t) \in Nat
  BY SeqFacts, NoLines
<1> DEFINE s == <<>>
<1> HIDE DEF s
<1>2. s \in Seq(Line) /\ Len(s) <= Len(t) /\ \A i \in 1 .. Len(s) : s[i] = t[i]
  BY <1>1 DEF s
<1>3. IsPrefix(s, t)
  BY <1>2, LinePrefix
<1>4. QED
  BY <1>3 DEF s

LEMMA OneEmpty ==
    ASSUME NEW s \in Seq(Line), By(s) = {} PROVE s = <<>>
<1>1. DOMAIN s = {}
  BY ByAt
<1>2. QED
  BY <1>1, SeqFacts

\* What the bytes of a file tell.
LEMMA BytesAre ==
    ASSUME NEW s \in Seq(Line)
    PROVE  /\ Bytes(s) \in Seq((Ids \cup {None}) \X Texts \X Nat)
           /\ Len(Bytes(s)) = Len(s)
           /\ \A i \in 1 .. Len(s) : Bytes(s)[i] = <<s[i].from, s[i].text, s[i].seq>>
<1>1. /\ DOMAIN s = 1 .. Len(s) /\ Len(s) \in Nat
      /\ \A i \in 1 .. Len(s) : /\ s[i].from \in Ids \cup {None} /\ s[i].text \in Texts
                                /\ s[i].seq \in Nat
  BY SeqFacts DEF Line
<1>2. Bytes(s) = [i \in 1 .. Len(s) |-> <<s[i].from, s[i].text, s[i].seq>>]
  BY <1>1 DEF Bytes
<1>3. QED
  BY <1>1, <1>2

LEMMA BytesPrefix ==
    ASSUME NEW s \in Seq((Ids \cup {None}) \X Texts \X Nat),
           NEW t \in Seq((Ids \cup {None}) \X Texts \X Nat)
    PROVE  IsPrefix(s, t) <=> Len(s) <= Len(t) /\ \A i \in 1 .. Len(s) : s[i] = t[i]
BY PrefixIs

\* Lines that were put back already are found by their bytes.
LEMMA PrefixIsMerged ==
    ASSUME NEW s \in Seq(Line), NEW t \in Seq(Line), IsPrefix(s, t)
    PROVE  AlreadyMerged(s, t)
<1>1. Len(s) <= Len(t) /\ \A i \in 1 .. Len(s) : s[i] = t[i]
  BY PrefixIs
<1>2. Len(s) \in Nat /\ Len(t) \in Nat
  BY SeqFacts
<1>3. \A i \in 1 .. Len(s) : i \in 1 .. Len(t)
  BY <1>1, <1>2
<1>4. Len(Bytes(s)) = Len(s) /\ Len(Bytes(t)) = Len(t)
  BY BytesAre
<1>5. /\ \A i \in 1 .. Len(s) : Bytes(s)[i] = <<s[i].from, s[i].text, s[i].seq>>
      /\ \A i \in 1 .. Len(t) : Bytes(t)[i] = <<t[i].from, t[i].text, t[i].seq>>
  BY BytesAre
<1>6. \A i \in 1 .. Len(s) : Bytes(s)[i] = Bytes(t)[i]
  BY <1>1, <1>3, <1>5
<1>7. QED
  BY <1>1, <1>4, <1>6, BytesAre, BytesPrefix DEF AlreadyMerged

LEMMA MergedSame ==
    ASSUME NEW s \in Seq(Line), NEW t \in Seq(Line), AlreadyMerged(s, t), NEW p \in DOMAIN s
    PROVE  p \in DOMAIN t /\ s[p].from = t[p].from /\ s[p].text = t[p].text
<1>1. Len(s) <= Len(t) /\ \A i \in 1 .. Len(s) : Bytes(s)[i] = Bytes(t)[i]
  BY BytesAre, BytesPrefix DEF AlreadyMerged
<1>2. p \in 1 .. Len(s) /\ p \in 1 .. Len(t) /\ DOMAIN t = 1 .. Len(t)
  BY <1>1, SeqFacts
<1>3. <<s[p].from, s[p].text, s[p].seq>> = <<t[p].from, t[p].text, t[p].seq>>
  BY <1>1, <1>2, BytesAre
<1>4. QED
  BY <1>2, <1>3

-----------------------------------------------------------------------------
(***************************************************************************)
(* What the steps do to the inboxes.                                        *)
(***************************************************************************)

LEMMA BoxesTyped ==
    ASSUME TypeInv, NEW b \in Ids
    PROVE  /\ In(b) \in Seq(Line) /\ Out(b) \in Seq(Line)
           /\ inbox[b] = None => In(b) = <<>>
           /\ taken[b] = None => Out(b) = <<>>
<1>1. StateTyped /\ Linked
  BY DEF TypeInv
<1>2. QED
  BY <1>1, NoLines DEF StateTyped, Linked, In, Out, Holding

LEMMA JobsTyped ==
    ASSUME TypeInv, NEW j \in Jobs
    PROVE  /\ job \in [Jobs -> JobState] /\ job[j] \in JobState
           /\ job[j].got \in Seq(Line) /\ job[j].after \subseteq Jobs
           /\ job[j].bot \in Ids \cup {None}
           /\ Fits(j) /\ (job[j].pc \notin Loose => job[j].bot \in Ids)
BY DEF TypeInv, StateTyped, JobState, Fits

\* Steps of a command that look at the inboxes of no Bot.
Elsewhere(j) ==
    \/ Resolve(j) \/ NotResolved(j)
    \/ StartCreate(j) \/ CheckNew(j) \/ RefuseNew(j) \/ SaveNew(j)
    \/ Rename(j) \/ RefuseRename(j) \/ SaveName(j)
    \/ Describe(j) \/ RefuseDescribe(j) \/ SaveBrief(j)
    \/ SaveHidden(j) \/ Forget(j)
    \/ CreateGroup(j) \/ RefuseGroup(j) \/ SaveGroup(j) \/ RemoveGroup(j)
    \/ Count(j) \/ LeaveGroup(j) \/ Post(j) \/ AppendTurn(j) \/ Crash(j)

\* The sections in which a command has to do with an inbox.
Handling == Taking \cup {"work", "write"}

LEMMA ElsewhereDoes ==
    ASSUME TypeInv, NEW j \in Jobs, Elsewhere(j)
    PROVE  /\ UNCHANGED <<inbox, taken, file, shown, arrived, raced, blurred, gone>>
           /\ job[j].pc \notin {"done", "failed", "dead"}
           /\ job'[j].after = job[j].after
           /\ \/ job'[j].pc \notin Handling
              \/ job'[j].pc \in {"recover", "work"} /\ job'[j].got = <<>>
           /\ job[j].pc = "append" => job'[j].pc \in {"done", "dead"}
           /\ job[j].pc \notin Taking \/ job'[j].pc = "dead"
           /\ job[j].pc \in {"drop", "work"} =>
                 job'[j].pc = "dead" /\ job'[j].got = job[j].got /\ job'[j].bot = job[j].bot
           /\ job'[j].pc \notin Taking \/ Resolve(j)
           /\ crowded' = crowded \/ Resolve(j)
<1>0. job \in [Jobs -> JobState] /\ job[j] \in JobState /\ Fits(j)
  BY JobsTyped
<1>1. CASE \E pc \in {"check", "done", "failed", "describe"} :
             /\ Goto(j, pc)
             /\ UNCHANGED <<inbox, taken, file, shown, arrived, raced, blurred, gone, crowded>>
             /\ job[j].pc \notin {"done", "failed", "dead", "drop", "work"} \cup Taking
             /\ job[j].pc = "append" => pc = "done"
  <2>1. PICK pc \in {"check", "done", "failed", "describe"} :
           Goto(j, pc) /\ (job[j].pc = "append" => pc = "done")
    BY <1>1
  <2>2. job'[j].pc = pc /\ job'[j].after = job[j].after
    BY <1>0, <2>1 DEF Goto, JobState
  <2>3. pc \notin Handling
    BY DEF Handling, Taking
  <2>4. QED
    BY <1>1, <2>1, <2>2, <2>3 DEF Handling
<1>2. CASE \/ NotResolved(j) \/ StartCreate(j) \/ RefuseNew(j) \/ SaveNew(j)
           \/ RefuseRename(j) \/ SaveName(j) \/ RefuseDescribe(j) \/ SaveBrief(j)
           \/ SaveHidden(j) \/ Forget(j)
           \/ RefuseGroup(j) \/ SaveGroup(j) \/ RemoveGroup(j) \/ AppendTurn(j)
  BY <1>1, <1>2 DEF NotResolved, StartCreate, RefuseNew, SaveNew, RefuseRename, SaveName,
       RefuseDescribe, SaveBrief, SaveHidden, Forget, RefuseGroup, SaveGroup, RemoveGroup,
       AppendTurn, Fail, Replace, boxes, ghosts, Given, At, Taking
<1>3. CASE CheckNew(j) \/ Rename(j) \/ Describe(j) \/ CreateGroup(j) \/ Count(j) \/ LeaveGroup(j)
  <2>1. /\ job'[j].pc \in {"saveNew", "saveName", "saveBrief", "saveGroup", "leave", "failed"}
        /\ job'[j].after = job[j].after
        /\ UNCHANGED <<inbox, taken, file, shown, arrived, raced, blurred, gone, crowded>>
    <3>1. CASE CheckNew(j)
      BY <1>0, <3>1 DEF CheckNew, boxes, ghosts, JobState
    <3>2. CASE Rename(j) \/ Describe(j) \/ CreateGroup(j)
      BY <1>0, <3>2 DEF Rename, Describe, CreateGroup, boxes, ghosts, JobState
    <3>3. CASE Count(j)
      BY <1>0, <3>3 DEF Count, Goto, boxes, ghosts, JobState
    <3>4. CASE LeaveGroup(j)
      <4>1. PICK s : \/ job' = [job EXCEPT ![j].todo = @ \ {s}]
                     \/ Goto(j, "failed")
        BY <3>4 DEF LeaveGroup
      <4>2. job[j].pc = "leave"
        BY <3>4 DEF LeaveGroup, At
      <4>3. job'[j].pc \in {"leave", "failed"} /\ job'[j].after = job[j].after
        BY <1>0, <4>1, <4>2 DEF Goto, JobState
      <4>4. QED
        BY <3>4, <4>3 DEF LeaveGroup, boxes, ghosts
    <3>5. QED
      BY <1>3, <3>1, <3>2, <3>3, <3>4
  <2>2. job[j].pc \notin {"done", "failed", "dead", "drop", "work", "append"} \cup Taking
    BY <1>3 DEF CheckNew, Rename, Describe, CreateGroup, Count, LeaveGroup, Given, At, Taking
  <2>3. job'[j].pc \notin Handling
    BY <2>1 DEF Handling, Taking
  <2>4. QED
    BY <2>1, <2>2, <2>3 DEF Handling
<1>4. CASE Resolve(j)
  <2>1. /\ job'[j].pc = FirstSection(j) /\ job'[j].after = job[j].after
        /\ job'[j].got = job[j].got /\ job[j].got = <<>> /\ job[j].pc = "idle"
        /\ Job[j].op \in OnBot
    BY <1>0, <1>4 DEF Resolve, JobState, Given, At, Fits
  <2>2. FirstSection(j) \notin Handling \/ FirstSection(j) \in {"recover", "work"}
    BY <2>1 DEF FirstSection, OnBot, Handling, Taking
  <2>3. job[j].pc \notin Taking
    BY <2>1 DEF Taking
  <2>4. QED
    BY <1>4, <2>1, <2>2, <2>3 DEF Resolve, boxes
<1>5. CASE Post(j)
  <2>1. /\ job'[j].pc \in {"work", "failed"} /\ job'[j].after = job[j].after
        /\ job'[j].got = job[j].got /\ job[j].got = <<>> /\ job[j].pc = "idle"
    BY <1>0, <1>5 DEF Post, Goto, JobState, Given, At, Fits
  <2>2. /\ "failed" \notin Handling /\ "work" \notin Taking /\ "failed" \notin Taking
        /\ "idle" \notin Taking
    BY DEF Handling, Taking
  <2>3. QED
    BY <1>5, <2>1, <2>2 DEF Post, boxes, ghosts
<1>6. CASE Crash(j)
  <2>1. /\ job'[j].pc = "dead" /\ job'[j].after = job[j].after /\ job'[j].bot = job[j].bot
        /\ job[j].pc # "merge" => job'[j].got = job[j].got
    BY <1>0, <1>6 DEF Crash, JobState, At
  <2>2. "dead" \notin Handling
    BY DEF Handling, Taking
  <2>3. QED
    BY <1>6, <2>1, <2>2 DEF Crash, boxes, ghosts, Ended, Handling
<1>7. QED
  BY <1>2, <1>3, <1>4, <1>5, <1>6 DEF Elsewhere


\* The file of a Bot's inbox, and what another Bot's holds.
LEMMA OnlyThisInbox ==
    ASSUME TypeInv, NEW b \in Ids, \A c \in Ids \ {b} : inbox'[c] = inbox[c] /\ taken'[c] = taken[c],
           \A f \in Files : file[f] # None => file'[f] = file[f]
    PROVE  \A c \in Ids \ {b} : In(c)' = In(c) /\ Out(c)' = Out(c)
BY DEF TypeInv, StateTyped, Linked, In, Out, Holding

LEMMA OpenDoes ==
    ASSUME TypeInv, NEW j \in Jobs, NEW b, b = job[j].bot, SendOpen(j)
    PROVE  /\ \A c \in Ids : In(c)' = In(c) /\ Out(c)' = Out(c)
           /\ UNCHANGED <<taken, shown, arrived, raced, crowded, blurred, gone>>
           /\ job[j].pc = "open" /\ b \in Ids /\ job'[j].bot = b
           /\ \/ job'[j].pc = "failed" /\ job'[j].after = job[j].after /\ UNCHANGED inbox
              \/ /\ job'[j].pc = "write" /\ job'[j].after = arrived
                 /\ inbox'[b] # None /\ inbox'[b] # taken[b]
                 /\ job'[j].file = inbox'[b]
                 /\ Len(job'[j].got) = 1 /\ job'[j].got[1].by = j
                 /\ job'[j].got[1].from = Job[j].from /\ job'[j].got[1].text = Job[j].text
           /\ \A c \in Ids : \/ inbox'[c] = inbox[c]
                             \/ c = b /\ inbox[c] = None /\ file[inbox'[c]] = None
                                /\ inbox'[c] \in Files
<1>0. /\ StateTyped /\ Linked /\ job \in [Jobs -> JobState] /\ job[j] \in JobState /\ b \in Ids
      /\ Linked'
  <2>1. b \in Ids
    BY JobsTyped DEF SendOpen, At, Loose
  <2>2. TypeInv'
    BY InboxTypes
  <2>3. QED
    BY <2>1, <2>2, JobsTyped DEF TypeInv
<1>1. UNCHANGED <<taken, shown, arrived, raced, crowded, blurred, gone>> /\ job[j].pc = "open"
  BY DEF SendOpen, boxes, ghosts, At
<1>2. CASE Goto(j, "failed") /\ UNCHANGED boxes
  <2>1. job'[j].pc = "failed" /\ job'[j].after = job[j].after /\ job'[j].bot = b
    BY <1>0, <1>2 DEF Goto, JobState
  <2>2. \A c \in Ids : In(c)' = In(c) /\ Out(c)' = Out(c)
    BY <1>2 DEF boxes, In, Out, Holding
  <2>3. QED
    BY <1>0, <1>1, <1>2, <2>1, <2>2 DEF boxes
<1>3. CASE /\ IF inbox[b] = None
               THEN /\ Used # Files
                    /\ file' = [file EXCEPT ![Fresh] = <<>>]
                    /\ inbox' = [inbox EXCEPT ![b] = Fresh]
               ELSE UNCHANGED <<inbox, file>>
           /\ job' = [job EXCEPT ![j].pc = "write", ![j].file = inbox'[b],
                            ![j].after = arrived,
                            ![j].got = <<[from |-> Job[j].from, text |-> Job[j].text,
                                          seq |-> NextSeq(b), by |-> j]>>]
  <2> DEFINE x == [from |-> Job[j].from, text |-> Job[j].text, seq |-> NextSeq(b), by |-> j]
  <2>1. /\ job'[j].pc = "write" /\ job'[j].after = arrived /\ job'[j].bot = b
        /\ job'[j].file = inbox'[b] /\ job'[j].got = <<x>>
    BY <1>0, <1>3 DEF JobState
  <2>2. Len(<<x>>) = 1 /\ <<x>>[1] = x /\ x.by = j /\ x.from = Job[j].from /\ x.text = Job[j].text
    OBVIOUS
  <2>3. /\ \A c \in Ids : In(c)' = In(c) /\ Out(c)' = Out(c)
        /\ inbox'[b] # None
        /\ \A c \in Ids : \/ inbox'[c] = inbox[c]
                          \/ c = b /\ inbox[c] = None /\ file[inbox'[c]] = None
                             /\ inbox'[c] \in Files
    <3>1. CASE inbox[b] # None
      BY <1>1, <1>3, <3>1 DEF In, Out, Holding
    <3>2. CASE inbox[b] = None
      <4>1. /\ Fresh \in Files /\ file[Fresh] = None /\ Fresh # None
            /\ inbox' = [inbox EXCEPT ![b] = Fresh] /\ file' = [file EXCEPT ![Fresh] = <<>>]
        BY <1>3, <3>2, FreshIsUnused, FilesAre DEF Used
      <4>2. inbox'[b] = Fresh /\ \A c \in Ids \ {b} : inbox'[c] = inbox[c]
        BY <1>0, <4>1 DEF StateTyped
      <4>3. file'[Fresh] = <<>> /\ \A f \in Files : file[f] # None => file'[f] = file[f]
        BY <1>0, <4>1 DEF StateTyped
      <4>4. \A c \in Ids \ {b} : In(c)' = In(c) /\ Out(c)' = Out(c)
        BY <1>0, <1>1, <4>2, <4>3, OnlyThisInbox
      <4>5. In(b)' = <<>> /\ In(b) = <<>>
        BY <3>2, <4>1, <4>2, <4>3 DEF In, Holding
      <4>6. Out(b)' = Out(b)
        BY <1>0, <1>1, <4>3 DEF Out, Holding, Linked, StateTyped
      <4>7. \A c \in Ids : In(c)' = In(c) /\ Out(c)' = Out(c)
        <5>1. SUFFICES ASSUME NEW c \in Ids PROVE In(c)' = In(c) /\ Out(c)' = Out(c)
          OBVIOUS
        <5>2. CASE c = b
          BY <4>5, <4>6, <5>2
        <5>3. CASE c # b
          BY <4>4, <5>3
        <5>4. QED
          BY <5>2, <5>3
      <4>8. QED
        BY <3>2, <4>1, <4>2, <4>7
    <3>3. QED
      BY <3>1, <3>2
  <2>4. inbox'[b] # taken[b]
    BY <1>0, <1>1, <2>3 DEF Linked
  <2>5. QED
    BY <1>0, <1>1, <2>1, <2>2, <2>3, <2>4
<1>4. QED
  BY <1>2, <1>3 DEF SendOpen

\* The line of a sender is added to the file it opened, whatever that is by now.
Adds(j, b, f, x) ==
    /\ x.by = j /\ x.from = Job[j].from /\ x.text = Job[j].text
    /\ \/ /\ f = inbox[b] /\ f # taken[b] /\ f # None
          /\ In(b)' = In(b) \o <<x>> /\ Out(b)' = Out(b)
       \/ /\ f = taken[b] /\ f # None
          /\ In(b)' = In(b) /\ Out(b)' = Out(b) \o <<x>>
       \/ f \notin {inbox[b], taken[b]} /\ In(b)' = In(b) /\ Out(b)' = Out(b)

LEMMA WriteDoes ==
    ASSUME TypeInv, LinesInv, FilesInv, NEW j \in Jobs, SendWrite(j),
           NEW b, b = job[j].bot, NEW f, f = job[j].file
    PROVE  /\ job[j].pc = "write" /\ b \in Ids /\ Job[j].op = "send" /\ j \notin arrived
           /\ job'[j].pc = "done" /\ job'[j].bot = b /\ job'[j].after = job[j].after
           /\ arrived' = arrived \cup {j}
           /\ UNCHANGED <<inbox, taken, shown, crowded, gone>>
           /\ raced' = (IF Missed(b, f) THEN raced \cup {j} ELSE raced)
           /\ blurred' = (IF Blurs(b, f) THEN blurred \cup {b} ELSE blurred)
           /\ \A c \in Ids \ {b} : In(c)' = In(c) /\ Out(c)' = Out(c)
           /\ \E x \in Line : Adds(j, b, f, x)
<1>z. PICK x : x = job[j].got[1]
  OBVIOUS
<1>0. /\ StateTyped /\ Linked /\ job \in [Jobs -> JobState] /\ job[j] \in JobState /\ b \in Ids
      /\ job[j].pc = "write" /\ Job[j].op = "send" /\ f \in Files /\ file[f] # None
  BY JobsTyped DEF SendWrite, At, Loose, TypeInv, Fits
<1>1. /\ x \in Line /\ job[j].got = <<x>>
      /\ x.by = j /\ x.from = Job[j].from /\ x.text = Job[j].text
  <2>1. /\ Len(job[j].got) = 1 /\ job[j].got \in Seq(Line)
        /\ x.by = j /\ x.from = Job[j].from /\ x.text = Job[j].text
    BY <1>0, <1>z DEF LinesInv, JobState
  <2>2. QED
    BY <1>z, <2>1
<1>2. /\ arrived' = arrived \cup {j} /\ UNCHANGED <<inbox, taken, shown, crowded, gone>>
      /\ raced' = (IF Missed(b, f) THEN raced \cup {j} ELSE raced)
      /\ blurred' = (IF Blurs(b, f) THEN blurred \cup {b} ELSE blurred)
      /\ file' = [file EXCEPT ![f] = @ \o job[j].got]
  BY DEF SendWrite
<1>3. job'[j].pc = "done" /\ job'[j].bot = b /\ job'[j].after = job[j].after /\ j \notin arrived
  BY <1>0 DEF SendWrite, JobState, LinesInv
<1>4. file'[f] = file[f] \o <<x>> /\ \A g \in Files \ {f} : file'[g] = file[g]
  BY <1>0, <1>1, <1>2 DEF StateTyped
<1>5. \A c \in Ids : /\ inbox[c] # f => In(c)' = In(c)
                     /\ taken[c] # f => Out(c)' = Out(c)
  BY <1>0, <1>2, <1>4 DEF In, Out, Holding, StateTyped
<1>6. \A c \in Ids \ {b} : In(c)' = In(c) /\ Out(c)' = Out(c)
  BY <1>0, <1>5 DEF FilesInv
<1>7. f # None
  BY <1>0, FilesAre
<1>8. CASE f = inbox[b]
  <2>1. f # taken[b]
    BY <1>0, <1>7, <1>8 DEF Linked
  <2>2. In(b)' = In(b) \o <<x>>
    BY <1>2, <1>4, <1>7, <1>8 DEF In, Holding
  <2>3. Adds(j, b, f, x)
    BY <1>0, <1>1, <1>5, <1>7, <1>8, <2>1, <2>2 DEF Adds
  <2>4. QED
    BY <1>0, <1>1, <1>2, <1>3, <1>6, <2>3
<1>9. CASE f = taken[b]
  <2>1. f # inbox[b]
    BY <1>0, <1>7, <1>9 DEF Linked
  <2>2. Out(b)' = Out(b) \o <<x>>
    BY <1>2, <1>4, <1>7, <1>9 DEF Out, Holding
  <2>3. Adds(j, b, f, x)
    BY <1>0, <1>1, <1>5, <1>7, <1>9, <2>1, <2>2 DEF Adds
  <2>4. QED
    BY <1>0, <1>1, <1>2, <1>3, <1>6, <2>3
<1>10. CASE f \notin {inbox[b], taken[b]}
  <2>1. Adds(j, b, f, x)
    BY <1>0, <1>1, <1>5, <1>10 DEF Adds
  <2>2. QED
    BY <1>0, <1>1, <1>2, <1>3, <1>6, <2>1
<1>11. QED
  BY <1>8, <1>9, <1>10


\* What the ghosts and the shown handoffs are after most steps of a run.
Unnoted == UNCHANGED <<arrived, raced, crowded, blurred, gone>>

LEMMA RecoverDoes ==
    ASSUME TypeInv, NEW j \in Jobs, NEW b, b = job[j].bot, Recover(j)
    PROVE  /\ Unnoted /\ UNCHANGED <<inbox, taken, file, shown>>
           /\ \A c \in Ids : In(c)' = In(c) /\ Out(c)' = Out(c)
           /\ job[j].pc = "recover" /\ b \in Ids
           /\ job'[j].bot = b /\ job'[j].after = job[j].after
           /\ \/ job'[j].pc = "drain" /\ job'[j].got = job[j].got /\ taken[b] = None
              \/ /\ job'[j].pc = "dropTaken" /\ job'[j].got = job[j].got
                 /\ taken[b] # None /\ AlreadyMerged(Out(b), In(b))
              \/ /\ job'[j].pc = "merge" /\ job'[j].got = Out(b) \o In(b)
                 /\ taken[b] # None /\ ~AlreadyMerged(Out(b), In(b))
<1>0. /\ job \in [Jobs -> JobState] /\ job[j] \in JobState /\ b \in Ids
      /\ job[j].pc = "recover"
  BY JobsTyped DEF Recover, At, Loose
<1>1. Unnoted /\ UNCHANGED <<inbox, taken, file, shown>>
  BY DEF Recover, boxes, ghosts, Unnoted
<1>2. \A c \in Ids : In(c)' = In(c) /\ Out(c)' = Out(c)
  BY <1>1 DEF In, Out, Holding
<1>3. \/ taken[b] = None /\ Goto(j, "drain")
      \/ taken[b] # None /\ AlreadyMerged(Out(b), In(b)) /\ Goto(j, "dropTaken")
      \/ /\ taken[b] # None /\ ~AlreadyMerged(Out(b), In(b))
         /\ job' = [job EXCEPT ![j].pc = "merge", ![j].got = Out(b) \o In(b)]
  BY DEF Recover, Merged, In, Out
<1>4. QED
  BY <1>0, <1>1, <1>2, <1>3 DEF Goto, JobState

LEMMA MergeDoes ==
    ASSUME TypeInv, NEW j \in Jobs, NEW b, b = job[j].bot, Merge(j)
    PROVE  /\ Unnoted /\ UNCHANGED <<taken, shown>>
           /\ \A c \in Ids \ {b} : In(c)' = In(c)
           /\ \A c \in Ids : Out(c)' = Out(c)
           /\ job[j].pc = "merge" /\ b \in Ids
           /\ job'[j].bot = b /\ job'[j].after = job[j].after
           /\ \/ job'[j].pc = "failed" /\ In(b)' = In(b) /\ UNCHANGED inbox
              \/ job'[j].pc = "dropTaken" /\ In(b)' = job[j].got /\ job'[j].got = <<>>
           /\ \A c \in Ids : \/ inbox'[c] = inbox[c]
                             \/ c = b /\ file[inbox'[c]] = None /\ inbox'[c] \in Files
<1>0. /\ StateTyped /\ Linked /\ job \in [Jobs -> JobState] /\ job[j] \in JobState /\ b \in Ids
      /\ job[j].pc = "merge"
  BY JobsTyped DEF Merge, At, Loose, TypeInv
<1>1. Unnoted /\ UNCHANGED <<taken, shown>>
  BY DEF Merge, ghosts, Unnoted
<1>2. CASE job' = [job EXCEPT ![j].pc = "failed", ![j].got = <<>>] /\ UNCHANGED <<file, inbox>>
  <2>1. \A c \in Ids : In(c)' = In(c) /\ Out(c)' = Out(c)
    BY <1>1, <1>2 DEF In, Out, Holding
  <2>2. QED
    BY <1>0, <1>1, <1>2, <2>1 DEF JobState
<1>3. CASE /\ Used # Files
           /\ file' = [file EXCEPT ![Fresh] = job[j].got]
           /\ inbox' = [inbox EXCEPT ![b] = Fresh]
           /\ job' = [job EXCEPT ![j].pc = "dropTaken", ![j].got = <<>>]
  <2>1. Fresh \in Files /\ file[Fresh] = None /\ Fresh # None
    BY <1>3, FreshIsUnused, FilesAre DEF Used
  <2>2. inbox'[b] = Fresh /\ \A c \in Ids \ {b} : inbox'[c] = inbox[c]
    BY <1>0, <1>3 DEF StateTyped
  <2>3. /\ file'[Fresh] = job[j].got
        /\ \A f \in Files : file[f] # None => file'[f] = file[f]
    BY <1>0, <1>3, <2>1 DEF StateTyped
  <2>4. \A c \in Ids \ {b} : In(c)' = In(c) /\ Out(c)' = Out(c)
    BY <1>0, <1>1, <2>2, <2>3, OnlyThisInbox
  <2>5. In(b)' = job[j].got
    BY <2>1, <2>2, <2>3 DEF In, Holding
  <2>6. Out(b)' = Out(b)
    BY <1>0, <1>1, <2>3 DEF Out, Holding, Linked, StateTyped
  <2>7. \A c \in Ids : Out(c)' = Out(c)
    <3>1. SUFFICES ASSUME NEW c \in Ids PROVE Out(c)' = Out(c)
      OBVIOUS
    <3>2. CASE c = b
      BY <2>6, <3>2
    <3>3. CASE c # b
      BY <2>4, <3>3
    <3>4. QED
      BY <3>2, <3>3
  <2>8. job'[j].pc = "dropTaken" /\ job'[j].got = <<>> /\ job'[j].bot = b
        /\ job'[j].after = job[j].after
    BY <1>0, <1>3 DEF JobState
  <2>9. QED
    BY <1>0, <1>1, <2>1, <2>2, <2>4, <2>5, <2>7, <2>8
<1>4. QED
  BY <1>2, <1>3 DEF Merge

\* A run takes the file it drained out of the way.
LEMMA TakenGoes ==
    ASSUME TypeInv, NEW b \in Ids, taken' = [taken EXCEPT ![b] = None], UNCHANGED <<inbox, file>>
    PROVE  /\ \A c \in Ids : In(c)' = In(c)
           /\ \A c \in Ids \ {b} : Out(c)' = Out(c) /\ taken'[c] = taken[c]
           /\ Out(b)' = <<>> /\ taken'[b] = None
<1>1. taken'[b] = None /\ \A c \in Ids \ {b} : taken'[c] = taken[c]
  BY DEF TypeInv, StateTyped
<1>2. QED
  BY <1>1 DEF In, Out, Holding

LEMMA DropTakenDoes ==
    ASSUME TypeInv, NEW j \in Jobs, NEW b, b = job[j].bot, DropTaken(j)
    PROVE  /\ Unnoted /\ UNCHANGED <<inbox, file, shown>>
           /\ \A c \in Ids : In(c)' = In(c)
           /\ \A c \in Ids \ {b} : Out(c)' = Out(c) /\ taken'[c] = taken[c]
           /\ Out(b)' = <<>> /\ taken'[b] = None
           /\ job[j].pc = "dropTaken" /\ b \in Ids
           /\ job'[j].bot = b /\ job'[j].after = job[j].after /\ job'[j].got = job[j].got
           /\ job'[j].pc \in {"failed", "drain"}
<1>0. /\ job \in [Jobs -> JobState] /\ job[j] \in JobState /\ b \in Ids
      /\ job[j].pc = "dropTaken"
  BY JobsTyped DEF DropTaken, At, Loose
<1>1. Unnoted /\ UNCHANGED <<inbox, file, shown>> /\ taken' = [taken EXCEPT ![b] = None]
  BY DEF DropTaken, ghosts, Unnoted
<1>2. PICK pc \in {"failed", "drain"} : Goto(j, pc)
  BY DEF DropTaken
<1>3. job'[j].bot = b /\ job'[j].after = job[j].after /\ job'[j].got = job[j].got /\ job'[j].pc = pc
  BY <1>0, <1>2 DEF Goto, JobState
<1>4. QED
  BY <1>0, <1>1, <1>3, TakenGoes

LEMMA DrainDoes ==
    ASSUME TypeInv, NEW j \in Jobs, NEW b, b = job[j].bot, Drain(j)
    PROVE  /\ Unnoted /\ UNCHANGED <<inbox, file, shown>>
           /\ \A c \in Ids : In(c)' = In(c)
           /\ \A c \in Ids \ {b} : Out(c)' = Out(c) /\ taken'[c] = taken[c]
           /\ job[j].pc = "drain" /\ b \in Ids
           /\ job'[j].bot = b /\ job'[j].after = job[j].after /\ job'[j].got = job[j].got
           /\ \/ job'[j].pc = "work" /\ Out(b)' = Out(b) /\ taken'[b] = taken[b]
              \/ job'[j].pc = "take" /\ Out(b)' = <<>> /\ taken'[b] = None
<1>0. /\ job \in [Jobs -> JobState] /\ job[j] \in JobState /\ b \in Ids
      /\ job[j].pc = "drain"
  BY JobsTyped DEF Drain, At, Loose
<1>1. Unnoted /\ UNCHANGED <<inbox, file, shown>>
  BY DEF Drain, ghosts, Unnoted
<1>2. CASE Goto(j, "work") /\ UNCHANGED taken
  <2>1. \A c \in Ids : In(c)' = In(c) /\ Out(c)' = Out(c)
    BY <1>1, <1>2 DEF In, Out, Holding
  <2>2. QED
    BY <1>0, <1>1, <1>2, <2>1 DEF Goto, JobState
<1>3. CASE Goto(j, "take") /\ taken' = [taken EXCEPT ![b] = None]
  <2>1. job'[j].bot = b /\ job'[j].after = job[j].after /\ job'[j].got = job[j].got
        /\ job'[j].pc = "take"
    BY <1>0, <1>3 DEF Goto, JobState
  <2>2. QED
    BY <1>0, <1>1, <1>3, <2>1, TakenGoes
<1>4. QED
  BY <1>2, <1>3 DEF Drain

LEMMA TakeDoes ==
    ASSUME TypeInv, NEW j \in Jobs, NEW b, b = job[j].bot, Take(j)
    PROVE  /\ Unnoted /\ UNCHANGED <<file, shown>>
           /\ \A c \in Ids \ {b} : /\ In(c)' = In(c) /\ Out(c)' = Out(c)
                                   /\ taken'[c] = taken[c] /\ inbox'[c] = inbox[c]
           /\ job[j].pc = "take" /\ b \in Ids
           /\ job'[j].bot = b /\ job'[j].after = job[j].after /\ job'[j].got = job[j].got
           /\ \/ /\ job'[j].pc = "failed" /\ In(b)' = In(b) /\ Out(b)' = Out(b)
                 /\ UNCHANGED <<inbox, taken>>
              \/ /\ job'[j].pc = "read" /\ In(b)' = <<>> /\ Out(b)' = In(b)
                 /\ inbox'[b] = None /\ taken'[b] = inbox[b]
<1>0. /\ job \in [Jobs -> JobState] /\ job[j] \in JobState /\ b \in Ids
      /\ job[j].pc = "take" /\ StateTyped
  BY JobsTyped DEF Take, At, Loose, TypeInv
<1>1. Unnoted /\ UNCHANGED <<file, shown>>
  BY DEF Take, ghosts, Unnoted
<1>2. CASE Goto(j, "failed") /\ UNCHANGED <<inbox, taken>>
  <2>1. \A c \in Ids : In(c)' = In(c) /\ Out(c)' = Out(c)
    BY <1>1, <1>2 DEF In, Out, Holding
  <2>2. QED
    BY <1>0, <1>1, <1>2, <2>1 DEF Goto, JobState
<1>3. CASE /\ Goto(j, "read") /\ taken' = [taken EXCEPT ![b] = inbox[b]]
           /\ inbox' = [inbox EXCEPT ![b] = None]
  <2>1. job'[j].bot = b /\ job'[j].after = job[j].after /\ job'[j].got = job[j].got
        /\ job'[j].pc = "read"
    BY <1>0, <1>3 DEF Goto, JobState
  <2>2. /\ inbox'[b] = None /\ taken'[b] = inbox[b]
        /\ \A c \in Ids \ {b} : taken'[c] = taken[c] /\ inbox'[c] = inbox[c]
    BY <1>0, <1>3 DEF StateTyped
  <2>3. /\ In(b)' = <<>> /\ Out(b)' = In(b)
        /\ \A c \in Ids \ {b} : In(c)' = In(c) /\ Out(c)' = Out(c)
    BY <1>1, <2>2 DEF In, Out, Holding
  <2>4. QED
    BY <1>0, <1>1, <2>1, <2>2, <2>3
<1>4. QED
  BY <1>2, <1>3 DEF Take

LEMMA ReadDoes ==
    ASSUME TypeInv, NEW j \in Jobs, NEW b, b = job[j].bot, Read(j)
    PROVE  /\ Unnoted /\ UNCHANGED <<inbox, taken, file, shown>>
           /\ \A c \in Ids : In(c)' = In(c) /\ Out(c)' = Out(c)
           /\ job[j].pc = "read" /\ b \in Ids
           /\ job'[j].bot = b /\ job'[j].after = job[j].after
           /\ job'[j].pc = "failed" \/ (job'[j].pc = "drop" /\ job'[j].got = Out(b))
<1>0. /\ job \in [Jobs -> JobState] /\ job[j] \in JobState /\ b \in Ids
      /\ job[j].pc = "read"
  BY JobsTyped DEF Read, At, Loose
<1>1. Unnoted /\ UNCHANGED <<inbox, taken, file, shown>>
  BY DEF Read, boxes, ghosts, Unnoted
<1>2. \A c \in Ids : In(c)' = In(c) /\ Out(c)' = Out(c)
  BY <1>1 DEF In, Out, Holding
<1>3. \/ Goto(j, "failed")
      \/ job' = [job EXCEPT ![j].pc = "drop", ![j].got = Out(b)]
  BY DEF Read, Out
<1>4. QED
  BY <1>0, <1>1, <1>2, <1>3 DEF Goto, JobState

LEMMA DropDoes ==
    ASSUME TypeInv, NEW j \in Jobs, NEW b, b = job[j].bot, Drop(j)
    PROVE  /\ Unnoted /\ UNCHANGED <<inbox, file, shown>>
           /\ \A c \in Ids : In(c)' = In(c)
           /\ \A c \in Ids \ {b} : Out(c)' = Out(c) /\ taken'[c] = taken[c]
           /\ Out(b)' = <<>> /\ taken'[b] = None
           /\ job[j].pc = "drop" /\ b \in Ids
           /\ job'[j].bot = b /\ job'[j].after = job[j].after /\ job'[j].got = job[j].got
           /\ job'[j].pc = "work"
<1>0. /\ job \in [Jobs -> JobState] /\ job[j] \in JobState /\ b \in Ids
      /\ job[j].pc = "drop"
  BY JobsTyped DEF Drop, At, Loose
<1>1. Unnoted /\ UNCHANGED <<inbox, file, shown>> /\ taken' = [taken EXCEPT ![b] = None]
  BY DEF Drop, ghosts, Unnoted
<1>2. job'[j].bot = b /\ job'[j].after = job[j].after /\ job'[j].got = job[j].got
      /\ job'[j].pc = "work"
  BY <1>0 DEF Drop, Goto, JobState
<1>3. QED
  BY <1>0, <1>1, <1>2, TakenGoes

LEMMA WorkDoes ==
    ASSUME TypeInv, NEW j \in Jobs, NEW b, b = job[j].bot, Work(j)
    PROVE  /\ Unnoted /\ UNCHANGED <<inbox, taken, file>>
           /\ \A c \in Ids : In(c)' = In(c) /\ Out(c)' = Out(c)
           /\ job[j].pc = "work" /\ b \in Ids
           /\ job'[j].bot = b /\ job'[j].after = job[j].after
           /\ job'[j].pc = "append" /\ job'[j].got = <<>>
           /\ shown' = shown \o Given2Run(j)
<1>0. /\ job \in [Jobs -> JobState] /\ job[j] \in JobState /\ b \in Ids
      /\ job[j].pc = "work"
  BY JobsTyped DEF Work, At, Loose
<1>1. /\ Unnoted /\ UNCHANGED <<inbox, taken, file>> /\ shown' = shown \o Given2Run(j)
      /\ job' = [job EXCEPT ![j].pc = "append", ![j].got = <<>>]
  BY DEF Work, boxes, Unnoted, Given2Run
<1>2. \A c \in Ids : In(c)' = In(c) /\ Out(c)' = Out(c)
  BY <1>1 DEF In, Out, Holding
<1>3. QED
  BY <1>0, <1>1, <1>2 DEF JobState

LEMMA RemoveDoes ==
    ASSUME TypeInv, NEW j \in Jobs, NEW b, b = job[j].bot, RemoveDir(j)
    PROVE  /\ UNCHANGED <<arrived, raced, crowded, blurred, file, shown>>
           /\ \A c \in Ids \ {b} : /\ In(c)' = In(c) /\ Out(c)' = Out(c)
                                   /\ taken'[c] = taken[c] /\ inbox'[c] = inbox[c]
           /\ job[j].pc = "leave" /\ b \in Ids
           /\ job'[j].bot = b /\ job'[j].after = job[j].after
           /\ job'[j].pc \in {"failed", "done"}
           /\ \/ UNCHANGED <<inbox, taken, gone>> /\ In(b)' = In(b) /\ Out(b)' = Out(b)
              \/ /\ gone' = gone \cup {b} /\ In(b)' = <<>> /\ Out(b)' = <<>>
                 /\ inbox'[b] = None /\ taken'[b] = None
<1>0. /\ job \in [Jobs -> JobState] /\ job[j] \in JobState /\ b \in Ids
      /\ job[j].pc = "leave" /\ StateTyped
  BY JobsTyped DEF RemoveDir, At, Loose, TypeInv
<1>1. UNCHANGED <<arrived, raced, crowded, blurred, file, shown>>
  BY DEF RemoveDir
<1>2. CASE Goto(j, "failed") /\ UNCHANGED <<inbox, taken, gone>>
  <2>1. \A c \in Ids : In(c)' = In(c) /\ Out(c)' = Out(c)
    BY <1>1, <1>2 DEF In, Out, Holding
  <2>2. QED
    BY <1>0, <1>1, <1>2, <2>1 DEF Goto, JobState
<1>3. CASE /\ Goto(j, "done") /\ taken' = [taken EXCEPT ![b] = None]
           /\ inbox' = [inbox EXCEPT ![b] = None] /\ gone' = gone \cup {b}
  <2>1. job'[j].bot = b /\ job'[j].after = job[j].after /\ job'[j].pc = "done"
    BY <1>0, <1>3 DEF Goto, JobState
  <2>2. /\ inbox'[b] = None /\ taken'[b] = None
        /\ \A c \in Ids \ {b} : taken'[c] = taken[c] /\ inbox'[c] = inbox[c]
    BY <1>0, <1>3 DEF StateTyped
  <2>3. /\ In(b)' = <<>> /\ Out(b)' = <<>>
        /\ \A c \in Ids \ {b} : In(c)' = In(c) /\ Out(c)' = Out(c)
    BY <1>1, <2>2 DEF In, Out, Holding
  <2>4. QED
    BY <1>0, <1>1, <1>3, <2>1, <2>2, <2>3
<1>4. QED
  BY <1>2, <1>3 DEF RemoveDir


LEMMA SomeStep ==
    ASSUME NEW j, Step(j)
    PROVE  \/ Elsewhere(j) \/ SendOpen(j) \/ SendWrite(j) \/ Recover(j) \/ Merge(j)
           \/ DropTaken(j) \/ Drain(j) \/ Take(j) \/ Read(j) \/ Drop(j) \/ Work(j) \/ RemoveDir(j)
BY DEF Step, Elsewhere

\* What was written, or noted, stays so, and who wrote it is done.
LEMMA Monotone ==
    ASSUME TypeInv, LinesInv, FilesInv, NEW j \in Jobs, Step(j)
    PROVE  /\ job[j].pc \notin {"done", "failed", "dead"}
           /\ arrived \subseteq arrived' /\ arrived' \subseteq arrived \cup {j}
           /\ raced \subseteq raced' /\ crowded \subseteq crowded'
           /\ blurred \subseteq blurred' /\ gone \subseteq gone'
           /\ \A s \in arrived : s \in Jobs \ {j} /\ job'[s] = job[s]
           /\ arrived' = arrived \/ SendWrite(j)
           /\ raced' = raced \/ SendWrite(j)
<1>0. PICK b : b = job[j].bot
  OBVIOUS
<1>f. PICK f : f = job[j].file
  OBVIOUS
<1>a. \A s \in arrived : s \in Jobs /\ job[s].pc = "done"
  <2>1. arrived \subseteq Jobs
    BY DEF TypeInv, StateTyped
  <2>2. QED
    BY <2>1 DEF LinesInv
<1>b. \A k \in Jobs \ {j} : job'[k] = job[k]
  BY OneJob
<1>1. CASE Elsewhere(j)
  <2>1. crowded \subseteq crowded'
    <3>1. CASE crowded' = crowded
      BY <3>1
    <3>2. CASE Resolve(j)
      <4>1. PICK n : NoteCrowd(j, n)
        BY <3>2 DEF Resolve
      <4>2. crowded' = crowded \cup {n} \/ crowded' = crowded
        BY <4>1 DEF NoteCrowd
      <4>3. QED
        BY <4>2
    <3>3. QED
      BY <1>1, <3>1, <3>2, ElsewhereDoes
  <2>2. QED
    BY <1>1, <1>a, <1>b, <2>1, ElsewhereDoes
<1>2. CASE SendOpen(j)
  BY <1>0, <1>2, <1>a, <1>b, OpenDoes
<1>3. CASE SendWrite(j)
  <2>1. /\ job[j].pc = "write" /\ arrived' = arrived \cup {j}
        /\ UNCHANGED <<crowded, gone>>
        /\ raced' = (IF Missed(b, f) THEN raced \cup {j} ELSE raced)
        /\ blurred' = (IF Blurs(b, f) THEN blurred \cup {b} ELSE blurred)
    BY <1>0, <1>f, <1>3, WriteDoes
  <2>2. QED
    BY <1>3, <1>a, <1>b, <2>1
<1>4. CASE Recover(j) \/ Merge(j) \/ DropTaken(j) \/ Drain(j) \/ Take(j) \/ Read(j) \/ Drop(j)
           \/ Work(j)
  <2>1. Unnoted /\ job[j].pc \notin {"done", "failed", "dead"}
    BY <1>0, <1>4, RecoverDoes, MergeDoes, DropTakenDoes, DrainDoes, TakeDoes, ReadDoes, DropDoes,
       WorkDoes
  <2>2. QED
    BY <1>a, <1>b, <2>1 DEF Unnoted
<1>5. CASE RemoveDir(j)
  <2>1. /\ UNCHANGED <<arrived, raced, crowded, blurred>> /\ job[j].pc = "leave"
        /\ gone' = gone \/ gone' = gone \cup {b}
    BY <1>0, <1>5, RemoveDoes
  <2>2. QED
    BY <1>a, <1>b, <2>1
<1>6. QED
  BY <1>1, <1>2, <1>3, <1>4, <1>5, SomeStep

LEMMA LineOfKept ==
    ASSUME TypeInv, LinesInv, FilesInv, NEW j \in Jobs, Step(j), NEW b, NEW x, LineOf(b, x)
    PROVE  LineOf(b, x)'
BY Monotone DEF LineOf

\* What is shown after a run has been given what it took.
LEMMA ShownGrows ==
    ASSUME TypeInv, NEW j \in Jobs, shown' = shown \o Given2Run(j)
    PROVE  /\ DOMAIN shown = 1 .. Len(shown) /\ Len(shown) \in Nat
           /\ \A i \in DOMAIN shown : i \in DOMAIN shown' /\ shown'[i] = shown[i]
           /\ \A i \in DOMAIN shown' :
                 \/ i \in DOMAIN shown
                 \/ /\ i > Len(shown) /\ i \in Nat /\ i - Len(shown) \in DOMAIN job[j].got
                    /\ shown'[i].by = job[j].got[i - Len(shown)].by /\ shown'[i].run = j
           /\ ShownBy' = ShownBy \cup By(job[j].got)
<1> DEFINE g == Given2Run(j)
<1>1. /\ shown \in Seq([by : Jobs, run : Jobs]) /\ g \in Seq([by : Jobs, run : Jobs])
      /\ DOMAIN g = DOMAIN job[j].got
      /\ \A p \in DOMAIN g : g[p].by = job[j].got[p].by /\ g[p].run = j
  BY ShownTyped DEF TypeInv, StateTyped, Given2Run
<1> HIDE DEF g
<1>2. /\ DOMAIN shown = 1 .. Len(shown) /\ Len(shown) \in Nat
      /\ DOMAIN g = 1 .. Len(g) /\ Len(g) \in Nat
      /\ DOMAIN (shown \o g) = 1 .. (Len(shown) + Len(g))
      /\ \A i \in 1 .. Len(shown) : (shown \o g)[i] = shown[i]
      /\ \A i \in 1 .. (Len(shown) + Len(g)) : i > Len(shown) => (shown \o g)[i] = g[i - Len(shown)]
  BY <1>1
<1>3. shown' = shown \o g
  BY DEF g
<1>4. \A i \in DOMAIN shown : i \in DOMAIN shown' /\ shown'[i] = shown[i]
  BY <1>2, <1>3
<1>5. \A i \in DOMAIN shown' :
         \/ i \in DOMAIN shown
         \/ /\ i > Len(shown) /\ i \in Nat /\ i - Len(shown) \in DOMAIN g
            /\ shown'[i] = g[i - Len(shown)]
  BY <1>2, <1>3
<1>6. ToSet(shown') = ToSet(shown) \cup ToSet(g)
  BY <1>1, <1>3, ToSetConcat
<1>7. Senders(ToSet(g)) = By(job[j].got)
  <2> DEFINE h == job[j].got
  <2>1. /\ DOMAIN g = DOMAIN h /\ \A p \in DOMAIN g : g[p].by = h[p].by
    BY <1>1
  <2> HIDE DEF h
  <2>2. /\ Senders(ToSet(g)) = {g[p].by : p \in DOMAIN g}
        /\ By(h) = {h[p].by : p \in DOMAIN h}
    BY DEF Senders, By, ToSet
  <2>3. By(h) = Senders(ToSet(g))
    BY <2>1, <2>2
  <2>4. QED
    BY <2>3 DEF h
<1>8. ShownBy' = ShownBy \cup By(job[j].got)
  BY <1>6, <1>7 DEF ShownBy, Senders
<1>9. QED
  BY <1>1, <1>2, <1>4, <1>5, <1>8

LEMMA SenderDone ==
    ASSUME TypeInv, LinesInv, FilesInv, NEW j \in Jobs, Step(j)
    PROVE  /\ \A s \in arrived' : /\ job'[s].pc = "done" /\ Job[s].op = "send"
                                  /\ job'[s].bot \in Ids
           /\ raced' \subseteq arrived'
           /\ \A k \in Jobs : job'[k].after \subseteq arrived' \ {k}
<1>0. PICK b : b = job[j].bot
  OBVIOUS
<1>f. PICK f : f = job[j].file
  OBVIOUS
<1>a. /\ arrived \subseteq arrived' /\ \A s \in arrived : s \in Jobs \ {j} /\ job'[s] = job[s]
      /\ arrived' = arrived \/ SendWrite(j)
      /\ raced' = raced \/ SendWrite(j)
  BY Monotone
<1>b. \A k \in Jobs \ {j} : job'[k] = job[k]
  BY OneJob
<1>1. /\ \A s \in arrived : job[s].pc = "done" /\ Job[s].op = "send" /\ job[s].bot \in Ids
      /\ raced \subseteq arrived
      /\ \A k \in Jobs : job[k].after \subseteq arrived \ {k}
  BY DEF LinesInv
<1>2. SendWrite(j) => /\ arrived' = arrived \cup {j} /\ raced' \subseteq raced \cup {j}
                      /\ job'[j].pc = "done" /\ Job[j].op = "send" /\ job'[j].bot \in Ids
  BY <1>0, <1>f, WriteDoes
<1>3. job'[j].after = job[j].after \/ (job'[j].after = arrived /\ j \notin arrived)
  <2>1. j \notin arrived
    BY <1>a
  <2>2. CASE Elsewhere(j)
    BY <2>2, ElsewhereDoes
  <2>3. CASE SendOpen(j)
    BY <1>0, <2>1, <2>3, OpenDoes
  <2>4. CASE SendWrite(j)
    BY <1>0, <1>f, <2>4, WriteDoes
  <2>5. CASE \/ Recover(j) \/ Merge(j) \/ DropTaken(j) \/ Drain(j) \/ Take(j) \/ Read(j)
             \/ Drop(j) \/ Work(j) \/ RemoveDir(j)
    BY <1>0, <2>5, RecoverDoes, MergeDoes, DropTakenDoes, DrainDoes, TakeDoes, ReadDoes, DropDoes,
       WorkDoes, RemoveDoes
  <2>6. QED
    BY <2>2, <2>3, <2>4, <2>5, SomeStep
<1>4. \A k \in Jobs : job'[k].after \subseteq arrived' \ {k}
  BY <1>1, <1>3, <1>a, <1>b
<1>5. QED
  BY <1>1, <1>2, <1>4, <1>a

LEMMA ToSetOfLines ==
    ASSUME NEW s \in Seq(Line), NEW t \in Seq(Line)
    PROVE  ToSet(s \o t) = ToSet(s) \cup ToSet(t)
BY ToSetConcat

LEMMA ToSetOfOne ==
    ASSUME NEW x PROVE ToSet(<<x>>) = {x} /\ ToSet(<<>>) = {}
BY DEF ToSet

LEMMA OneMore ==
    ASSUME NEW s \in Seq(Line), NEW y \in Line
    PROVE  ToSet(s \o <<y>>) = ToSet(s) \cup {y}
<1>1. <<y>> \in Seq(Line) /\ ToSet(<<y>>) = {y}
  BY ByOne, ToSetOfOne
<1>2. QED
  BY <1>1, ToSetOfLines

LEMMA WrittenKept ==
    ASSUME TypeInv, LinesInv, FilesInv, NEW j \in Jobs, Step(j)
    PROVE  \A c \in Ids : \A x \in ToSet(In(c))' \cup ToSet(Out(c))' : LineOf(c, x)'
<1>0. PICK b : b = job[j].bot
  OBVIOUS
<1>f. PICK f : f = job[j].file
  OBVIOUS
<1>1. SUFFICES ASSUME NEW c \in Ids, NEW x \in ToSet(In(c)') \cup ToSet(Out(c)')
               PROVE  LineOf(c, x)'
  OBVIOUS
<1>2. \A y \in ToSet(In(c)) \cup ToSet(Out(c)) : LineOf(c, y)'
  BY LineOfKept DEF LinesInv
<1>3. CASE x \in ToSet(In(c)) \cup ToSet(Out(c))
  BY <1>2, <1>3
<1>4. ToSet(<<>>) = {} /\ In(c) \in Seq(Line) /\ Out(c) \in Seq(Line)
  BY ToSetOfOne, BoxesTyped
<1>5. CASE Elsewhere(j)
  <2>1. In(c)' = In(c) /\ Out(c)' = Out(c)
    BY <1>5, ElsewhereDoes DEF In, Out, Holding
  <2>2. QED
    BY <1>2, <2>1
<1>6. CASE SendOpen(j) \/ Recover(j) \/ Read(j) \/ Work(j)
  <2>1. In(c)' = In(c) /\ Out(c)' = Out(c)
    BY <1>0, <1>6, OpenDoes, RecoverDoes, ReadDoes, WorkDoes
  <2>2. QED
    BY <1>2, <2>1
<1>7. CASE DropTaken(j) \/ Drain(j) \/ Take(j) \/ Drop(j) \/ RemoveDir(j)
  <2>1. /\ In(c)' \in {In(c), <<>>} /\ Out(c)' \in {Out(c), In(c), <<>>}
    BY <1>0, <1>7, DropTakenDoes, DrainDoes, TakeDoes, DropDoes, RemoveDoes
  <2>2. QED
    BY <1>2, <1>4, <2>1
<1>8. CASE Merge(j)
  <2>1. /\ In(c)' = In(c) \/ (c = b /\ In(c)' = job[j].got)
        /\ job[j].pc = "merge"
    BY <1>0, <1>8, MergeDoes
  <2>2. c = b => \A y \in ToSet(job[j].got) : LineOf(c, y)'
    BY <1>0, <2>1, LineOfKept DEF LinesInv, Live, Runs
  <2>3. Out(c)' = Out(c)
    BY <1>0, <1>8, MergeDoes
  <2>4. QED
    BY <1>2, <2>1, <2>2, <2>3
<1>9. CASE SendWrite(j)
  <2>1. PICK y \in Line :
           /\ y.by = j /\ y.from = Job[j].from /\ y.text = Job[j].text
           /\ In(c)' = In(c) \/ (c = b /\ In(c)' = In(c) \o <<y>>)
           /\ Out(c)' = Out(c) \/ (c = b /\ Out(c)' = Out(c) \o <<y>>)
    <3>1. PICK y \in Line :
             /\ y.by = j /\ y.from = Job[j].from /\ y.text = Job[j].text
             /\ In(b)' = In(b) \/ In(b)' = In(b) \o <<y>>
             /\ Out(b)' = Out(b) \/ Out(b)' = Out(b) \o <<y>>
      <4>1. PICK y \in Line : Adds(j, b, f, y)
        BY <1>0, <1>f, <1>9, WriteDoes
      <4>2. QED
        BY <4>1 DEF Adds
    <3>2. c # b => In(c)' = In(c) /\ Out(c)' = Out(c)
      BY <1>0, <1>f, <1>9, WriteDoes
    <3>3. /\ In(c)' = In(c) \/ (c = b /\ In(c)' = In(c) \o <<y>>)
          /\ Out(c)' = Out(c) \/ (c = b /\ Out(c)' = Out(c) \o <<y>>)
      BY <3>1, <3>2
    <3>4. QED
      BY <3>1, <3>3
  <2>2. j \in arrived' /\ job'[j].bot = b
    BY <1>0, <1>f, <1>9, WriteDoes
  <2>3. c = b => LineOf(c, y)'
    BY <2>1, <2>2 DEF LineOf
  <2>4. /\ ToSet(In(c) \o <<y>>) = ToSet(In(c)) \cup {y}
        /\ ToSet(Out(c) \o <<y>>) = ToSet(Out(c)) \cup {y}
    BY <1>4, OneMore
  <2>5. QED
    BY <1>2, <2>1, <2>3, <2>4
<1>10. QED
  BY <1>5, <1>6, <1>7, <1>8, <1>9, SomeStep


LEMMA HeldKept ==
    ASSUME TypeInv, LinesInv, FilesInv, NEW j \in Jobs, Step(j)
    PROVE  /\ \A c \in Ids : \A k \in Live(c)' : \A x \in ToSet(job'[k].got) : LineOf(c, x)'
           /\ \A k \in Jobs : job'[k].pc = "write" =>
                 /\ Len(job'[k].got) = 1
                 /\ job'[k].got[1].by = k
                 /\ job'[k].got[1].from = Job[k].from /\ job'[k].got[1].text = Job[k].text
           /\ \A k \in Jobs : job'[k].pc \in Taking \ {"merge", "drop"} => job'[k].got = <<>>
<1>0. PICK b : b = job[j].bot
  OBVIOUS
<1>f. PICK f : f = job[j].file
  OBVIOUS
<1>b. \A k \in Jobs \ {j} : job'[k] = job[k]
  BY OneJob
<1>c. \A c \in Ids : \A k \in Jobs \ {j} : k \in Live(c)' => k \in Live(c)
  BY <1>b DEF Live, Runs
<1>1. SUFFICES
        /\ \A c \in Ids : j \in Live(c)' => \A x \in ToSet(job'[j].got) : LineOf(c, x)'
        /\ job'[j].pc = "write" =>
                 /\ Len(job'[j].got) = 1
                 /\ job'[j].got[1].by = j
                 /\ job'[j].got[1].from = Job[j].from /\ job'[j].got[1].text = Job[j].text
        /\ job'[j].pc \in Taking \ {"merge", "drop"} => job'[j].got = <<>>
  <2>1. \A c \in Ids : \A k \in Live(c) : \A x \in ToSet(job[k].got) : LineOf(c, x)'
    BY LineOfKept DEF LinesInv
  <2>2. \A c \in Ids : \A k \in Live(c)' : k \in Jobs
    BY DEF Live, Runs
  <2>3. \A c \in Ids : \A k \in Live(c)' : \A x \in ToSet(job'[k].got) : LineOf(c, x)'
    BY <1>1, <1>b, <1>c, <2>1, <2>2
  <2>4. QED
    BY <1>1, <1>b, <2>3 DEF LinesInv
<1>2. ToSet(<<>>) = {} /\ "write" \notin Taking
  BY ToSetOfOne DEF Taking
<1>3. CASE job'[j].got = <<>> /\ job'[j].pc # "write"
  BY <1>2, <1>3
<1>4. CASE job'[j].pc \notin Handling
  <2>1. \A c \in Ids : j \notin Live(c)'
    BY <1>4 DEF Live, Runs, Handling, Taking
  <2>2. QED
    BY <1>4, <2>1 DEF Handling
<1>5. CASE Elsewhere(j)
  BY <1>3, <1>4, <1>5, ElsewhereDoes
<1>6. CASE SendOpen(j)
  <2>1. \A c \in Ids : job'[j].pc = "write" => j \notin Live(c)'
    BY DEF Live, Runs
  <2>2. "failed" \notin Handling
    BY DEF Handling, Taking
  <2>3. QED
    BY <1>0, <1>2, <1>4, <1>6, <2>1, <2>2, OpenDoes
<1>7. CASE SendWrite(j) \/ RemoveDir(j)
  <2>1. job'[j].pc \in {"done", "failed"}
    BY <1>0, <1>f, <1>7, WriteDoes, RemoveDoes
  <2>2. QED
    BY <1>4, <2>1 DEF Handling, Taking
<1>8. CASE Recover(j)
  <2>1. /\ job[j].pc = "recover" /\ job'[j].bot = b /\ b \in Ids
        /\ \/ job'[j].pc = "drain" /\ job'[j].got = job[j].got
           \/ job'[j].pc = "dropTaken" /\ job'[j].got = job[j].got
           \/ job'[j].pc = "merge" /\ job'[j].got = Out(b) \o In(b)
    BY <1>0, <1>8, RecoverDoes
  <2>2. job[j].got = <<>>
    BY <2>1 DEF LinesInv, Taking
  <2>3. CASE job'[j].pc = "merge" /\ job'[j].got = Out(b) \o In(b)
    <3>1. ToSet(job'[j].got) = ToSet(Out(b)) \cup ToSet(In(b))
      BY <2>1, <2>3, BoxesTyped, ToSetOfLines
    <3>2. \A x \in ToSet(job'[j].got) : LineOf(b, x)'
      BY <2>1, <3>1, LineOfKept DEF LinesInv
    <3>3. \A c \in Ids : j \in Live(c)' => c = b
      BY <2>1 DEF Live, Runs
    <3>4. QED
      BY <2>3, <3>2, <3>3
  <2>4. QED
    BY <1>3, <2>1, <2>2, <2>3
<1>9. CASE Merge(j)
  <2>1. job'[j].pc \in {"failed"} \/ (job'[j].pc = "dropTaken" /\ job'[j].got = <<>>)
    BY <1>0, <1>9, MergeDoes
  <2>2. "failed" \notin Handling
    BY DEF Handling, Taking
  <2>3. QED
    BY <1>3, <1>4, <2>1, <2>2
<1>10. CASE DropTaken(j) \/ Drain(j) \/ Take(j)
  <2>1. /\ job[j].pc \in {"dropTaken", "drain", "take"} /\ job'[j].got = job[j].got
        /\ job'[j].pc # "write"
    BY <1>0, <1>10, DropTakenDoes, DrainDoes, TakeDoes
  <2>2. job[j].got = <<>>
    BY <2>1 DEF LinesInv, Taking
  <2>3. QED
    BY <1>3, <2>1, <2>2
<1>11. CASE Read(j)
  <2>1. /\ job'[j].bot = b /\ b \in Ids
        /\ job'[j].pc = "failed" \/ (job'[j].pc = "drop" /\ job'[j].got = Out(b))
    BY <1>0, <1>11, ReadDoes
  <2>2. CASE job'[j].pc = "drop" /\ job'[j].got = Out(b)
    <3>1. \A x \in ToSet(job'[j].got) : LineOf(b, x)'
      BY <2>1, <2>2, LineOfKept DEF LinesInv
    <3>2. \A c \in Ids : j \in Live(c)' => c = b
      BY <2>1 DEF Live, Runs
    <3>3. QED
      BY <2>2, <3>1, <3>2
  <2>3. "failed" \notin Handling
    BY DEF Handling, Taking
  <2>4. QED
    BY <1>4, <2>1, <2>2, <2>3
<1>12. CASE Drop(j)
  <2>1. /\ job[j].pc = "drop" /\ job'[j].pc = "work" /\ job'[j].got = job[j].got
        /\ job'[j].bot = b
    BY <1>0, <1>12, DropDoes
  <2>2. \A c \in Ids : j \in Live(c)' => j \in Live(c)
    BY <1>0, <2>1 DEF Live, Runs
  <2>3. \A c \in Ids : j \in Live(c)' => \A x \in ToSet(job'[j].got) : LineOf(c, x)'
    BY <2>1, <2>2, LineOfKept DEF LinesInv
  <2>4. QED
    BY <2>1, <2>3 DEF Taking
<1>13. CASE Work(j)
  BY <1>0, <1>3, <1>13, WorkDoes
<1>14. QED
  BY <1>5, <1>6, <1>7, <1>8, <1>9, <1>10, <1>11, <1>12, <1>13, SomeStep

\* A run shows what it has taken once: it is past its work when it has.
LEMMA ShownKept ==
    ASSUME TypeInv, LinesInv, FilesInv, NEW j \in Jobs, Step(j)
    PROVE  \A i \in DOMAIN shown' : /\ shown'[i].by \in arrived'
                                    /\ job'[shown'[i].run].pc \in {"append", "done", "dead"}
<1>0. PICK b : b = job[j].bot
  OBVIOUS
<1>f. PICK f : f = job[j].file
  OBVIOUS
<1>1. /\ arrived \subseteq arrived' /\ job[j].pc \notin {"done", "failed", "dead"}
      /\ \A k \in Jobs \ {j} : job'[k] = job[k]
  BY Monotone, OneJob
<1>2. /\ \A i \in DOMAIN shown : /\ shown[i].by \in arrived /\ shown[i].run \in Jobs
                                 /\ job[shown[i].run].pc \in {"append", "done", "dead"}
  <2>1. shown \in Seq([by : Jobs, run : Jobs])
    BY DEF TypeInv, StateTyped
  <2>2. \A i \in DOMAIN shown : shown[i] \in [by : Jobs, run : Jobs]
    <3> DEFINE R == [by : Jobs, run : Jobs]
    <3>1. shown \in Seq(R)
      BY <2>1
    <3> HIDE DEF R
    <3>2. \A i \in DOMAIN shown : shown[i] \in R
      BY <3>1
    <3>3. QED
      BY <3>2 DEF R
  <2>3. \A i \in DOMAIN shown : shown[i].run \in Jobs
    BY <2>2
  <2>4. QED
    BY <2>3 DEF LinesInv
<1>3. job[j].pc = "append" => job'[j].pc \in {"done", "dead"}
  BY <1>0, <1>f, ElsewhereDoes, OpenDoes, WriteDoes, RecoverDoes, MergeDoes, DropTakenDoes,
     DrainDoes, TakeDoes, ReadDoes, DropDoes, WorkDoes, RemoveDoes, SomeStep
<1>4. \A i \in DOMAIN shown : /\ shown[i].by \in arrived'
                              /\ job'[shown[i].run].pc \in {"append", "done", "dead"}
  BY <1>1, <1>2, <1>3
<1>5. CASE shown' = shown
  BY <1>4, <1>5
<1>6. CASE Work(j)
  <2>1. /\ shown' = shown \o Given2Run(j) /\ job[j].pc = "work" /\ b \in Ids
        /\ job'[j].pc = "append"
    BY <1>0, <1>6, WorkDoes
  <2>2. j \in Live(b)
    BY <1>0, <2>1 DEF Live, Runs
  <2>3. \A p \in DOMAIN job[j].got : job[j].got[p].by \in arrived
    <3>1. \A p \in DOMAIN job[j].got : job[j].got[p] \in ToSet(job[j].got)
      BY DEF ToSet
    <3>2. \A x \in ToSet(job[j].got) : x.by \in arrived
      BY <2>1, <2>2 DEF LinesInv, LineOf
    <3>3. QED
      BY <3>1, <3>2
  <2>4. \A i \in DOMAIN shown' :
           \/ i \in DOMAIN shown /\ shown'[i] = shown[i]
           \/ shown'[i].run = j /\ \E p \in DOMAIN job[j].got : shown'[i].by = job[j].got[p].by
    <3>1. /\ \A i \in DOMAIN shown : i \in DOMAIN shown' /\ shown'[i] = shown[i]
          /\ \A i \in DOMAIN shown' :
                 \/ i \in DOMAIN shown
                 \/ /\ i > Len(shown) /\ i \in Nat /\ i - Len(shown) \in DOMAIN job[j].got
                    /\ shown'[i].by = job[j].got[i - Len(shown)].by /\ shown'[i].run = j
      BY <2>1, ShownGrows
    <3>2. QED
      BY <3>1
  <2>5. QED
    BY <1>1, <1>4, <2>1, <2>3, <2>4
<1>7. shown' = shown \/ Work(j)
  BY <1>0, <1>f, ElsewhereDoes, OpenDoes, WriteDoes, RecoverDoes, MergeDoes, DropTakenDoes,
     DrainDoes, TakeDoes, ReadDoes, DropDoes, RemoveDoes, SomeStep
<1>8. QED
  BY <1>5, <1>6, <1>7

LEMMA LinesKept ==
    ASSUME TypeInv, LinesInv, FilesInv, NEW j \in Jobs, Step(j)
    PROVE  LinesInv'
BY SenderDone, WrittenKept, HeldKept, ShownKept DEF LinesInv


\* The names of files move from the inbox to the drained file of one Bot; a new name
\* is given to a new file.
LEMMA NamesMove ==
    ASSUME TypeInv, LinesInv, FilesInv, NEW j \in Jobs, Step(j), NEW b, b = job[j].bot
    PROVE  \E new : /\ new = None \/ (new \in Files /\ file[new] = None)
                    /\ \A c \in Ids : {inbox'[c], taken'[c]} \subseteq
                          {inbox[c], taken[c], None} \cup (IF c = b THEN {new} ELSE {})
<1>f. PICK f : f = job[j].file
  OBVIOUS
<1>1. CASE UNCHANGED <<inbox, taken>>
  BY <1>1
<1>2. CASE Elsewhere(j) \/ Recover(j) \/ Read(j) \/ Work(j) \/ SendWrite(j)
  BY <1>1, <1>2, <1>f, ElsewhereDoes, RecoverDoes, ReadDoes, WorkDoes, WriteDoes
<1>3. CASE DropTaken(j) \/ Drain(j) \/ Take(j) \/ Drop(j) \/ RemoveDir(j)
  <2>1. \A c \in Ids : inbox'[c] \in {inbox[c], None} /\ taken'[c] \in {taken[c], inbox[c], None}
    <3>1. CASE DropTaken(j)
      BY <3>1, DropTakenDoes
    <3>2. CASE Drain(j)
      BY <3>2, DrainDoes
    <3>3. CASE Take(j)
      BY <3>3, TakeDoes
    <3>4. CASE Drop(j)
      BY <3>4, DropDoes
    <3>5. CASE RemoveDir(j)
      BY <3>5, RemoveDoes
    <3>6. QED
      BY <1>3, <3>1, <3>2, <3>3, <3>4, <3>5
  <2>2. QED
    BY <2>1
<1>4. CASE SendOpen(j) \/ Merge(j)
  <2>1. /\ taken' = taken /\ b \in Ids
        /\ \A c \in Ids : \/ inbox'[c] = inbox[c]
                          \/ c = b /\ file[inbox'[c]] = None /\ inbox'[c] \in Files
    BY <1>4, OpenDoes, MergeDoes
  <2>2. PICK new : /\ new = None \/ (new \in Files /\ file[new] = None)
                   /\ inbox'[b] = inbox[b] \/ inbox'[b] = new
    BY <2>1
  <2>3. \A c \in Ids : {inbox'[c], taken'[c]} \subseteq
                          {inbox[c], taken[c], None} \cup (IF c = b THEN {new} ELSE {})
    BY <2>1, <2>2
  <2>4. QED
    BY <2>2, <2>3
<1>5. QED
  BY <1>2, <1>3, <1>4, SomeStep

LEMMA FilesKept ==
    ASSUME TypeInv, LinesInv, FilesInv, NEW j \in Jobs, Step(j)
    PROVE  FilesInv'
<1>0. PICK b : b = job[j].bot
  OBVIOUS
<1>f. PICK f : f = job[j].file
  OBVIOUS
<1>b. \A k \in Jobs \ {j} : job'[k] = job[k]
  BY OneJob
<1>1. PICK new : /\ new = None \/ (new \in Files /\ file[new] = None)
                 /\ \A c \in Ids : {inbox'[c], taken'[c]} \subseteq
                       {inbox[c], taken[c], None} \cup (IF c = b THEN {new} ELSE {})
  BY <1>0, NamesMove
<1>2. \A c \in Ids : /\ inbox[c] = new => new = None
                     /\ taken[c] = new => new = None
  BY <1>1 DEF TypeInv, StateTyped, Linked
<1>3. \A c, d \in Ids : c # d => {inbox'[c], taken'[c]} \cap {inbox'[d], taken'[d]} \subseteq {None}
  <2>1. SUFFICES ASSUME NEW c \in Ids, NEW d \in Ids, c # d
                 PROVE  {inbox'[c], taken'[c]} \cap {inbox'[d], taken'[d]} \subseteq {None}
    OBVIOUS
  <2>2. {inbox[c], taken[c]} \cap {inbox[d], taken[d]} \subseteq {None}
    BY <2>1 DEF FilesInv
  <2>3. /\ {inbox'[c], taken'[c]} \subseteq {inbox[c], taken[c], None, new}
        /\ {inbox'[d], taken'[d]} \subseteq {inbox[d], taken[d], None, new}
        /\ \/ {inbox'[c], taken'[c]} \subseteq {inbox[c], taken[c], None}
           \/ {inbox'[d], taken'[d]} \subseteq {inbox[d], taken[d], None}
    BY <1>1, <2>1
  <2>4. QED
    BY <1>2, <2>2, <2>3
<1>4. ASSUME NEW k \in Jobs, k # j, NEW c \in Ids, job'[k].pc = "write",
             job'[k].file \in {inbox'[c], taken'[c]}
      PROVE  job'[k].bot = c
  <2>1. job[k].pc = "write" /\ job'[k] = job[k]
    BY <1>b, <1>4
  <2>2. job[k].file \in Files /\ file[job[k].file] # None
    BY <2>1 DEF TypeInv, Fits
  <2>3. job[k].file # None /\ job[k].file # new
    BY <1>1, <2>2, FilesAre
  <2>4. job[k].file \in {inbox[c], taken[c]}
    BY <1>1, <1>4, <2>1, <2>3
  <2>5. QED
    BY <2>1, <2>4 DEF FilesInv
<1>5. ASSUME NEW c \in Ids, job'[j].pc = "write", job'[j].file \in {inbox'[c], taken'[c]}
      PROVE  job'[j].bot = c
  <2>1. SendOpen(j)
    BY <1>0, <1>f, <1>5, ElsewhereDoes, WriteDoes, RecoverDoes, MergeDoes, DropTakenDoes, DrainDoes,
       TakeDoes, ReadDoes, DropDoes, WorkDoes, RemoveDoes, SomeStep DEF Handling
  <2>2. job'[j].bot = b /\ job'[j].file = inbox'[b] /\ inbox'[b] # None /\ b \in Ids
    BY <1>0, <1>5, <2>1, OpenDoes
  <2>3. QED
    BY <1>3, <1>5, <2>2
<1>6. \A k \in Jobs : \A c \in Ids :
          job'[k].pc = "write" /\ job'[k].file \in {inbox'[c], taken'[c]} => job'[k].bot = c
  BY <1>4, <1>5
<1>7. QED
  BY <1>3, <1>6 DEF FilesInv

\* A second run of a Bot that starts while one takes the inbox is noted.
LEMMA AloneKept ==
    ASSUME TypeInv, LinesInv, FilesInv, Alone, NEW j \in Jobs, Step(j)
    PROVE  Alone'
<1>0. PICK b : b = job[j].bot
  OBVIOUS
<1>f. PICK f : f = job[j].file
  OBVIOUS
<1>b. /\ \A k \in Jobs \ {j} : job'[k] = job[k]
      /\ crowded \subseteq crowded'
  BY OneJob, Monotone
<1>1. SUFFICES ASSUME NEW c \in Ids, c \notin crowded', NEW k \in Jobs, k # j,
                      k \in Runs(c, Taking), j \in Runs(c, Taking)'
               PROVE  FALSE
  <2>1. \A c \in Ids : \A k \in Jobs \ {j} : k \in Runs(c, Taking)' => k \in Runs(c, Taking)
    BY <1>b DEF Runs
  <2>2. \A c \in Ids : \A k \in Runs(c, Taking)' : k \in Jobs
    BY DEF Runs
  <2>3. SUFFICES ASSUME NEW c \in Ids, c \notin crowded', NEW k1 \in Runs(c, Taking)',
                        NEW k2 \in Runs(c, Taking)', k1 # k2
                 PROVE  FALSE
    BY DEF Alone
  <2>4. k1 \in Jobs /\ k2 \in Jobs /\ c \notin crowded
    BY <1>b, <2>2, <2>3
  <2>5. CASE k1 # j /\ k2 # j
    <3>1. k1 \in Runs(c, Taking) /\ k2 \in Runs(c, Taking)
      BY <2>1, <2>3, <2>4, <2>5
    <3>2. QED
      BY <2>3, <2>4, <3>1 DEF Alone
  <2>6. CASE k1 = j
    BY <1>1, <2>1, <2>3, <2>4, <2>6
  <2>7. CASE k2 = j
    BY <1>1, <2>1, <2>3, <2>4, <2>7
  <2>8. QED
    BY <2>5, <2>6, <2>7
<1>2. CASE j \in Runs(c, Taking)
  BY <1>1, <1>2, <1>b DEF Alone
<1>3. CASE j \notin Runs(c, Taking)
  <2>1. ~(job[j].bot = c /\ job[j].pc \in Taking) /\ job'[j].bot = c /\ job'[j].pc \in Taking
    BY <1>1, <1>3 DEF Runs
  <2>2. Resolve(j)
    <3>1. CASE Elsewhere(j)
      BY <2>1, <3>1, ElsewhereDoes
    <3>2. CASE SendOpen(j) \/ SendWrite(j) \/ RemoveDir(j) \/ Work(j)
      <4>1. job'[j].pc \in {"write", "failed", "done", "append"}
        BY <1>0, <1>f, <3>2, OpenDoes, WriteDoes, RemoveDoes, WorkDoes
      <4>2. QED
        BY <2>1, <4>1 DEF Taking
    <3>3. CASE \/ Recover(j) \/ Merge(j) \/ DropTaken(j) \/ Drain(j) \/ Take(j) \/ Read(j)
               \/ Drop(j)
      <4>1. job'[j].bot = b /\ job[j].pc \in Taking
        BY <1>0, <3>3, RecoverDoes, MergeDoes, DropTakenDoes, DrainDoes, TakeDoes, ReadDoes, DropDoes
           DEF Taking
      <4>2. QED
        BY <1>0, <2>1, <4>1
    <3>4. QED
      BY <3>1, <3>2, <3>3, SomeStep
  <2>3. PICK n : /\ NoteCrowd(j, n) /\ n = TheHit(Job[j].bot)
                 /\ job' = [job EXCEPT ![j].pc = FirstSection(j), ![j].bot = n,
                                       ![j].prof = profile[n]]
                 /\ Job[j].op \in OnBot
    BY <2>2 DEF Resolve
  <2>4. job'[j].bot = n /\ job'[j].pc = FirstSection(j)
    BY <2>3, JobsTyped DEF JobState
  <2>5. Job[j].op = "run"
    BY <2>1, <2>3, <2>4, FirstSectionFits
  <2>6. k \in Jobs /\ job[k].bot = n /\ job[k].pc \in Taking
    BY <1>1, <2>1, <2>4 DEF Runs
  <2>7. n \in crowded'
    BY <2>3, <2>5, <2>6 DEF NoteCrowd
  <2>8. QED
    BY <1>1, <2>1, <2>4, <2>7
<1>4. QED
  BY <1>2, <1>3

-----------------------------------------------------------------------------
(***************************************************************************)
(* No handoff is lost.                                                     *)
(***************************************************************************)

\* Who wrote what waits for a Bot, or is held for it, wrote it to that Bot.
LEMMA WritersArrived ==
    ASSUME TypeInv, LinesInv, NEW c \in Ids
    PROVE  /\ \A s \in By(In(c)) \cup By(Out(c)) : s \in arrived /\ job[s].bot = c
           /\ \A k \in Live(c) : \A s \in By(job[k].got) : s \in arrived /\ job[s].bot = c
<1>1. \A x \in ToSet(In(c)) \cup ToSet(Out(c)) : x.by \in arrived /\ job[x.by].bot = c
  BY DEF LinesInv, LineOf
<1>2. \A k \in Live(c) : \A x \in ToSet(job[k].got) : x.by \in arrived /\ job[x.by].bot = c
  BY DEF LinesInv, LineOf
<1>3. QED
  BY <1>1, <1>2 DEF By, Senders

LEMMA ByMore ==
    ASSUME NEW s \in Seq(Line), NEW y \in Line
    PROVE  By(s \o <<y>>) = By(s) \cup {y.by}
<1>1. ToSet(s \o <<y>>) = ToSet(s) \cup {y}
  BY OneMore
<1>2. QED
  BY <1>1 DEF By, Senders

LEMMA TwinKept ==
    ASSUME TypeInv, LinesInv, FilesInv, NEW j \in Jobs, Step(j), NEW s \in arrived, HasATwin(s)
    PROVE  HasATwin(s)'
BY Monotone DEF HasATwin

\* The step has nothing to do with the inbox of c: a command that comes to it has not
\* taken anything, and a line it will add goes to a new file.
Aside(c) ==
    /\ In(c)' = In(c) /\ Out(c)' = Out(c) /\ taken'[c] = taken[c]
    /\ \A k \in Jobs : (job'[k].bot = c /\ job'[k].pc \in Handling) =>
          \/ job'[k] = job[k]
          \/ job'[k].pc \in {"recover", "work"} /\ job'[k].got = <<>>
          \/ job'[k].pc = "write" /\ job'[k].file # taken[c]
    /\ \A i \in DOMAIN shown : i \in DOMAIN shown' /\ shown'[i] = shown[i]
    /\ \A i \in DOMAIN shown' :
          i \in DOMAIN shown \/ (job'[shown'[i].by].bot # c /\ job[shown'[i].run].pc = "work")

LEMMA ShownAside ==
    ASSUME TypeInv, LinesInv, FilesInv, NEW j \in Jobs, Work(j), Step(j),
           NEW b, b = job[j].bot, NEW c \in Ids, c # b
    PROVE  /\ \A i \in DOMAIN shown : i \in DOMAIN shown' /\ shown'[i] = shown[i]
           /\ \A i \in DOMAIN shown' :
                 i \in DOMAIN shown \/ (job'[shown'[i].by].bot # c /\ job[shown'[i].run].pc = "work")
<1>1. shown' = shown \o Given2Run(j) /\ job[j].pc = "work" /\ b \in Ids
  BY WorkDoes
<1>2. j \in Live(b)
  BY <1>1 DEF Live, Runs
<1>3. \A s \in By(job[j].got) : s \in arrived /\ job[s].bot = b
  BY <1>1, <1>2, WritersArrived
<1>4. \A s \in By(job[j].got) : job'[s].bot = b
  BY <1>3, Monotone
<1>5. \A p \in DOMAIN job[j].got : job[j].got[p].by \in By(job[j].got)
  BY JobsTyped, ByAt
<1>6. \A i \in DOMAIN shown : i \in DOMAIN shown' /\ shown'[i] = shown[i]
  BY <1>1, ShownGrows
<1>7. \A i \in DOMAIN shown' :
         \/ i \in DOMAIN shown
         \/ /\ \E p \in DOMAIN job[j].got : shown'[i].by = job[j].got[p].by
            /\ shown'[i].run = j
  <2>1. \A i \in DOMAIN shown' :
           \/ i \in DOMAIN shown
           \/ /\ i > Len(shown) /\ i \in Nat /\ i - Len(shown) \in DOMAIN job[j].got
              /\ shown'[i].by = job[j].got[i - Len(shown)].by /\ shown'[i].run = j
    BY <1>1, ShownGrows
  <2>2. QED
    BY <2>1
<1>8. QED
  BY <1>1, <1>4, <1>5, <1>6, <1>7

LEMMA AsideSteps ==
    ASSUME TypeInv, LinesInv, FilesInv, NEW j \in Jobs, Step(j), NEW b, b = job[j].bot,
           NEW c \in Ids, Elsewhere(j) \/ SendOpen(j) \/ c # b
    PROVE  Aside(c)
<1>f. PICK f : f = job[j].file
  OBVIOUS
<1>b. \A k \in Jobs \ {j} : job'[k] = job[k]
  BY OneJob
<1>1. CASE Elsewhere(j)
  <2>1. In(c)' = In(c) /\ Out(c)' = Out(c) /\ taken' = taken /\ shown' = shown
    BY <1>1, ElsewhereDoes DEF In, Out, Holding
  <2>2. job'[j].pc \in Handling => job'[j].pc \in {"recover", "work"} /\ job'[j].got = <<>>
    BY <1>1, ElsewhereDoes
  <2>3. QED
    BY <1>b, <2>1, <2>2 DEF Aside
<1>2. CASE SendOpen(j)
  <2>1. In(c)' = In(c) /\ Out(c)' = Out(c) /\ taken' = taken /\ shown' = shown
    BY <1>2, OpenDoes
  <2>2. /\ job'[j].bot = b
        /\ \/ job'[j].pc = "failed"
           \/ job'[j].pc = "write" /\ job'[j].file = inbox'[b] /\ inbox'[b] # taken[b]
    BY <1>2, OpenDoes
  <2>3. "failed" \notin Handling
    BY DEF Handling, Taking
  <2>4. QED
    BY <1>b, <2>1, <2>2, <2>3 DEF Aside
<1>3. CASE ~Elsewhere(j) /\ ~SendOpen(j)
  <2>0. c # b
    BY <1>3
  <2>1. /\ In(c)' = In(c) /\ Out(c)' = Out(c) /\ taken'[c] = taken[c]
        /\ job'[j].bot = b
    <3>1. CASE SendWrite(j)
      BY <1>f, <2>0, <3>1, WriteDoes
    <3>2. CASE Recover(j)
      BY <3>2, RecoverDoes
    <3>3. CASE Merge(j)
      BY <2>0, <3>3, MergeDoes
    <3>4. CASE DropTaken(j)
      BY <2>0, <3>4, DropTakenDoes
    <3>5. CASE Drain(j)
      BY <2>0, <3>5, DrainDoes
    <3>6. CASE Take(j)
      BY <2>0, <3>6, TakeDoes
    <3>7. CASE Read(j)
      BY <3>7, ReadDoes
    <3>8. CASE Drop(j)
      BY <2>0, <3>8, DropDoes
    <3>9. CASE Work(j)
      BY <3>9, WorkDoes
    <3>10. CASE RemoveDir(j)
      BY <2>0, <3>10, RemoveDoes
    <3>11. QED
      BY <1>3, <3>1, <3>2, <3>3, <3>4, <3>5, <3>6, <3>7, <3>8, <3>9, <3>10, SomeStep
  <2>2. \/ shown' = shown
        \/ Work(j)
    BY <1>f, <1>3, WriteDoes, RecoverDoes, MergeDoes, DropTakenDoes, DrainDoes, TakeDoes, ReadDoes,
       DropDoes, RemoveDoes, SomeStep
  <2>3. /\ \A i \in DOMAIN shown : i \in DOMAIN shown' /\ shown'[i] = shown[i]
        /\ \A i \in DOMAIN shown' :
              i \in DOMAIN shown \/ (job'[shown'[i].by].bot # c /\ job[shown'[i].run].pc = "work")
    <3>1. CASE shown' = shown
      BY <3>1
    <3>2. CASE Work(j)
      BY <2>0, <3>2, ShownAside
    <3>3. QED
      BY <2>2, <3>1, <3>2
  <2>4. QED
    BY <1>b, <2>0, <2>1, <2>3 DEF Aside
<1>4. QED
  BY <1>1, <1>2, <1>3

LEMMA AsideKeeps ==
    ASSUME TypeInv, LinesInv, FilesInv, NEW j \in Jobs, Step(j), NEW c \in Ids, Aside(c), KeptAt(c)
    PROVE  KeptAt(c)'
<1>1. \A k \in Jobs : (job'[k].bot = c /\ job'[k].pc \in Taking \ {"recover"}) => job'[k] = job[k]
  BY DEF Aside, Handling, Taking
<1>2. In(c)' = In(c) /\ Out(c)' = Out(c) /\ taken'[c] = taken[c] /\ raced \subseteq raced'
  BY Monotone DEF Aside
<1>3. \A s \in By(Out(c)) : HasATwin(s) => HasATwin(s)'
  BY WritersArrived, TwinKept
<1>4. \A k \in Runs(c, {"merge"})' : k \in Runs(c, {"merge"}) /\ job'[k] = job[k]
  BY <1>1 DEF Runs, Taking
<1>5. \A k \in Runs(c, {"drop"})' : k \in Runs(c, {"drop"}) /\ job'[k] = job[k]
  BY <1>1 DEF Runs, Taking
<1>6. Runs(c, {"dropTaken"})' # {} => Runs(c, {"dropTaken"}) # {}
  BY <1>1 DEF Runs, Taking
<1>7. Runs(c, {"drain", "take"})' # {} => Runs(c, {"drain", "take"}) # {}
  BY <1>1 DEF Runs, Taking
<1>8. By(In(c))' = By(In(c)) /\ By(Out(c))' = By(Out(c))
  BY <1>2 DEF By, Senders, ToSet
<1>9. \A k \in Runs(c, {"merge"})' : \A s \in By(In(c))' \cup By(Out(c))' :
          s \in raced' \/ s \in By(job'[k].got)
  BY <1>2, <1>4, <1>8 DEF KeptAt
<1>10. Runs(c, {"dropTaken"})' # {} => \A s \in By(Out(c))' :
          s \in raced' \/ s \in By(In(c))' \/ HasATwin(s)'
  BY <1>2, <1>3, <1>6, <1>8 DEF KeptAt
<1>11. Runs(c, {"drain", "take"})' # {} => taken'[c] = None
  BY <1>2, <1>7 DEF KeptAt
<1>12. \A k \in Runs(c, {"drop"})' : \A s \in By(Out(c))' : s \in raced' \/ s \in By(job'[k].got)
  BY <1>2, <1>5, <1>8 DEF KeptAt
<1>13. QED
  BY <1>9, <1>10, <1>11, <1>12 DEF KeptAt, By, Senders, ToSet

LEMMA OnlyTaker ==
    ASSUME TypeInv, Alone, NEW j \in Jobs, Step(j), NEW b \in Ids, b = job[j].bot,
           b \notin crowded, job[j].pc \in Taking
    PROVE  /\ \A k \in Jobs : job[k].bot = b /\ job[k].pc \in Taking => k = j
           /\ \A k \in Jobs : job'[k].bot = b /\ job'[k].pc \in Taking => k = j
<1>1. \A k \in Jobs : job[k].bot = b /\ job[k].pc \in Taking => k = j
  BY DEF Alone, Runs
<1>2. \A k \in Jobs \ {j} : job'[k] = job[k]
  BY OneJob
<1>3. QED
  BY <1>1, <1>2

\* The merge of a drained file that is there already leaves out what is in the inbox,
\* or says the same as something that is.
LEMMA MergedOrTwin ==
    ASSUME TypeInv, LinesInv, NEW c \in Ids, AlreadyMerged(Out(c), In(c)), NEW s \in By(Out(c))
    PROVE  s \in By(In(c)) \/ HasATwin(s)
<1>1. In(c) \in Seq(Line) /\ Out(c) \in Seq(Line)
  BY BoxesTyped
<1>2. PICK p \in DOMAIN Out(c) : Out(c)[p].by = s
  BY <1>1, ByAt
<1>3. /\ p \in DOMAIN In(c) /\ Out(c)[p].from = In(c)[p].from
      /\ Out(c)[p].text = In(c)[p].text
  BY <1>1, <1>2, MergedSame
<1>4. PICK k : k = In(c)[p].by
  OBVIOUS
<1>5. LineOf(c, Out(c)[p]) /\ LineOf(c, In(c)[p])
  BY <1>2, <1>3 DEF LinesInv, ToSet
<1>6. /\ k \in arrived /\ job[k].bot = job[s].bot
      /\ Job[k].from = Job[s].from /\ Job[k].text = Job[s].text
  BY <1>2, <1>3, <1>4, <1>5 DEF LineOf
<1>7. k \in By(In(c))
  BY <1>1, <1>3, <1>4, ByAt
<1>8. QED
  BY <1>6, <1>7 DEF HasATwin

\* A line that is written while a run takes the inbox is noted, unless the run still
\* comes to it.
LEMMA WriteKeeps ==
    ASSUME TypeInv, LinesInv, FilesInv, NEW j \in Jobs, SendWrite(j), Step(j),
           NEW b, b = job[j].bot, KeptAt(b)
    PROVE  KeptAt(b)'
<1>f. PICK f : f = job[j].file
  OBVIOUS
<1>0. /\ b \in Ids /\ job'[j].pc = "done" /\ UNCHANGED <<inbox, taken>>
      /\ raced' = (IF Missed(b, f) THEN raced \cup {j} ELSE raced)
  BY <1>f, WriteDoes
<1>1. /\ \A k \in Jobs \ {j} : job'[k] = job[k]
      /\ raced \subseteq raced'
  BY OneJob, Monotone
<1>2. PICK x \in Line : Adds(j, b, f, x)
  BY <1>f, WriteDoes
<1>3. /\ In(b) \in Seq(Line) /\ Out(b) \in Seq(Line) /\ x.by = j
  BY <1>0, <1>2, BoxesTyped DEF Adds
<1>4. /\ By(In(b) \o <<x>>) = By(In(b)) \cup {j}
      /\ By(Out(b) \o <<x>>) = By(Out(b)) \cup {j}
  BY <1>3, ByMore
<1>5. /\ By(In(b)) \subseteq By(In(b)') /\ By(In(b)') \subseteq By(In(b)) \cup {j}
      /\ By(Out(b)') = By(Out(b)) \/ (By(Out(b)') = By(Out(b)) \cup {j} /\ f = taken[b])
  <2>1. /\ In(b)' = In(b) \/ In(b)' = In(b) \o <<x>>
        /\ Out(b)' = Out(b) \/ (Out(b)' = Out(b) \o <<x>> /\ f = taken[b])
    BY <1>2 DEF Adds
  <2>2. By(In(b)') = By(In(b)) \/ By(In(b)') = By(In(b) \o <<x>>)
    BY <2>1
  <2>3. By(Out(b)') = By(Out(b)) \/ (By(Out(b)') = By(Out(b) \o <<x>>) /\ f = taken[b])
    BY <2>1
  <2>4. QED
    BY <1>4, <2>2, <2>3
<1>6. \A s \in By(Out(b)) : HasATwin(s) => HasATwin(s)'
  BY <1>0, WritersArrived, TwinKept
<1>7. \A k \in Jobs : job'[k].bot = b /\ job'[k].pc \in Taking => k # j
  BY <1>0 DEF Taking
<1>8. \A k \in Runs(b, {"merge"})' : \A s \in By(In(b)') \cup By(Out(b)') :
          s \in raced' \/ s \in By(job'[k].got)
  <2>1. SUFFICES ASSUME NEW k \in Runs(b, {"merge"})', NEW s \in By(In(b)') \cup By(Out(b)')
                 PROVE  s \in raced' \/ s \in By(job'[k].got)
    OBVIOUS
  <2>2. k \in Runs(b, {"merge"}) /\ job'[k] = job[k]
    BY <1>1, <1>7, <2>1 DEF Runs, Taking
  <2>3. CASE s = j
    <3>1. Missed(b, f)
      BY <2>2 DEF Missed, On, Runs
    <3>2. QED
      BY <1>0, <2>3, <3>1
  <2>4. CASE s # j
    BY <1>1, <1>5, <2>1, <2>2, <2>4 DEF KeptAt
  <2>5. QED
    BY <2>3, <2>4
<1>9. Runs(b, {"dropTaken"})' # {} => \A s \in By(Out(b)') :
          s \in raced' \/ s \in By(In(b)') \/ HasATwin(s)'
  <2>1. SUFFICES ASSUME NEW k \in Runs(b, {"dropTaken"})', NEW s \in By(Out(b)')
                 PROVE  s \in raced' \/ s \in By(In(b)') \/ HasATwin(s)'
    OBVIOUS
  <2>2. k \in Runs(b, {"dropTaken"})
    BY <1>1, <1>7, <2>1 DEF Runs, Taking
  <2>3. CASE s \notin By(Out(b))
    <3>1. s = j /\ f = taken[b]
      BY <1>5, <2>1, <2>3
    <3>2. Missed(b, f)
      BY <2>2, <3>1 DEF Missed, On, Runs
    <3>3. QED
      BY <1>0, <3>1, <3>2
  <2>4. CASE s \in By(Out(b))
    <3>1. s \in raced \/ s \in By(In(b)) \/ HasATwin(s)
      BY <2>2, <2>4 DEF KeptAt
    <3>2. QED
      BY <1>1, <1>5, <1>6, <2>4, <3>1
  <2>5. QED
    BY <2>3, <2>4
<1>10. Runs(b, {"drain", "take"})' # {} => taken'[b] = None
  <2>1. Runs(b, {"drain", "take"})' # {} => Runs(b, {"drain", "take"}) # {}
    BY <1>1, <1>7 DEF Runs, Taking
  <2>2. QED
    BY <1>0, <2>1 DEF KeptAt
<1>11. \A k \in Runs(b, {"drop"})' : \A s \in By(Out(b)') : s \in raced' \/ s \in By(job'[k].got)
  <2>1. SUFFICES ASSUME NEW k \in Runs(b, {"drop"})', NEW s \in By(Out(b)')
                 PROVE  s \in raced' \/ s \in By(job'[k].got)
    OBVIOUS
  <2>2. k \in Runs(b, {"drop"}) /\ job'[k] = job[k]
    BY <1>1, <1>7, <2>1 DEF Runs, Taking
  <2>3. CASE s \notin By(Out(b))
    <3>1. s = j /\ f = taken[b]
      BY <1>5, <2>1, <2>3
    <3>2. Missed(b, f)
      BY <2>2, <3>1 DEF Missed, On, Runs
    <3>3. QED
      BY <1>0, <3>1, <3>2
  <2>4. CASE s \in By(Out(b))
    BY <1>1, <2>2, <2>4 DEF KeptAt
  <2>5. QED
    BY <2>3, <2>4
<1>12. QED
  BY <1>8, <1>9, <1>10, <1>11 DEF KeptAt, By, Senders, ToSet

\* The steps of the run that takes the inbox.
LEMMA TakerKeeps ==
    ASSUME TypeInv, LinesInv, FilesInv, Alone, NEW j \in Jobs, Step(j), NEW b, b = job[j].bot,
           b \notin crowded, KeptAt(b),
           \/ Recover(j) \/ Merge(j) \/ DropTaken(j) \/ Drain(j) \/ Take(j) \/ Read(j)
           \/ Drop(j) \/ Work(j)
    PROVE  KeptAt(b)'
<1>1. \A k \in Jobs \ {j} : job'[k] = job[k]
  BY OneJob
<1>2. /\ b \in Ids /\ job'[j].bot = b /\ job[j].pc \in Taking \cup {"work"}
      /\ raced' = raced /\ arrived' = arrived
  BY RecoverDoes, MergeDoes, DropTakenDoes, DrainDoes, TakeDoes, ReadDoes, DropDoes,
     WorkDoes DEF Unnoted, Taking
<1>3. /\ In(b) \in Seq(Line) /\ Out(b) \in Seq(Line)
      /\ taken[b] = None => Out(b) = <<>>
  BY <1>2, BoxesTyped
<1>4. By(<<>>) = {}
  BY ByNone
<1>5. \A s \in By(Out(b)) : HasATwin(s) => HasATwin(s)'
  BY <1>2, WritersArrived, TwinKept
<1>6. CASE Work(j)
  <2>2. In(b)' = In(b) /\ Out(b)' = Out(b) /\ taken' = taken /\ job'[j].pc = "append"
    BY <1>2, <1>6, WorkDoes
  <2>3. \A k \in Jobs : (job'[k].bot = b /\ job'[k].pc \in Taking) => job'[k] = job[k]
    BY <1>1, <2>2 DEF Taking
  <2>4. /\ \A k \in Runs(b, {"merge"})' : k \in Runs(b, {"merge"}) /\ job'[k] = job[k]
        /\ \A k \in Runs(b, {"drop"})' : k \in Runs(b, {"drop"}) /\ job'[k] = job[k]
        /\ Runs(b, {"dropTaken"})' # {} => Runs(b, {"dropTaken"}) # {}
        /\ Runs(b, {"drain", "take"})' # {} => Runs(b, {"drain", "take"}) # {}
    BY <2>3 DEF Runs, Taking
  <2>5. /\ \A k \in Runs(b, {"merge"})' : \A s \in By(In(b)') \cup By(Out(b)') :
              s \in raced' \/ s \in By(job'[k].got)
        /\ \A k \in Runs(b, {"drop"})' : \A s \in By(Out(b)') : s \in raced' \/ s \in By(job'[k].got)
    BY <1>2, <2>2, <2>4 DEF KeptAt
  <2>6. /\ Runs(b, {"dropTaken"})' # {} => \A s \in By(Out(b)') :
              s \in raced' \/ s \in By(In(b)') \/ HasATwin(s)'
        /\ Runs(b, {"drain", "take"})' # {} => taken'[b] = None
    BY <1>2, <1>5, <2>2, <2>4 DEF KeptAt
  <2>7. QED
    BY <2>5, <2>6 DEF KeptAt, By, Senders, ToSet
<1>7. CASE ~Work(j)
  <2>1. \A k \in Jobs : job'[k].bot = b /\ job'[k].pc \in Taking => k = j
    <3>1. job[j].pc \in Taking
      BY <1>7, RecoverDoes, MergeDoes, DropTakenDoes, DrainDoes, TakeDoes, ReadDoes, DropDoes
         DEF Taking
    <3>2. QED
      BY <1>2, <3>1, OnlyTaker
  <2>2. SUFFICES
          /\ job'[j].pc = "merge" => \A s \in By(In(b)') \cup By(Out(b)') :
                s \in raced' \/ s \in By(job'[j].got)
          /\ job'[j].pc = "dropTaken" => \A s \in By(Out(b)') :
                s \in raced' \/ s \in By(In(b)') \/ HasATwin(s)'
          /\ job'[j].pc \in {"drain", "take"} => taken'[b] = None
          /\ job'[j].pc = "drop" => \A s \in By(Out(b)') : s \in raced' \/ s \in By(job'[j].got)
    <3>1. /\ \A k \in Runs(b, {"merge"})' : k = j /\ job'[j].pc = "merge"
          /\ \A k \in Runs(b, {"dropTaken"})' : job'[j].pc = "dropTaken"
          /\ \A k \in Runs(b, {"drain", "take"})' : job'[j].pc \in {"drain", "take"}
          /\ \A k \in Runs(b, {"drop"})' : k = j /\ job'[j].pc = "drop"
      BY <2>1 DEF Runs, Taking
    <3>2. QED
      BY <2>2, <3>1 DEF KeptAt, By, Senders, ToSet
  <2>3. CASE Recover(j)
    <3>1. /\ In(b)' = In(b) /\ Out(b)' = Out(b) /\ taken' = taken
          /\ \/ job'[j].pc = "drain" /\ taken[b] = None
             \/ job'[j].pc = "dropTaken" /\ AlreadyMerged(Out(b), In(b))
             \/ job'[j].pc = "merge" /\ job'[j].got = Out(b) \o In(b)
      BY <1>2, <2>3, RecoverDoes
    <3>2. CASE job'[j].pc = "dropTaken" /\ AlreadyMerged(Out(b), In(b))
      <4>1. \A s \in By(Out(b)) : s \in By(In(b)) \/ HasATwin(s)
        BY <1>2, <3>2, MergedOrTwin
      <4>2. QED
        BY <1>5, <3>1, <3>2, <4>1
    <3>3. CASE job'[j].pc = "merge" /\ job'[j].got = Out(b) \o In(b)
      <4>1. By(Out(b) \o In(b)) = By(Out(b)) \cup By(In(b))
        BY <1>3, ByConcat
      <4>2. QED
        BY <3>1, <3>3, <4>1
    <3>4. QED
      BY <3>1, <3>2, <3>3
  <2>4. CASE Merge(j)
    <3>1. /\ Out(b)' = Out(b) /\ job[j].pc = "merge"
          /\ \/ job'[j].pc = "failed"
             \/ job'[j].pc = "dropTaken" /\ In(b)' = job[j].got
      BY <1>2, <2>4, MergeDoes
    <3>2. \A s \in By(Out(b)) : s \in raced \/ s \in By(job[j].got)
      BY <1>2, <3>1 DEF KeptAt, Runs
    <3>3. QED
      BY <1>2, <3>1, <3>2
  <2>5. CASE DropTaken(j)
    BY <1>2, <2>5, DropTakenDoes
  <2>6. CASE Drain(j)
    BY <1>2, <2>6, DrainDoes
  <2>7. CASE Take(j)
    BY <1>2, <2>7, TakeDoes
  <2>8. CASE Read(j)
    BY <1>2, <2>8, ReadDoes
  <2>9. CASE Drop(j)
    BY <1>2, <2>9, DropDoes
  <2>10. QED
    BY <1>7, <2>3, <2>4, <2>5, <2>6, <2>7, <2>8, <2>9
<1>8. QED
  BY <1>6, <1>7

\* What waits stays, or goes into the hands of the run that takes it.
LEMMA StillWaiting ==
    ASSUME TypeInv, LinesInv, FilesInv, NEW j \in Jobs, Step(j), NEW c \in Ids,
           c \notin crowded \cup gone, KeptAt(c), c \notin gone',
           NEW s \in By(In(c)) \cup By(Out(c)), ~HasATwin(s), s \notin raced
    PROVE  \/ s \in By(In(c)') \cup By(Out(c)')
           \/ job'[j].bot = c /\ job'[j].pc = "work" /\ s \in By(job'[j].got)
<1>0. PICK b : b = job[j].bot
  OBVIOUS
<1>1. CASE In(c)' = In(c) /\ Out(c)' = Out(c)
  BY <1>1
<1>2. CASE Elsewhere(j) \/ SendOpen(j) \/ c # b
  BY <1>0, <1>1, <1>2, AsideSteps DEF Aside
<1>3. CASE c = b /\ (Recover(j) \/ Read(j) \/ Work(j))
  BY <1>0, <1>1, <1>3, RecoverDoes, ReadDoes, WorkDoes
<1>4. CASE c = b /\ SendWrite(j)
  <2>1. PICK f : f = job[j].file
    OBVIOUS
  <2>2. PICK x \in Line : Adds(j, b, f, x)
    BY <1>0, <1>4, <2>1, WriteDoes
  <2>3. /\ In(b)' = In(b) \/ In(b)' = In(b) \o <<x>>
        /\ Out(b)' = Out(b) \/ Out(b)' = Out(b) \o <<x>>
    BY <2>2 DEF Adds
  <2>4. In(b) \in Seq(Line) /\ Out(b) \in Seq(Line)
    BY <1>4, BoxesTyped
  <2>5. /\ By(In(b)) \subseteq By(In(b) \o <<x>>)
        /\ By(Out(b)) \subseteq By(Out(b) \o <<x>>)
    BY <2>4, ByMore
  <2>6. By(In(b)) \subseteq By(In(b)') /\ By(Out(b)) \subseteq By(Out(b)')
    BY <2>3, <2>5
  <2>7. QED
    BY <1>4, <2>6
<1>5. CASE c = b /\ Merge(j)
  <2>1. /\ Out(b)' = Out(b) /\ job[j].pc = "merge"
        /\ In(b)' = In(b) \/ In(b)' = job[j].got
    BY <1>0, <1>5, MergeDoes
  <2>2. s \in By(job[j].got)
    BY <1>0, <1>5, <2>1 DEF KeptAt, Runs
  <2>3. QED
    BY <1>5, <2>1, <2>2
<1>6. CASE c = b /\ DropTaken(j)
  <2>1. In(b)' = In(b) /\ job[j].pc = "dropTaken"
    BY <1>0, <1>6, DropTakenDoes
  <2>2. s \in By(In(b))
    BY <1>0, <1>6, <2>1 DEF KeptAt, Runs
  <2>3. QED
    BY <1>6, <2>1, <2>2
<1>7. CASE c = b /\ (Drain(j) \/ Take(j))
  <2>1. job[j].pc \in {"drain", "take"}
    BY <1>0, <1>7, DrainDoes, TakeDoes
  <2>2. taken[b] = None
    BY <1>0, <1>7, <2>1 DEF KeptAt, Runs
  <2>3. Out(b) = <<>>
    BY <1>7, <2>2, BoxesTyped
  <2>4. s \in By(In(b))
    BY <1>7, <2>3, ByNone
  <2>5. In(b)' = In(b) \/ Out(b)' = In(b)
    BY <1>0, <1>7, DrainDoes, TakeDoes
  <2>6. QED
    BY <1>7, <2>4, <2>5
<1>8. CASE c = b /\ Drop(j)
  <2>1. /\ In(b)' = In(b) /\ job[j].pc = "drop" /\ job'[j].pc = "work" /\ job'[j].bot = b
        /\ job'[j].got = job[j].got
    BY <1>0, <1>8, DropDoes
  <2>2. s \in By(Out(b)) => s \in By(job[j].got)
    BY <1>0, <1>8, <2>1 DEF KeptAt, Runs
  <2>3. QED
    BY <1>8, <2>1, <2>2
<1>9. CASE c = b /\ RemoveDir(j)
  BY <1>0, <1>1, <1>9, RemoveDoes
<1>10. QED
  BY <1>2, <1>3, <1>4, <1>5, <1>6, <1>7, <1>8, <1>9, SomeStep

\* What a run has taken stays in its hands, until it has shown it.
LEMMA StillInHand ==
    ASSUME TypeInv, LinesInv, FilesInv, NEW j \in Jobs, Step(j), NEW c \in Ids,
           NEW k \in Jobs, job[k].bot = c, job[k].pc \in {"drop", "work", "dead"},
           NEW s \in By(job[k].got)
    PROVE  \/ /\ job'[k].bot = c /\ job'[k].pc \in {"drop", "work", "dead"}
              /\ s \in By(job'[k].got)
           \/ s \in ShownBy'
<1>0. PICK b : b = job[j].bot
  OBVIOUS
<1>1. CASE k # j
  BY <1>1, OneJob
<1>2. CASE k = j
  <2>1. job[j].pc \in {"drop", "work"}
    BY <1>2, Monotone
  <2>2. CASE Elsewhere(j)
    BY <1>2, <2>1, <2>2, ElsewhereDoes
  <2>3. CASE Drop(j)
    BY <1>2, <2>3, DropDoes
  <2>4. CASE Work(j)
    <3>1. shown' = shown \o Given2Run(j)
      BY <1>0, <2>4, WorkDoes
    <3>2. ShownBy' = ShownBy \cup By(job[j].got)
      BY <3>1, ShownGrows
    <3>3. QED
      BY <1>2, <3>2
  <2>5. ~(\/ SendOpen(j) \/ SendWrite(j) \/ Recover(j) \/ Merge(j) \/ DropTaken(j) \/ Drain(j)
          \/ Take(j) \/ Read(j) \/ RemoveDir(j))
    BY <2>1 DEF SendOpen, SendWrite, Recover, Merge, DropTaken, Drain, Take, Read, RemoveDir, At
  <2>6. QED
    BY <2>2, <2>3, <2>4, <2>5, SomeStep
<1>3. QED
  BY <1>1, <1>2

\* Where a handoff that is not excused may be.
Somewhere(s, b) ==
    \/ s \in ShownBy \/ s \in By(In(b)) \cup By(Out(b))
    \/ \E k \in Jobs : /\ job[k].bot = b /\ job[k].pc \in {"drop", "work", "dead"}
                       /\ s \in By(job[k].got)

AllSomewhere ==
    \A s \in arrived : \/ s \in raced \/ job[s].bot \in crowded \/ job[s].bot \in gone
                       \/ HasATwin(s) \/ Somewhere(s, job[s].bot)

LEMMA KeptIs == HandoffsKept <=> AllSomewhere
<1>1. \A s, b : (s \in ShownBy \/ s \in Senders(Waiting(b) \cup Hands(b))) <=> Somewhere(s, b)
  <2>1. SUFFICES ASSUME NEW s, NEW b
                 PROVE (s \in ShownBy \/ s \in Senders(Waiting(b) \cup Hands(b))) <=> Somewhere(s, b)
    OBVIOUS
  <2>2. s \in Senders(Waiting(b)) <=> s \in By(In(b)) \cup By(Out(b))
    BY DEF Waiting, By, In, Out, Senders
  <2>3. s \in Senders(Hands(b)) <=>
           \E k \in Jobs : /\ job[k].bot = b /\ job[k].pc \in {"drop", "work", "dead"}
                           /\ s \in By(job[k].got)
    BY DEF Hands, By, Senders
  <2>4. s \in Senders(Waiting(b) \cup Hands(b)) <=>
           s \in Senders(Waiting(b)) \/ s \in Senders(Hands(b))
    BY DEF Senders
  <2>5. QED
    BY <2>2, <2>3, <2>4 DEF Somewhere
<1>2. \A s \in arrived :
        LET b == job[s].bot IN
        (\/ s \in Senders(ToSet(shown)) \/ s \in Senders(Waiting(b) \cup Hands(b)))
        <=> Somewhere(s, b)
  BY <1>1 DEF ShownBy
<1>3. QED
  BY <1>2 DEF HandoffsKept, AllSomewhere

LEMMA NothingLost ==
    ASSUME TypeInv, LinesInv, FilesInv, KeptInv, NEW j \in Jobs, Step(j)
    PROVE  HandoffsKept'
<1>0. PICK b : b = job[j].bot
  OBVIOUS
<1>f. PICK f : f = job[j].file
  OBVIOUS
<1>1. SUFFICES ASSUME NEW s \in arrived', NEW c, c = job'[s].bot,
                      s \notin raced', c \notin crowded', c \notin gone', ~HasATwin(s)'
               PROVE  Somewhere(s, c)'
  <2>1. HandoffsKept' <=> AllSomewhere'
    BY KeptIs, PTL
  <2>2. \A s \in arrived' : Somewhere(s, job[s].bot)' <=> \E c : c = job'[s].bot /\ Somewhere(s, c)'
    BY DEF Somewhere
  <2>3. QED
    BY <1>1, <2>1, <2>2 DEF AllSomewhere
<1>2. CASE s \notin arrived
  <2>1. s = j /\ SendWrite(j)
    BY <1>1, <1>2, Monotone
  <2>2. /\ b \in Ids /\ job'[j].bot = b /\ UNCHANGED <<inbox, taken>>
        /\ raced' = (IF Missed(b, f) THEN raced \cup {j} ELSE raced)
    BY <1>0, <1>f, <2>1, WriteDoes
  <2>3. PICK x \in Line : Adds(j, b, f, x)
    BY <1>0, <1>f, <2>1, WriteDoes
  <2>4. f \in {inbox[b], taken[b]}
    BY <1>1, <2>1, <2>2 DEF Missed
  <2>5. In(b)' = In(b) \o <<x>> \/ Out(b)' = Out(b) \o <<x>>
    BY <2>3, <2>4 DEF Adds
  <2>6. j \in By(In(b) \o <<x>>) /\ j \in By(Out(b) \o <<x>>)
    <3>1. In(b) \in Seq(Line) /\ Out(b) \in Seq(Line) /\ x.by = j
      BY <2>2, <2>3, BoxesTyped DEF Adds
    <3>2. QED
      BY <2>3, <3>1, ByMore
  <2>7. j \in By(In(b)') \cup By(Out(b)')
    BY <2>5, <2>6
  <2>8. QED
    BY <1>1, <2>1, <2>2, <2>7 DEF Somewhere, By, Senders, ToSet
<1>3. CASE s \in arrived
  <2>1. /\ s \in Jobs /\ job'[s] = job[s] /\ c = job[s].bot /\ c \in Ids
        /\ s \notin raced /\ c \notin crowded \cup gone
    <3>1. job[s].bot \in Ids
      BY <1>3 DEF LinesInv
    <3>2. QED
      BY <1>1, <1>3, <3>1, Monotone
  <2>2. ~HasATwin(s)
    BY <1>1, <1>3, TwinKept
  <2>3. KeptAt(c) /\ HandoffsKept
    BY <2>1 DEF KeptInv
  <2>4. Somewhere(s, c)
    BY <1>3, <2>1, <2>2, <2>3, KeptIs DEF AllSomewhere
  <2>5. CASE s \in ShownBy
    <3>1. ShownBy \subseteq ShownBy'
      <4>1. CASE shown' = shown
        BY <4>1 DEF ShownBy
      <4>2. CASE Work(j)
        <5>1. shown' = shown \o Given2Run(j)
          BY <1>0, <4>2, WorkDoes
        <5>2. ShownBy' = ShownBy \cup By(job[j].got)
          BY <5>1, ShownGrows
        <5>3. QED
          BY <5>2
      <4>3. QED
        BY <1>0, <1>f, <4>1, <4>2, ElsewhereDoes, OpenDoes, WriteDoes, RecoverDoes, MergeDoes,
           DropTakenDoes, DrainDoes, TakeDoes, ReadDoes, DropDoes, RemoveDoes, SomeStep
    <3>2. QED
      BY <2>5, <3>1 DEF Somewhere
  <2>6. CASE s \in By(In(c)) \cup By(Out(c))
    <3>1. \/ s \in By(In(c)') \cup By(Out(c)')
          \/ job'[j].bot = c /\ job'[j].pc = "work" /\ s \in By(job'[j].got)
      BY <1>1, <2>1, <2>2, <2>3, <2>6, StillWaiting
    <3>2. QED
      BY <3>1 DEF Somewhere, By, Senders, ToSet
  <2>7. CASE \E k \in Jobs : /\ job[k].bot = c /\ job[k].pc \in {"drop", "work", "dead"}
                             /\ s \in By(job[k].got)
    <3>1. PICK k \in Jobs : /\ job[k].bot = c /\ job[k].pc \in {"drop", "work", "dead"}
                            /\ s \in By(job[k].got)
      BY <2>7
    <3>2. \/ /\ job'[k].bot = c /\ job'[k].pc \in {"drop", "work", "dead"}
             /\ s \in By(job'[k].got)
          \/ s \in ShownBy'
      BY <2>1, <3>1, StillInHand
    <3>3. QED
      BY <3>2 DEF Somewhere, By, Senders, ToSet
  <2>8. QED
    BY <2>4, <2>5, <2>6, <2>7 DEF Somewhere
<1>4. QED
  BY <1>2, <1>3

LEMMA KeptKept ==
    ASSUME TypeInv, LinesInv, FilesInv, Alone, KeptInv, NEW j \in Jobs, Step(j)
    PROVE  KeptInv'
<1>0. PICK b : b = job[j].bot
  OBVIOUS
<1>1. SUFFICES ASSUME NEW c \in Ids, c \notin crowded' \cup gone' PROVE KeptAt(c)'
  BY NothingLost DEF KeptInv
<1>2. KeptAt(c) /\ c \notin crowded
  BY <1>1, Monotone DEF KeptInv
<1>3. CASE Elsewhere(j) \/ SendOpen(j) \/ c # b
  BY <1>0, <1>2, <1>3, AsideSteps, AsideKeeps
<1>4. CASE c = b /\ SendWrite(j)
  BY <1>0, <1>2, <1>4, WriteKeeps
<1>5. CASE c = b /\ (\/ Recover(j) \/ Merge(j) \/ DropTaken(j) \/ Drain(j) \/ Take(j) \/ Read(j)
                     \/ Drop(j) \/ Work(j))
  BY <1>0, <1>2, <1>5, TakerKeeps
<1>6. CASE c = b /\ RemoveDir(j)
  <2>1. /\ job'[j].pc \in {"failed", "done"} /\ UNCHANGED <<inbox, taken, shown>>
        /\ In(b)' = In(b) /\ Out(b)' = Out(b)
    BY <1>0, <1>1, <1>6, RemoveDoes
  <2>2. \A k \in Jobs : job'[k].pc \in Handling => job'[k] = job[k]
    BY <2>1, OneJob DEF Handling, Taking
  <2>3. Aside(c)
    BY <1>6, <2>1, <2>2 DEF Aside
  <2>4. QED
    BY <1>2, <2>3, AsideKeeps
<1>7. QED
  BY <1>3, <1>4, <1>5, <1>6, SomeStep

-----------------------------------------------------------------------------
(***************************************************************************)
(* No handoff is shown twice.                                              *)
(***************************************************************************)

LEMMA UniqMore ==
    ASSUME NEW s \in Seq(Line), NEW y \in Line, Uniq(s), y.by \notin By(s)
    PROVE  Uniq(s \o <<y>>)
<1> DEFINE t == <<y>>
<1>1. t \in Seq(Line) /\ Uniq(t) /\ By(t) = {y.by}
  BY ByOne
<1> HIDE DEF t
<1>2. Uniq(s \o t)
  BY <1>1, UniqConcat
<1>3. QED
  BY <1>2 DEF t

LEMMA PrefixMore ==
    ASSUME NEW s \in Seq(Line), NEW t \in Seq(Line), NEW y \in Line, IsPrefix(s, t)
    PROVE  IsPrefix(s, t \o <<y>>)
<1> DEFINE u == <<y>>
<1>1. u \in Seq(Line)
  BY ByOne
<1> HIDE DEF u
<1>2. IsPrefix(s, t \o u)
  BY <1>1, PrefixGrows
<1>3. QED
  BY <1>2 DEF u

\* OnceAt after a step, in terms of what the step does to its parts.
OnceThen(c) ==
    /\ Uniq(In(c)') /\ Uniq(Out(c)')
    /\ IsPrefix(Out(c)', In(c)') \/ By(Out(c)') \cap By(In(c)') = {}
    /\ (By(In(c)') \cup By(Out(c)')) \cap ShownBy' = {}
    /\ \A k \in Live(c)' : Uniq(job'[k].got) /\ By(job'[k].got) \cap ShownBy' = {}
    /\ \A k, l \in Live(c)' : k = l \/ By(job'[k].got) \cap By(job'[l].got) = {}
    /\ \A k \in Runs(c, {"work"})' : By(job'[k].got) \cap (By(In(c)') \cup By(Out(c)')) = {}
    /\ Runs(c, {"read"})' # {} => By(Out(c)') \cap By(In(c)') = {}
    /\ \A k \in Runs(c, {"drop"})' : By(job'[k].got) \cap By(In(c)') = {}
    /\ \A k \in Runs(c, {"merge"})' : IsPrefix(Out(c)', job'[k].got)
    /\ \A i, k \in DOMAIN shown' :
          shown'[i].by = shown'[k].by /\ job'[shown'[i].by].bot = c => i = k

LEMMA OnceNow == ASSUME NEW c, OnceThen(c) PROVE OnceAt(c)'
BY DEF OnceThen, OnceAt, Uniq, IsPrefix, By, Senders, ToSet

\* Who is shown wrote to the Bot that was shown it, and is done.
LEMMA ShownArrived ==
    ASSUME TypeInv, LinesInv, FilesInv, NEW j \in Jobs, Step(j)
    PROVE  /\ ShownBy \subseteq arrived
           /\ \A i \in DOMAIN shown : /\ shown[i].by \in ShownBy
                                      /\ job'[shown[i].by] = job[shown[i].by]
<1>1. \A i \in DOMAIN shown : shown[i].by \in arrived
  BY DEF LinesInv
<1>2. ShownBy \subseteq arrived /\ \A i \in DOMAIN shown : shown[i].by \in ShownBy
  BY <1>1 DEF ShownBy, Senders, ToSet
<1>3. QED
  BY <1>1, <1>2, Monotone

LEMMA AsideOnce ==
    ASSUME TypeInv, LinesInv, FilesInv, NEW j \in Jobs, Step(j), NEW c \in Ids, Aside(c), OnceAt(c)
    PROVE  OnceThen(c)
<1>1. \A k \in Jobs : (job'[k].bot = c /\ job'[k].pc \in Taking \ {"recover"}) => job'[k] = job[k]
  BY DEF Aside, Handling, Taking
<1>2. /\ In(c)' = In(c) /\ Out(c)' = Out(c)
      /\ \A i \in DOMAIN shown : i \in DOMAIN shown' /\ shown'[i] = shown[i]
      /\ \A i \in DOMAIN shown' : i \in DOMAIN shown \/ job'[shown'[i].by].bot # c
  BY DEF Aside
<1>3. \A k \in Live(c)' : \/ k \in Live(c) /\ job'[k] = job[k]
                          \/ job'[k].got = <<>> /\ job'[k].pc = "work"
  <2>1. \A k \in Jobs : (job'[k].bot = c /\ job'[k].pc \in {"merge", "drop", "work"}) =>
           job'[k] = job[k] \/ (job'[k].got = <<>> /\ job'[k].pc = "work")
    BY DEF Aside, Handling, Taking
  <2>2. QED
    BY <2>1 DEF Live, Runs
<1>4. By(<<>>) = {} /\ Uniq(<<>>)
  BY ByNone
<1>5. \A s \in arrived : job'[s] = job[s]
  BY Monotone
<1>6. \A s \in ShownBy' : s \in ShownBy \/ job'[s].bot # c
  BY <1>2 DEF ShownBy, Senders, ToSet
<1>7. /\ \A s \in By(In(c)) \cup By(Out(c)) : job'[s].bot = c
      /\ \A k \in Live(c) : \A s \in By(job[k].got) : job'[s].bot = c
  BY <1>5, WritersArrived
<1>8. (By(In(c)') \cup By(Out(c)')) \cap ShownBy' = {}
  BY <1>2, <1>6, <1>7 DEF OnceAt
<1>9. \A k \in Live(c)' : Uniq(job'[k].got) /\ By(job'[k].got) \cap ShownBy' = {}
  BY <1>3, <1>4, <1>6, <1>7 DEF OnceAt
<1>10. \A k, l \in Live(c)' : k = l \/ By(job'[k].got) \cap By(job'[l].got) = {}
  BY <1>3, <1>4 DEF OnceAt
<1>11. \A k \in Runs(c, {"work"})' : By(job'[k].got) \cap (By(In(c)') \cup By(Out(c)')) = {}
  <2>1. SUFFICES ASSUME NEW k \in Runs(c, {"work"})'
                 PROVE  By(job'[k].got) \cap (By(In(c)) \cup By(Out(c))) = {}
    BY <1>2
  <2>2. k \in Live(c)' /\ job'[k].pc = "work"
    BY <2>1 DEF Live, Runs
  <2>3. CASE k \in Live(c) /\ job'[k] = job[k]
    <3>1. k \in Runs(c, {"work"})
      BY <2>2, <2>3 DEF Live, Runs
    <3>2. QED
      BY <2>3, <3>1 DEF OnceAt
  <2>4. QED
    BY <1>3, <1>4, <2>2, <2>3
<1>12. Runs(c, {"read"})' # {} => By(Out(c)') \cap By(In(c)') = {}
  <2>1. Runs(c, {"read"})' # {} => Runs(c, {"read"}) # {}
    BY <1>1 DEF Runs, Taking
  <2>2. QED
    BY <1>2, <2>1 DEF OnceAt
<1>13. \A k \in Runs(c, {"drop"})' : By(job'[k].got) \cap By(In(c)') = {}
  <2>1. \A k \in Runs(c, {"drop"})' : k \in Runs(c, {"drop"}) /\ job'[k] = job[k]
    BY <1>1 DEF Runs, Taking
  <2>2. QED
    BY <1>2, <2>1 DEF OnceAt
<1>14. \A k \in Runs(c, {"merge"})' : IsPrefix(Out(c)', job'[k].got)
  <2>1. \A k \in Runs(c, {"merge"})' : k \in Runs(c, {"merge"}) /\ job'[k] = job[k]
    BY <1>1 DEF Runs, Taking
  <2>2. QED
    BY <1>2, <2>1 DEF OnceAt
<1>15. \A i, k \in DOMAIN shown' :
          shown'[i].by = shown'[k].by /\ job'[shown'[i].by].bot = c => i = k
  <2>1. SUFFICES ASSUME NEW i \in DOMAIN shown', NEW k \in DOMAIN shown',
                        shown'[i].by = shown'[k].by, job'[shown'[i].by].bot = c
                 PROVE  i = k
    OBVIOUS
  <2>2. i \in DOMAIN shown /\ k \in DOMAIN shown /\ shown'[i] = shown[i] /\ shown'[k] = shown[k]
    BY <1>2, <2>1
  <2>3. job[shown[i].by].bot = c
    BY <2>1, <2>2, ShownArrived
  <2>4. QED
    BY <2>1, <2>2, <2>3 DEF OnceAt
<1>16. Uniq(In(c)') /\ Uniq(Out(c)')
       /\ (IsPrefix(Out(c)', In(c)') \/ By(Out(c)') \cap By(In(c)') = {})
  BY <1>2 DEF OnceAt
<1>17. QED
  BY <1>8, <1>9, <1>10, <1>11, <1>12, <1>13, <1>14, <1>15, <1>16 DEF OnceThen

\* The only run that takes the inbox moves what is there, and adds nothing.
HeldOrThere(j, b) ==
    By(In(b)) \cup By(Out(b)) \cup (IF job[j].pc \in {"merge", "drop"} THEN By(job[j].got) ELSE {})

LEMMA TakerOnce ==
    ASSUME TypeInv, LinesInv, FilesInv, Alone, NEW j \in Jobs, Step(j), NEW b \in Ids,
           b = job[j].bot, b \notin crowded, OnceAt(b), job[j].pc \in Taking, shown' = shown,
           job'[j].bot = b,
           Uniq(In(b)'), Uniq(Out(b)'),
           IsPrefix(Out(b)', In(b)') \/ By(Out(b)') \cap By(In(b)') = {},
           By(In(b)') \cup By(Out(b)') \subseteq HeldOrThere(j, b),
           job'[j].pc \in {"merge", "drop", "work"} =>
              By(job'[j].got) \subseteq HeldOrThere(j, b) /\ Uniq(job'[j].got),
           job'[j].pc = "work" => By(job'[j].got) \cap (By(In(b)') \cup By(Out(b)')) = {},
           job'[j].pc = "read" => By(Out(b)') \cap By(In(b)') = {},
           job'[j].pc = "drop" => By(job'[j].got) \cap By(In(b)') = {},
           job'[j].pc = "merge" => IsPrefix(Out(b)', job'[j].got)
    PROVE  OnceThen(b)
<1>1. /\ \A k \in Jobs : job[k].bot = b /\ job[k].pc \in Taking => k = j
      /\ \A k \in Jobs : job'[k].bot = b /\ job'[k].pc \in Taking => k = j
      /\ \A k \in Jobs \ {j} : job'[k] = job[k]
  BY OnlyTaker, OneJob
<1>2. \A k \in Live(b)' : k # j => /\ k \in Runs(b, {"work"}) /\ k \in Live(b) /\ job'[k] = job[k]
  BY <1>1 DEF Live, Runs, Taking
<1>3. job[j].pc \in {"merge", "drop"} => j \in Live(b)
  BY DEF Live, Runs
<1>4. HeldOrThere(j, b) \cap ShownBy = {}
  BY <1>3 DEF OnceAt, HeldOrThere
<1>5. \A k \in Runs(b, {"work"}) : By(job[k].got) \cap HeldOrThere(j, b) = {}
  <2>1. SUFFICES ASSUME NEW k \in Runs(b, {"work"})
                 PROVE By(job[k].got) \cap HeldOrThere(j, b) = {}
    OBVIOUS
  <2>2. k \in Live(b) /\ k # j
    BY <2>1 DEF Live, Runs, Taking
  <2>3. By(job[k].got) \cap (By(In(b)) \cup By(Out(b))) = {}
    BY <2>1 DEF OnceAt
  <2>4. job[j].pc \in {"merge", "drop"} => By(job[k].got) \cap By(job[j].got) = {}
    BY <1>3, <2>2 DEF OnceAt
  <2>5. QED
    BY <2>3, <2>4 DEF HeldOrThere
<1>6. ShownBy' = ShownBy
  BY DEF ShownBy
<1>7. (By(In(b)') \cup By(Out(b)')) \cap ShownBy' = {}
  BY <1>4, <1>6
<1>8. \A k \in Live(b)' : Uniq(job'[k].got) /\ By(job'[k].got) \cap ShownBy' = {}
  <2>1. SUFFICES ASSUME NEW k \in Live(b)'
                 PROVE  Uniq(job'[k].got) /\ By(job'[k].got) \cap ShownBy = {}
    BY <1>6
  <2>2. CASE k = j
    <3>1. job'[j].pc \in {"merge", "drop", "work"}
      BY <2>1, <2>2 DEF Live, Runs
    <3>2. QED
      BY <1>4, <2>2, <3>1
  <2>3. CASE k # j
    BY <1>2, <2>1, <2>3 DEF OnceAt
  <2>4. QED
    BY <2>2, <2>3
<1>9. j \in Live(b)' => \A k \in Live(b)' : k # j => By(job'[k].got) \cap By(job'[j].got) = {}
  <2>1. j \in Live(b)' => By(job'[j].got) \subseteq HeldOrThere(j, b)
    BY DEF Live, Runs
  <2>2. \A k \in Live(b)' : k # j => By(job'[k].got) \cap HeldOrThere(j, b) = {}
    BY <1>2, <1>5
  <2>3. QED
    BY <2>1, <2>2
<1>10. \A k, l \in Live(b)' : k = l \/ By(job'[k].got) \cap By(job'[l].got) = {}
  <2>1. SUFFICES ASSUME NEW k \in Live(b)', NEW l \in Live(b)', k # l
                 PROVE  By(job'[k].got) \cap By(job'[l].got) = {}
    OBVIOUS
  <2>2. CASE k = j \/ l = j
    BY <1>9, <2>1, <2>2
  <2>3. CASE k # j /\ l # j
    BY <1>2, <2>1, <2>3 DEF OnceAt
  <2>4. QED
    BY <2>2, <2>3
<1>11. \A k \in Runs(b, {"work"})' : By(job'[k].got) \cap (By(In(b)') \cup By(Out(b)')) = {}
  <2>1. SUFFICES ASSUME NEW k \in Runs(b, {"work"})'
                 PROVE  By(job'[k].got) \cap (By(In(b)') \cup By(Out(b)')) = {}
    OBVIOUS
  <2>2. k \in Live(b)' /\ job'[k].pc = "work"
    BY <2>1 DEF Live, Runs
  <2>3. CASE k # j
    BY <1>2, <1>5, <2>2, <2>3
  <2>4. CASE k = j
    BY <2>2, <2>4
  <2>5. QED
    BY <2>3, <2>4
<1>12. /\ Runs(b, {"read"})' # {} => job'[j].pc = "read"
       /\ \A k \in Runs(b, {"drop"})' : k = j /\ job'[j].pc = "drop"
       /\ \A k \in Runs(b, {"merge"})' : k = j /\ job'[j].pc = "merge"
  BY <1>1 DEF Runs, Taking
<1>13. \A i, k \in DOMAIN shown' :
          shown'[i].by = shown'[k].by /\ job'[shown'[i].by].bot = b => i = k
  BY ShownArrived DEF OnceAt
<1>14. QED
  BY <1>7, <1>8, <1>10, <1>11, <1>12, <1>13 DEF OnceThen

LEMMA RecoverOnce ==
    ASSUME TypeInv, LinesInv, FilesInv, Alone, NEW j \in Jobs, Step(j), NEW b, b = job[j].bot,
           b \notin crowded, OnceAt(b), Recover(j)
    PROVE  OnceThen(b)
<1>1. /\ b \in Ids /\ job[j].pc = "recover" /\ shown' = shown /\ job'[j].bot = b
      /\ In(b)' = In(b) /\ Out(b)' = Out(b)
      /\ \/ job'[j].pc \in {"drain", "dropTaken"}
         \/ /\ job'[j].pc = "merge" /\ job'[j].got = Out(b) \o In(b)
            /\ ~AlreadyMerged(Out(b), In(b))
  BY RecoverDoes
<1>2. In(b) \in Seq(Line) /\ Out(b) \in Seq(Line)
  BY <1>1, BoxesTyped
<1>3. By(Out(b) \o In(b)) = By(Out(b)) \cup By(In(b)) /\ IsPrefix(Out(b), Out(b) \o In(b))
  BY <1>2, ByConcat, PrefixOfConcat
<1>4. ~AlreadyMerged(Out(b), In(b)) => Uniq(Out(b) \o In(b))
  <2>1. SUFFICES ASSUME ~AlreadyMerged(Out(b), In(b)) PROVE Uniq(Out(b) \o In(b))
    OBVIOUS
  <2>2. ~IsPrefix(Out(b), In(b))
    BY <1>2, <2>1, PrefixIsMerged
  <2>3. By(Out(b)) \cap By(In(b)) = {} /\ Uniq(Out(b)) /\ Uniq(In(b))
    BY <2>2 DEF OnceAt
  <2>4. QED
    BY <1>2, <2>3, UniqConcat
<1>5. /\ Uniq(In(b)') /\ Uniq(Out(b)')
      /\ IsPrefix(Out(b)', In(b)') \/ By(Out(b)') \cap By(In(b)') = {}
      /\ By(In(b)') \cup By(Out(b)') \subseteq HeldOrThere(j, b)
  BY <1>1 DEF OnceAt, HeldOrThere
<1>6. job'[j].pc = "merge" => /\ By(job'[j].got) \subseteq HeldOrThere(j, b) /\ Uniq(job'[j].got)
                              /\ IsPrefix(Out(b)', job'[j].got)
  BY <1>1, <1>3, <1>4 DEF HeldOrThere
<1>7. job[j].pc \in Taking /\ job'[j].pc \notin {"drop", "work", "read"}
  BY <1>1 DEF Taking
<1>8. QED
  BY <1>1, <1>5, <1>6, <1>7, TakerOnce

LEMMA MergeOnce ==
    ASSUME TypeInv, LinesInv, FilesInv, Alone, NEW j \in Jobs, Step(j), NEW b, b = job[j].bot,
           b \notin crowded, OnceAt(b), Merge(j)
    PROVE  OnceThen(b)
<1>1. /\ b \in Ids /\ job[j].pc = "merge" /\ shown' = shown /\ job'[j].bot = b
      /\ Out(b)' = Out(b) /\ job'[j].pc \in {"failed", "dropTaken"}
      /\ In(b)' = In(b) \/ In(b)' = job[j].got
  BY MergeDoes
<1>2. j \in Live(b) /\ j \in Runs(b, {"merge"})
  BY <1>1 DEF Live, Runs
<1>3. Uniq(job[j].got) /\ IsPrefix(Out(b), job[j].got)
  BY <1>2 DEF OnceAt
<1>4. /\ Uniq(In(b)') /\ Uniq(Out(b)')
      /\ IsPrefix(Out(b)', In(b)') \/ By(Out(b)') \cap By(In(b)') = {}
      /\ By(In(b)') \cup By(Out(b)') \subseteq HeldOrThere(j, b)
  BY <1>1, <1>3 DEF OnceAt, HeldOrThere
<1>5. job[j].pc \in Taking /\ job'[j].pc \notin {"merge", "drop", "work", "read"}
  BY <1>1 DEF Taking
<1>6. QED
  BY <1>1, <1>4, <1>5, TakerOnce

LEMMA DrainOnce ==
    ASSUME TypeInv, LinesInv, FilesInv, Alone, NEW j \in Jobs, Step(j), NEW b, b = job[j].bot,
           b \notin crowded, OnceAt(b), DropTaken(j) \/ Drain(j)
    PROVE  OnceThen(b)
<1>1. /\ b \in Ids /\ job[j].pc \in {"dropTaken", "drain"} /\ shown' = shown /\ job'[j].bot = b
      /\ job'[j].got = job[j].got /\ job'[j].pc \in {"failed", "drain", "take", "work"}
      /\ In(b)' = In(b) /\ (Out(b)' = Out(b) \/ Out(b)' = <<>>)
  BY DropTakenDoes, DrainDoes
<1>2. job[j].got = <<>> /\ job[j].pc \in Taking
  BY <1>1 DEF LinesInv, Taking
<1>3. By(<<>>) = {} /\ Uniq(<<>>)
  BY ByNone
<1>4. /\ Uniq(In(b)') /\ Uniq(Out(b)')
      /\ IsPrefix(Out(b)', In(b)') \/ By(Out(b)') \cap By(In(b)') = {}
      /\ By(In(b)') \cup By(Out(b)') \subseteq HeldOrThere(j, b)
  <2>1. CASE Out(b)' = Out(b)
    BY <1>1, <2>1 DEF OnceAt, HeldOrThere
  <2>2. CASE Out(b)' = <<>>
    BY <1>1, <1>3, <2>2 DEF OnceAt, HeldOrThere
  <2>3. QED
    BY <1>1, <2>1, <2>2
<1>5. /\ By(job'[j].got) \subseteq HeldOrThere(j, b) /\ Uniq(job'[j].got)
      /\ By(job'[j].got) \cap (By(In(b)') \cup By(Out(b)')) = {}
  BY <1>1, <1>2, <1>3
<1>6. job'[j].pc \notin {"merge", "drop", "read"}
  BY <1>1
<1>7. QED
  BY <1>1, <1>2, <1>4, <1>5, <1>6, TakerOnce

LEMMA TakeOnce ==
    ASSUME TypeInv, LinesInv, FilesInv, Alone, NEW j \in Jobs, Step(j), NEW b, b = job[j].bot,
           b \notin crowded, OnceAt(b), Take(j)
    PROVE  OnceThen(b)
<1>1. /\ b \in Ids /\ job[j].pc = "take" /\ shown' = shown /\ job'[j].bot = b
      /\ \/ job'[j].pc = "failed" /\ In(b)' = In(b) /\ Out(b)' = Out(b)
         \/ job'[j].pc = "read" /\ In(b)' = <<>> /\ Out(b)' = In(b)
  BY TakeDoes
<1>2. By(<<>>) = {} /\ Uniq(<<>>)
  BY ByNone
<1>3. /\ Uniq(In(b)') /\ Uniq(Out(b)')
      /\ IsPrefix(Out(b)', In(b)') \/ By(Out(b)') \cap By(In(b)') = {}
      /\ By(In(b)') \cup By(Out(b)') \subseteq HeldOrThere(j, b)
      /\ job'[j].pc = "read" => By(Out(b)') \cap By(In(b)') = {}
  <2>1. CASE job'[j].pc = "failed" /\ In(b)' = In(b) /\ Out(b)' = Out(b)
    BY <2>1 DEF OnceAt, HeldOrThere
  <2>2. CASE In(b)' = <<>> /\ Out(b)' = In(b)
    BY <1>2, <2>2 DEF OnceAt, HeldOrThere
  <2>3. QED
    BY <1>1, <2>1, <2>2
<1>4. job[j].pc \in Taking /\ job'[j].pc \notin {"merge", "drop", "work"}
  BY <1>1 DEF Taking
<1>5. QED
  BY <1>1, <1>3, <1>4, TakerOnce

LEMMA ReadOnce ==
    ASSUME TypeInv, LinesInv, FilesInv, Alone, NEW j \in Jobs, Step(j), NEW b, b = job[j].bot,
           b \notin crowded, OnceAt(b), Read(j)
    PROVE  OnceThen(b)
<1>1. /\ b \in Ids /\ job[j].pc = "read" /\ shown' = shown /\ job'[j].bot = b
      /\ In(b)' = In(b) /\ Out(b)' = Out(b)
      /\ job'[j].pc = "failed" \/ (job'[j].pc = "drop" /\ job'[j].got = Out(b))
  BY ReadDoes
<1>2. j \in Runs(b, {"read"})
  BY <1>1 DEF Runs
<1>3. By(Out(b)) \cap By(In(b)) = {}
  BY <1>2 DEF OnceAt
<1>4. /\ Uniq(In(b)') /\ Uniq(Out(b)')
      /\ IsPrefix(Out(b)', In(b)') \/ By(Out(b)') \cap By(In(b)') = {}
      /\ By(In(b)') \cup By(Out(b)') \subseteq HeldOrThere(j, b)
      /\ job'[j].pc = "drop" => /\ By(job'[j].got) \subseteq HeldOrThere(j, b)
                                /\ Uniq(job'[j].got) /\ By(job'[j].got) \cap By(In(b)') = {}
  BY <1>1, <1>3 DEF OnceAt, HeldOrThere
<1>5. job[j].pc \in Taking /\ job'[j].pc \notin {"merge", "work", "read"}
  BY <1>1 DEF Taking
<1>6. QED
  BY <1>1, <1>4, <1>5, TakerOnce

LEMMA DropOnce ==
    ASSUME TypeInv, LinesInv, FilesInv, Alone, NEW j \in Jobs, Step(j), NEW b, b = job[j].bot,
           b \notin crowded, OnceAt(b), Drop(j)
    PROVE  OnceThen(b)
<1>1. /\ b \in Ids /\ job[j].pc = "drop" /\ shown' = shown /\ job'[j].bot = b
      /\ In(b)' = In(b) /\ Out(b)' = <<>> /\ job'[j].pc = "work" /\ job'[j].got = job[j].got
  BY DropDoes
<1>2. j \in Live(b) /\ j \in Runs(b, {"drop"})
  BY <1>1 DEF Live, Runs
<1>3. Uniq(job[j].got) /\ By(job[j].got) \cap By(In(b)) = {}
  BY <1>2 DEF OnceAt
<1>4. By(<<>>) = {} /\ Uniq(<<>>)
  BY ByNone
<1>5. /\ Uniq(In(b)') /\ Uniq(Out(b)')
      /\ IsPrefix(Out(b)', In(b)') \/ By(Out(b)') \cap By(In(b)') = {}
      /\ By(In(b)') \cup By(Out(b)') \subseteq HeldOrThere(j, b)
      /\ By(job'[j].got) \cap (By(In(b)') \cup By(Out(b)')) = {}
  BY <1>1, <1>3, <1>4 DEF OnceAt, HeldOrThere
<1>6. By(job'[j].got) \subseteq HeldOrThere(j, b) /\ Uniq(job'[j].got)
  BY <1>1, <1>3 DEF HeldOrThere
<1>7. job[j].pc \in Taking /\ job'[j].pc \notin {"merge", "drop", "read"}
  BY <1>1 DEF Taking
<1>8. QED
  BY <1>1, <1>5, <1>6, <1>7, TakerOnce

\* What a run shows is nowhere else from then on.
LEMMA WorkOnce ==
    ASSUME TypeInv, LinesInv, FilesInv, NEW j \in Jobs, Step(j), NEW b, b = job[j].bot,
           OnceAt(b), Work(j)
    PROVE  OnceThen(b)
<1>1. /\ b \in Ids /\ job[j].pc = "work" /\ job'[j].pc = "append"
      /\ In(b)' = In(b) /\ Out(b)' = Out(b) /\ shown' = shown \o Given2Run(j)
  BY WorkDoes
<1>2. \A k \in Jobs \ {j} : job'[k] = job[k]
  BY OneJob
<1>3. j \in Live(b) /\ j \in Runs(b, {"work"})
  BY <1>1 DEF Live, Runs
<1>4. ShownBy' = ShownBy \cup By(job[j].got)
  BY <1>1, ShownGrows
<1>5. \A k \in Live(b)' : k # j /\ k \in Live(b) /\ job'[k] = job[k]
  BY <1>1, <1>2 DEF Live, Runs
<1>6. (By(In(b)') \cup By(Out(b)')) \cap ShownBy' = {}
  BY <1>1, <1>3, <1>4 DEF OnceAt
<1>7. \A k \in Live(b)' : Uniq(job'[k].got) /\ By(job'[k].got) \cap ShownBy' = {}
  <2>1. SUFFICES ASSUME NEW k \in Live(b)'
                 PROVE  Uniq(job[k].got) /\ By(job[k].got) \cap (ShownBy \cup By(job[j].got)) = {}
    BY <1>4, <1>5
  <2>2. k # j /\ k \in Live(b)
    BY <1>5, <2>1
  <2>3. Uniq(job[k].got) /\ By(job[k].got) \cap ShownBy = {} /\ By(job[k].got) \cap By(job[j].got) = {}
    BY <1>3, <2>2 DEF OnceAt
  <2>4. QED
    BY <2>3
<1>8. \A k, l \in Live(b)' : k = l \/ By(job'[k].got) \cap By(job'[l].got) = {}
  BY <1>5 DEF OnceAt
<1>9. /\ \A k \in Runs(b, {"work"})' : k \in Runs(b, {"work"}) /\ job'[k] = job[k]
      /\ Runs(b, {"read"})' # {} => Runs(b, {"read"}) # {}
      /\ \A k \in Runs(b, {"drop"})' : k \in Runs(b, {"drop"}) /\ job'[k] = job[k]
      /\ \A k \in Runs(b, {"merge"})' : k \in Runs(b, {"merge"}) /\ job'[k] = job[k]
  BY <1>1, <1>2 DEF Runs
<1>10. /\ Uniq(In(b)') /\ Uniq(Out(b)')
       /\ IsPrefix(Out(b)', In(b)') \/ By(Out(b)') \cap By(In(b)') = {}
       /\ \A k \in Runs(b, {"work"})' : By(job'[k].got) \cap (By(In(b)') \cup By(Out(b)')) = {}
       /\ Runs(b, {"read"})' # {} => By(Out(b)') \cap By(In(b)') = {}
       /\ \A k \in Runs(b, {"drop"})' : By(job'[k].got) \cap By(In(b)') = {}
       /\ \A k \in Runs(b, {"merge"})' : IsPrefix(Out(b)', job'[k].got)
  BY <1>1, <1>9 DEF OnceAt
<1>11. \A i, k \in DOMAIN shown' :
          shown'[i].by = shown'[k].by /\ job'[shown'[i].by].bot = b => i = k
  <2>1. /\ \A i \in DOMAIN shown : shown'[i] = shown[i]
        /\ \A i \in DOMAIN shown' :
              \/ i \in DOMAIN shown
              \/ /\ i > Len(shown) /\ i \in Nat /\ i - Len(shown) \in DOMAIN job[j].got
                 /\ shown'[i].by = job[j].got[i - Len(shown)].by /\ shown'[i].run = j
        /\ Len(shown) \in Nat
    BY <1>1, ShownGrows
  <2>2. SUFFICES ASSUME NEW i \in DOMAIN shown', NEW k \in DOMAIN shown',
                        shown'[i].by = shown'[k].by, job'[shown'[i].by].bot = b
                 PROVE  i = k
    OBVIOUS
  <2>3. /\ \A p \in DOMAIN job[j].got : job[j].got[p].by \in By(job[j].got)
        /\ By(job[j].got) \cap ShownBy = {} /\ Uniq(job[j].got)
    BY <1>3, JobsTyped, ByAt DEF OnceAt
  <2>4. \A l \in DOMAIN shown : shown'[l] = shown[l] /\ shown[l].by \in ShownBy
    BY <2>1, ShownArrived
  <2>5. CASE i \in DOMAIN shown /\ k \in DOMAIN shown
    <3>1. job[shown[i].by].bot = b /\ shown[i].by = shown[k].by
      BY <2>2, <2>4, <2>5, ShownArrived
    <3>2. QED
      BY <2>5, <3>1 DEF OnceAt
  <2>6. CASE i \notin DOMAIN shown /\ k \notin DOMAIN shown
    <3>1. /\ i - Len(shown) \in DOMAIN job[j].got /\ k - Len(shown) \in DOMAIN job[j].got
          /\ job[j].got[i - Len(shown)].by = job[j].got[k - Len(shown)].by
          /\ i \in Nat /\ k \in Nat
      BY <2>1, <2>2, <2>6
    <3>2. i - Len(shown) = k - Len(shown)
      BY <2>3, <3>1 DEF Uniq
    <3>3. QED
      BY <2>1, <3>1, <3>2
  <2>7. CASE i \in DOMAIN shown /\ k \notin DOMAIN shown
    <3>1. shown'[i].by \in ShownBy /\ shown'[k].by \in By(job[j].got)
      BY <2>1, <2>2, <2>3, <2>4, <2>7
    <3>2. QED
      BY <2>2, <2>3, <3>1
  <2>8. CASE i \notin DOMAIN shown /\ k \in DOMAIN shown
    <3>1. shown'[k].by \in ShownBy /\ shown'[i].by \in By(job[j].got)
      BY <2>1, <2>2, <2>3, <2>4, <2>8
    <3>2. QED
      BY <2>2, <2>3, <3>1
  <2>9. QED
    BY <2>5, <2>6, <2>7, <2>8
<1>12. QED
  BY <1>6, <1>7, <1>8, <1>10, <1>11 DEF OnceThen

\* What a late line does to the two files of a Bot.
WritesTo(j, b, f, x) ==
    /\ x.by = j
    /\ \/ /\ In(b)' = In(b) \o <<x>> /\ Out(b)' = Out(b)
          /\ By(In(b)') = By(In(b)) \cup {j}
       \/ /\ In(b)' = In(b) /\ Out(b)' = Out(b) \o <<x>> /\ f = taken[b]
          /\ By(Out(b)') = By(Out(b)) \cup {j}
       \/ In(b)' = In(b) /\ Out(b)' = Out(b) /\ f \notin {inbox[b], taken[b]}

LEMMA WriteTo ==
    ASSUME TypeInv, LinesInv, FilesInv, NEW j \in Jobs, SendWrite(j), NEW b, b = job[j].bot,
           NEW f, f = job[j].file
    PROVE  \E x \in Line : WritesTo(j, b, f, x)
<1>1. PICK x \in Line : Adds(j, b, f, x)
  BY WriteDoes
<1>2. /\ In(b) \in Seq(Line) /\ Out(b) \in Seq(Line) /\ x.by = j
  BY <1>1, WriteDoes, BoxesTyped DEF Adds
<1>3. /\ By(In(b) \o <<x>>) = By(In(b)) \cup {j}
      /\ By(Out(b) \o <<x>>) = By(Out(b)) \cup {j}
  BY <1>2, ByMore
<1>4. CASE In(b)' = In(b) \o <<x>> /\ Out(b)' = Out(b)
  <2>1. By(In(b)') = By(In(b)) \cup {j}
    BY <1>3, <1>4
  <2>2. WritesTo(j, b, f, x)
    BY <1>2, <1>4, <2>1 DEF WritesTo
  <2>3. QED
    BY <2>2
<1>5. CASE In(b)' = In(b) /\ Out(b)' = Out(b) \o <<x>> /\ f = taken[b]
  <2>1. By(Out(b)') = By(Out(b)) \cup {j}
    BY <1>3, <1>5
  <2>2. WritesTo(j, b, f, x)
    BY <1>2, <1>5, <2>1 DEF WritesTo
  <2>3. QED
    BY <2>2
<1>6. CASE In(b)' = In(b) /\ Out(b)' = Out(b) /\ f \notin {inbox[b], taken[b]}
  <2>1. WritesTo(j, b, f, x)
    BY <1>2, <1>6 DEF WritesTo
  <2>2. QED
    BY <2>1
<1>7. QED
  BY <1>1, <1>4, <1>5, <1>6 DEF Adds

LEMMA WriteOnce ==
    ASSUME TypeInv, LinesInv, FilesInv, NEW j \in Jobs, Step(j), NEW b, b = job[j].bot,
           b \notin blurred', OnceAt(b), SendWrite(j)
    PROVE  OnceThen(b)
<1>f. PICK f : f = job[j].file
  OBVIOUS
<1>0. /\ b \in Ids /\ job'[j].pc = "done" /\ UNCHANGED <<inbox, taken, shown>>
      /\ blurred' = (IF Blurs(b, f) THEN blurred \cup {b} ELSE blurred)
      /\ j \notin arrived
  BY <1>f, WriteDoes
<1>1. \A k \in Jobs \ {j} : job'[k] = job[k]
  BY OneJob
<1>w. PICK x \in Line : WritesTo(j, b, f, x)
  BY <1>f, WriteTo
<1>2. /\ x \in Line /\ x.by = j
      /\ \/ /\ In(b)' = In(b) \o <<x>> /\ Out(b)' = Out(b)
            /\ By(In(b)') = By(In(b)) \cup {j}
         \/ /\ In(b)' = In(b) /\ Out(b)' = Out(b) \o <<x>> /\ f = taken[b]
            /\ By(Out(b)') = By(Out(b)) \cup {j}
         \/ In(b)' = In(b) /\ Out(b)' = Out(b) /\ f \notin {inbox[b], taken[b]}
  BY <1>w DEF WritesTo
<1>3. In(b) \in Seq(Line) /\ Out(b) \in Seq(Line)
  BY <1>0, BoxesTyped
<1>4. /\ j \notin By(In(b)) \cup By(Out(b)) /\ j \notin ShownBy
      /\ \A k \in Live(b) : j \notin By(job[k].got)
  BY <1>0, WritersArrived, ShownArrived
<1>5. f = taken[b] => ~On(b, {"merge"}) /\ By(Out(b)) \cap By(In(b)) = {}
  <2>1. SUFFICES ASSUME f = taken[b] PROVE ~On(b, {"merge"}) /\ By(Out(b)) \cap By(In(b)) = {}
    OBVIOUS
  <2>2. ~Blurs(b, f)
    BY <1>0
  <2>3. /\ ~On(b, {"merge"})
        /\ Out(b) = <<>> \/ ~AlreadyMerged(Out(b), In(b))
    BY <2>1, <2>2 DEF Blurs, In, Out
  <2>4. CASE Out(b) = <<>>
    BY <2>3, <2>4, ByNone
  <2>5. CASE ~AlreadyMerged(Out(b), In(b))
    <3>1. ~IsPrefix(Out(b), In(b))
      BY <1>3, <2>5, PrefixIsMerged
    <3>2. QED
      BY <2>3, <3>1 DEF OnceAt
  <2>6. QED
    BY <2>3, <2>4, <2>5
<1>6. Uniq(In(b)') /\ Uniq(Out(b)')
  <2>1. /\ Uniq(In(b) \o <<x>>) /\ Uniq(Out(b) \o <<x>>)
        /\ Uniq(In(b)) /\ Uniq(Out(b))
    BY <1>2, <1>3, <1>4, UniqMore DEF OnceAt
  <2>2. QED
    BY <1>2, <2>1
<1>7. /\ By(In(b)') \cup By(Out(b)') \subseteq By(In(b)) \cup By(Out(b)) \cup {j}
      /\ By(In(b)') \subseteq By(In(b)) \cup {j}
  BY <1>2
<1>8. By(Out(b)) \cap By(In(b)) = {} => By(Out(b)') \cap By(In(b)') = {}
  BY <1>2, <1>4
<1>9. IsPrefix(Out(b)', In(b)') \/ By(Out(b)') \cap By(In(b)') = {}
  <2>1. CASE By(Out(b)) \cap By(In(b)) = {}
    BY <1>8, <2>1
  <2>2. CASE ~(By(Out(b)) \cap By(In(b)) = {})
    <3>1. IsPrefix(Out(b), In(b))
      BY <2>2 DEF OnceAt
    <3>2. IsPrefix(Out(b), In(b) \o <<x>>)
      BY <1>2, <1>3, <3>1, PrefixMore
    <3>3. Out(b)' = Out(b) /\ (In(b)' = In(b) \/ In(b)' = In(b) \o <<x>>)
      BY <1>2, <1>5, <2>2
    <3>4. QED
      BY <3>1, <3>2, <3>3
  <2>3. QED
    BY <2>1, <2>2
<1>10. ShownBy' = ShownBy
  BY <1>0 DEF ShownBy
<1>11. (By(In(b)') \cup By(Out(b)')) \cap ShownBy' = {}
  BY <1>4, <1>7, <1>10 DEF OnceAt
<1>12. \A k \in Live(b)' : k \in Live(b) /\ job'[k] = job[k]
  BY <1>0, <1>1 DEF Live, Runs
<1>13. /\ \A k \in Live(b)' : Uniq(job'[k].got) /\ By(job'[k].got) \cap ShownBy' = {}
       /\ \A k, l \in Live(b)' : k = l \/ By(job'[k].got) \cap By(job'[l].got) = {}
  BY <1>10, <1>12 DEF OnceAt
<1>14. \A k \in Runs(b, {"work"})' : By(job'[k].got) \cap (By(In(b)') \cup By(Out(b)')) = {}
  <2>1. \A k \in Runs(b, {"work"})' : k \in Runs(b, {"work"}) /\ k \in Live(b) /\ job'[k] = job[k]
    BY <1>0, <1>1 DEF Runs, Live
  <2>2. \A k \in Runs(b, {"work"}) : By(job[k].got) \cap (By(In(b)) \cup By(Out(b))) = {}
    BY DEF OnceAt
  <2>3. QED
    BY <1>4, <1>7, <2>1, <2>2
<1>15. Runs(b, {"read"})' # {} => By(Out(b)') \cap By(In(b)') = {}
  <2>1. Runs(b, {"read"})' # {} => Runs(b, {"read"}) # {}
    BY <1>0, <1>1 DEF Runs
  <2>2. QED
    BY <1>8, <2>1 DEF OnceAt
<1>16. \A k \in Runs(b, {"drop"})' : By(job'[k].got) \cap By(In(b)') = {}
  <2>1. \A k \in Runs(b, {"drop"})' : k \in Runs(b, {"drop"}) /\ k \in Live(b) /\ job'[k] = job[k]
    BY <1>0, <1>1 DEF Runs, Live
  <2>2. \A k \in Runs(b, {"drop"}) : By(job[k].got) \cap By(In(b)) = {}
    BY DEF OnceAt
  <2>3. QED
    BY <1>4, <1>7, <2>1, <2>2
<1>17. \A k \in Runs(b, {"merge"})' : IsPrefix(Out(b)', job'[k].got)
  <2>1. \A k \in Runs(b, {"merge"})' : k \in Runs(b, {"merge"}) /\ job'[k] = job[k]
    BY <1>0, <1>1 DEF Runs
  <2>2. Runs(b, {"merge"}) # {} => Out(b)' = Out(b)
    BY <1>2, <1>5 DEF On, Runs
  <2>3. QED
    BY <2>1, <2>2 DEF OnceAt
<1>18. \A i, k \in DOMAIN shown' :
          shown'[i].by = shown'[k].by /\ job'[shown'[i].by].bot = b => i = k
  BY <1>0, ShownArrived DEF OnceAt
<1>19. QED
  BY <1>6, <1>9, <1>11, <1>13, <1>14, <1>15, <1>16, <1>17, <1>18 DEF OnceThen

LEMMA RemoveOnce ==
    ASSUME TypeInv, LinesInv, FilesInv, NEW j \in Jobs, Step(j), NEW b, b = job[j].bot,
           OnceAt(b), RemoveDir(j)
    PROVE  OnceThen(b)
<1>1. /\ b \in Ids /\ job'[j].pc \in {"failed", "done"} /\ shown' = shown
      /\ (In(b)' = In(b) /\ Out(b)' = Out(b)) \/ (In(b)' = <<>> /\ Out(b)' = <<>>)
  BY RemoveDoes
<1>2. \A k \in Jobs \ {j} : job'[k] = job[k]
  BY OneJob
<1>3. By(<<>>) = {} /\ Uniq(<<>>)
  BY ByNone
<1>4. <<>> \in Seq(Line)
  BY NoLines
<1>5. \A k \in Live(b)' : k \in Live(b) /\ job'[k] = job[k]
  BY <1>1, <1>2 DEF Live, Runs
<1>6. ShownBy' = ShownBy
  BY <1>1 DEF ShownBy
<1>7. /\ Uniq(In(b)') /\ Uniq(Out(b)')
      /\ IsPrefix(Out(b)', In(b)') \/ By(Out(b)') \cap By(In(b)') = {}
      /\ By(In(b)') \subseteq By(In(b)) /\ By(Out(b)') \subseteq By(Out(b))
  BY <1>1, <1>3 DEF OnceAt
<1>8. /\ (By(In(b)') \cup By(Out(b)')) \cap ShownBy' = {}
      /\ \A k \in Live(b)' : Uniq(job'[k].got) /\ By(job'[k].got) \cap ShownBy' = {}
      /\ \A k, l \in Live(b)' : k = l \/ By(job'[k].got) \cap By(job'[l].got) = {}
  BY <1>5, <1>6, <1>7 DEF OnceAt
<1>9. /\ \A k \in Runs(b, {"work"})' : k \in Runs(b, {"work"}) /\ job'[k] = job[k]
      /\ Runs(b, {"read"})' # {} => Runs(b, {"read"}) # {}
      /\ \A k \in Runs(b, {"drop"})' : k \in Runs(b, {"drop"}) /\ job'[k] = job[k]
      /\ \A k \in Runs(b, {"merge"})' : k \in Runs(b, {"merge"}) /\ k \in Live(b) /\ job'[k] = job[k]
      /\ \A k \in Live(b) : k \in Jobs
  BY <1>1, <1>2 DEF Runs, Live
<1>10. /\ \A k \in Runs(b, {"work"})' : By(job'[k].got) \cap (By(In(b)') \cup By(Out(b)')) = {}
       /\ Runs(b, {"read"})' # {} => By(Out(b)') \cap By(In(b)') = {}
       /\ \A k \in Runs(b, {"drop"})' : By(job'[k].got) \cap By(In(b)') = {}
  BY <1>7, <1>9 DEF OnceAt
<1>11. \A k \in Runs(b, {"merge"})' : IsPrefix(Out(b)', job'[k].got)
  <2>1. SUFFICES ASSUME NEW k \in Runs(b, {"merge"})' PROVE IsPrefix(Out(b)', job'[k].got)
    OBVIOUS
  <2>2. k \in Runs(b, {"merge"}) /\ job'[k] = job[k] /\ job[k].got \in Seq(Line)
    BY <1>9, <2>1, JobsTyped
  <2>3. IsPrefix(Out(b), job[k].got)
    BY <2>2 DEF OnceAt
  <2>4. IsPrefix(<<>>, job[k].got)
    BY <2>2, EmptyPrefix
  <2>5. QED
    BY <1>1, <2>2, <2>3, <2>4
<1>12. \A i, k \in DOMAIN shown' :
          shown'[i].by = shown'[k].by /\ job'[shown'[i].by].bot = b => i = k
  BY <1>1, ShownArrived DEF OnceAt
<1>13. QED
  BY <1>7, <1>8, <1>10, <1>11, <1>12 DEF OnceThen

LEMMA OnceKept ==
    ASSUME TypeInv, LinesInv, FilesInv, Alone, OnceInv, NEW j \in Jobs, Step(j)
    PROVE  OnceInv'
<1>0. PICK b : b = job[j].bot
  OBVIOUS
<1>1. SUFFICES ASSUME NEW c \in Ids, c \notin crowded' \cup blurred' PROVE OnceAt(c)'
  BY DEF OnceInv
<1>2. OnceAt(c) /\ c \notin crowded
  BY <1>1, Monotone DEF OnceInv
<1>3. OnceThen(c)
  <2>1. CASE Elsewhere(j) \/ SendOpen(j) \/ c # b
    BY <1>0, <1>2, <2>1, AsideSteps, AsideOnce
  <2>2. CASE c = b /\ (SendWrite(j) \/ RemoveDir(j) \/ Work(j))
    BY <1>0, <1>1, <1>2, <2>2, WriteOnce, RemoveOnce, WorkOnce
  <2>3. CASE c = b /\ (Recover(j) \/ Merge(j) \/ DropTaken(j) \/ Drain(j))
    BY <1>0, <1>2, <2>3, RecoverOnce, MergeOnce, DrainOnce
  <2>4. CASE c = b /\ (Take(j) \/ Read(j) \/ Drop(j))
    BY <1>0, <1>2, <2>4, TakeOnce, ReadOnce, DropOnce
  <2>5. QED
    BY <2>1, <2>2, <2>3, <2>4, SomeStep
<1>4. QED
  BY <1>3, OnceNow

-----------------------------------------------------------------------------
(***************************************************************************)
(* Handoffs are shown in the order they came.                               *)
(***************************************************************************)

AllArrived ==
    /\ \A c \in Ids : /\ By(In(c)) \cup By(Out(c)) \subseteq arrived
                      /\ \A k \in Live(c) : By(job[k].got) \subseteq arrived
    /\ ShownBy \subseteq arrived

LEMMA LinesArrived == LinesInv => AllArrived
<1> SUFFICES ASSUME LinesInv PROVE AllArrived
  OBVIOUS
<1>1. \A c \in Ids : \A x \in ToSet(In(c)) \cup ToSet(Out(c)) : x.by \in arrived
  BY DEF LinesInv, LineOf
<1>2. \A c \in Ids : \A k \in Live(c) : \A x \in ToSet(job[k].got) : x.by \in arrived
  BY DEF LinesInv, LineOf
<1>3. \A i \in DOMAIN shown : shown[i].by \in arrived
  BY DEF LinesInv
<1>4. ShownBy \subseteq arrived
  BY <1>3 DEF ShownBy, Senders, ToSet
<1>5. \A c \in Ids : By(In(c)) \cup By(Out(c)) \subseteq arrived
  BY <1>1 DEF By, Senders
<1>6. \A c \in Ids : \A k \in Live(c) : By(job[k].got) \subseteq arrived
  BY <1>2 DEF By, Senders
<1>7. QED
  BY <1>4, <1>5, <1>6 DEF AllArrived

LEMMA ArrivedNext ==
    ASSUME TypeInv, LinesInv, FilesInv, NEW j \in Jobs, Step(j)
    PROVE  AllArrived'
<1>1. LinesInv'
  BY LinesKept
<1>2. QED
  BY <1>1, LinesArrived, PTL

\* What came after what does not change.
LEMMA BeforeKept ==
    ASSUME TypeInv, LinesInv, FilesInv, NEW j \in Jobs, Step(j), NEW new \in arrived', NEW old,
           Before(old, new)'
    PROVE  Before(old, new)
<1>0. PICK b : b = job[j].bot
  OBVIOUS
<1>f. PICK f : f = job[j].file
  OBVIOUS
<1>1. raced \subseteq raced'
  BY Monotone
<1>2. job'[new].after = job[new].after
  <2>1. CASE new \in arrived
    BY <2>1, Monotone
  <2>2. CASE new \notin arrived
    <3>1. new = j /\ SendWrite(j)
      BY <2>2, Monotone
    <3>2. QED
      BY <1>0, <1>f, <3>1, WriteDoes
  <2>3. QED
    BY <2>1, <2>2
<1>3. QED
  BY <1>1, <1>2 DEF Before

LEMMA SortedStill ==
    ASSUME TypeInv, LinesInv, FilesInv, NEW j \in Jobs, Step(j), NEW s, Sorted(s),
           s \in Seq(Line), By(s) \subseteq arrived'
    PROVE  Sorted(s)'
<1>1. \A p \in DOMAIN s : s[p].by \in arrived'
  BY ByAt
<1>2. \A p, q \in DOMAIN s : p <= q => ~Before(s[q].by, s[p].by)'
  BY <1>1, BeforeKept DEF Sorted
<1>3. QED
  BY <1>2 DEF Sorted

LEMMA CrossStill ==
    ASSUME TypeInv, LinesInv, FilesInv, NEW j \in Jobs, Step(j), NEW s, NEW t, Cross(s, t),
           s \subseteq arrived'
    PROVE  Cross(s, t)'
<1>1. \A new \in s : \A old \in t : ~Before(old, new)'
  BY BeforeKept DEF Cross
<1>2. QED
  BY <1>1 DEF Cross

\* OrderAt after a step, in terms of what came before what when it was taken.
OrderThen(c) ==
    /\ Sorted(In(c)') /\ Sorted(Out(c)')
    /\ IsPrefix(Out(c)', In(c)') \/ Cross(By(Out(c)'), By(In(c)'))
    /\ \A k \in Live(c)' : Sorted(job'[k].got)
    /\ \A k \in Runs(c, {"write"})' : job'[k].file = taken'[c] =>
          \A old \in By(In(c)') : (old \in job'[k].after /\ old \notin raced') =>
             Out(c)' # <<>> /\ IsPrefix(Out(c)', In(c)')
    /\ Runs(c, {"merge"})' # {} => Out(c)' # <<>>
    /\ Runs(c, {"read"})' # {} => Cross(By(Out(c)'), By(In(c)'))
    /\ \A k \in Runs(c, {"drop"})' : Cross(By(job'[k].got), By(In(c)'))
    /\ Cross(Left(c)', ToCome(c)')
    /\ \A i, k \in DOMAIN shown' :
          (shown'[i].run = shown'[k].run /\ job'[shown'[i].by].bot = c /\ i <= k) =>
             ~Before(shown'[k].by, shown'[i].by)

LEMMA OrderNow ==
    ASSUME TypeInv, LinesInv, FilesInv, NEW j \in Jobs, Step(j), NEW c \in Ids, OrderThen(c),
           TypeInv'
    PROVE  OrderAt(c)'
<1>a. AllArrived'
  BY ArrivedNext
<1>i. PICK in : in = In(c)'
  OBVIOUS
<1>o. PICK out : out = Out(c)'
  OBVIOUS
<1>t. /\ in \in Seq(Line) /\ out \in Seq(Line)
      /\ \A k \in Jobs : job'[k].got \in Seq(Line)
  <2>1. StateTyped' /\ Linked'
    BY DEF TypeInv
  <2>2. \A k \in Jobs : job'[k].got \in Seq(Line)
    BY <2>1 DEF StateTyped, JobState
  <2>3. in \in Seq(Line) /\ out \in Seq(Line)
    BY <1>i, <1>o, <2>1, NoLines DEF StateTyped, Linked, In, Out, Holding
  <2>4. QED
    BY <2>2, <2>3
<1>1. /\ By(in) \subseteq arrived' /\ By(out) \subseteq arrived'
      /\ \A k \in Live(c)' : k \in Jobs /\ By(job'[k].got) \subseteq arrived'
      /\ ShownBy' \subseteq arrived'
  <2>1. By(in) \cup By(out) \subseteq arrived'
    BY <1>a, <1>i, <1>o DEF AllArrived, By, Senders, ToSet
  <2>2. \A k \in Live(c)' : By(job'[k].got) \subseteq arrived'
    BY <1>a DEF AllArrived, By, Senders, ToSet
  <2>3. \A k \in Live(c)' : k \in Jobs
    BY DEF Live, Runs
  <2>4. QED
    BY <1>a, <2>1, <2>2, <2>3 DEF AllArrived
<1>2. Sorted(In(c))' /\ Sorted(Out(c))'
  <2>1. Sorted(in) /\ Sorted(out)
    BY <1>i, <1>o DEF OrderThen
  <2>2. Sorted(in)' /\ Sorted(out)'
    BY <1>1, <1>t, <2>1, SortedStill
  <2>3. QED
    BY <1>i, <1>o, <2>2 DEF Sorted
<1>3. Cross(By(out), By(in)) => Cross(By(Out(c)), By(In(c)))'
  <2>1. Cross(By(out), By(in)) => Cross(By(out), By(in))'
    <3>1. PICK s : s = By(out)
      OBVIOUS
    <3>2. PICK t : t = By(in)
      OBVIOUS
    <3>3. Cross(s, t) => Cross(s, t)'
      BY <1>1, <3>1, CrossStill
    <3>4. QED
      BY <3>1, <3>2, <3>3 DEF Cross, By, Senders, ToSet
  <2>2. QED
    BY <1>i, <1>o, <2>1 DEF Cross, By, Senders, ToSet
<1>4. IsPrefix(Out(c), In(c))' \/ Cross(By(Out(c)), By(In(c)))'
  BY <1>3, <1>i, <1>o DEF OrderThen, IsPrefix
<1>5. \A k \in Live(c)' : Sorted(job[k].got)'
  <2>1. SUFFICES ASSUME NEW k \in Live(c)' PROVE Sorted(job[k].got)'
    OBVIOUS
  <2>2. PICK g : g = job'[k].got
    OBVIOUS
  <2>3. Sorted(g) /\ g \in Seq(Line) /\ By(g) \subseteq arrived'
    BY <1>1, <1>t, <2>1, <2>2 DEF OrderThen
  <2>4. Sorted(g)'
    BY <2>3, SortedStill
  <2>5. QED
    BY <2>2, <2>4 DEF Sorted
<1>6. \A k \in Runs(c, {"write"})' : job'[k].file = taken'[c] =>
          \A old \in By(In(c))' : (old \in job'[k].after /\ old \notin raced') =>
             Out(c)' # <<>> /\ IsPrefix(Out(c), In(c))'
  BY DEF OrderThen, By, Senders, ToSet, IsPrefix
<1>7. Runs(c, {"merge"})' # {} => Out(c)' # <<>>
  BY DEF OrderThen
<1>8. Runs(c, {"read"})' # {} => Cross(By(Out(c)), By(In(c)))'
  BY <1>3, <1>i, <1>o DEF OrderThen
<1>9. \A k \in Runs(c, {"drop"})' : Cross(By(job[k].got), By(In(c)))'
  <2>1. SUFFICES ASSUME NEW k \in Runs(c, {"drop"})' PROVE Cross(By(job[k].got), By(In(c)))'
    OBVIOUS
  <2>2. PICK s : s = By(job'[k].got)
    OBVIOUS
  <2>3. PICK t : t = By(in)
    OBVIOUS
  <2>4. k \in Live(c)'
    BY <2>1 DEF Live, Runs
  <2>5. Cross(s, t) /\ s \subseteq arrived'
    BY <1>1, <1>i, <2>1, <2>2, <2>3, <2>4 DEF OrderThen
  <2>6. Cross(s, t)'
    BY <2>5, CrossStill
  <2>7. QED
    BY <1>i, <2>2, <2>3, <2>6 DEF Cross, By, Senders, ToSet
<1>10. Cross(Left(c), ToCome(c))'
  <2>1. PICK s : s = Left(c)'
    OBVIOUS
  <2>2. PICK t : t = ToCome(c)'
    OBVIOUS
  <2>3. Cross(s, t)
    BY <2>1, <2>2 DEF OrderThen
  <2>4. s \subseteq arrived'
    <3>1. \A k \in Runs(c, {"work"})' : k \in Live(c)'
      BY DEF Runs, Live
    <3>2. \A k \in Runs(c, {"work"})' : By(job[k].got)' \subseteq arrived'
      BY <1>1, <3>1 DEF By, Senders, ToSet
    <3>3. \A x \in s : x \in ShownBy' \/ \E k \in Runs(c, {"work"})' : x \in By(job[k].got)'
      BY <2>1 DEF Left
    <3>4. QED
      BY <1>1, <3>2, <3>3
  <2>5. Cross(s, t)'
    BY <2>3, <2>4, CrossStill
  <2>6. QED
    BY <2>1, <2>2, <2>5 DEF Cross
<1>11. \A i, k \in DOMAIN shown' :
          (shown'[i].run = shown'[k].run /\ job'[shown'[i].by].bot = c /\ i <= k) =>
             ~Before(shown[k].by, shown[i].by)'
  <2>1. SUFFICES ASSUME NEW i \in DOMAIN shown', NEW k \in DOMAIN shown',
                        shown'[i].run = shown'[k].run, job'[shown'[i].by].bot = c, i <= k
                 PROVE  ~Before(shown[k].by, shown[i].by)'
    OBVIOUS
  <2>2. PICK new : new = shown'[i].by
    OBVIOUS
  <2>3. PICK old : old = shown'[k].by
    OBVIOUS
  <2>4. ~Before(old, new)
    BY <2>1, <2>2, <2>3 DEF OrderThen
  <2>5. new \in arrived'
    BY <1>1, <2>1, <2>2 DEF ShownBy, Senders, ToSet
  <2>6. ~Before(old, new)'
    BY <2>4, <2>5, BeforeKept
  <2>7. QED
    BY <2>2, <2>3, <2>6 DEF Before
<1>12. QED
  BY <1>2, <1>4, <1>5, <1>6, <1>7, <1>8, <1>9, <1>10, <1>11 DEF OrderAt

LEMMA CrossLess ==
    ASSUME NEW s, NEW t, NEW u, NEW v, Cross(s, t), u \subseteq s, v \subseteq t
    PROVE  Cross(u, v)
BY DEF Cross

LEMMA CrossNone == ASSUME NEW s PROVE Cross({}, s) /\ Cross(s, {})
BY DEF Cross

LEMMA AsideOrder ==
    ASSUME TypeInv, LinesInv, FilesInv, NEW j \in Jobs, Step(j), NEW c \in Ids, Aside(c), OrderAt(c)
    PROVE  OrderThen(c)
<1>1. \A k \in Jobs : (job'[k].bot = c /\ job'[k].pc \in Taking \ {"recover"}) => job'[k] = job[k]
  BY DEF Aside, Handling, Taking
<1>2. /\ In(c)' = In(c) /\ Out(c)' = Out(c) /\ taken'[c] = taken[c]
      /\ \A i \in DOMAIN shown : i \in DOMAIN shown' /\ shown'[i] = shown[i]
      /\ \A i \in DOMAIN shown' : i \in DOMAIN shown \/ job'[shown'[i].by].bot # c
  BY DEF Aside
<1>3. \A k \in Jobs : (job'[k].bot = c /\ job'[k].pc \in {"merge", "drop", "work"}) =>
         job'[k] = job[k] \/ (job'[k].got = <<>> /\ job'[k].pc = "work")
  BY DEF Aside, Handling, Taking
<1>4. By(<<>>) = {} /\ Sorted(<<>>)
  BY ByNone
<1>5. raced \subseteq raced'
  BY Monotone
<1>6. \A k \in Live(c)' : Sorted(job'[k].got)
  <2>1. \A k \in Live(c)' : \/ k \in Live(c) /\ job'[k] = job[k]
                            \/ job'[k].got = <<>>
    BY <1>3 DEF Live, Runs
  <2>2. QED
    BY <1>4, <2>1 DEF OrderAt
<1>7. \A k \in Runs(c, {"write"})' : job'[k].file = taken'[c] =>
          \A old \in By(In(c)') : (old \in job'[k].after /\ old \notin raced') =>
             Out(c)' # <<>> /\ IsPrefix(Out(c)', In(c)')
  <2>1. SUFFICES ASSUME NEW k \in Runs(c, {"write"})', job'[k].file = taken'[c],
                        NEW old \in By(In(c)), old \in job'[k].after, old \notin raced'
                 PROVE  Out(c) # <<>> /\ IsPrefix(Out(c), In(c))
    BY <1>2
  <2>2. job'[k] = job[k]
    BY <1>2, <2>1 DEF Aside, Handling, Runs
  <2>3. k \in Runs(c, {"write"})
    BY <2>1, <2>2 DEF Runs
  <2>4. QED
    BY <1>2, <1>5, <2>1, <2>2, <2>3 DEF OrderAt
<1>8. /\ Runs(c, {"merge"})' # {} => Runs(c, {"merge"}) # {}
      /\ Runs(c, {"read"})' # {} => Runs(c, {"read"}) # {}
      /\ \A k \in Runs(c, {"drop"})' : k \in Runs(c, {"drop"}) /\ job'[k] = job[k]
      /\ \A k \in Runs(c, {"merge"})' : k \in Runs(c, {"merge"}) /\ job'[k] = job[k]
  BY <1>1 DEF Runs, Taking
<1>9. /\ Runs(c, {"merge"})' # {} => Out(c)' # <<>>
      /\ Runs(c, {"read"})' # {} => Cross(By(Out(c)'), By(In(c)'))
      /\ \A k \in Runs(c, {"drop"})' : Cross(By(job'[k].got), By(In(c)'))
  BY <1>2, <1>8 DEF OrderAt
<1>10. Left(c)' \subseteq Left(c)
  <2>1. \A x \in Left(c)' : \/ x \in ShownBy' /\ job'[x].bot = c
                            \/ \E k \in Runs(c, {"work"})' : x \in By(job'[k].got)
    BY DEF Left, By, Senders, ToSet
  <2>2. \A x \in ShownBy' : job'[x].bot = c => x \in ShownBy
    BY <1>2 DEF ShownBy, Senders, ToSet
  <2>3. \A x \in ShownBy : job'[x] = job[x]
    BY ShownArrived, Monotone
  <2>4. \A k \in Runs(c, {"work"})' : \/ k \in Runs(c, {"work"}) /\ job'[k] = job[k]
                                      \/ job'[k].got = <<>>
    BY <1>3 DEF Runs
  <2>5. \A x \in Left(c)' : \/ x \in ShownBy /\ job[x].bot = c
                            \/ \E k \in Runs(c, {"work"}) : x \in By(job[k].got)
    BY <1>4, <2>1, <2>2, <2>3, <2>4
  <2>6. QED
    BY <2>5 DEF Left
<1>11. ToCome(c)' \subseteq ToCome(c)
  <2>1. \A x \in ToCome(c)' : \/ x \in By(In(c)') \cup By(Out(c)')
                              \/ \E k \in Runs(c, {"merge"})' : x \in By(job'[k].got)
    BY DEF ToCome, By, Senders, ToSet
  <2>2. \A x \in ToCome(c)' : \/ x \in By(In(c)) \cup By(Out(c))
                              \/ \E k \in Runs(c, {"merge"}) : x \in By(job[k].got)
    BY <1>2, <1>8, <2>1
  <2>3. QED
    BY <2>2 DEF ToCome
<1>12. Cross(Left(c)', ToCome(c)')
  BY <1>10, <1>11, CrossLess DEF OrderAt
<1>13. \A i, k \in DOMAIN shown' :
          (shown'[i].run = shown'[k].run /\ job'[shown'[i].by].bot = c /\ i <= k) =>
             ~Before(shown'[k].by, shown'[i].by)
  <2>1. SUFFICES ASSUME NEW i \in DOMAIN shown', NEW k \in DOMAIN shown',
                        shown'[i].run = shown'[k].run, job'[shown'[i].by].bot = c, i <= k
                 PROVE  ~Before(shown'[k].by, shown'[i].by)
    OBVIOUS
  <2>2. i \in DOMAIN shown /\ shown'[i] = shown[i]
    BY <1>2, <2>1
  <2>3. CASE k \in DOMAIN shown
    <3>1. shown'[k] = shown[k] /\ job[shown[i].by].bot = c
      BY <1>2, <2>1, <2>2, <2>3, ShownArrived
    <3>2. QED
      BY <2>1, <2>2, <2>3, <3>1 DEF OrderAt
  <2>4. CASE k \notin DOMAIN shown
    <3>1. job[shown'[k].run].pc = "work"
      BY <2>1, <2>4 DEF Aside
    <3>2. job[shown[i].run].pc \in {"append", "done", "dead"}
      BY <2>2 DEF LinesInv
    <3>3. QED
      BY <2>1, <2>2, <3>1, <3>2
  <2>5. QED
    BY <2>3, <2>4
<1>14. /\ Sorted(In(c)') /\ Sorted(Out(c)')
       /\ IsPrefix(Out(c)', In(c)') \/ Cross(By(Out(c)'), By(In(c)'))
  BY <1>2 DEF OrderAt
<1>15. QED
  BY <1>6, <1>7, <1>9, <1>12, <1>13, <1>14 DEF OrderThen

\* The only run that takes the inbox keeps what is there in order.
LEMMA TakerOrder ==
    ASSUME TypeInv, LinesInv, FilesInv, Alone, NEW j \in Jobs, Step(j), NEW b \in Ids,
           b = job[j].bot, b \notin crowded, OrderAt(b), job[j].pc \in Taking, shown' = shown,
           job'[j].bot = b, job'[j].pc # "write", raced' = raced,
           Sorted(In(b)'), Sorted(Out(b)'),
           IsPrefix(Out(b)', In(b)') \/ Cross(By(Out(b)'), By(In(b)')),
           \A k \in Runs(b, {"write"}) : job[k].file = taken'[b] =>
              \A old \in By(In(b)') : (old \in job[k].after /\ old \notin raced) =>
                 Out(b)' # <<>> /\ IsPrefix(Out(b)', In(b)'),
           By(In(b)') \cup By(Out(b)') \subseteq ToCome(b),
           job'[j].pc \in {"merge", "drop", "work"} => Sorted(job'[j].got),
           job'[j].pc = "merge" => By(job'[j].got) \subseteq ToCome(b) /\ Out(b)' # <<>>,
           job'[j].pc = "work" => Cross(By(job'[j].got), By(In(b)') \cup By(Out(b)')),
           job'[j].pc = "read" => Cross(By(Out(b)'), By(In(b)')),
           job'[j].pc = "drop" => Cross(By(job'[j].got), By(In(b)'))
    PROVE  OrderThen(b)
<1>1. /\ \A k \in Jobs : job[k].bot = b /\ job[k].pc \in Taking => k = j
      /\ \A k \in Jobs : job'[k].bot = b /\ job'[k].pc \in Taking => k = j
      /\ \A k \in Jobs \ {j} : job'[k] = job[k]
  BY OnlyTaker, OneJob
<1>2. \A k \in Live(b)' : k # j => k \in Runs(b, {"work"}) /\ k \in Live(b) /\ job'[k] = job[k]
  BY <1>1 DEF Live, Runs, Taking
<1>3. \A k \in Live(b)' : Sorted(job'[k].got)
  <2>1. SUFFICES ASSUME NEW k \in Live(b)' PROVE Sorted(job'[k].got)
    OBVIOUS
  <2>2. CASE k = j
    <3>1. job'[j].pc \in {"merge", "drop", "work"}
      BY <2>1, <2>2 DEF Live, Runs
    <3>2. QED
      BY <2>2, <3>1
  <2>3. CASE k # j
    BY <1>2, <2>1, <2>3 DEF OrderAt
  <2>4. QED
    BY <2>2, <2>3
<1>4. \A k \in Runs(b, {"write"})' : job'[k].file = taken'[b] =>
          \A old \in By(In(b)') : (old \in job'[k].after /\ old \notin raced') =>
             Out(b)' # <<>> /\ IsPrefix(Out(b)', In(b)')
  <2>1. \A k \in Runs(b, {"write"})' : k \in Runs(b, {"write"}) /\ job'[k] = job[k]
    BY <1>1 DEF Runs
  <2>2. QED
    BY <2>1
<1>5. /\ Runs(b, {"read"})' # {} => job'[j].pc = "read"
      /\ \A k \in Runs(b, {"drop"})' : k = j /\ job'[j].pc = "drop"
      /\ \A k \in Runs(b, {"merge"})' : k = j /\ job'[j].pc = "merge"
  BY <1>1 DEF Runs, Taking
<1>6. /\ Runs(b, {"merge"})' # {} => Out(b)' # <<>>
      /\ Runs(b, {"read"})' # {} => Cross(By(Out(b)'), By(In(b)'))
      /\ \A k \in Runs(b, {"drop"})' : Cross(By(job'[k].got), By(In(b)'))
  BY <1>5
<1>7. \A x \in ToCome(b)' : /\ x \in ToCome(b)
                            /\ x \in By(In(b)') \cup By(Out(b)') \/ job'[j].pc = "merge"
  <2>1. \A x \in ToCome(b)' : \/ x \in By(In(b)') \cup By(Out(b)')
                              \/ \E k \in Runs(b, {"merge"})' : x \in By(job'[k].got)
    BY DEF ToCome, By, Senders, ToSet
  <2>2. \A x \in ToCome(b)' : \/ x \in By(In(b)') \cup By(Out(b)')
                              \/ job'[j].pc = "merge" /\ x \in By(job'[j].got)
    BY <1>5, <2>1
  <2>3. QED
    BY <2>2
<1>8. \A x \in Left(b)' : x \in Left(b) \/ (job'[j].pc = "work" /\ x \in By(job'[j].got))
  <2>1. \A x \in Left(b)' : \/ x \in ShownBy' /\ job'[x].bot = b
                            \/ \E k \in Runs(b, {"work"})' : x \in By(job'[k].got)
    BY DEF Left, By, Senders, ToSet
  <2>2. ShownBy' = ShownBy /\ \A x \in ShownBy : job'[x] = job[x]
    BY ShownArrived, Monotone DEF ShownBy
  <2>3. \A k \in Runs(b, {"work"})' : \/ k \in Runs(b, {"work"}) /\ job'[k] = job[k]
                                      \/ k = j /\ job'[j].pc = "work"
    BY <1>1 DEF Runs
  <2>4. \A x \in Left(b)' : \/ x \in ShownBy /\ job[x].bot = b
                            \/ \E k \in Runs(b, {"work"}) : x \in By(job[k].got)
                            \/ job'[j].pc = "work" /\ x \in By(job'[j].got)
    BY <2>1, <2>2, <2>3
  <2>5. QED
    BY <2>4 DEF Left
<1>9. Cross(Left(b)', ToCome(b)')
  <2>1. SUFFICES ASSUME NEW new \in Left(b)', NEW old \in ToCome(b)' PROVE ~Before(old, new)
    BY DEF Cross
  <2>2. CASE new \in Left(b)
    BY <1>7, <2>1, <2>2 DEF OrderAt, Cross
  <2>3. CASE job'[j].pc = "work" /\ new \in By(job'[j].got)
    BY <1>7, <2>1, <2>3 DEF Cross
  <2>4. QED
    BY <1>8, <2>1, <2>2, <2>3
<1>10. \A i, k \in DOMAIN shown' :
          (shown'[i].run = shown'[k].run /\ job'[shown'[i].by].bot = b /\ i <= k) =>
             ~Before(shown'[k].by, shown'[i].by)
  BY ShownArrived DEF OrderAt
<1>11. QED
  BY <1>3, <1>4, <1>6, <1>9, <1>10 DEF OrderThen

LEMMA RecoverOrder ==
    ASSUME TypeInv, LinesInv, FilesInv, Alone, NEW j \in Jobs, Step(j), NEW b, b = job[j].bot,
           b \notin crowded, OrderAt(b), Recover(j)
    PROVE  OrderThen(b)
<1>1. /\ b \in Ids /\ job[j].pc = "recover" /\ shown' = shown /\ job'[j].bot = b
      /\ In(b)' = In(b) /\ Out(b)' = Out(b) /\ taken' = taken /\ raced' = raced
      /\ \/ job'[j].pc \in {"drain", "dropTaken"}
         \/ /\ job'[j].pc = "merge" /\ job'[j].got = Out(b) \o In(b)
            /\ ~AlreadyMerged(Out(b), In(b))
  BY RecoverDoes DEF Unnoted
<1>2. In(b) \in Seq(Line) /\ Out(b) \in Seq(Line)
  BY <1>1, BoxesTyped
<1>3. By(Out(b) \o In(b)) = By(Out(b)) \cup By(In(b))
  BY <1>2, ByConcat
<1>4. ~AlreadyMerged(Out(b), In(b)) => Sorted(Out(b) \o In(b)) /\ Out(b) # <<>>
  <2>1. SUFFICES ASSUME ~AlreadyMerged(Out(b), In(b))
                 PROVE  Sorted(Out(b) \o In(b)) /\ Out(b) # <<>>
    OBVIOUS
  <2>2. ~IsPrefix(Out(b), In(b))
    BY <1>2, <2>1, PrefixIsMerged
  <2>3. Cross(By(Out(b)), By(In(b))) /\ Sorted(Out(b)) /\ Sorted(In(b))
    BY <2>2 DEF OrderAt
  <2>4. Sorted(Out(b) \o In(b))
    BY <1>2, <2>3, SortedConcat
  <2>5. Out(b) # <<>>
    BY <1>2, <2>2, EmptyPrefix
  <2>6. QED
    BY <2>4, <2>5
<1>5. /\ Sorted(In(b)') /\ Sorted(Out(b)')
      /\ IsPrefix(Out(b)', In(b)') \/ Cross(By(Out(b)'), By(In(b)'))
      /\ By(In(b)') \cup By(Out(b)') \subseteq ToCome(b)
  BY <1>1 DEF OrderAt, ToCome
<1>6. \A k \in Runs(b, {"write"}) : job[k].file = taken'[b] =>
              \A old \in By(In(b)') : (old \in job[k].after /\ old \notin raced) =>
                 Out(b)' # <<>> /\ IsPrefix(Out(b)', In(b)')
  BY <1>1 DEF OrderAt
<1>7. job'[j].pc = "merge" => /\ Sorted(job'[j].got) /\ By(job'[j].got) \subseteq ToCome(b)
                              /\ Out(b)' # <<>>
  BY <1>1, <1>3, <1>4 DEF ToCome
<1>8. job[j].pc \in Taking /\ job'[j].pc \notin {"drop", "work", "read", "write"}
  BY <1>1 DEF Taking
<1>9. QED
  BY <1>1, <1>5, <1>6, <1>7, <1>8, TakerOrder

LEMMA MergeOrder ==
    ASSUME TypeInv, LinesInv, FilesInv, Alone, NEW j \in Jobs, Step(j), NEW b, b = job[j].bot,
           b \notin crowded, OrderAt(b), OnceAt(b), Merge(j)
    PROVE  OrderThen(b)
<1>1. /\ b \in Ids /\ job[j].pc = "merge" /\ shown' = shown /\ job'[j].bot = b
      /\ Out(b)' = Out(b) /\ job'[j].pc \in {"failed", "dropTaken"}
      /\ In(b)' = In(b) \/ In(b)' = job[j].got
      /\ taken' = taken /\ raced' = raced
  BY MergeDoes DEF Unnoted
<1>2. j \in Live(b) /\ j \in Runs(b, {"merge"})
  BY <1>1 DEF Live, Runs
<1>3. Sorted(job[j].got) /\ IsPrefix(Out(b), job[j].got) /\ Out(b) # <<>>
  BY <1>2 DEF OnceAt, OrderAt
<1>4. By(job[j].got) \subseteq ToCome(b)
  BY <1>2 DEF ToCome
<1>5. /\ Sorted(In(b)') /\ Sorted(Out(b)')
      /\ IsPrefix(Out(b)', In(b)') \/ Cross(By(Out(b)'), By(In(b)'))
  BY <1>1, <1>3 DEF OrderAt
<1>6. By(In(b)') \cup By(Out(b)') \subseteq ToCome(b)
  <2>1. By(In(b)) \cup By(Out(b)) \subseteq ToCome(b)
    BY DEF ToCome
  <2>2. QED
    BY <1>1, <1>4, <2>1
<1>7. \A k \in Runs(b, {"write"}) : job[k].file = taken'[b] =>
              \A old \in By(In(b)') : (old \in job[k].after /\ old \notin raced) =>
                 Out(b)' # <<>> /\ IsPrefix(Out(b)', In(b)')
  <2>1. CASE In(b)' = In(b)
    BY <1>1, <2>1 DEF OrderAt
  <2>2. CASE In(b)' = job[j].got
    BY <1>1, <1>3, <2>2
  <2>3. QED
    BY <1>1, <2>1, <2>2
<1>8. job[j].pc \in Taking /\ job'[j].pc \notin {"merge", "drop", "work", "read", "write"}
  BY <1>1 DEF Taking
<1>9. QED
  BY <1>1, <1>5, <1>6, <1>7, <1>8, TakerOrder

\* Who is about to write does so to a file.
LEMMA WritersFile ==
    ASSUME TypeInv, NEW b, NEW k \in Runs(b, {"write"}) PROVE job[k].file # None
<1>1. k \in Jobs /\ job[k].pc = "write"
  BY DEF Runs
<1>2. job[k].file \in Files
  BY <1>1 DEF TypeInv, Fits
<1>3. QED
  BY <1>2, FilesAre

LEMMA DrainOrder ==
    ASSUME TypeInv, LinesInv, FilesInv, Alone, NEW j \in Jobs, Step(j), NEW b, b = job[j].bot,
           b \notin crowded, OrderAt(b), DropTaken(j) \/ Drain(j)
    PROVE  OrderThen(b)
<1>1. /\ b \in Ids /\ job[j].pc \in {"dropTaken", "drain"} /\ shown' = shown /\ job'[j].bot = b
      /\ job'[j].got = job[j].got /\ job'[j].pc \in {"failed", "drain", "take", "work"}
      /\ In(b)' = In(b) /\ raced' = raced
      /\ (Out(b)' = Out(b) /\ taken'[b] = taken[b]) \/ (Out(b)' = <<>> /\ taken'[b] = None)
  BY DropTakenDoes, DrainDoes DEF Unnoted
<1>2. job[j].got = <<>> /\ job[j].pc \in Taking
  BY <1>1 DEF LinesInv, Taking
<1>3. By(<<>>) = {} /\ Sorted(<<>>)
  BY ByNone
<1>4. /\ Sorted(In(b)') /\ Sorted(Out(b)')
      /\ IsPrefix(Out(b)', In(b)') \/ Cross(By(Out(b)'), By(In(b)'))
      /\ By(In(b)') \cup By(Out(b)') \subseteq ToCome(b)
  <2>1. CASE Out(b)' = Out(b)
    BY <1>1, <2>1 DEF OrderAt, ToCome
  <2>2. CASE Out(b)' = <<>>
    BY <1>1, <1>3, <2>2 DEF OrderAt, ToCome, Cross
  <2>3. QED
    BY <1>1, <2>1, <2>2
<1>5. \A k \in Runs(b, {"write"}) : job[k].file = taken'[b] =>
              \A old \in By(In(b)') : (old \in job[k].after /\ old \notin raced) =>
                 Out(b)' # <<>> /\ IsPrefix(Out(b)', In(b)')
  <2>1. CASE Out(b)' = Out(b) /\ taken'[b] = taken[b]
    BY <1>1, <2>1 DEF OrderAt
  <2>2. CASE taken'[b] = None
    BY <2>2, WritersFile
  <2>3. QED
    BY <1>1, <2>1, <2>2
<1>6. Sorted(job'[j].got) /\ Cross(By(job'[j].got), By(In(b)') \cup By(Out(b)'))
  BY <1>1, <1>2, <1>3 DEF Cross
<1>7. job'[j].pc \notin {"merge", "drop", "read", "write"}
  BY <1>1
<1>8. QED
  BY <1>1, <1>2, <1>4, <1>5, <1>6, <1>7, TakerOrder

LEMMA TakeOrder ==
    ASSUME TypeInv, LinesInv, FilesInv, Alone, NEW j \in Jobs, Step(j), NEW b, b = job[j].bot,
           b \notin crowded, OrderAt(b), Take(j)
    PROVE  OrderThen(b)
<1>1. /\ b \in Ids /\ job[j].pc = "take" /\ shown' = shown /\ job'[j].bot = b /\ raced' = raced
      /\ \/ /\ job'[j].pc = "failed" /\ In(b)' = In(b) /\ Out(b)' = Out(b)
            /\ taken'[b] = taken[b]
         \/ job'[j].pc = "read" /\ In(b)' = <<>> /\ Out(b)' = In(b)
  BY TakeDoes DEF Unnoted
<1>2. By(<<>>) = {} /\ Sorted(<<>>)
  BY ByNone
<1>3. /\ Sorted(In(b)') /\ Sorted(Out(b)')
      /\ IsPrefix(Out(b)', In(b)') \/ Cross(By(Out(b)'), By(In(b)'))
      /\ By(In(b)') \cup By(Out(b)') \subseteq ToCome(b)
      /\ job'[j].pc = "read" => Cross(By(Out(b)'), By(In(b)'))
      /\ \A k \in Runs(b, {"write"}) : job[k].file = taken'[b] =>
              \A old \in By(In(b)') : (old \in job[k].after /\ old \notin raced) =>
                 Out(b)' # <<>> /\ IsPrefix(Out(b)', In(b)')
  <2>1. CASE /\ job'[j].pc = "failed" /\ In(b)' = In(b) /\ Out(b)' = Out(b)
             /\ taken'[b] = taken[b]
    BY <2>1 DEF OrderAt, ToCome
  <2>2. CASE In(b)' = <<>> /\ Out(b)' = In(b)
    BY <1>2, <2>2 DEF OrderAt, ToCome, Cross
  <2>3. QED
    BY <1>1, <2>1, <2>2
<1>4. job[j].pc \in Taking /\ job'[j].pc \notin {"merge", "drop", "work", "write"}
  BY <1>1 DEF Taking
<1>5. QED
  BY <1>1, <1>3, <1>4, TakerOrder

LEMMA ReadOrder ==
    ASSUME TypeInv, LinesInv, FilesInv, Alone, NEW j \in Jobs, Step(j), NEW b, b = job[j].bot,
           b \notin crowded, OrderAt(b), Read(j)
    PROVE  OrderThen(b)
<1>1. /\ b \in Ids /\ job[j].pc = "read" /\ shown' = shown /\ job'[j].bot = b
      /\ In(b)' = In(b) /\ Out(b)' = Out(b) /\ taken' = taken /\ raced' = raced
      /\ job'[j].pc = "failed" \/ (job'[j].pc = "drop" /\ job'[j].got = Out(b))
  BY ReadDoes DEF Unnoted
<1>2. j \in Runs(b, {"read"})
  BY <1>1 DEF Runs
<1>3. Cross(By(Out(b)), By(In(b)))
  BY <1>2 DEF OrderAt
<1>4. /\ Sorted(In(b)') /\ Sorted(Out(b)')
      /\ IsPrefix(Out(b)', In(b)') \/ Cross(By(Out(b)'), By(In(b)'))
      /\ By(In(b)') \cup By(Out(b)') \subseteq ToCome(b)
  BY <1>1 DEF OrderAt, ToCome
<1>5. job'[j].pc = "drop" => Sorted(job'[j].got) /\ Cross(By(job'[j].got), By(In(b)'))
  BY <1>1, <1>3 DEF OrderAt
<1>6. \A k \in Runs(b, {"write"}) : job[k].file = taken'[b] =>
              \A old \in By(In(b)') : (old \in job[k].after /\ old \notin raced) =>
                 Out(b)' # <<>> /\ IsPrefix(Out(b)', In(b)')
  BY <1>1 DEF OrderAt
<1>7. job[j].pc \in Taking /\ job'[j].pc \notin {"merge", "work", "read", "write"}
  BY <1>1 DEF Taking
<1>8. QED
  BY <1>1, <1>4, <1>5, <1>6, <1>7, TakerOrder

LEMMA DropOrder ==
    ASSUME TypeInv, LinesInv, FilesInv, Alone, NEW j \in Jobs, Step(j), NEW b, b = job[j].bot,
           b \notin crowded, OrderAt(b), Drop(j)
    PROVE  OrderThen(b)
<1>1. /\ b \in Ids /\ job[j].pc = "drop" /\ shown' = shown /\ job'[j].bot = b /\ raced' = raced
      /\ In(b)' = In(b) /\ Out(b)' = <<>> /\ taken'[b] = None
      /\ job'[j].pc = "work" /\ job'[j].got = job[j].got
  BY DropDoes DEF Unnoted
<1>2. j \in Live(b) /\ j \in Runs(b, {"drop"})
  BY <1>1 DEF Live, Runs
<1>3. Sorted(job[j].got) /\ Cross(By(job[j].got), By(In(b)))
  BY <1>2 DEF OrderAt
<1>4. By(<<>>) = {} /\ Sorted(<<>>)
  BY ByNone
<1>5. /\ Sorted(In(b)') /\ Sorted(Out(b)')
      /\ IsPrefix(Out(b)', In(b)') \/ Cross(By(Out(b)'), By(In(b)'))
      /\ By(In(b)') \cup By(Out(b)') \subseteq ToCome(b)
  BY <1>1, <1>4 DEF OrderAt, ToCome, Cross
<1>6. Sorted(job'[j].got) /\ Cross(By(job'[j].got), By(In(b)') \cup By(Out(b)'))
  BY <1>1, <1>3, <1>4
<1>7. \A k \in Runs(b, {"write"}) : job[k].file = taken'[b] =>
              \A old \in By(In(b)') : (old \in job[k].after /\ old \notin raced) =>
                 Out(b)' # <<>> /\ IsPrefix(Out(b)', In(b)')
  BY <1>1, WritersFile
<1>8. job[j].pc \in Taking /\ job'[j].pc \notin {"merge", "drop", "read", "write"}
  BY <1>1 DEF Taking
<1>9. QED
  BY <1>1, <1>5, <1>6, <1>7, <1>8, TakerOrder

LEMMA SortedMore ==
    ASSUME NEW s \in Seq(Line), NEW y \in Line, Sorted(s), Cross(By(s), {y.by}), ~Before(y.by, y.by)
    PROVE  Sorted(s \o <<y>>)
<1> DEFINE t == <<y>>
<1>1. t \in Seq(Line) /\ By(t) = {y.by} /\ DOMAIN t = {1} /\ t[1] = y
  BY ByOne
<1>2. Sorted(t)
  BY <1>1 DEF Sorted
<1> HIDE DEF t
<1>3. Sorted(s \o t)
  BY <1>1, <1>2, SortedConcat
<1>4. QED
  BY <1>3 DEF t

LEMMA WriteOrder ==
    ASSUME TypeInv, LinesInv, FilesInv, NEW j \in Jobs, Step(j), NEW b, b = job[j].bot,
           b \notin blurred', OrderAt(b), SendWrite(j)
    PROVE  OrderThen(b)
<1>f. PICK f : f = job[j].file
  OBVIOUS
<1>0. /\ b \in Ids /\ job'[j].pc = "done" /\ UNCHANGED <<inbox, taken, shown>>
      /\ blurred' = (IF Blurs(b, f) THEN blurred \cup {b} ELSE blurred)
      /\ j \notin arrived /\ job[j].pc = "write"
  BY <1>f, WriteDoes
<1>1. \A k \in Jobs \ {j} : job'[k] = job[k]
  BY OneJob
<1>w. PICK x \in Line : WritesTo(j, b, f, x)
  BY <1>f, WriteTo
<1>2. /\ x \in Line /\ x.by = j
      /\ \/ /\ In(b)' = In(b) \o <<x>> /\ Out(b)' = Out(b)
            /\ By(In(b)') = By(In(b)) \cup {j}
         \/ /\ In(b)' = In(b) /\ Out(b)' = Out(b) \o <<x>> /\ f = taken[b]
            /\ By(Out(b)') = By(Out(b)) \cup {j}
         \/ In(b)' = In(b) /\ Out(b)' = Out(b) /\ f \notin {inbox[b], taken[b]}
  BY <1>w DEF WritesTo
<1>3. In(b) \in Seq(Line) /\ Out(b) \in Seq(Line)
  BY <1>0, BoxesTyped
<1>4. raced \subseteq raced'
  BY Monotone
\* Nothing says that it came after what is only written now.
<1>5. \A k \in Jobs : j \notin job[k].after
  BY <1>0 DEF LinesInv
<1>6. \A new \in Jobs : ~Before(j, new)
  BY <1>5 DEF Before
<1>7. By(In(b)) \subseteq Jobs /\ By(Out(b)) \subseteq Jobs
  BY <1>3, ByAt
<1>8. Sorted(In(b) \o <<x>>) /\ Sorted(Out(b) \o <<x>>)
  <2>1. Cross(By(In(b)), {x.by}) /\ Cross(By(Out(b)), {x.by}) /\ ~Before(x.by, x.by)
    BY <1>2, <1>6, <1>7 DEF Cross
  <2>2. QED
    BY <1>2, <1>3, <2>1, SortedMore DEF OrderAt
<1>9. Sorted(In(b)') /\ Sorted(Out(b)')
  BY <1>2, <1>8 DEF OrderAt
<1>10. f = taken[b] => ~On(b, {"merge"}) /\ (Out(b) = <<>> \/ ~IsPrefix(Out(b), In(b)))
  <2>1. SUFFICES ASSUME f = taken[b]
                 PROVE ~On(b, {"merge"}) /\ (Out(b) = <<>> \/ ~IsPrefix(Out(b), In(b)))
    OBVIOUS
  <2>2. ~Blurs(b, f)
    BY <1>0
  <2>3. /\ ~On(b, {"merge"})
        /\ Out(b) = <<>> \/ ~AlreadyMerged(Out(b), In(b))
    BY <2>1, <2>2 DEF Blurs, In, Out
  <2>4. ~AlreadyMerged(Out(b), In(b)) => ~IsPrefix(Out(b), In(b))
    BY <1>3, PrefixIsMerged
  <2>5. QED
    BY <2>3, <2>4
<1>11. f = taken[b] => Cross(By(Out(b)) \cup {j}, By(In(b)))
  <2>1. SUFFICES ASSUME f = taken[b], NEW new \in By(Out(b)) \cup {j}, NEW old \in By(In(b)),
                        Before(old, new)
                 PROVE  FALSE
    BY DEF Cross
  <2>2. CASE new \in By(Out(b))
    <3>1. Out(b) # <<>>
      BY <2>2, ByNone
    <3>2. Cross(By(Out(b)), By(In(b)))
      BY <1>10, <2>1, <3>1 DEF OrderAt
    <3>3. QED
      BY <2>1, <2>2, <3>2 DEF Cross
  <2>3. CASE new = j
    <3>1. j \in Runs(b, {"write"}) /\ job[j].file = taken[b]
      BY <1>0, <1>f, <2>1 DEF Runs
    <3>2. old \in job[j].after /\ old \notin raced
      BY <2>1, <2>3 DEF Before
    <3>3. Out(b) # <<>> /\ IsPrefix(Out(b), In(b))
      BY <2>1, <3>1, <3>2 DEF OrderAt
    <3>4. QED
      BY <1>10, <2>1, <3>3
  <2>4. QED
    BY <2>1, <2>2, <2>3
<1>12. Cross(By(Out(b)), By(In(b))) => Cross(By(Out(b)'), By(In(b)'))
  <2>1. SUFFICES ASSUME Cross(By(Out(b)), By(In(b))) PROVE Cross(By(Out(b)'), By(In(b)'))
    OBVIOUS
  <2>2. CASE By(In(b)') = By(In(b)) \cup {j} /\ Out(b)' = Out(b)
    BY <1>6, <1>7, <2>1, <2>2 DEF Cross
  <2>3. CASE By(Out(b)') = By(Out(b)) \cup {j} /\ In(b)' = In(b) /\ f = taken[b]
    BY <1>11, <2>3
  <2>4. CASE In(b)' = In(b) /\ Out(b)' = Out(b)
    BY <2>1, <2>4
  <2>5. QED
    BY <1>2, <2>2, <2>3, <2>4
<1>13. IsPrefix(Out(b), In(b)) => \/ Out(b)' = Out(b) /\ IsPrefix(Out(b)', In(b)')
                                  \/ f = taken[b]
  <2>1. IsPrefix(Out(b), In(b)) => IsPrefix(Out(b), In(b) \o <<x>>)
    BY <1>2, <1>3, PrefixMore
  <2>2. QED
    BY <1>2, <2>1
<1>14. f = taken[b] => Cross(By(Out(b)'), By(In(b)'))
  <2>1. f = taken[b] => Cross(By(Out(b)), By(In(b)))
    BY <1>11, CrossLess
  <2>2. QED
    BY <1>12, <2>1
<1>15. IsPrefix(Out(b)', In(b)') \/ Cross(By(Out(b)'), By(In(b)'))
  BY <1>12, <1>13, <1>14 DEF OrderAt
<1>16. \A k \in Live(b)' : Sorted(job'[k].got)
  <2>1. \A k \in Live(b)' : k \in Live(b) /\ job'[k] = job[k]
    BY <1>0, <1>1 DEF Live, Runs
  <2>2. QED
    BY <2>1 DEF OrderAt
<1>17. \A k \in Runs(b, {"write"})' : job'[k].file = taken'[b] =>
          \A old \in By(In(b)') : (old \in job'[k].after /\ old \notin raced') =>
             Out(b)' # <<>> /\ IsPrefix(Out(b)', In(b)')
  <2>1. SUFFICES ASSUME NEW k \in Runs(b, {"write"})', job'[k].file = taken'[b],
                        NEW old \in By(In(b)'), old \in job'[k].after, old \notin raced'
                 PROVE  Out(b)' # <<>> /\ IsPrefix(Out(b)', In(b)')
    OBVIOUS
  <2>2. /\ k \in Runs(b, {"write"}) /\ k \in Jobs /\ job'[k] = job[k]
        /\ job[k].file = taken[b]
    BY <1>0, <1>1, <2>1 DEF Runs
  <2>3. old \in By(In(b)) /\ old \notin raced
    BY <1>2, <1>4, <1>5, <2>1, <2>2
  <2>4. Out(b) # <<>> /\ IsPrefix(Out(b), In(b))
    BY <2>1, <2>2, <2>3 DEF OrderAt
  <2>5. f # taken[b]
    BY <1>10, <2>4
  <2>6. QED
    BY <1>13, <2>4, <2>5
<1>18. Runs(b, {"merge"})' # {} => Out(b)' # <<>>
  <2>1. Runs(b, {"merge"})' # {} => Runs(b, {"merge"}) # {}
    BY <1>0, <1>1 DEF Runs
  <2>2. Runs(b, {"merge"}) # {} => On(b, {"merge"})
    BY DEF Runs, On
  <2>3. Runs(b, {"merge"}) # {} => Out(b)' = Out(b)
    BY <1>2, <1>10, <2>2
  <2>4. QED
    BY <2>1, <2>3 DEF OrderAt
<1>19. Runs(b, {"read"})' # {} => Cross(By(Out(b)'), By(In(b)'))
  <2>1. Runs(b, {"read"})' # {} => Runs(b, {"read"}) # {}
    BY <1>0, <1>1 DEF Runs
  <2>2. QED
    BY <1>12, <2>1 DEF OrderAt
<1>20. \A k \in Runs(b, {"drop"})' : Cross(By(job'[k].got), By(In(b)'))
  <2>1. SUFFICES ASSUME NEW k \in Runs(b, {"drop"})' PROVE Cross(By(job'[k].got), By(In(b)'))
    OBVIOUS
  <2>2. k \in Runs(b, {"drop"}) /\ k \in Jobs /\ job'[k] = job[k]
    BY <1>0, <1>1, <2>1 DEF Runs
  <2>3. Cross(By(job[k].got), By(In(b))) /\ By(job[k].got) \subseteq Jobs
    BY <2>2, JobsTyped, ByAt DEF OrderAt
  <2>4. By(In(b)') \subseteq By(In(b)) \cup {j}
    BY <1>2
  <2>5. QED
    BY <1>6, <2>2, <2>3, <2>4 DEF Cross
<1>21. Cross(Left(b)', ToCome(b)')
  <2>1. Left(b)' \subseteq Left(b)
    <3>1. \A s \in Left(b)' : \/ s \in ShownBy' /\ job'[s].bot = b
                              \/ \E k \in Runs(b, {"work"})' : s \in By(job'[k].got)
      BY DEF Left, By, Senders, ToSet
    <3>2. ShownBy' = ShownBy /\ \A s \in ShownBy : job'[s] = job[s]
      BY <1>0, ShownArrived, Monotone DEF ShownBy
    <3>3. \A k \in Runs(b, {"work"})' : k \in Runs(b, {"work"}) /\ job'[k] = job[k]
      BY <1>0, <1>1 DEF Runs
    <3>4. QED
      BY <3>1, <3>2, <3>3 DEF Left
  <2>2. ToCome(b)' \subseteq ToCome(b) \cup {j}
    <3>1. \A s \in ToCome(b)' : \/ s \in By(In(b)') \cup By(Out(b)')
                                \/ \E k \in Runs(b, {"merge"})' : s \in By(job'[k].got)
      BY DEF ToCome, By, Senders, ToSet
    <3>2. \A k \in Runs(b, {"merge"})' : k \in Runs(b, {"merge"}) /\ job'[k] = job[k]
      BY <1>0, <1>1 DEF Runs
    <3>3. By(In(b)') \cup By(Out(b)') \subseteq By(In(b)) \cup By(Out(b)) \cup {j}
      BY <1>2
    <3>4. \A s \in ToCome(b)' : \/ s \in By(In(b)) \cup By(Out(b)) \cup {j}
                                \/ \E k \in Runs(b, {"merge"}) : s \in By(job[k].got)
      BY <3>1, <3>2, <3>3
    <3>5. QED
      BY <3>4 DEF ToCome
  <2>3. \A s \in Left(b) : s \in Jobs
    <3>1. \A s \in ShownBy : s \in Jobs
      BY ShownArrived, Monotone
    <3>2. \A k \in Runs(b, {"work"}) : By(job[k].got) \subseteq Jobs
      BY JobsTyped, ByAt DEF Runs
    <3>3. QED
      BY <3>1, <3>2 DEF Left
  <2>4. Cross(Left(b), ToCome(b))
    BY DEF OrderAt
  <2>5. SUFFICES ASSUME NEW new \in Left(b)', NEW old \in ToCome(b)' PROVE ~Before(old, new)
    BY DEF Cross
  <2>6. QED
    BY <1>6, <2>1, <2>2, <2>3, <2>4, <2>5 DEF Cross
<1>22. \A i, k \in DOMAIN shown' :
          (shown'[i].run = shown'[k].run /\ job'[shown'[i].by].bot = b /\ i <= k) =>
             ~Before(shown'[k].by, shown'[i].by)
  BY <1>0, ShownArrived DEF OrderAt
<1>23. QED
  BY <1>9, <1>15, <1>16, <1>17, <1>18, <1>19, <1>20, <1>21, <1>22 DEF OrderThen

LEMMA WorkOrder ==
    ASSUME TypeInv, LinesInv, FilesInv, NEW j \in Jobs, Step(j), NEW b, b = job[j].bot,
           OrderAt(b), Work(j)
    PROVE  OrderThen(b)
<1>1. /\ b \in Ids /\ job[j].pc = "work" /\ job'[j].pc = "append" /\ taken' = taken
      /\ In(b)' = In(b) /\ Out(b)' = Out(b) /\ shown' = shown \o Given2Run(j)
  BY WorkDoes
<1>2. \A k \in Jobs \ {j} : job'[k] = job[k]
  BY OneJob
<1>3. j \in Live(b) /\ j \in Runs(b, {"work"})
  BY <1>1 DEF Live, Runs
<1>4. ShownBy' = ShownBy \cup By(job[j].got)
  BY <1>1, ShownGrows
<1>r. raced \subseteq raced'
  BY Monotone
<1>5. \A k \in Live(b)' : k \in Live(b) /\ job'[k] = job[k]
  BY <1>1, <1>2 DEF Live, Runs
<1>6. /\ \A k \in Runs(b, {"work"})' : k \in Runs(b, {"work"}) /\ job'[k] = job[k]
      /\ \A k \in Runs(b, {"write"})' : k \in Runs(b, {"write"}) /\ job'[k] = job[k]
      /\ Runs(b, {"read"})' # {} => Runs(b, {"read"}) # {}
      /\ \A k \in Runs(b, {"drop"})' : k \in Runs(b, {"drop"}) /\ job'[k] = job[k]
      /\ \A k \in Runs(b, {"merge"})' : k \in Runs(b, {"merge"}) /\ job'[k] = job[k]
  BY <1>1, <1>2 DEF Runs
<1>7. /\ Sorted(In(b)') /\ Sorted(Out(b)')
      /\ IsPrefix(Out(b)', In(b)') \/ Cross(By(Out(b)'), By(In(b)'))
  BY <1>1 DEF OrderAt
<1>8. /\ \A k \in Live(b)' : Sorted(job'[k].got)
      /\ Runs(b, {"merge"})' # {} => Out(b)' # <<>>
      /\ Runs(b, {"read"})' # {} => Cross(By(Out(b)'), By(In(b)'))
      /\ \A k \in Runs(b, {"drop"})' : Cross(By(job'[k].got), By(In(b)'))
  BY <1>1, <1>5, <1>6 DEF OrderAt
<1>9. \A k \in Runs(b, {"write"})' : job'[k].file = taken'[b] =>
          \A old \in By(In(b)') : (old \in job'[k].after /\ old \notin raced') =>
             Out(b)' # <<>> /\ IsPrefix(Out(b)', In(b)')
  <2>1. SUFFICES ASSUME NEW k \in Runs(b, {"write"})', job'[k].file = taken'[b],
                        NEW old \in By(In(b)'), old \in job'[k].after, old \notin raced'
                 PROVE  Out(b)' # <<>> /\ IsPrefix(Out(b)', In(b)')
    OBVIOUS
  <2>2. k \in Runs(b, {"write"}) /\ job[k].file = taken[b] /\ old \in By(In(b))
        /\ old \in job[k].after /\ old \notin raced
    BY <1>1, <1>6, <1>r, <2>1
  <2>3. QED
    BY <1>1, <2>2 DEF OrderAt
<1>10. Cross(Left(b)', ToCome(b)')
  <2>1. Left(b)' \subseteq Left(b)
    <3>1. \A x \in Left(b)' : \/ x \in ShownBy' /\ job'[x].bot = b
                              \/ \E k \in Runs(b, {"work"})' : x \in By(job'[k].got)
      BY DEF Left, By, Senders, ToSet
    <3>2. \A x \in ShownBy : job'[x] = job[x]
      BY ShownArrived, Monotone
    <3>3. \A x \in Left(b)' : \/ x \in ShownBy /\ job[x].bot = b
                              \/ \E k \in Runs(b, {"work"}) : x \in By(job[k].got)
      BY <1>3, <1>4, <1>6, <3>1, <3>2
    <3>4. QED
      BY <3>3 DEF Left
  <2>2. ToCome(b)' \subseteq ToCome(b)
    <3>1. \A x \in ToCome(b)' : \/ x \in By(In(b)') \cup By(Out(b)')
                                \/ \E k \in Runs(b, {"merge"})' : x \in By(job'[k].got)
      BY DEF ToCome, By, Senders, ToSet
    <3>2. \A x \in ToCome(b)' : \/ x \in By(In(b)) \cup By(Out(b))
                                \/ \E k \in Runs(b, {"merge"}) : x \in By(job[k].got)
      BY <1>1, <1>6, <3>1
    <3>3. QED
      BY <3>2 DEF ToCome
  <2>3. QED
    BY <2>1, <2>2, CrossLess DEF OrderAt
<1>11. \A i, k \in DOMAIN shown' :
          (shown'[i].run = shown'[k].run /\ job'[shown'[i].by].bot = b /\ i <= k) =>
             ~Before(shown'[k].by, shown'[i].by)
  <2>1. /\ \A i \in DOMAIN shown : shown'[i] = shown[i]
        /\ \A i \in DOMAIN shown' :
              \/ i \in DOMAIN shown
              \/ /\ i > Len(shown) /\ i \in Nat /\ i - Len(shown) \in DOMAIN job[j].got
                 /\ shown'[i].by = job[j].got[i - Len(shown)].by /\ shown'[i].run = j
        /\ Len(shown) \in Nat /\ DOMAIN shown = 1 .. Len(shown)
    BY <1>1, ShownGrows
  <2>2. SUFFICES ASSUME NEW i \in DOMAIN shown', NEW k \in DOMAIN shown',
                        shown'[i].run = shown'[k].run, job'[shown'[i].by].bot = b, i <= k
                 PROVE  ~Before(shown'[k].by, shown'[i].by)
    OBVIOUS
  \* What was shown before was not shown to this run.
  <2>3. \A l \in DOMAIN shown : shown[l].run # j
    BY <1>1 DEF LinesInv
  <2>4. CASE i \in DOMAIN shown /\ k \in DOMAIN shown
    <3>1. job[shown[i].by].bot = b /\ shown[i].run = shown[k].run
      BY <2>1, <2>2, <2>4, ShownArrived
    <3>2. ~Before(shown[k].by, shown[i].by)
      BY <2>2, <2>4, <3>1 DEF OrderAt
    <3>3. QED
      BY <2>1, <2>4, <3>2
  <2>5. CASE i \notin DOMAIN shown /\ k \notin DOMAIN shown
    <3>1. /\ i - Len(shown) \in DOMAIN job[j].got /\ k - Len(shown) \in DOMAIN job[j].got
          /\ shown'[i].by = job[j].got[i - Len(shown)].by
          /\ shown'[k].by = job[j].got[k - Len(shown)].by
          /\ i \in Nat /\ k \in Nat
      BY <2>1, <2>5
    <3>2. i - Len(shown) <= k - Len(shown)
      BY <2>1, <2>2, <3>1
    <3>3. Sorted(job[j].got)
      BY <1>3 DEF OrderAt
    <3>4. QED
      BY <3>1, <3>2, <3>3 DEF Sorted
  <2>6. CASE i \in DOMAIN shown /\ k \notin DOMAIN shown
    BY <2>1, <2>2, <2>3, <2>6
  <2>7. CASE i \notin DOMAIN shown /\ k \in DOMAIN shown
    <3>1. i > Len(shown) /\ i \in Nat /\ k \in 1 .. Len(shown)
      BY <2>1, <2>7
    <3>2. QED
      BY <2>1, <2>2, <3>1
  <2>8. QED
    BY <2>4, <2>5, <2>6, <2>7
<1>12. QED
  BY <1>7, <1>8, <1>9, <1>10, <1>11 DEF OrderThen

LEMMA OrderKept ==
    ASSUME TypeInv, LinesInv, FilesInv, Alone, OnceInv, OrderInv, NEW j \in Jobs, Step(j), TypeInv'
    PROVE  OrderInv'
<1>0. PICK b : b = job[j].bot
  OBVIOUS
<1>1. SUFFICES ASSUME NEW c \in Ids, c \notin crowded' \cup blurred' \cup gone'
               PROVE  OrderAt(c)'
  BY DEF OrderInv
<1>2. OrderAt(c) /\ OnceAt(c) /\ c \notin crowded
  BY <1>1, Monotone DEF OrderInv, OnceInv
<1>3. OrderThen(c)
  <2>1. CASE Elsewhere(j) \/ SendOpen(j) \/ c # b
    BY <1>0, <1>2, <2>1, AsideSteps, AsideOrder
  <2>2. CASE c = b /\ (SendWrite(j) \/ Work(j))
    BY <1>0, <1>1, <1>2, <2>2, WriteOrder, WorkOrder
  <2>3. CASE c = b /\ (Recover(j) \/ Merge(j) \/ DropTaken(j) \/ Drain(j))
    BY <1>0, <1>2, <2>3, RecoverOrder, MergeOrder, DrainOrder
  <2>4. CASE c = b /\ (Take(j) \/ Read(j) \/ Drop(j))
    BY <1>0, <1>2, <2>4, TakeOrder, ReadOrder, DropOrder
  <2>5. CASE c = b /\ RemoveDir(j)
    <3>1. /\ job'[j].pc \in {"failed", "done"} /\ UNCHANGED <<inbox, taken, shown>>
          /\ In(b)' = In(b) /\ Out(b)' = Out(b)
      BY <1>0, <1>1, <2>5, RemoveDoes
    <3>2. \A k \in Jobs : job'[k].pc \in Handling => job'[k] = job[k]
      BY <3>1, OneJob DEF Handling, Taking
    <3>3. Aside(c)
      BY <2>5, <3>1, <3>2 DEF Aside
    <3>4. QED
      BY <1>2, <3>3, AsideOrder
  <2>6. QED
    BY <2>1, <2>2, <2>3, <2>4, <2>5, SomeStep
<1>4. QED
  BY <1>3, OrderNow

-----------------------------------------------------------------------------

HandoffsInv == LinesInv /\ FilesInv /\ Alone /\ KeptInv /\ OnceInv /\ OrderInv

LEMMA InitHandoffs == Init => HandoffsInv
<1> SUFFICES ASSUME Init PROVE HandoffsInv
  OBVIOUS
<1>1. /\ \A b \in Ids : inbox[b] = None /\ taken[b] = None
      /\ \A j \in Jobs : job[j].pc = "idle" /\ job[j].after = {}
      /\ shown = <<>> /\ arrived = {} /\ raced = {}
  BY DEF Init, Idle
<1>2. \A b \in Ids : In(b) = <<>> /\ Out(b) = <<>>
  BY <1>1 DEF In, Out, Holding
<1>3. \A b, pcs : "idle" \notin pcs => Runs(b, pcs) = {}
  BY <1>1 DEF Runs
<1>4. DOMAIN shown = {} /\ ShownBy = {} /\ ToSet(<<>>) = {}
  <2>1. DOMAIN <<>> = {}
    OBVIOUS
  <2>2. QED
    BY <1>1, <2>1 DEF ShownBy, Senders, ToSet
<1>5. By(<<>>) = {} /\ Uniq(<<>>) /\ Sorted(<<>>)
  BY ByNone
<1>6. \A b : /\ Live(b) = {} /\ Runs(b, {"merge"}) = {} /\ Runs(b, {"dropTaken"}) = {}
             /\ Runs(b, {"drain", "take"}) = {} /\ Runs(b, {"drop"}) = {} /\ Runs(b, {"work"}) = {}
             /\ Runs(b, {"read"}) = {} /\ Runs(b, {"write"}) = {} /\ Runs(b, Taking) = {}
  BY <1>3 DEF Live, Taking
<1>7. LinesInv
  BY <1>1, <1>2, <1>4, <1>6 DEF LinesInv, Taking
<1>8. FilesInv
  BY <1>1 DEF FilesInv
<1>9. Alone
  BY <1>6 DEF Alone
<1>10. KeptInv
  BY <1>1, <1>2, <1>5, <1>6 DEF KeptInv, KeptAt, HandoffsKept
<1>11. IsPrefix(<<>>, <<>>)
  BY EmptyPrefix, NoLines
<1>12. OnceInv
  BY <1>2, <1>4, <1>5, <1>6, <1>11 DEF OnceInv, OnceAt
<1>13. \A b \in Ids : Left(b) = {}
  BY <1>4, <1>6 DEF Left
<1>14. OrderInv
  <2>1. SUFFICES ASSUME NEW b \in Ids PROVE OrderAt(b)
    BY DEF OrderInv
  <2>2. Cross(Left(b), ToCome(b))
    BY <1>13, CrossNone
  <2>3. QED
    BY <1>2, <1>4, <1>5, <1>6, <1>11, <2>2 DEF OrderAt
<1>15. QED
  BY <1>7, <1>8, <1>9, <1>10, <1>12, <1>14 DEF HandoffsInv

LEMMA HandoffsStutter == ASSUME HandoffsInv, UNCHANGED vars PROVE HandoffsInv'
<1>1. /\ inbox' = inbox /\ taken' = taken /\ file' = file /\ job' = job /\ shown' = shown
      /\ arrived' = arrived /\ raced' = raced /\ crowded' = crowded /\ blurred' = blurred
      /\ gone' = gone
  BY DEF vars
<1>2. /\ \A b : In(b)' = In(b) /\ Out(b)' = Out(b)
      /\ \A b, pcs : Runs(b, pcs)' = Runs(b, pcs)
      /\ ShownBy' = ShownBy
  BY <1>1 DEF In, Out, Holding, Runs, ShownBy
<1>3. \A b : Live(b)' = Live(b)
  BY <1>2 DEF Live
<1>4. LinesInv' /\ FilesInv' /\ Alone'
  BY <1>1, <1>2, <1>3 DEF HandoffsInv, LinesInv, LineOf, FilesInv, Alone
<1>5. KeptInv'
  <2>1. HandoffsKept'
    BY <1>1 DEF HandoffsInv, KeptInv, HandoffsKept, Waiting, Hands, Holding, HasATwin
  <2>2. \A b : KeptAt(b)' <=> KeptAt(b)
    BY <1>1, <1>2 DEF KeptAt, By, Senders, ToSet, HasATwin
  <2>3. QED
    BY <1>1, <2>1, <2>2 DEF HandoffsInv, KeptInv
<1>6. OnceInv'
  <2>1. \A b : OnceAt(b) => OnceThen(b)
    BY <1>1, <1>2, <1>3 DEF OnceAt, OnceThen
  <2>2. \A b : OnceAt(b) => OnceAt(b)'
    BY <2>1, OnceNow
  <2>3. QED
    BY <1>1, <2>2 DEF HandoffsInv, OnceInv
<1>7. OrderInv'
  <2>1. \A old, new : Before(old, new)' <=> Before(old, new)
    BY <1>1 DEF Before
  <2>2. \A b : Left(b)' = Left(b) /\ ToCome(b)' = ToCome(b)
    BY <1>1, <1>2 DEF Left, ToCome, By, Senders, ToSet
  <2>3. \A b : OrderAt(b) => OrderThen(b)
    BY <1>1, <1>2, <1>3, <2>2 DEF OrderAt, OrderThen
  <2>4. \A b : OrderThen(b) => OrderAt(b)'
    BY <2>1 DEF OrderAt, OrderThen, By, Senders, ToSet, IsPrefix, Sorted, Cross
  <2>5. QED
    BY <1>1, <2>3, <2>4 DEF HandoffsInv, OrderInv
<1>8. QED
  BY <1>4, <1>5, <1>6, <1>7 DEF HandoffsInv

LEMMA HandoffsInductive ==
    TypeInv /\ HandoffsInv /\ [Next]_vars /\ TypeInv' => HandoffsInv'
<1> SUFFICES ASSUME TypeInv, HandoffsInv, [Next]_vars, TypeInv' PROVE HandoffsInv'
  OBVIOUS
<1>1. CASE UNCHANGED vars
  BY <1>1, HandoffsStutter
<1>2. CASE Next
  <2>1. PICK j \in Jobs : Step(j)
    BY <1>2 DEF Next
  <2>2. LinesInv /\ FilesInv /\ Alone /\ KeptInv /\ OnceInv /\ OrderInv
    BY DEF HandoffsInv
  <2>3. LinesInv' /\ FilesInv' /\ Alone'
    BY <2>1, <2>2, LinesKept, FilesKept, AloneKept
  <2>4. KeptInv' /\ OnceInv' /\ OrderInv'
    BY <2>1, <2>2, KeptKept, OnceKept, OrderKept
  <2>5. QED
    BY <2>3, <2>4 DEF HandoffsInv
<1>3. QED
  BY <1>1, <1>2

\* The invariants give what was promised.
LEMMA OnceGiven == LinesInv /\ OnceInv => ShownOnce
<1> SUFFICES ASSUME LinesInv, OnceInv, NEW i \in DOMAIN shown, NEW k \in DOMAIN shown,
                    shown[i].by = shown[k].by, job[shown[i].by].bot \notin crowded \cup blurred
             PROVE  i = k
  BY DEF ShownOnce
<1>1. PICK b : b = job[shown[i].by].bot
  OBVIOUS
<1>2. b \in Ids
  BY <1>1 DEF LinesInv
<1>3. OnceAt(b)
  BY <1>1, <1>2 DEF OnceInv
<1>4. QED
  BY <1>1, <1>3 DEF OnceAt

LEMMA OrderGiven == TypeInv /\ LinesInv /\ OrderInv => OlderFirst
<1> SUFFICES ASSUME TypeInv, LinesInv, OrderInv, NEW i \in DOMAIN shown, NEW new, new = shown[i].by,
                    NEW old \in job[new].after, NEW b, b = job[new].bot,
                    job[old].bot = b, {old, new} \cap raced = {},
                    b \notin crowded \cup blurred \cup gone
             PROVE  /\ \A k \in DOMAIN shown : shown[k] = [shown[i] EXCEPT !.by = old] => k < i
                    /\ old \in Senders(Waiting(b)) => old \in ShownBy
  BY DEF OlderFirst, ShownBy
<1>1. b \in Ids /\ new \in arrived
  BY DEF LinesInv
<1>2. OrderAt(b) /\ Before(old, new)
  BY <1>1 DEF OrderInv, Before
<1>3. shown \in Seq([by : Jobs, run : Jobs]) /\ DOMAIN shown = 1 .. Len(shown) /\ Len(shown) \in Nat
  BY DEF TypeInv, StateTyped
<1>4. \A k \in DOMAIN shown : shown[k] = [shown[i] EXCEPT !.by = old] => k < i
  <2>1. SUFFICES ASSUME NEW k \in DOMAIN shown, shown[k] = [shown[i] EXCEPT !.by = old], ~(k < i)
                 PROVE  FALSE
    OBVIOUS
  <2>2. shown[i] \in [by : Jobs, run : Jobs]
    <3>1. PICK S : S = [by : Jobs, run : Jobs]
      OBVIOUS
    <3>2. shown \in Seq(S)
      BY <1>3, <3>1
    <3>3. shown[i] \in S
      BY <3>2
    <3>4. QED
      BY <3>1, <3>3
  <2>3. shown[k].by = old /\ shown[k].run = shown[i].run
    BY <2>1, <2>2
  <2>4. i <= k
    BY <1>3, <2>1
  <2>5. ~Before(shown[k].by, shown[i].by)
    BY <1>2, <2>3, <2>4 DEF OrderAt
  <2>6. QED
    BY <1>2, <2>3, <2>5
<1>5. old \notin Senders(Waiting(b))
  <2>1. new \in Left(b)
    BY DEF Left, ShownBy, Senders, ToSet
  <2>2. old \notin ToCome(b)
    BY <1>2, <2>1 DEF OrderAt, Cross
  <2>3. Senders(Waiting(b)) \subseteq ToCome(b)
    BY DEF ToCome, Waiting, In, Out, By, Senders
  <2>4. QED
    BY <2>2, <2>3
<1>6. QED
  BY <1>4, <1>5

\* What one Bot hands another is waiting, in the hands of the run that took it, or was
\* shown; it is shown once, and in the order it was sent: for every number of commands
\* and Bots, however they interleave and die.
THEOREM WhatIsHandedArrives == Spec => []HandoffsArrive
<1>1. Init => TypeInv /\ HandoffsInv
  BY InitTyped, InitHandoffs
<1>2. TypeInv /\ HandoffsInv /\ [Next]_vars => TypeInv' /\ HandoffsInv'
  BY TypeInductive, HandoffsInductive
<1>3. TypeInv /\ HandoffsInv => HandoffsArrive
  BY OnceGiven, OrderGiven DEF HandoffsInv, KeptInv, HandoffsArrive
<1>4. QED
  BY <1>1, <1>2, <1>3, PTL DEF Spec

=============================================================================
