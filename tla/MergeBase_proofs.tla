--------------------------- MODULE MergeBase_proofs ---------------------------
(***************************************************************************)
(* isAncestor and mergeBases are exact for every history, however many     *)
(* commits and however dated.  The argument is the walk's own: a flag is   *)
(* only ever true, a commit that is no longer queued has told its parents  *)
(* all it knows, and what lies below a commit that both sides reach cannot *)
(* lead back to one.                                                       *)
(***************************************************************************)
EXTENDS MergeBase, FiniteSetTheorems, TLAPS

USE MergeBaseAssumption DEF MergeBaseAssumption

\* x reaches itself.
LEMMA ReachesSelf == \A x \in Commit : Reaches(x, x)
BY DEF Reaches

\* What x reaches, it also reaches the parents of.
LEMMA ReachesParent ==
  ASSUME TypeOK, NEW x \in Commit, NEW y \in Commit, Reaches(x, y), NEW p \in history[y]
  PROVE  Reaches(x, p)
BY DEF Reaches

\* What a commit that x reaches reaches, x reaches.
LEMMA ReachesTransitive ==
  ASSUME NEW x \in Commit, NEW y \in Commit, NEW z \in Commit, Reaches(x, y), Reaches(y, z)
  PROVE  Reaches(x, z)
BY DEF Reaches

\* Parents come before children, so a commit only reaches earlier ones.
LEMMA ReachesEarlier ==
  ASSUME TypeOK, NEW x \in Commit, NEW y \in Commit, Reaches(x, y), x # y
  PROVE  y < x
<1> DEFINE S == {x} \cup {c \in Commit : c < x}
<1>1. S \in SUBSET Commit /\ x \in S
  OBVIOUS
<1>2. ASSUME NEW c \in S, NEW p \in history[c]
      PROVE  p \in S
  <2>1. c \in Commit /\ history \in Histories
    BY DEF TypeOK
  <2>2. p \in Commit /\ p < c
    BY <2>1
  <2>3. c \in Int /\ p \in Int /\ x \in Int
    BY <2>1, <2>2
  <2>. QED
    BY <2>2, <2>3
<1>3. y \in S
  BY <1>1, <1>2 DEF Reaches
<1>. QED
  BY <1>3

\* No commit reaches one that has it as a parent's ancestor.
LEMMA NoWayBack ==
  ASSUME TypeOK, NEW x \in Commit, NEW y \in Commit, NEW p \in history[y], NEW q \in Commit,
         Reaches(x, y), Reaches(p, q)
  PROVE  ~ Reaches(q, x)
<1>1. p \in Commit /\ p < y /\ p \in Int /\ q \in Int /\ x \in Int /\ y \in Int
  BY DEF TypeOK
<1>2. y = x \/ y < x
  BY ReachesEarlier
<1>3. q = p \/ q < p
  BY <1>1, ReachesEarlier
<1>4. q < x
  BY <1>1, <1>2, <1>3
<1>. QED
  BY <1>1, <1>4, ReachesEarlier

-----------------------------------------------------------------------------
(* Types *)

\* Popping a commit keeps flags and queue well typed.
LEMMA StepType ==
  ASSUME TypeOK, NEW n \in queued, Step(n)
  PROVE  TypeOK'
<1>1. history[n] \subseteq Commit
  BY DEF TypeOK
<1>2. Passed(n) \subseteq Flag
  BY DEF TypeOK, Passed, Flag
<1>3. flags' \in [Commit -> SUBSET Flag]
  BY <1>2 DEF Step, TypeOK
<1>. QED
  BY <1>1, <1>3 DEF Step, TypeOK, inputs

\* Every reachable state is well typed.
THEOREM TypeInvariant == Spec => []TypeOK
<1>1. Init => TypeOK
  BY DEF Init, TypeOK, StartFlags, Flag, Question
<1>2. TypeOK /\ [Next]_vars => TypeOK'
  <2> SUFFICES ASSUME TypeOK, [Next]_vars PROVE TypeOK'
    OBVIOUS
  <2>0. ask \in Question
    BY DEF TypeOK
  <2>1. CASE IsAncestorYes
    BY <2>1, <2>0 DEF IsAncestorYes, Return, TypeOK, inputs, Question
  <2>2. CASE IsAncestorNo
    BY <2>2 DEF IsAncestorNo, Return, TypeOK, inputs
  <2>3. CASE IsAncestorStep
    BY <2>3, StepType DEF IsAncestorStep
  <2>4. CASE TipIsBase
    BY <2>4, <2>0 DEF TipIsBase, Return, TypeOK, inputs, Question
  <2>5. CASE MergeBasesStep
    BY <2>5, StepType DEF MergeBasesStep
  <2>6. CASE MergeBasesEnd
    BY <2>6 DEF MergeBasesEnd, Return, TypeOK, inputs, Bases
  <2>7. CASE \E c \in todo : CompareNext(c)
    <3> SUFFICES ASSUME NEW c \in todo, CompareNext(c) PROVE TypeOK'
      BY <2>7
    <3>1. c \in Commit
      BY DEF TypeOK
    <3>2. StartFlags({c}, answer \ (redundant \cup {c})) \in [Commit -> SUBSET Flag]
      BY DEF StartFlags, Flag
    <3>. QED
      BY <3>1, <3>2 DEF CompareNext, TypeOK, inputs
  <2>8. CASE CompareStep
    BY <2>8, StepType DEF CompareStep
  <2>9. CASE CompareEnd
    BY <2>9 DEF CompareEnd, TypeOK, inputs
  <2>10. CASE IndependentEnd
    BY <2>10 DEF IndependentEnd, Return, TypeOK, inputs
  <2>11. CASE UNCHANGED vars
    BY <2>11 DEF vars, inputs, TypeOK
  <2>. QED
    BY <2>1, <2>2, <2>3, <2>4, <2>5, <2>6, <2>7, <2>8, <2>9, <2>10, <2>11 DEF Next
<1>. QED
  BY <1>1, <1>2, PTL DEF Spec

-----------------------------------------------------------------------------
(* What a walk knows *)

\* The two sides of the walk that runs: the question's, or those that
\* independent compares.
SideA == IF phase = "walk" THEN {self} ELSE {ask.a}
SideB == IF phase = "walk" THEN answer \ (redundant \cup {self}) ELSE {ask.b}

\* A commit of side reaches c.
ReachedFrom(side, c) == \E x \in side : Reaches(x, c)

\* A stale commit lies below a parent of a commit both sides reach.
BelowCommon(c) ==
  \E d \in Commit : \E p \in history[d] :
    ReachedFrom(SideA, d) /\ ReachedFrom(SideB, d) /\ Reaches(p, c)

\* Flags are true.
FlagsSound ==
  \A c \in Commit :
    /\ "A" \in flags[c] => ReachedFrom(SideA, c)
    /\ "B" \in flags[c] => ReachedFrom(SideB, c)
    /\ "stale" \in flags[c] => BelowCommon(c)

\* A commit that is not queued has told its parents.
FlagsPassed ==
  \A c \in Commit \ queued : \A p \in history[c] : flags[c] \subseteq flags[p]

TipsMarked ==
  /\ \A x \in SideA : "A" \in flags[x]
  /\ \A x \in SideB : "B" \in flags[x]

\* The common commits are those popped with both flags.
CommonMarked ==
  /\ \A c \in common : {"A", "B"} \subseteq flags[c]
  /\ \A c \in Commit \ queued : flags[c] = {"A", "B"} => c \in common

Painted == FlagsSound /\ FlagsPassed /\ TipsMarked /\ CommonMarked

\* The common ancestors no other one reaches.
Maximal == {c \in CommonAncestors : \A d \in CommonAncestors : Reaches(d, c) => d = c}

\* independent has dropped no maximal commit, and one it has compared and
\* kept is maximal.
Narrowed ==
  /\ Maximal \subseteq answer \ redundant
  /\ answer \subseteq CommonAncestors
  /\ todo \subseteq answer
  /\ \A c \in answer \ (todo \cup redundant) : c \in Maximal \/ (phase = "walk" /\ c = self)
  /\ phase = "walk" => self \in answer \ (redundant \cup todo)

\* The inductive invariant: the walk that runs is true and complete so far,
\* the bases it leaves are narrowed down, and an answer is right.
WalkInv ==
  /\ phase \in {"paint", "walk"} => Painted
  /\ phase = "paint" => IsFiniteSet(common) /\ redundant = {}
  /\ phase \in {"compare", "walk"} => Narrowed
  /\ ask.goal = "isAncestor" => phase \in {"paint", "done"}
  /\ AncestorExact
  /\ BasesExact

LEMMA SidesTyped == TypeOK => SideA \subseteq Commit /\ SideB \subseteq Commit
BY DEF TypeOK, Question, SideA, SideB

\* What a side reaches, it also reaches the parents of.
LEMMA SideParent ==
  ASSUME TypeOK, NEW side, side \subseteq Commit, NEW y \in Commit, ReachedFrom(side, y),
         NEW p \in history[y]
  PROVE  ReachedFrom(side, p)
BY ReachesParent DEF ReachedFrom

\* What lies below a common commit has its parents below it.
LEMMA BelowParent ==
  ASSUME TypeOK, NEW c \in Commit, BelowCommon(c), NEW q \in history[c]
  PROVE  BelowCommon(q)
<1>1. PICK d \in Commit : \E p \in history[d] :
         ReachedFrom(SideA, d) /\ ReachedFrom(SideB, d) /\ Reaches(p, c)
  BY DEF BelowCommon
<1>2. PICK p \in history[d] : ReachedFrom(SideA, d) /\ ReachedFrom(SideB, d) /\ Reaches(p, c)
  BY <1>1
<1>3. p \in Commit
  BY DEF TypeOK
<1>4. Reaches(p, q)
  BY <1>2, <1>3, ReachesParent
<1>. QED
  BY <1>2, <1>4 DEF BelowCommon

\* A popped commit tells its parents nothing but the truth.
LEMMA PassedIsTrue ==
  ASSUME TypeOK, FlagsSound, NEW n \in Commit, NEW c \in history[n]
  PROVE  /\ "A" \in Passed(n) => ReachedFrom(SideA, c)
         /\ "B" \in Passed(n) => ReachedFrom(SideB, c)
         /\ "stale" \in Passed(n) => BelowCommon(c)
<1>0. c \in Commit
  BY DEF TypeOK
<1>1. "A" \in Passed(n) => ReachedFrom(SideA, c)
  <2>1. "A" \in Passed(n) => ReachedFrom(SideA, n)
    BY DEF Passed, FlagsSound
  <2>. QED
    BY <2>1, SidesTyped, SideParent
<1>2. "B" \in Passed(n) => ReachedFrom(SideB, c)
  <2>1. "B" \in Passed(n) => ReachedFrom(SideB, n)
    BY DEF Passed, FlagsSound
  <2>. QED
    BY <2>1, SidesTyped, SideParent
<1>3. ASSUME "stale" \in flags[n] PROVE BelowCommon(c)
  BY <1>3, BelowParent DEF FlagsSound
<1>4. ASSUME flags[n] = {"A", "B"} PROVE BelowCommon(c)
  <2>1. ReachedFrom(SideA, n) /\ ReachedFrom(SideB, n)
    BY <1>4 DEF FlagsSound
  <2>. QED
    BY <2>1, <1>0, ReachesSelf DEF BelowCommon
<1>5. "stale" \in Passed(n) => "stale" \in flags[n] \/ flags[n] = {"A", "B"}
  BY DEF Passed
<1>. QED
  BY <1>1, <1>2, <1>3, <1>4, <1>5

\* Popping a commit keeps what the walk knows true and passed on.
LEMMA StepPaints ==
  ASSUME TypeOK, Painted, NEW n \in queued, Step(n)
  PROVE  Painted'
<1>0. /\ n \in Commit /\ history' = history
      /\ history[n] \subseteq Commit
      /\ flags \in [Commit -> SUBSET Flag]
      /\ SideA' = SideA /\ SideB' = SideB
      /\ SideA \subseteq Commit /\ SideB \subseteq Commit
  BY SidesTyped DEF TypeOK, Step, inputs, SideA, SideB
<1>1. \A c \in Commit : flags'[c] = IF c \in history[n] THEN flags[c] \cup Passed(n) ELSE flags[c]
  BY DEF Step
<1>2. queued' = (queued \ {n}) \cup {p \in history[n] : ~ Passed(n) \subseteq flags[p]}
  BY DEF Step
<1>3. n \notin history[n]
  BY <1>0 DEF TypeOK
<1>4. \A x, y \in Commit : Reaches(x, y)' <=> Reaches(x, y)
  BY <1>0 DEF Reaches
<1>5. \A c \in Commit : /\ ReachedFrom(SideA, c) <=> ReachedFrom(SideA, c)'
                        /\ ReachedFrom(SideB, c) <=> ReachedFrom(SideB, c)'
  BY <1>0, <1>4 DEF ReachedFrom
<1>6. \A c \in Commit : BelowCommon(c) => BelowCommon(c)'
  <2> SUFFICES ASSUME NEW c \in Commit, NEW d \in Commit, NEW p \in history[d],
                      ReachedFrom(SideA, d), ReachedFrom(SideB, d), Reaches(p, c)
               PROVE  BelowCommon(c)'
    BY DEF BelowCommon
  <2>1. p \in Commit
    BY DEF TypeOK
  <2>2. Reaches(p, c)' /\ ReachedFrom(SideA, d)' /\ ReachedFrom(SideB, d)'
    BY <2>1, <1>4, <1>5
  <2>. QED
    BY <2>2, <1>0 DEF BelowCommon
<1>7. FlagsSound'
  <2> SUFFICES ASSUME NEW c \in Commit
               PROVE  /\ "A" \in flags'[c] => ReachedFrom(SideA, c)
                      /\ "B" \in flags'[c] => ReachedFrom(SideB, c)
                      /\ "stale" \in flags'[c] => BelowCommon(c)
    BY <1>5, <1>6 DEF FlagsSound
  <2>. QED
    BY <1>0, <1>1, PassedIsTrue DEF Painted, FlagsSound
<1>8. ASSUME NEW c \in Commit, c \notin queued', c # n
      PROVE  c \notin queued /\ flags'[c] = flags[c]
  BY <1>1, <1>2, <1>8
<1>9. FlagsPassed'
  <2> SUFFICES ASSUME NEW c \in Commit, c \notin queued', NEW p \in history[c]
               PROVE  flags'[c] \subseteq flags'[p]
    BY <1>0 DEF FlagsPassed
  <2>1. p \in Commit
    BY DEF TypeOK
  <2>2. CASE c = n
    BY <1>1, <1>3, <2>1, <2>2, <1>0 DEF Passed
  <2>3. CASE c # n
    <3>1. flags[c] \subseteq flags[p]
      BY <1>8, <2>3 DEF Painted, FlagsPassed
    <3>2. flags[p] \subseteq flags'[p]
      BY <1>1, <2>1
    <3>. QED
      BY <1>8, <2>3, <3>1, <3>2
  <2>. QED
    BY <2>2, <2>3
<1>10. TipsMarked'
  BY <1>0, <1>1 DEF Painted, TipsMarked
<1>11. CommonMarked'
  <2>0. common' = (IF flags[n] = {"A", "B"} THEN common \cup {n} ELSE common) /\ common \subseteq Commit
    BY DEF Step, TypeOK
  <2>1. ASSUME NEW c \in common' PROVE {"A", "B"} \subseteq flags'[c]
    <3>1. {"A", "B"} \subseteq flags[c] /\ c \in Commit
      BY <1>0, <2>0 DEF Painted, CommonMarked
    <3>2. flags[c] \subseteq flags'[c]
      BY <1>1, <3>1
    <3>. QED
      BY <3>1, <3>2
  <2>2. ASSUME NEW c \in Commit, c \notin queued', flags'[c] = {"A", "B"} PROVE c \in common'
    <3>1. CASE c = n
      BY <1>1, <1>3, <2>0, <2>2, <3>1
    <3>2. CASE c # n
      BY <1>8, <2>0, <2>2, <3>2 DEF Painted, CommonMarked
    <3>. QED
      BY <3>1, <3>2
  <2>. QED
    BY <2>1, <2>2 DEF CommonMarked
<1>. QED
  BY <1>7, <1>9, <1>10, <1>11 DEF Painted

\* When nothing live is queued, a side has marked what it reaches, save
\* below common commits.
LEMMA MarkedOrBelow ==
  ASSUME TypeOK, Painted, NEW f \in Flag, ~ HasLive({f}),
         NEW x \in Commit, f \in flags[x], NEW c \in Commit, Reaches(x, c)
  PROVE  f \in flags[c] \/ BelowCommon(c)
<1> DEFINE Known == {y \in Commit : f \in flags[y]}
           Below == {y \in Commit : BelowCommon(y)}
           S == Known \cup Below
<1>1. S \in SUBSET Commit /\ x \in S
  OBVIOUS
<1>2. \A y \in Commit : history[y] \subseteq Commit
  BY DEF TypeOK
<1>3. ASSUME NEW y \in Below PROVE history[y] \subseteq S
  BY <1>2, BelowParent
<1>4. ASSUME NEW y \in Known PROVE history[y] \subseteq S
  <2>1. CASE y \in queued
    <3>1. "stale" \in flags[y]
      BY <2>1 DEF HasLive
    <3>2. y \in Below
      BY <3>1 DEF Painted, FlagsSound
    <3>. QED
      BY <3>2, <1>3
  <2>2. CASE y \notin queued
    <3>1. \A p \in history[y] : flags[y] \subseteq flags[p]
      BY <2>2 DEF Painted, FlagsPassed
    <3>. QED
      BY <3>1, <1>2
  <2>. QED
    BY <2>1, <2>2
<1>5. \A y \in S : history[y] \subseteq S
  BY <1>3, <1>4
<1>6. c \in S
  BY <1>1, <1>5 DEF Reaches
<1>. QED
  BY <1>6

\* Nothing that a one-commit side reaches leads back to it.
LEMMA TipNotBelow ==
  ASSUME TypeOK, NEW x \in Commit, SideA = {x} PROVE ~ BelowCommon(x)
<1> SUFFICES ASSUME BelowCommon(x) PROVE FALSE
  OBVIOUS
<1>1. PICK d \in Commit : \E p \in history[d] : ReachedFrom(SideA, d) /\ Reaches(p, x)
  BY DEF BelowCommon
<1>2. PICK p \in history[d] : Reaches(x, d) /\ Reaches(p, x)
  BY <1>1 DEF ReachedFrom
<1>. QED
  BY <1>2, ReachesSelf, NoWayBack

\* Both reasons for saying no are good: a reaches b, which is another commit,
\* or nothing queued that b reaches can lead to a.
LEMMA NoIsRight ==
  ASSUME TypeOK, Painted, phase = "paint", ask.a # ask.b, "B" \notin flags[ask.a],
         "A" \in flags[ask.b] \/ ~ HasLive({"B"})
  PROVE  ~ Reaches(ask.b, ask.a)
<1>0. ask.a \in Commit /\ ask.b \in Commit /\ SideA = {ask.a} /\ SideB = {ask.b}
  BY DEF TypeOK, Question, SideA, SideB
<1>1. CASE "A" \in flags[ask.b]
  <2>1. Reaches(ask.a, ask.b)
    BY <1>0, <1>1 DEF Painted, FlagsSound, ReachedFrom
  <2>2. ask.a \in Int /\ ask.b \in Int
    BY <1>0
  <2>3. ask.b < ask.a
    BY <1>0, <2>1, ReachesEarlier
  <2>4. ~ (ask.a < ask.b)
    BY <2>2, <2>3
  <2>. QED
    BY <1>0, <2>4, ReachesEarlier
<1>2. CASE ~ HasLive({"B"})
  <2>1. "B" \in flags[ask.b] /\ "B" \in Flag
    BY <1>0 DEF Painted, TipsMarked, Flag
  <2>2. ~ BelowCommon(ask.a)
    BY <1>0, TipNotBelow
  <2>. QED
    BY <1>0, <1>2, <2>1, <2>2, MarkedOrBelow
<1>. QED
  BY <1>1, <1>2

-----------------------------------------------------------------------------
(* Maximal common ancestors *)

LEMMA CommonTyped == CommonAncestors \subseteq Commit /\ Maximal \subseteq CommonAncestors
BY DEF CommonAncestors, Maximal

\* A common ancestor is reached by a maximal one: of those that reach it, the
\* one closest to a.
LEMMA MaximalAbove ==
  ASSUME TypeOK, NEW c \in CommonAncestors
  PROVE  \E m \in Maximal : Reaches(m, c)
<1> DEFINE Above == {d \in CommonAncestors : Reaches(d, c)}
           T == {ask.a - d : d \in Above}
<1>0. ask.a \in Commit /\ c \in Commit /\ Above \subseteq Commit
  BY CommonTyped DEF TypeOK, Question
<1>1. \A d \in CommonAncestors : ask.a - d \in Nat
  <2> SUFFICES ASSUME NEW d \in CommonAncestors PROVE ask.a - d \in Nat
    OBVIOUS
  <2>1. d \in Commit /\ Reaches(ask.a, d)
    BY DEF CommonAncestors
  <2>2. d = ask.a \/ d < ask.a
    BY <1>0, <2>1, ReachesEarlier
  <2>3. ask.a \in Int /\ d \in Int
    BY <1>0, <2>1
  <2>. QED
    BY <2>2, <2>3
<1>2. T \subseteq Nat
  BY <1>1
<1>3. c \in Above
  BY <1>0, ReachesSelf
<1>4. PICK x \in T : \A y \in T : <<y, x>> \notin OpToRel(<, Nat)
  <2>1. T # {}
    BY <1>3
  <2>. QED
    BY <1>2, <2>1, WFMin, NatLessThanWellFounded
<1>5. \A y \in T : ~ (y < x)
  BY <1>2, <1>4 DEF OpToRel
<1>6. PICK m \in Above : x = ask.a - m
  BY <1>4
<1>7. ASSUME NEW e \in CommonAncestors, Reaches(e, m), e # m
      PROVE  FALSE
  <2>1. e \in Commit /\ m \in Commit
    BY <1>0, CommonTyped
  <2>2. m < e
    BY <1>7, <2>1, ReachesEarlier
  <2>3. Reaches(e, c)
    BY <1>0, <1>7, <2>1, ReachesTransitive
  <2>4. ask.a - e \in T
    BY <1>7, <2>3
  <2>5. ask.a \in Int /\ e \in Int /\ m \in Int
    BY <1>0, <2>1
  <2>6. ask.a - e < x
    BY <1>6, <2>2, <2>5
  <2>7. ~ (ask.a - e < x)
    BY <1>5, <2>4
  <2>. QED
    BY <2>6, <2>7
<1>8. m \in Maximal
  BY <1>7 DEF Maximal
<1>. QED
  BY <1>6, <1>8

\* A maximal commit does not lie below another common one.
LEMMA MaximalNotBelow ==
  ASSUME TypeOK, phase = "paint", NEW c \in Maximal
  PROVE  ~ BelowCommon(c)
<1> SUFFICES ASSUME BelowCommon(c) PROVE FALSE
  OBVIOUS
<1>0. c \in Commit /\ SideA = {ask.a} /\ SideB = {ask.b}
  BY CommonTyped DEF SideA, SideB
<1>1. PICK d \in Commit : \E p \in history[d] :
         ReachedFrom(SideA, d) /\ ReachedFrom(SideB, d) /\ Reaches(p, c)
  BY DEF BelowCommon
<1>2. PICK p \in history[d] : Reaches(p, c)
  BY <1>1
<1>3. d \in CommonAncestors
  BY <1>0, <1>1 DEF ReachedFrom, CommonAncestors
<1>4. p \in Commit /\ p \in Int /\ d \in Int /\ p < d
  BY DEF TypeOK
<1>5. Reaches(d, p)
  BY <1>4, ReachesSelf, ReachesParent
<1>6. Reaches(d, c)
  BY <1>0, <1>2, <1>4, <1>5, ReachesTransitive
<1>7. d = c
  BY <1>3, <1>6 DEF Maximal
<1>8. p = c \/ c < p
  BY <1>0, <1>2, <1>4, ReachesEarlier
<1>. QED
  BY <1>4, <1>7, <1>8

\* When the first walk ends, the bases it leaves are common ancestors and
\* miss no maximal one.
LEMMA BasesHoldMaximal ==
  ASSUME TypeOK, Painted, phase = "paint", ~ Busy
  PROVE  Maximal \subseteq Bases /\ Bases \subseteq CommonAncestors
<1>0. /\ ask.a \in Commit /\ ask.b \in Commit /\ SideA = {ask.a} /\ SideB = {ask.b}
      /\ common \subseteq Commit /\ flags \in [Commit -> SUBSET Flag]
  BY DEF TypeOK, Question, SideA, SideB
<1>1. Bases \subseteq CommonAncestors
  <2> SUFFICES ASSUME NEW c \in common PROVE c \in CommonAncestors
    BY DEF Bases
  <2>1. c \in Commit /\ "A" \in flags[c] /\ "B" \in flags[c]
    BY <1>0 DEF Painted, CommonMarked
  <2>2. ReachedFrom(SideA, c) /\ ReachedFrom(SideB, c)
    BY <2>1 DEF Painted, FlagsSound
  <2>. QED
    BY <1>0, <2>1, <2>2 DEF ReachedFrom, CommonAncestors
<1>2. ASSUME NEW c \in Maximal PROVE c \in Bases
  <2>0. c \in Commit /\ Reaches(ask.a, c) /\ Reaches(ask.b, c) /\ ~ BelowCommon(c)
    BY MaximalNotBelow DEF Maximal, CommonAncestors
  <2>1. "A" \in flags[ask.a] /\ "B" \in flags[ask.b] /\ "A" \in Flag /\ "B" \in Flag
    BY <1>0 DEF Painted, TipsMarked, Flag
  <2>2. ~ HasLive({"A"}) /\ ~ HasLive({"B"})
    BY DEF Busy, HasLive
  <2>3. "A" \in flags[c]
    BY <1>0, <2>0, <2>1, <2>2, MarkedOrBelow
  <2>4. "B" \in flags[c]
    BY <1>0, <2>0, <2>1, <2>2, MarkedOrBelow
  <2>5. "stale" \notin flags[c]
    BY <2>0 DEF Painted, FlagsSound
  <2>6. c \notin queued
    BY <2>3, <2>5 DEF Busy, HasLive
  <2>7. flags[c] = {"A", "B"}
    BY <1>0, <2>0, <2>3, <2>4, <2>5 DEF Flag
  <2>8. c \in common
    BY <2>0, <2>6, <2>7 DEF Painted, CommonMarked
  <2>. QED
    BY <2>5, <2>8 DEF Bases
<1>. QED
  BY <1>1, <1>2

\* A single base is the maximal one.
LEMMA OneBase ==
  ASSUME TypeOK, Painted, phase = "paint", ~ Busy, IsFiniteSet(common), Cardinality(Bases) < 2
  PROVE  Bases = Maximal
<1>1. Bases \in SUBSET common
  BY DEF Bases
<1>2. IsFiniteSet(Bases)
  BY <1>1, FS_Subset
<1>3. Cardinality(Bases) \in Nat
  BY <1>2, FS_CardinalityType
<1>4. Cardinality(Bases) = 0 \/ Cardinality(Bases) = 1
  BY <1>3
<1>5. Bases = {} \/ \E x : Bases = {x}
  BY <1>2, <1>4, FS_EmptySet, FS_Singleton
<1>6. ASSUME NEW x, Bases = {x} PROVE x \in Maximal
  <2>1. x \in CommonAncestors
    BY <1>6, BasesHoldMaximal
  <2>2. PICK m \in Maximal : Reaches(m, x)
    BY <2>1, MaximalAbove
  <2>3. m = x
    BY <1>6, BasesHoldMaximal
  <2>. QED
    BY <2>3
<1>. QED
  BY <1>5, <1>6, BasesHoldMaximal

\* A tip the other one reaches is the only maximal common ancestor.
LEMMA TipIsMaximal ==
  ASSUME TypeOK, NEW x \in Commit, Reaches(ask.a, x), Reaches(ask.b, x),
         x = ask.a \/ x = ask.b
  PROVE  Maximal = {x}
<1>1. x \in CommonAncestors
  BY DEF CommonAncestors
<1>2. \A c \in CommonAncestors : c \in Commit /\ Reaches(x, c)
  BY DEF CommonAncestors
<1>3. ASSUME NEW c \in CommonAncestors, Reaches(c, x) PROVE c = x
  <2>1. c \in Commit /\ Reaches(x, c)
    BY <1>2
  <2>2. c \in Int /\ x \in Int
    BY <2>1
  <2>3. SUFFICES ASSUME c # x PROVE FALSE
    OBVIOUS
  <2>4. c < x
    BY <2>1, <2>3, ReachesEarlier
  <2>5. x < c
    BY <1>3, <2>1, <2>3, ReachesEarlier
  <2>. QED
    BY <2>2, <2>4, <2>5
<1>. QED
  BY <1>1, <1>2, <1>3 DEF Maximal

-----------------------------------------------------------------------------
(* The invariant holds *)

\* A walk that starts is painted: its tips know what they are.
LEMMA StartPaints ==
  TypeOK /\ flags = StartFlags(SideA, SideB) /\ queued = SideA \cup SideB /\ common = {}
    => Painted
<1> SUFFICES ASSUME TypeOK, flags = StartFlags(SideA, SideB), queued = SideA \cup SideB, common = {}
             PROVE  Painted
  OBVIOUS
<1>1. \A c \in Commit : /\ "stale" \notin flags[c]
                        /\ "A" \in flags[c] <=> c \in SideA
                        /\ "B" \in flags[c] <=> c \in SideB
  BY DEF StartFlags
<1>2. FlagsSound
  BY <1>1, ReachesSelf DEF FlagsSound, ReachedFrom
<1>3. FlagsPassed
  <2>1. \A c \in Commit \ queued : flags[c] = {}
    BY DEF StartFlags
  <2>. QED
    BY <2>1 DEF FlagsPassed
<1>4. TipsMarked
  BY <1>1, SidesTyped DEF TipsMarked
<1>5. CommonMarked
  BY <1>1 DEF CommonMarked
<1>. QED
  BY <1>2, <1>3, <1>4, <1>5 DEF Painted

\* The first walk starts painted; a commit is its own base and ancestor.
LEMMA InitWalk == Init => WalkInv
<1> SUFFICES ASSUME Init PROVE WalkInv
  OBVIOUS
<1>0. ask \in Question /\ ask.a \in Commit /\ ask.b \in Commit
  BY DEF Init, Question
<1>1. TypeOK
  BY <1>0 DEF Init, TypeOK, StartFlags, Flag
<1>2. SideA = {ask.a} /\ SideB = {ask.b}
  BY DEF Init, SideA, SideB
<1>3. Painted
  BY <1>1, <1>2, StartPaints DEF Init
<1>4. AncestorExact
  BY <1>0, ReachesSelf DEF Init, AncestorExact
<1>5. BasesExact
  <2> SUFFICES ASSUME phase = "done" PROVE answer = Maximal
    BY DEF BasesExact, Maximal
  <2>1. ask.a = ask.b /\ answer = {ask.a}
    BY DEF Init
  <2>2. Maximal = {ask.a}
    BY <1>0, <1>1, <2>1, ReachesSelf, TipIsMaximal
  <2>. QED
    BY <2>1, <2>2
<1>6. phase \in {"paint", "done"} /\ redundant = {} /\ IsFiniteSet(common)
  BY FS_EmptySet DEF Init
<1>. QED
  BY <1>3, <1>4, <1>5, <1>6 DEF WalkInv

\* What the history and the question decide does not change.
LEMMA Given ==
  ASSUME TypeOK, UNCHANGED inputs
  PROVE  /\ \A x, y \in Commit : Reaches(x, y)' <=> Reaches(x, y)
         /\ CommonAncestors' = CommonAncestors
         /\ Maximal' = Maximal
<1>0. history' = history /\ ask' = ask /\ ask.a \in Commit /\ ask.b \in Commit
  BY DEF inputs, TypeOK, Question
<1>1. \A x, y \in Commit : Reaches(x, y)' <=> Reaches(x, y)
  BY <1>0 DEF Reaches
<1>2. CommonAncestors' = CommonAncestors
  BY <1>0, <1>1 DEF CommonAncestors
<1>3. Maximal' = Maximal
  BY <1>1, <1>2, CommonTyped DEF Maximal
<1>. QED
  BY <1>1, <1>2, <1>3

\* A walk of mergeBases or independent that returns the maximal commits is
\* right.
LEMMA ReturnMaximal ==
  ASSUME TypeOK, WalkInv, ask.goal = "mergeBases", Return(Maximal)
  PROVE  WalkInv'
<1>1. phase' = "done" /\ answer' = Maximal /\ UNCHANGED inputs /\ ask' = ask
  BY DEF Return, inputs
<1>2. answer' = Maximal'
  BY <1>1, Given
<1>3. BasesExact'
  BY <1>2 DEF BasesExact, Maximal
<1>. QED
  BY <1>1, <1>3 DEF WalkInv, AncestorExact

\* A step of a walk keeps the invariant.
LEMMA WalkOn ==
  ASSUME TypeOK, WalkInv, phase \in {"paint", "walk"}, NEW n \in queued, Step(n)
  PROVE  WalkInv'
<1>0. /\ UNCHANGED <<phase, todo, redundant, self, answer, ask>> /\ UNCHANGED inputs
      /\ common' = common \/ common' = common \cup {n}
  BY DEF Step, inputs
<1>1. Painted'
  BY StepPaints DEF WalkInv
<1>2. phase = "paint" => IsFiniteSet(common')
  BY <1>0, FS_AddElement DEF WalkInv
<1>3. phase = "walk" => Narrowed'
  BY <1>0, Given DEF WalkInv, Narrowed
<1>. QED
  BY <1>0, <1>1, <1>2, <1>3 DEF WalkInv, AncestorExact, BasesExact

\* The first walk ends: what it leaves is right, or goes to independent.
LEMMA EndsPaint ==
  ASSUME TypeOK, WalkInv, MergeBasesEnd PROVE WalkInv'
<1>0. Painted /\ phase = "paint" /\ ~ Busy /\ ask.goal = "mergeBases" /\ redundant = {}
      /\ IsFiniteSet(common)
  BY DEF MergeBasesEnd, WalkInv
<1>1. CASE Cardinality(Bases) < 2
  <2>1. Return(Maximal)
    BY <1>0, <1>1, OneBase DEF MergeBasesEnd
  <2>. QED
    BY <1>0, <2>1, ReturnMaximal
<1>2. CASE ~ (Cardinality(Bases) < 2)
  <2>1. /\ phase' = "compare" /\ todo' = Bases /\ answer' = Bases
        /\ redundant' = {} /\ ask' = ask /\ UNCHANGED inputs
    BY <1>0, <1>2 DEF MergeBasesEnd, inputs
  <2>2. Maximal \subseteq Bases /\ Bases \subseteq CommonAncestors
    BY <1>0, BasesHoldMaximal
  <2>3. Narrowed'
    BY <2>1, <2>2, Given DEF Narrowed
  <2>. QED
    BY <1>0, <2>1, <2>3 DEF WalkInv, AncestorExact, BasesExact
<1>. QED
  BY <1>1, <1>2

\* independent takes up the next of the bases.
LEMMA Compares ==
  ASSUME TypeOK, TypeOK', WalkInv, NEW c \in todo, CompareNext(c) PROVE WalkInv'
<1>0. /\ Narrowed /\ phase = "compare" /\ todo' = todo \ {c} /\ ask' = ask
      /\ redundant' = redundant /\ answer' = answer /\ UNCHANGED inputs
      /\ ask.goal = "mergeBases" /\ c \in answer
  BY DEF CompareNext, WalkInv, inputs, TypeOK, Question, Narrowed
<1>1. CASE c \in redundant
  <2>1. phase' = "compare" /\ self' = self
    BY <1>0, <1>1 DEF CompareNext
  <2>2. Narrowed'
    BY <1>0, <1>1, <2>1, Given DEF Narrowed
  <2>. QED
    BY <1>0, <2>1, <2>2 DEF WalkInv, AncestorExact, BasesExact
<1>2. CASE c \notin redundant
  <2>1. /\ phase' = "walk" /\ self' = c /\ common' = {}
        /\ flags' = StartFlags({c}, answer \ (redundant \cup {c}))
        /\ queued' = {c} \cup (answer \ (redundant \cup {c}))
    BY <1>2 DEF CompareNext
  <2>2. SideA' = {c} /\ SideB' = answer \ (redundant \cup {c})
    BY <1>0, <2>1 DEF SideA, SideB
  <2>3. (TypeOK /\ flags = StartFlags(SideA, SideB) /\ queued = SideA \cup SideB /\ common = {}
           => Painted)'
    BY StartPaints, PTL
  <2>4. (flags = StartFlags(SideA, SideB))'
    BY <2>1, <2>2 DEF StartFlags
  <2>5. Painted'
    BY <2>1, <2>2, <2>3, <2>4
  <2>6. Narrowed'
    BY <1>0, <1>2, <2>1, Given DEF Narrowed
  <2>. QED
    BY <1>0, <2>1, <2>5, <2>6 DEF WalkInv, AncestorExact, BasesExact
<1>. QED
  BY <1>1, <1>2

\* A commit another one reaches is not maximal, and self is compared.
LEMMA EndsCompare ==
  ASSUME TypeOK, WalkInv, CompareEnd PROVE WalkInv'
<1> DEFINE others == answer \ (redundant \cup {self})
<1>0. /\ Narrowed /\ Painted /\ phase = "walk" /\ ~ Busy /\ ask.goal = "mergeBases"
      /\ phase' = "compare" /\ UNCHANGED inputs /\ ask' = ask
      /\ todo' = todo /\ self' = self /\ answer' = answer
      /\ redundant' = redundant \cup (IF "B" \in flags[self] THEN {self} ELSE {})
                        \cup {o \in others : "A" \in flags[o]}
  BY DEF CompareEnd, WalkInv, inputs, TypeOK, Question
<1>1. /\ self \in Commit /\ SideA = {self} /\ SideB = others
      /\ answer \subseteq CommonAncestors /\ answer \subseteq Commit
      /\ self \in CommonAncestors
  BY <1>0 DEF SideA, SideB, TypeOK, Narrowed
<1>2. ASSUME "B" \in flags[self] PROVE self \notin Maximal
  <2>1. ReachedFrom(SideB, self)
    BY <1>0, <1>1, <1>2 DEF Painted, FlagsSound
  <2>2. PICK o \in others : Reaches(o, self)
    BY <1>1, <2>1 DEF ReachedFrom
  <2>. QED
    BY <1>1, <2>2 DEF Maximal
<1>3. ASSUME NEW o \in others, "A" \in flags[o] PROVE o \notin Maximal
  <2>1. ReachedFrom(SideA, o)
    BY <1>0, <1>1, <1>3 DEF Painted, FlagsSound
  <2>2. Reaches(self, o)
    BY <1>1, <2>1 DEF ReachedFrom
  <2>. QED
    BY <1>1, <2>2 DEF Maximal
<1>4. ASSUME "B" \notin flags[self] PROVE self \in Maximal
  <2>1. PICK m \in Maximal : Reaches(m, self)
    BY <1>1, MaximalAbove
  <2>2. SUFFICES ASSUME m # self PROVE FALSE
    BY <2>1
  <2>3. m \in others /\ m \in Commit
    BY <1>0, <1>1, <2>2 DEF Narrowed
  <2>4. "B" \in flags[m] /\ "B" \in Flag
    BY <1>0, <1>1, <2>3 DEF Painted, TipsMarked, Flag
  <2>5. ~ HasLive({"B"})
    BY <1>0 DEF Busy, HasLive
  <2>6. ~ BelowCommon(self)
    BY <1>1, TipNotBelow
  <2>. QED
    BY <1>0, <1>1, <1>4, <2>1, <2>3, <2>4, <2>5, <2>6, MarkedOrBelow
<1>5. Maximal \subseteq answer' \ redundant'
  BY <1>0, <1>2, <1>3 DEF Narrowed
<1>6. ASSUME NEW c \in answer' \ (todo' \cup redundant') PROVE c \in Maximal
  <2>1. c \in answer \ (todo \cup redundant)
    BY <1>0
  <2>2. CASE c = self
    BY <1>0, <1>4, <2>2
  <2>3. CASE c # self
    BY <1>0, <2>1, <2>3 DEF Narrowed
  <2>. QED
    BY <2>2, <2>3
<1>7. todo' \subseteq answer' /\ answer' \subseteq CommonAncestors
  BY <1>0 DEF Narrowed
<1>8. Narrowed'
  BY <1>0, <1>5, <1>6, <1>7, Given DEF Narrowed
<1>. QED
  BY <1>0, <1>8 DEF WalkInv, AncestorExact, BasesExact

\* Every action keeps the invariant.
LEMMA WalkStep == TypeOK /\ TypeOK' /\ WalkInv /\ [Next]_vars => WalkInv'
<1> SUFFICES ASSUME TypeOK, TypeOK', WalkInv, [Next]_vars PROVE WalkInv'
  OBVIOUS
<1>0. ask \in Question /\ ask.a \in Commit /\ ask.b \in Commit
  BY DEF TypeOK, Question
<1>1. ASSUME phase = "paint"
      PROVE  /\ Painted /\ SideA = {ask.a} /\ SideB = {ask.b}
             /\ ReachesA => Reaches(ask.b, ask.a)
             /\ ReachesB => Reaches(ask.a, ask.b)
  BY <1>0, <1>1 DEF WalkInv, Painted, FlagsSound, ReachedFrom, SideA, SideB, ReachesA, ReachesB
<1>2. CASE IsAncestorYes
  <2>1. UNCHANGED inputs /\ ask' = ask /\ phase' = "done" /\ answer' = {ask.a}
    BY <1>2 DEF IsAncestorYes, Return, inputs
  <2>2. Reaches(ask.b, ask.a)'
    BY <1>0, <1>1, <1>2, <2>1, Given DEF IsAncestorYes
  <2>. QED
    BY <1>2, <2>1, <2>2 DEF IsAncestorYes, WalkInv, AncestorExact, BasesExact
<1>3. CASE IsAncestorNo
  <2>1. UNCHANGED inputs /\ ask' = ask /\ phase' = "done" /\ answer' = {}
    BY <1>3 DEF IsAncestorNo, Return, inputs
  <2>2. ask.a # ask.b
    BY <1>1, <1>3 DEF IsAncestorNo, ReachesA, Painted, TipsMarked
  <2>3. ~ Reaches(ask.b, ask.a)
    BY <1>1, <1>3, <2>2, NoIsRight DEF IsAncestorNo, ReachesA, ReachesB
  <2>4. ~ Reaches(ask.b, ask.a)'
    BY <1>0, <2>1, <2>3, Given
  <2>. QED
    BY <1>3, <2>1, <2>4 DEF IsAncestorNo, WalkInv, AncestorExact, BasesExact
<1>4. CASE IsAncestorStep
  BY <1>4, WalkOn DEF IsAncestorStep
<1>5. CASE TipIsBase
  <2>1. PICK x \in {ask.a, ask.b} :
           Return({x}) /\ Reaches(ask.a, x) /\ Reaches(ask.b, x)
    BY <1>0, <1>1, <1>5, ReachesSelf DEF TipIsBase
  <2>2. Maximal = {x}
    BY <1>0, <2>1, TipIsMaximal
  <2>. QED
    BY <1>5, <2>1, <2>2, ReturnMaximal DEF TipIsBase
<1>6. CASE MergeBasesStep
  BY <1>6, WalkOn DEF MergeBasesStep
<1>7. CASE MergeBasesEnd
  BY <1>7, EndsPaint
<1>8. CASE \E c \in todo : CompareNext(c)
  BY <1>8, Compares
<1>9. CASE CompareStep
  BY <1>9, WalkOn DEF CompareStep
<1>10. CASE CompareEnd
  BY <1>10, EndsCompare
<1>11. CASE IndependentEnd
  <2>1. Narrowed /\ phase = "compare" /\ todo = {} /\ ask.goal = "mergeBases"
    BY <1>0, <1>11 DEF IndependentEnd, WalkInv, Question
  <2>2. answer \ redundant = Maximal
    BY <2>1 DEF Narrowed
  <2>. QED
    BY <1>11, <2>1, <2>2, ReturnMaximal DEF IndependentEnd
<1>12. CASE UNCHANGED vars
  <2>1. /\ history' = history /\ ask' = ask /\ phase' = phase /\ flags' = flags
        /\ queued' = queued /\ common' = common /\ todo' = todo
        /\ redundant' = redundant /\ self' = self /\ answer' = answer
    BY <1>12 DEF vars, inputs
  <2>2. (AncestorExact' <=> AncestorExact) /\ (BasesExact' <=> BasesExact)
    BY <2>1 DEF AncestorExact, BasesExact, CommonAncestors, Reaches
  <2>3. FlagsSound' <=> FlagsSound
    BY <2>1 DEF FlagsSound, BelowCommon, ReachedFrom, SideA, SideB, Reaches
  <2>4. /\ FlagsPassed' <=> FlagsPassed
        /\ TipsMarked' <=> TipsMarked
        /\ CommonMarked' <=> CommonMarked
    BY <2>1 DEF FlagsPassed, TipsMarked, CommonMarked, SideA, SideB
  <2>5. Narrowed' <=> Narrowed
    BY <2>1 DEF Narrowed, Maximal, CommonAncestors, Reaches
  <2>. QED
    BY <2>1, <2>2, <2>3, <2>4, <2>5 DEF WalkInv, Painted
<1>. QED
  BY <1>2, <1>3, <1>4, <1>5, <1>6, <1>7, <1>8, <1>9, <1>10, <1>11, <1>12 DEF Next

\* The invariant of the walks holds in every reachable state.
THEOREM WalkInvariant == Spec => []WalkInv
BY InitWalk, WalkStep, TypeInvariant, PTL DEF Spec

\* isAncestor answers whether b reaches a, for every history and dating.
THEOREM AncestorIsExact == Spec => []AncestorExact
<1>1. WalkInv => AncestorExact
  BY DEF WalkInv
<1>. QED
  BY <1>1, WalkInvariant, PTL

\* mergeBases answers the common ancestors no other one reaches, for every
\* history and dating: neither the walk that stops early nor independent's
\* comparisons lose one or keep one too many.
THEOREM BasesAreExact == Spec => []BasesExact
<1>1. WalkInv => BasesExact
  BY DEF WalkInv
<1>. QED
  BY <1>1, WalkInvariant, PTL
=============================================================================
