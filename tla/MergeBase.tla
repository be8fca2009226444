------------------------------- MODULE MergeBase -------------------------------
(***************************************************************************)
(* The history walks that decide fast-forwards and merge bases: isAncestor *)
(* and mergeBases, on one paint walk.  A walk marks the commits each side  *)
(* reaches, newest date first, until what is queued lies below a commit    *)
(* both reach.  Dates are what clients claim, so a commit may be dated     *)
(* before its parents.                                                     *)
(*                                                                         *)
(* Commits from the same second are popped in any order here, and the      *)
(* commits independent compares are taken in any order.                    *)
(***************************************************************************)
EXTENDS Integers, FiniteSets

CONSTANTS
  Commit,      \* commits, numbered so that parents come before children
  Histories,   \* the parent sets each commit may have
  Dates,       \* the committer dates, in seconds
  Questions    \* what is asked: [goal, a, b]

Question == [goal : {"isAncestor", "mergeBases"}, a : Commit, b : Commit]

ASSUME MergeBaseAssumption ==
  /\ Commit \subseteq Int
  /\ Dates \subseteq Int
  /\ Questions \subseteq Question
  /\ Histories \subseteq [Commit -> SUBSET Commit]
  /\ \A h \in Histories : \A c \in Commit : \A p \in h[c] : p < c

VARIABLES
  history,    \* the parents of each commit
  date,       \* its committer date
  ask,        \* the question
  phase,      \* "paint", "compare" and "walk" (independent), or "done"
  flags,      \* what the walk knows of each commit
  queued,     \* the commits in its queue
  common,     \* commits popped as reached from both sides
  todo,       \* the bases independent has yet to compare with the others
  redundant,  \* the bases another one reaches
  self,       \* the base whose walk compares it with the others
  answer      \* what the function returns: for isAncestor {a} is yes, {} no

inputs == <<history, date, ask>>
vars == <<inputs, phase, flags, queued, common, todo, redundant, self, answer>>

Flag == {"A", "B", "stale"}

TypeOK ==
  /\ history \in Histories
  /\ date \in [Commit -> Dates]
  /\ ask \in Questions
  /\ phase \in {"paint", "compare", "walk", "done"}
  /\ flags \in [Commit -> SUBSET Flag]
  /\ queued \subseteq Commit
  /\ common \subseteq Commit
  /\ todo \subseteq Commit
  /\ redundant \subseteq Commit
  /\ self \in Commit
  /\ answer \subseteq Commit

-----------------------------------------------------------------------------
(* The paint walk *)

\* The flags a walk starts with, from the commits as and the commits bs.
StartFlags(as, bs) ==
  [c \in Commit |-> (IF c \in as THEN {"A"} ELSE {}) \cup (IF c \in bs THEN {"B"} ELSE {})]

\* What a popped commit passes to its parents.
Passed(n) == flags[n] \cup (IF flags[n] = {"A", "B"} THEN {"stale"} ELSE {})

Newest(n) == n \in queued /\ \A m \in queued : date[m] <= date[n]

StepAndStay(n) ==
  /\ Newest(n)
  /\ flags' = [c \in Commit |-> IF c \in history[n] THEN flags[c] \cup Passed(n) ELSE flags[c]]
  /\ queued' = queued \cup history[n]
  /\ common' = IF flags[n] = {"A", "B"} THEN common \cup {n} ELSE common
  /\ UNCHANGED <<inputs, phase, todo, redundant, self, answer>>

\* step: pop the newest commit and mark its parents, queueing those it tells
\* something new.
Step(n) ==
  /\ Newest(n)
  /\ flags' = [c \in Commit |-> IF c \in history[n] THEN flags[c] \cup Passed(n) ELSE flags[c]]
  /\ queued' = (queued \ {n}) \cup {p \in history[n] : ~ Passed(n) \subseteq flags[p]}
  /\ common' = IF flags[n] = {"A", "B"} THEN common \cup {n} ELSE common
  /\ UNCHANGED <<inputs, phase, todo, redundant, self, answer>>

HasLiveAfter(fs) ==
  \E n \in queued : flags[n] \cap fs # {} /\ "stale" \notin flags[n] /\ date[ask.a] <= date[n]

HasLive(fs) == \E n \in queued : flags[n] \cap fs # {} /\ "stale" \notin flags[n]

Busy == HasLive({"A", "B"})

-----------------------------------------------------------------------------
(* isAncestor and mergeBases *)

Init ==
  /\ history \in Histories
  /\ date \in [Commit -> Dates]
  /\ ask \in Questions
  /\ phase = IF ask.a = ask.b THEN "done" ELSE "paint"
  /\ flags = StartFlags({ask.a}, {ask.b})
  /\ queued = {ask.a, ask.b}
  /\ common = {}
  /\ todo = {}
  /\ redundant = {}
  /\ self = ask.a
  /\ answer = IF ask.a = ask.b THEN {ask.a} ELSE {}

Return(cs) ==
  /\ phase' = "done"
  /\ answer' = cs
  /\ UNCHANGED <<inputs, flags, queued, common, todo, redundant, self>>

ReachesA == "B" \in flags[ask.a]
ReachesB == "A" \in flags[ask.b]

IsAncestorYes ==
  /\ phase = "paint" /\ ask.goal = "isAncestor"
  /\ ReachesA
  /\ Return({ask.a})

IsAncestorNo ==
  /\ phase = "paint" /\ ask.goal = "isAncestor"
  /\ ~ ReachesA
  /\ ReachesB \/ ~ HasLive({"B"})
  /\ Return({})

IsAncestorStep ==
  /\ phase = "paint" /\ ask.goal = "isAncestor"
  /\ ~ ReachesA /\ ~ ReachesB /\ HasLive({"B"})
  /\ \E n \in queued : Step(n)

\* Every common ancestor lies below a tip that the other reaches.
TipIsBase ==
  /\ phase = "paint" /\ ask.goal = "mergeBases"
  /\ Busy
  /\ \/ ReachesA /\ Return({ask.a})
     \/ ~ ReachesA /\ ReachesB /\ Return({ask.b})

MergeBasesStep ==
  /\ phase = "paint" /\ ask.goal = "mergeBases"
  /\ Busy /\ ~ ReachesA /\ ~ ReachesB
  /\ \E n \in queued : Step(n)

Bases == {n \in common : "stale" \notin flags[n]}

MergeBasesEndAtOnce ==
  /\ phase = "paint" /\ ask.goal = "mergeBases"
  /\ ~ Busy
  /\ Return(Bases)

\* The walk is over: a second base or more have to be compared.
MergeBasesEnd ==
  /\ phase = "paint" /\ ask.goal = "mergeBases"
  /\ ~ Busy
  /\ IF Cardinality(Bases) < 2
     THEN Return(Bases)
     ELSE /\ phase' = "compare"
          /\ todo' = Bases
          /\ answer' = Bases
          /\ UNCHANGED <<inputs, flags, queued, common, redundant, self>>

-----------------------------------------------------------------------------
(* independent: answer holds its arguments until it returns *)

CompareNext(c) ==
  /\ phase = "compare"
  /\ c \in todo
  /\ todo' = todo \ {c}
  /\ IF c \in redundant
     THEN UNCHANGED <<phase, flags, queued, common, self>>
     ELSE LET others == answer \ (redundant \cup {c})
          IN  /\ phase' = "walk"
              /\ self' = c
              /\ flags' = StartFlags({c}, others)
              /\ queued' = {c} \cup others
              /\ common' = {}
  /\ UNCHANGED <<inputs, redundant, answer>>

CompareStep ==
  /\ phase = "walk"
  /\ Busy
  /\ \E n \in queued : Step(n)

\* The walk shows which of the others self reaches, or that one reaches self.
CompareEnd ==
  /\ phase = "walk"
  /\ ~ Busy
  /\ phase' = "compare"
  /\ redundant' = redundant
       \cup (IF "B" \in flags[self] THEN {self} ELSE {})
       \cup {o \in answer \ (redundant \cup {self}) : "A" \in flags[o]}
  /\ UNCHANGED <<inputs, flags, queued, common, todo, self, answer>>

IndependentEnd ==
  /\ phase = "compare"
  /\ todo = {}
  /\ Return(answer \ redundant)

Next ==
  \/ IsAncestorYes \/ IsAncestorNo \/ IsAncestorStep
  \/ TipIsBase \/ MergeBasesStep \/ MergeBasesEnd
  \/ \E c \in todo : CompareNext(c)
  \/ CompareStep \/ CompareEnd \/ IndependentEnd

Spec == Init /\ [][Next]_vars

\* A walk runs in one goroutine and does not wait for anything.
FairSpec == Spec /\ WF_vars(Next)

-----------------------------------------------------------------------------
(* Properties *)

\* x reaches y: y is in every set that holds x and its members' parents.
Reaches(x, y) ==
  \A S \in SUBSET Commit : x \in S /\ (\A c \in S : history[c] \subseteq S) => y \in S

\* isAncestor reports "whether b reaches a", as git does, however commits are
\* dated.
AncestorExact ==
  phase = "done" /\ ask.goal = "isAncestor" =>
    answer = IF Reaches(ask.b, ask.a) THEN {ask.a} ELSE {}

CommonAncestors == {c \in Commit : Reaches(ask.a, c) /\ Reaches(ask.b, c)}

\* mergeBases returns "the common ancestors of a and b that no other one
\* reaches": no merge is computed against an older base than git's.
BasesExact ==
  phase = "done" /\ ask.goal = "mergeBases" =>
    answer = {c \in CommonAncestors : \A d \in CommonAncestors : Reaches(d, c) => d = c}

\* "commits dated before their parents only make it read further": the walk
\* ends.
WalkEnds == <>(phase = "done")
=============================================================================
