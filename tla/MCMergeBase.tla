------------------------------ MODULE MCMergeBase ------------------------------
(* Every history of a few commits with one or two parents each and up to two *)
(* roots, under every dating, asked about the latest commit and each other.  *)
EXTENDS MergeBase

ParentSets == {ps \in SUBSET Commit : Cardinality(ps) <= 2}

SmallHistories ==
  {h \in [Commit -> ParentSets] : \A c \in Commit : (\A p \in h[c] : p < c) /\ (c > 2 => h[c] # {})}

Latest == CHOOSE c \in Commit : \A d \in Commit : d <= c

\* b alone varies for mergeBases, whose walk treats a and b alike.
LatestQuestions ==
  {q \in Question : q.a = Latest \/ (q.b = Latest /\ q.goal = "isAncestor")}
=============================================================================
