------------------------------ MODULE MCPullMerge ------------------------------
(* Small instances of PullMerge.                                             *)
EXTENDS PullMerge, TLC

NoRule      == [blockForce |-> FALSE, requirePR |-> FALSE, requireReview |-> FALSE, requireStatus |-> FALSE]
KeepHistory == [NoRule EXCEPT !.blockForce = TRUE]
Gate        == [NoRule EXCEPT !.requirePR = TRUE, !.requireStatus = TRUE]
GateOfAll   == [Gate EXCEPT !.requireReview = TRUE]

AllGates     == {GateOfAll}
BothRules    == {Gate, KeepHistory}
HistoryRules == {KeepHistory}
Everyone     == {"ff", "merge", "squash"}

FreshCommits == Permutations(Commit \ {Root, Work})
Mergers      == Permutations(Merger)
Interchangeable == FreshCommits \cup Mergers

\* Two bounds for the run with both rules.  Behind the gate, where statuses and
\* faults matter, one merge runs at a time; where only the history is kept,
\* merges run together, and the statuses that nothing asks for stay away.
OneMerge == \A g, h \in Merger : mstep'[g] = "idle" \/ mstep'[h] = "idle" \/ g = h
Races    == IF rule = Gate THEN OneMerge ELSE status' = status /\ faults' = 0

RaceSpec == Init /\ [][Next /\ Races]_vars
=============================================================================
