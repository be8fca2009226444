\* Five commits, two dates.
CONSTANTS
  Commit = {1, 2, 3, 4, 5}
  Dates = {1, 2}
  Histories <- SmallHistories
  Questions <- LatestQuestions
SPECIFICATION FairSpec
\* A walk stops when it has its answer.
CHECK_DEADLOCK FALSE
INVARIANTS
  AncestorExact
  BasesExact
PROPERTY
  WalkEnds
