CONSTANTS
  NoDir = NoDir
  Empty = Empty
  r1 = r1
  r2 = r2
  org = org
  user = user
  q1 = q1
  q2 = q2
  Repo = {r1, r2}
  Owner = {org, user}
  Org = {org}
  Request = {q1, q2}
  MaxTime = 4
SPECIFICATION Spec
SYMMETRY Interchangeable
INVARIANTS
  WikiMovesWithItsRepo
CHECK_DEADLOCK FALSE
