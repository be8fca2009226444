\* Three repositories of one name: a transfer is refused while its old place
\* is claimed, which needs a third one that was deleted at the new owner.
CONSTANTS
  NoDir = NoDir
  Empty = Empty
  r1 = r1
  r2 = r2
  r3 = r3
  org = org
  user = user
  q1 = q1
  q2 = q2
  Repo = {r1, r2, r3}
  Owner = {org, user}
  Org = {org}
  Request = {q1, q2}
  MaxTime = 2
SPECIFICATION Spec
SYMMETRY Interchangeable
PROPERTIES
  RefusedTransfersGoBack
CHECK_DEADLOCK FALSE
