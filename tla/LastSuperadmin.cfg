\* Two superadmins suspend each other, one of them just promoted.
CONSTANTS
  NoRow = NoRow
  q1 = q1
  q2 = q2
  User = {1, 2}
  Org = {}
  Request = {q1, q2}
SPECIFICATION Spec
INVARIANTS
  SuperadminRemains
