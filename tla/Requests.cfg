\* One account with two addresses and two links; a device login that two polls
\* race for; two repositories of one name; two requests at once.
CONSTANTS
  u1 = u1
  a1 = a1
  a2 = a2
  r1 = r1
  r2 = r2
  q1 = q1
  q2 = q2
  User = {u1}
  Address = {a1, a2}
  Link = {r1, r2}
  Handler = {q1, q2}
  MaxVersion = 2
  g1 = g1
  s1 = s1
  s2 = s2
  Decider = {1, 2}
  Grant = {g1}
  Poller = {q1, q2}
  Scope = {s1, s2}
  NoDir = NoDir
  Empty = Empty
  org = org
  user = user
  Repo = {r1, r2}
  Owner = {org, user}
  Org = {org}
  Request = {q1, q2}
  MaxTime = 3
SPECIFICATION RequestsSpec
SYMMETRY Interchangeable
INVARIANTS
  AllTypes
  AddressesProven
  ResetsWorkOnce
  OneTokenAsApproved
  LiveHasItsGit
  CopyIsFound
  NameIsFree
PROPERTIES
  GitKept
CHECK_DEADLOCK FALSE
