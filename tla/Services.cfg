\* Two users and one organization; one repository written three times; three
\* imports, with a quota below what may run at once; one delivery, redelivered
\* twice; two images and two tasks that remove them; two offers of one repository,
\* which may belong to either of two organizations.
CONSTANTS
  NoRow = NoRow
  q1 = q1
  q2 = q2
  User = {1, 2}
  Org = {11}
  Request = {q1, q2}
  r1 = r1
  Repo = {r1}
  Worker = {q1, q2}
  MaxWrites = 3
  i1 = i1
  i2 = i2
  i3 = i3
  Import = {i1, i2, i3}
  PerUser = 1
  Slots = 2
  Keep = 1
  MaxRepos = 1
  MaxCrashes = 1
  a1 = a1
  a2 = a2
  Attachment = {a1, a2}
  Team = {11, 12}
  MaxOffers = 2
  d1 = d1
  x1 = x1
  x2 = x2
  x3 = x3
  Delivery = {d1}
  Sender = {x1, x2, x3}
  MaxAttempts = 3
  MaxRedelivers = 2
  MaxLost = 1
SPECIFICATION ServicesSpec
SYMMETRY Interchangeable
INVARIANTS
  AllTypes
  MembersHaveOwner
  OneMeasurement
  SizeSettles
  RunsPerUser
  UnfinishedJobsEnd
  QuotaOvershoot
  AllOrNothing
  OneScheduledRetry
  FiveAttemptsInAll
  KeptWhileUsed
  ObjectKeepsRow
PROPERTIES
  EndedOffersMoveNothing
  OffersStayWithTheirOwner
