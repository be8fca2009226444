\* One mirror, two servers; side effects may end beyond the lease's slack,
\* as in the code; one interval below the cap of the backoff, one above.
CONSTANTS
  m1 = m1
  i1 = i1
  i2 = i2
  NoMirror = NoMirror
  Mirror = {m1}
  Instance = {i1, i2}
  MaxConcurrent = 1
  Timeout = 1
  LeaseSlack = 1
  SideTime = 2
  MaxInterval = 3
  Interval <- TwoIntervals
  MaxBackoff = 2
  MaxDoublings = 2
  MaxCrashes = 1
SPECIFICATION FairSpec
INVARIANTS
  TypeOK
  OneSyncPerMirror
  NoSyncIntoStoppedMirror
PROPERTIES
  WaitBounded
  PushesSurvive
  RequestOutlivesSync
  ImplementsAccess
  LeaseEnds
  DueIsTakenUp
