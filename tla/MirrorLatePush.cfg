\* One mirror, two servers; side effects end beyond the lease's slack.
CONSTANTS
  m1 = m1
  i1 = i1
  i2 = i2
  NoMirror = NoMirror
  Mirror = {m1}
  Instance = {i1, i2}
  MaxConcurrent = 1
  Timeout = 2
  LeaseSlack = 1
  SideTime = 2
  MaxInterval = 3
  Interval <- TwoIntervals
  MaxBackoff = 2
  MaxDoublings = 2
  MaxCrashes = 1
SPECIFICATION Spec
SYMMETRY InstanceSymmetry
PROPERTY PushesAlwaysSurvive
