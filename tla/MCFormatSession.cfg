SPECIFICATION Spec
CONSTANTS
  Sticks <- MCSticks
  Jobs <- MCJobs
  Wakes = {0, 2, 7, 8}
  MaxSessions = 2
  MaxFaults = 1
CHECK_DEADLOCK FALSE
INVARIANT PartitionInside
INVARIANT TablesSurvive
INVARIANT FatStructuresIntact
INVARIANT FatLacksTwoAtMost
INVARIANT UnmeasuredStickUntouched
INVARIANT ResourcesReleased
PROPERTY ProgressMonotone
PROPERTY WakingStickMeasured
