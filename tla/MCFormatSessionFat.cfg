SPECIFICATION Spec
CONSTANTS
  Sticks <- MCLargeSticks
  Jobs <- MCFat16Jobs
  Wakes = {0}
  MaxSessions = 1
  MaxFaults = 0
CHECK_DEADLOCK FALSE
INVARIANT FatFitsPartition
