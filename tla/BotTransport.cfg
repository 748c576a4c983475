SPECIFICATION Spec
CONSTANTS
  MaxCalls = 3
  MaxFaults = 1
  MaxSticks = 2
CHECK_DEADLOCK FALSE
INVARIANT CallsLeavePipesClean
INVARIANT SuccessIsTrueInStep
PROPERTY NoSuccessWhenGone
