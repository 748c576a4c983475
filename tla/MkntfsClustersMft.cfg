SPECIFICATION Spec
CONSTANTS
  PartSectors = {20000}
  SectorsPerCluster = {8, 128}
  MaxRuns = 2
  RunsPerProcess = 2
  MaxFaults = 0
CHECK_DEADLOCK FALSE
INVARIANT MftBehindItsBitmap
