SPECIFICATION FairSpec
CONSTANTS
  PartSectors = {2048, 2049, 2113, 2600, 3500, 4096, 4097, 5000, 7900, 8200, 9999, 20000}
  SectorsPerCluster = {8, 16, 32, 64, 128}
  MaxRuns = 2
  RunsPerProcess = 1
  MaxFaults = 1
CHECK_DEADLOCK FALSE
INVARIANT NoClusterShared
INVARIANT RunlistsComplete
INVARIANT BitmapExact
PROPERTY MkntfsReturns
