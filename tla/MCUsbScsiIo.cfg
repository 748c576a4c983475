SPECIFICATION FairSpec
CONSTANTS
  SectorSize = 2
  SectorCount = 3
  MaxCache = 2
  MaxXfer = 2
  GptTail = 1
  Val <- MCVal
  InitialDisks <- MCInitialDisks
  Payloads <- MCPayloads
  Partitions <- MCPartitions
  Seeks <- MCSeeks
  MaxOff = 2
  MaxCount = 6
  Lengths <- MCLengths
  MaxOps = 3
  MaxFaults = 1
  Unknown = Unknown
CHECK_DEADLOCK FALSE
INVARIANT CacheFits
INVARIANT Coherent
INVARIANT ReadsReturnWrites
INVARIANT SyncPublishes
PROPERTY BelowPartitionUntouched
PROPERTY ImplementsStore
PROPERTY CallReturns
