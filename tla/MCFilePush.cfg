SPECIFICATION FairSpec
CONSTANTS
  f1 = f1
  f2 = f2
  q1 = q1
  A = A
  B = B
  C = C
  me = me
  Hole = Hole
  NoVersion = NoVersion
  Nothing = Nothing
  Own = me
  Paths <- MCPaths
  Senders <- MCSenders
  Blocks <- MCBlocks
  Devices <- MCDevices
  Contents <- MCSharedBlock
  VersionOf <- MCVersionOf
  FirstVersion <- MCFirstVersion
  MaxPendingFiles = 1
  MaxTotalChunks = 3
  PartialTimeout = 0
  MaxPushes = 2
  MaxSaves = 1
INVARIANTS
  PushInv
  VersionBacked
PROPERTIES
  VersionMonotone
  CleanPushExact
  PartialsDrain
\* Bounded pushes: the system comes to rest when all of them are over.
CHECK_DEADLOCK FALSE
