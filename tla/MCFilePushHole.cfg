SPECIFICATION Spec
CONSTANTS
  f1 = f1
  f2 = f2
  q1 = q1
  A = A
  B = B
  C = C
  me = me
  Hole = Hole
  NoVersion = NoVersion
  Nothing = Nothing
  Own = me
  Paths <- MCPath
  Senders <- MCSenders
  Blocks <- MCBlocks
  Devices <- MCDevices
  Contents <- MCRepeatedBlock
  VersionOf <- MCVersionOf1
  FirstVersion <- MCFirstVersion1
  MaxPendingFiles = 1
  MaxTotalChunks = 3
  PartialTimeout = 0
  MaxPushes = 1
  MaxSaves = 0
INVARIANT NoHoleCommitted
\* Bounded pushes: the system comes to rest when all of them are over.
CHECK_DEADLOCK FALSE
