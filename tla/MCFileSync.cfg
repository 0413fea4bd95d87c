SPECIFICATION Spec
CONSTANTS
  d1 = d1
  d2 = d2
  A = A
  B = B
  C = C
  D = D
  Hole = Hole
  NoVersion = NoVersion
  NoManifest = NoManifest
  Devices <- MCDevices
  Blocks <- MCBlocks
  Peer <- MCPeer
  Contents <- MCContents
  Starts <- MCStarts
  MaxSyncs = 4
  MaxSaves = 2
INVARIANTS
  SyncInv
  QuietPullExact
  DecisionsMirror
\* Bounded syncs and saves: the devices come to rest when all are over.
CHECK_DEADLOCK FALSE
