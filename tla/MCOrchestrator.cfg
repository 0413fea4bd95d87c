SPECIFICATION FairSpec
CONSTANTS
  p1 = p1
  p2 = p2
  NoPeer = NoPeer
  Peers <- MCPeers
  LostName <- MCLostName
  MaxChanges = 4
  MaxPauses = 2
INVARIANT EngineInv
PROPERTIES
  NewPeersHandled
  StopCompletes
\* The process ends.
CHECK_DEADLOCK FALSE
