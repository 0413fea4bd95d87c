SPECIFICATION Spec
CONSTANTS
  p1 = p1
  p2 = p2
  s1 = s1
  s2 = s2
  s3 = s3
  s4 = s4
  NoPeer = NoPeer
  Peers <- MCPeers
  Sids <- MCSids
  MaxSessionsPerPeer = 3
  MaxUnconfirmedPerPeer = 2
  GlobalSessionCap = 3
  KeyLifetime = 2
  IdleConfirmed = 1
  IdleUnconfirmed = 1
  MaxMessages = 1
SYMMETRY MCSymmetry
INVARIANTS
  IndexConsistent
  CapsHold
PROPERTIES
  NeverReset
  ConfirmedLastResort
