SPECIFICATION FairSpec
CONSTANTS
  a = a
  b = b
  c = c
  d = d
  i1 = i1
  i2 = i2
  r1 = r1
  r2 = r2
  r3 = r3
  idA = idA
  idB = idB
  idD = idD
  kA = kA
  kB = kB
  kC = kC
  kD = kD
  s1 = s1
  s2 = s2
  NoKey = NoKey
  NoMessage = NoMessage
  Ids <- MCIds
  Keys <- MCKeys
  Connections <- MCConnections
  Hosts <- MCHosts
  Initiations <- MCInitiations
  HostOf <- MCHostOf
  Sources <- MCSources
  SourceOf <- MCSourceOf
  IdOf <- MCIdOf
  PublicOf <- MCPublicOf
  PrivateOf <- MCPrivateOf
  MaxConnections = 1
  MaxAttempts = 1
  Window = 2
  MaxClock = 2
INVARIANTS
  ServerInv
  HandshakeInv
  AdmitsExactly
PROPERTIES
  PinNeverReplaced
  ServerProgress
\* Every exchange happens once.
CHECK_DEADLOCK FALSE
