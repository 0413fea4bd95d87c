SPECIFICATION FairSpec
CONSTANTS
  a = a
  b = b
  c = c
  i1 = i1
  i2 = i2
  r1 = r1
  r2 = r2
  idA = idA
  idB = idB
  kA = kA
  kB = kB
  kC = kC
  port1 = port1
  port2 = port2
  NoKey = NoKey
  NoMessage = NoMessage
  Malformed = Malformed
  Hosts <- MCHosts
  Initiations <- MCInitiations
  Acceptances <- MCAcceptances
  HostOf <- MCHostOf
  Ids <- MCIds
  IdOf <- MCIdOf
  Keys <- MCKeys
  PublicOf <- MCPublicOf
  PrivateOf <- MCPrivateOf
  Ports <- MCPorts
  PortOf <- MCPortOf
  MaxHalfOpen = 1
  Unit = 2
  Rate = 1
  Burst = 2
  MaxClock = 2
INVARIANTS
  Agreement
  PinsAuthentic
  HalfOpenInv
  BurstAndRate
PROPERTY HalfOpenRecovers
\* Every exchange happens once.
CHECK_DEADLOCK FALSE
