SPECIFICATION Spec
CONSTANTS
  a = a
  b = b
  s1 = s1
  Devices <- MCDevices
  Sids <- MCSids
  Initiator <- MCInitiator
  Responder <- MCResponder
  Window = 2
  MaxMessages <- MCMaxMessages
  MaxCounter = 3
  AlteredCounters <- MCAlteredCounters
  InboxMaxSize = 1
INVARIANTS
  NonceUnique
  DeliveredAtMostOnce
  DeliveredFromPeer
  ResponderWaitsForProof
  WindowBehindSender
