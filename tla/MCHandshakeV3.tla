--------------------------- MODULE MCHandshakeV3 ---------------------------
(***************************************************************************)
(* HandshakeV3 with three hosts: a and c dial, b answers twice.  c goes by *)
(* a's id, and its public key file is the one of a: its private key does   *)
(* not belong to it.  The bucket of b holds one token and gets half a one  *)
(* per tick.                                                               *)
(***************************************************************************)
EXTENDS HandshakeV3

CONSTANTS a, b, c, i1, i2, r1, r2, idA, idB, kA, kB, kC, port1, port2

Pick(x, one, other) == IF x THEN one ELSE other

MCHosts == {a, b, c}
MCInitiations == {i1, i2}
MCAcceptances == {r1, r2}
MCHostOf ==
  [x \in MCInitiations \union MCAcceptances |->
     Pick(x = i1, a, Pick(x = i2, c, b))]
MCIds == {idA, idB}
MCIdOf == [h \in MCHosts |-> Pick(h = b, idB, idA)]
MCKeys == {kA, kB, kC}
MCPublicOf == [h \in MCHosts |-> Pick(h = b, kB, kA)]
MCPrivateOf == [h \in MCHosts |-> Pick(h = a, kA, Pick(h = b, kB, kC))]
MCPorts == {port1, port2}
MCPortOf == [h \in MCHosts |-> port1]
=============================================================================
