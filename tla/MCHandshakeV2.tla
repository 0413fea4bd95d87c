--------------------------- MODULE MCHandshakeV2 ---------------------------
(***************************************************************************)
(* HandshakeV2 with four hosts: a and c dial; b answers two connections, d *)
(* one.  a and c go by one id.  The public key file of d is the one of b.  *)
(* A source is let through once in any two ticks.                          *)
(***************************************************************************)
EXTENDS HandshakeV2

CONSTANTS a, b, c, d, i1, i2, r1, r2, r3, idA, idB, idD, kA, kB, kC, kD, s1, s2

Pick(x, one, other) == IF x THEN one ELSE other

MCHosts == {a, b, c, d}
MCInitiations == {i1, i2}
MCConnections == {r1, r2, r3}
MCSources == {s1, s2}
MCSourceOf == [r \in MCConnections |-> Pick(r = r3, s2, s1)]
MCHostOf == [x \in MCInitiations \union MCConnections |->
               Pick(x = i1, a, Pick(x = i2, c, Pick(x = r3, d, b)))]
MCIds == {idA, idB, idD}
MCIdOf == [h \in MCHosts |-> Pick(h \in {a, c}, idA, Pick(h = d, idD, idB))]
MCKeys == {kA, kB, kC, kD}
MCPublicOf == [h \in MCHosts |-> Pick(h = a, kA, Pick(h = c, kC, kB))]
MCPrivateOf == [h \in MCHosts |-> Pick(h = a, kA, Pick(h = c, kC, Pick(h = b, kB, kD)))]
=============================================================================
