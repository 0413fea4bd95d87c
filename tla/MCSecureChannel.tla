--------------------------- MODULE MCSecureChannel ---------------------------
(***************************************************************************)
(* SecureChannel between two devices and one session: the initiator sends  *)
(* enough frames to leave the window behind, the responder answers once,   *)
(* the inbox holds one frame.                                              *)
(***************************************************************************)
EXTENDS SecureChannel

CONSTANTS a, b, s1

MCDevices == {a, b}
MCSids == {s1}

MCInitiator == [s \in MCSids |-> a]
MCResponder == [s \in MCSids |-> b]

MCMaxMessages == [d \in MCDevices |-> IF d = a THEN 3 ELSE 1]
MCAlteredCounters == {3}
=============================================================================
