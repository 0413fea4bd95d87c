--------------------------- MODULE MCOrchestrator ---------------------------
(***************************************************************************)
(* Orchestrator with two peers: one can be at hand while the other comes,  *)
(* goes or waits in the same batch.  The device id of p2 has a dot, and    *)
(* what comes before the dot is the id of p1.                              *)
(***************************************************************************)
EXTENDS Orchestrator

CONSTANTS p1, p2

MCPeers == {p1, p2}
MCLostName == [p \in MCPeers |-> p1]
=============================================================================
