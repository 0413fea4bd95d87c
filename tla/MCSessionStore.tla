--------------------------- MODULE MCSessionStore ---------------------------
(***************************************************************************)
(* SessionStore with two peers and caps small enough that every eviction   *)
(* path is taken: a peer at its unconfirmed cap, a peer full of confirmed  *)
(* sessions, a store full of other peers' sessions.                        *)
(***************************************************************************)
EXTENDS SessionStore, TLC

CONSTANTS p1, p2, s1, s2, s3, s4

MCPeers == {p1, p2}
MCSids == {s1, s2, s3, s4}
MCSymmetry == Permutations(MCPeers) \union Permutations(MCSids)
=============================================================================
