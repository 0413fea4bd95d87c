-------------------------- MODULE MCDeviceStorage --------------------------
(***************************************************************************)
(* DeviceStorage with two handshakes that pin two devices while a pin is   *)
(* reset, saves of two files of one chunk, and interrupted starts.         *)
(***************************************************************************)
EXTENDS DeviceStorage, TLC

CONSTANTS h1, h2, d1, d2, p1, p2, v1, v2

MCWriters == {h1, h2}
MCPins == {d1, d2}
MCDocuments == SUBSET MCPins
MCSize == [d \in MCDocuments |-> 2]
MCPaths == {p1, p2}
MCVersions == {v1, v2}
MCSymmetry ==
  Permutations(MCWriters) \union Permutations(MCPins) \union
    Permutations(MCPaths) \union Permutations(MCVersions)

\* The trust store and the database have no state in common: the run follows
\* each with the starts and the faults, and not every pair of their states.
MCOneStore == inodes = 0 \/ calls = 0
=============================================================================
