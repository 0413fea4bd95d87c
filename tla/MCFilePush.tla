----------------------------- MODULE MCFilePush -----------------------------
(***************************************************************************)
(* FilePush with small files: two paths under a cap of one pending file,   *)
(* two pushes whose chunks cross on the wire, a save on either side.  The  *)
(* second instance has a file with a repeated block.                       *)
(***************************************************************************)
EXTENDS FilePush

CONSTANTS f1, f2, q1, A, B, C, me

MCPaths == {f1, f2}
MCPath == {f1}
MCSenders == {q1}
MCBlocks == {A, B, C}
MCDevices == {me, q1}

MCSharedBlock == {<<A, B>>, <<A, C>>}
MCRepeatedBlock == {<<A, A, B>>}

\* The sender knows a version of f1, and none of f2.
VersionOfQ1 == [d \in MCDevices |-> IF d = q1 THEN 1 ELSE 0]
MCVersionOf ==
  [q \in MCSenders |-> [p \in MCPaths |-> IF p = f1 THEN VersionOfQ1 ELSE NoVersion]]
MCVersionOf1 == [q \in MCSenders |-> [p \in MCPath |-> VersionOfQ1]]

\* f1 was pushed before, without a version.
MCFirstVersion ==
  [p \in MCPaths |-> IF p = f1 THEN Increment(NoEdits, me) ELSE NoEdits]
MCFirstVersion1 == [p \in MCPath |-> NoEdits]
=============================================================================
