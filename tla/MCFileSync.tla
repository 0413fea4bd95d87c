----------------------------- MODULE MCFileSync -----------------------------
(***************************************************************************)
(* FileSync with two devices, which start in three ways: the file of d2 is *)
(* the newer one; d1 has no file; or both have edited it.                  *)
(***************************************************************************)
EXTENDS FileSync

CONSTANTS d1, d2, A, B, C, D

MCDevices == {d1, d2}
MCBlocks == {A, B, C, D}
MCPeer == [d \in MCDevices |-> IF d = d1 THEN d2 ELSE d1]

Both(x, y) == [d \in MCDevices |-> IF d = d1 THEN x ELSE y]

\* Blocks are shared, changed, and fewer after a save.
MCContents == {<<A, B>>, <<A, C>>, <<D>>}

\* d2 has a newer version, a descendant of the one of d1.
Behind == [file |-> Both(<<A, B>>, <<A, C>>), stored |-> Both(<<A, B>>, <<A, C>>),
           version |-> Both(Both(1, 0), Both(1, 1))]

\* d1 has no file and no record of it.
Fresh == [file |-> Both(<<>>, <<A, C>>), stored |-> Both(NoManifest, <<A, C>>),
          version |-> Both(NoVersion, Both(0, 1))]

\* Both have edited, to files of different lengths without a common block.
Edited == [file |-> Both(<<A, B>>, <<D>>), stored |-> Both(<<A, B>>, <<D>>),
           version |-> Both(Both(1, 0), Both(0, 1))]

MCStarts == {Behind, Fresh, Edited}
=============================================================================
