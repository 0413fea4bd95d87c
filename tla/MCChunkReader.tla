--------------------------- MODULE MCChunkReader ---------------------------
(***************************************************************************)
(* ChunkReader with chunks of three bytes and blocks of two: a chunk takes *)
(* several reads, and a read ends inside the next chunk.                   *)
(***************************************************************************)
EXTENDS ChunkReader
=============================================================================
