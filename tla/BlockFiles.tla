----------------------------- MODULE BlockFiles -----------------------------
(***************************************************************************)
(* Files as LocalFileReconstructor (local_file_reconstructor.py) writes    *)
(* them: the sequence of their blocks.  main.py chunks with a fixed size,  *)
(* so a chunk's offset is its index.  A path without a file is <<>>.       *)
(***************************************************************************)
EXTENDS Integers, Sequences

CONSTANTS
  Blocks,  \* contents of a chunk; equal blocks have equal digests
  Hole     \* bytes no write has filled

ASSUME HoleAssumption == Hole \notin Blocks

Files == Seq(Blocks \union {Hole})

\* The digests of a manifest, wherever in the file they are.
Digests(file) == {file[i] : i \in DOMAIN file}

\* write_chunk_at_offset: seek and write; a gap before the offset is a hole.
WriteAt(file, i, b) ==
  [j \in 1 .. (IF i > Len(file) THEN i ELSE Len(file)) |->
     IF j = i THEN b ELSE IF j <= Len(file) THEN file[j] ELSE Hole]
=============================================================================
