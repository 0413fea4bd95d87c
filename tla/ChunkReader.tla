----------------------------- MODULE ChunkReader -----------------------------
(***************************************************************************)
(* StreamingChunkReader with FixedSizeChunkingStrategy                     *)
(* (streaming_chunk_reader.py), which calculate_chunk_hashes.py and        *)
(* chunk_file.py drive from a worker thread: a file is read block by block *)
(* into an accumulator from which chunks are cut, while the user may       *)
(* append to the file or truncate it.                                      *)
(*                                                                         *)
(* A byte is named by its offset in the file, so that a chunk shows where  *)
(* its bytes were read.                                                    *)
(***************************************************************************)
EXTENDS Integers, Sequences

CONSTANTS
  ChunkSize,   \* _chunk_size
  MaxBlock,    \* _MAX_READ_BLOCK_BYTES
  MaxLength,   \* bound: length of the file
  MaxResizes   \* bound: times the file changes under the reader

ASSUME ChunkSizeAssumption == ChunkSize \in Nat \ {0}
ASSUME MaxBlockAssumption == MaxBlock \in Nat \ {0}
ASSUME LengthAssumption == MaxLength \in Nat /\ MaxResizes \in Nat

VARIABLES
  length,       \* length of the file
  resizes,      \* how often it has changed
  pc,           \* "read", "cut", "done" or "failed"
  pos,          \* position of the open file
  readBuffer,   \* what _read_full has so far
  accumulator,
  atEof,
  chunks        \* the chunks that have been yielded

readVars == <<pos, readBuffer, accumulator, atEof>>
allReaderVars == <<length, resizes, pc, readVars, chunks>>

\* preferred_read_block_size is the chunk size.
ReadBlockSize == IF ChunkSize < MaxBlock THEN ChunkSize ELSE MaxBlock

\* Bytes from <= i < to of the file.
Bytes(from, to) == [i \in 1 .. (to - from) |-> from + i - 1]

ReaderInit ==
  /\ length \in 0 .. MaxLength /\ resizes = 0
  /\ pc = "read" /\ pos = 0 /\ readBuffer = <<>> /\ accumulator = <<>> /\ atEof = FALSE
  /\ chunks = <<>>

----------------------------------------------------------------------------
(* _read_full *)

\* readinto: some of the bytes that fit, though not always all of them.
ReadInto(n) ==
  /\ pc = "read" /\ n > 0
  /\ n <= ReadBlockSize - Len(readBuffer) /\ pos + n <= length
  /\ readBuffer' = readBuffer \o Bytes(pos, pos + n)
  /\ pos' = pos + n
  /\ UNCHANGED <<length, resizes, pc, accumulator, atEof, chunks>>

\* at_eof
EmptyBlock(block) == block = <<>>

\* The buffer is full or the file has no more bytes.
EndRead ==
  /\ pc = "read" /\ (Len(readBuffer) = ReadBlockSize \/ pos >= length)
  /\ accumulator' = accumulator \o readBuffer
  /\ atEof' = EmptyBlock(readBuffer)
  /\ readBuffer' = <<>>
  /\ pc' = "cut"
  /\ UNCHANGED <<length, resizes, pos, chunks>>

----------------------------------------------------------------------------
(* _stream_chunks *)

\* next_cut; 0 stands for None.
NextCut(buffered, eof) ==
  IF Len(buffered) >= ChunkSize THEN ChunkSize ELSE IF eof THEN Len(buffered) ELSE 0

Offset == IF chunks = <<>> THEN 0
          ELSE LET last == chunks[Len(chunks)] IN last.offset + Len(last.data)

\* del accumulator[:cut]
Rest(cut) == SubSeq(accumulator, cut + 1, Len(accumulator))

\* Variant that reads on at the end of the file.
NoCutContinues ==
  /\ pc = "cut" /\ NextCut(accumulator, atEof) = 0
  /\ pc' = "read"
  /\ UNCHANGED <<length, resizes, readVars, chunks>>

\* No cut yet: read on, or return at the end of the file.
NoCut ==
  /\ pc = "cut" /\ NextCut(accumulator, atEof) = 0
  /\ pc' = IF atEof THEN "done" ELSE "read"
  /\ UNCHANGED <<length, resizes, readVars, chunks>>

\* Variant without the return after the last chunk.
YieldReadsOn ==
  LET cut == NextCut(accumulator, atEof) IN
  /\ pc = "cut" /\ cut > 0
  /\ chunks' = Append(chunks, [index |-> Len(chunks), offset |-> Offset,
                               data |-> SubSeq(accumulator, 1, cut)])
  /\ accumulator' = Rest(cut)
  /\ pc' = "read"
  /\ UNCHANGED <<length, resizes, pos, readBuffer, atEof>>

\* A chunk is yielded; the consumer always comes back for the next one.
Yield ==
  LET cut == NextCut(accumulator, atEof) IN
  /\ pc = "cut" /\ cut > 0
  /\ chunks' = Append(chunks, [index |-> Len(chunks), offset |-> Offset,
                               data |-> SubSeq(accumulator, 1, cut)])
  /\ accumulator' = Rest(cut)
  /\ pc' = IF atEof /\ Rest(cut) = <<>> THEN "done" ELSE "read"
  /\ UNCHANGED <<length, resizes, pos, readBuffer, atEof>>

\* OSError: the reader raises ChunkSourceAccessError.
ReadFails ==
  /\ pc = "read" /\ pc' = "failed"
  /\ UNCHANGED <<length, resizes, readVars, chunks>>

\* The user appends to the file or truncates it.
Resize(n) ==
  /\ resizes < MaxResizes /\ resizes' = resizes + 1
  /\ n # length /\ length' = n
  /\ UNCHANGED <<pc, readVars, chunks>>

ReaderNext ==
  \/ \E n \in 1 .. ReadBlockSize : ReadInto(n)
  \/ EndRead
  \/ NoCut
  \/ Yield
  \/ ReadFails
  \/ \E n \in 0 .. MaxLength : Resize(n)

ReaderSpec == ReaderInit /\ [][ReaderNext]_allReaderVars
FairReaderSpec ==
  /\ ReaderSpec
  /\ WF_allReaderVars(EndRead) /\ WF_allReaderVars(NoCut) /\ WF_allReaderVars(Yield)
  /\ WF_allReaderVars(\E n \in 1 .. ReadBlockSize : ReadInto(n))

----------------------------------------------------------------------------
(* Properties *)

\* The types of the reader's state, and that at_eof is never set with a full
\* chunk still to cut, so that its last cut empties the accumulator.
ReaderTypeOK ==
  /\ length \in 0 .. MaxLength /\ resizes \in 0 .. MaxResizes
  /\ pc \in {"read", "cut", "done", "failed"}
  /\ pos \in 0 .. MaxLength /\ readBuffer \in Seq(Nat) /\ accumulator \in Seq(Nat)
  /\ atEof \in BOOLEAN
  /\ chunks \in Seq([index : Nat, offset : Nat, data : Seq(Nat)])
  /\ atEof => Len(accumulator) < ChunkSize

\* Every chunk holds the bytes at its own offset and the offsets leave no gap,
\* whatever short reads and changes of the file there were (_stream_chunks).
ChunksInPlace ==
  \A i \in DOMAIN chunks :
    /\ chunks[i].data = Bytes(chunks[i].offset, chunks[i].offset + Len(chunks[i].data))
    /\ i < Len(chunks) => chunks[i + 1].offset = chunks[i].offset + Len(chunks[i].data)

\* Only the last chunk is shorter than ChunkSize, and none is longer or empty,
\* also when the file ends and then grows while it is read (next_cut): chunk i
\* is at i * ChunkSize, as the receiver and the delta assume.
OnlyLastShort ==
  \A i \in DOMAIN chunks :
    /\ Len(chunks[i].data) \in 1 .. ChunkSize
    /\ i < Len(chunks) => Len(chunks[i].data) = ChunkSize

\* The reader keeps less than a chunk and a block in memory, however long the
\* file is (StreamingChunkReader: "peak memory use stays bounded").
MemoryBounded == Len(accumulator) + Len(readBuffer) < ChunkSize + ReadBlockSize

\* A file that has not changed is chunked to its last byte, and an empty one
\* into nothing.
WholeFileRead == pc = "done" /\ resizes = 0 => Offset = length

\* What the reader hands out, at every point of its loop (_stream_chunks): the
\* bytes at their places, in chunks that only end short at the end, all of an
\* unchanged file, with bounded memory.
ReaderInv ==
  ReaderTypeOK /\ ChunksInPlace /\ OnlyLastShort /\ MemoryBounded /\ WholeFileRead

\* The reader comes to an end: an empty block is the only way out of its loop,
\* and the file changes finitely often.
ReaderEnds == <>(pc \in {"done", "failed"})
=============================================================================
