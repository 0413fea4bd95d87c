---------------------------- MODULE MetadataStore ----------------------------
(***************************************************************************)
(* SqliteMetadataRepository (sqlite_metadata_repository.py): one           *)
(* connection on which a save is several statements and a commit.  The     *)
(* first statement that writes opens a transaction, and nothing but        *)
(* commit and rollback ends one.  One task calls at a time, as in main.py, *)
(* where only the receiver of pushes saves.  The reads are left out: they  *)
(* change nothing.  Foreign keys are enforced, so that a row of files that *)
(* is deleted or replaced takes its chunk rows with it.                    *)
(*                                                                         *)
(* The chunk rows of a file carry the version with which they were saved.  *)
(***************************************************************************)
EXTENDS Integers, Sequences

CONSTANTS
  Paths,
  Versions,   \* contents of a FileMetadata: vector, times and chunks
  NoRow,      \* no row of files for the path
  Rows,       \* bound: chunks of a file
  MaxFailures,\* bound: statements that fail
  MaxCalls    \* bound: calls

ASSUME NoRowAssumption == NoRow \notin Versions
ASSUME MetadataBoundsAssumption ==
  Rows \in Nat /\ MaxFailures \in Nat /\ MaxCalls \in Nat

VARIABLES
  files, chunks,  \* the tables, as the connection sees them
  committed,      \* the tables on the disk
  inTransaction,
  call,           \* the save that is under way, and its next statement
  calls, failures,  \* counters for the bounds
  returned,       \* history: what the last completed call left for each path
  halved          \* history: paths whose rows are those of a save that failed

tableVars == <<files, chunks, committed, inTransaction, halved>>
metadataVars == <<tableVars, call, calls, failures, returned>>

Tables == [files |-> files, chunks |-> chunks, halved |-> halved]
NoCall == [op |-> "none"]
ChunkRows(v) == [i \in 1 .. Rows |-> v]

MetadataInit ==
  /\ files = [p \in Paths |-> NoRow] /\ chunks = [p \in Paths |-> <<>>]
  /\ halved = {} /\ committed = Tables /\ inTransaction = FALSE
  /\ call = NoCall /\ calls = 0 /\ failures = 0
  /\ returned = [p \in Paths |-> NoRow]

Called == call = NoCall /\ calls < MaxCalls /\ calls' = calls + 1

----------------------------------------------------------------------------
(* save_file_metadata *)

\* INSERT OR REPLACE INTO files: the row that is replaced is deleted first, and
\* ON DELETE CASCADE takes its chunk rows.
InsertFile(p, v) ==
  /\ Called
  /\ files' = [files EXCEPT ![p] = v] /\ inTransaction' = TRUE
  /\ chunks' = [chunks EXCEPT ![p] = <<>>]
  /\ call' = [op |-> "delete", path |-> p, version |-> v]
  /\ UNCHANGED <<committed, failures, returned, halved>>

\* It raises: nothing is written, but the transaction is open.
InsertFileFails ==
  /\ Called /\ failures < MaxFailures /\ failures' = failures + 1
  /\ inTransaction' = TRUE
  /\ UNCHANGED <<files, chunks, committed, call, returned, halved>>

\* DELETE FROM chunks
DeleteChunks ==
  /\ call.op = "delete" /\ call' = [call EXCEPT !.op = "insert"]
  /\ chunks' = [chunks EXCEPT ![call.path] = <<>>] /\ inTransaction' = TRUE
  /\ UNCHANGED <<files, committed, calls, failures, returned, halved>>

\* INSERT INTO chunks, once for every chunk.
InsertChunk ==
  /\ call.op = "insert" /\ Len(chunks[call.path]) < Rows
  /\ chunks' = [chunks EXCEPT ![call.path] = Append(@, call.version)]
  /\ UNCHANGED <<files, committed, inTransaction, call, calls, failures,
                 returned, halved>>

\* Variant that leaves the commit to the caller.
EndSaveUncommitted ==
  /\ call.op = "insert" /\ Len(chunks[call.path]) = Rows
  /\ call' = NoCall
  /\ returned' = [returned EXCEPT ![call.path] = call.version]
  /\ UNCHANGED <<tableVars, calls, failures>>

\* The commit, and the call returns.
EndSave ==
  /\ call.op = "insert" /\ Len(chunks[call.path]) = Rows
  /\ halved' = halved \ {call.path} /\ UNCHANGED <<files, chunks, calls, failures>>
  /\ committed' = Tables' /\ inTransaction' = FALSE
  /\ call' = NoCall
  /\ returned' = [returned EXCEPT ![call.path] = call.version]

\* A later statement raises; the transaction stays open, and the next commit
\* takes what this save has written with it.  Which version is found from now
\* on is left open by the history.
SaveFails ==
  /\ call # NoCall /\ failures < MaxFailures /\ failures' = failures + 1
  /\ halved' = halved \union {call.path}
  /\ returned' = [returned EXCEPT ![call.path] = NoRow]
  /\ call' = NoCall
  /\ UNCHANGED <<files, chunks, committed, inTransaction, calls>>

----------------------------------------------------------------------------
(* The other operations *)

\* delete_file_metadata; the chunk rows go with the row (ON DELETE CASCADE).
DeleteFile(p) ==
  /\ Called
  /\ files' = [files EXCEPT ![p] = NoRow]
  /\ chunks' = [chunks EXCEPT ![p] = <<>>]
  /\ halved' = halved \ {p}
  /\ committed' = Tables' /\ inTransaction' = FALSE
  /\ returned' = [returned EXCEPT ![p] = NoRow]
  /\ UNCHANGED <<call, failures>>

\* begin_transaction; SQLite refuses it inside a transaction.
BeginTransaction ==
  /\ Called /\ ~inTransaction /\ inTransaction' = TRUE
  /\ UNCHANGED <<files, chunks, committed, call, failures, returned, halved>>

Commit ==
  /\ Called
  /\ committed' = Tables /\ inTransaction' = FALSE
  /\ UNCHANGED <<files, chunks, call, failures, returned, halved>>

\* The connection is back at what is on the disk.
Reread ==
  /\ files' = committed.files /\ chunks' = committed.chunks
  /\ halved' = committed.halved /\ inTransaction' = FALSE
  /\ UNCHANGED committed

Rollback == Called /\ Reread /\ UNCHANGED <<call, failures, returned>>

\* The process ends, with or without close: what is not committed is gone.
MetadataRestart ==
  /\ Reread /\ call' = NoCall
  /\ UNCHANGED <<calls, failures, returned>>

MetadataStep ==
  \/ \E p \in Paths, v \in Versions : InsertFile(p, v)
  \/ InsertFileFails \/ DeleteChunks \/ InsertChunk \/ EndSave \/ SaveFails
  \/ \E p \in Paths : DeleteFile(p)
  \/ BeginTransaction \/ Rollback \/ Commit

----------------------------------------------------------------------------
(* Properties *)

\* A save that has returned survives failed saves of other paths, rollbacks and
\* restarts, the ones in the middle of the next save of its path too, until a
\* call for its path returns or fails (save_file_metadata).
ReturnedIsDurable ==
  \A p \in Paths : returned[p] # NoRow => committed.files[p] = returned[p]

\* "Chunk/version bookkeeping must not be left in a half-updated state"
\* (ADR 0005): what is on the disk about a file was saved by one call, whatever
\* ended in between and whatever became of the saves of other files.  The
\* exception is a file of which a commit has taken rows of a save that failed,
\* until it is saved again or deleted.
CommittedWhole ==
  \A p \in Paths \ committed.halved :
    committed.chunks[p] =
      IF committed.files[p] = NoRow THEN <<>> ELSE ChunkRows(committed.files[p])

\* What a restart finds: everything that was returned, in one piece
\* (save_file_metadata).
MetadataInv == ReturnedIsDurable /\ CommittedWhole
=============================================================================
