---------------------------- MODULE PushReceiver ----------------------------
(***************************************************************************)
(* The receiving side of a push: ReceivePushedFilesUseCase                 *)
(* (receive_pushed_files.py), LocalFileReconstructor                       *)
(* (local_file_reconstructor.py) and the version vectors it records        *)
(* (conflict.py, sqlite_metadata_repository.py).                           *)
(*                                                                         *)
(* One message is handled at a time; the sweeper, the user and the clock   *)
(* run while the handler awaits the metadata repository.                   *)
(***************************************************************************)
EXTENDS BlockFiles, VersionVectors, FiniteSets

CONSTANTS
  Paths,
  Own,              \* own_device_id
  FirstVersion,     \* the versions recorded by earlier pushes
  Nothing,          \* no file is being finalized
  MaxPendingFiles,  \* max_pending_files, 64
  MaxTotalChunks,   \* max_total_chunks, 100000
  PartialTimeout    \* partial_timeout_seconds, in ticks

ASSUME OwnAssumption == Own \in Devices
ASSUME FirstVersionAssumption == FirstVersion \in [Paths -> [Devices -> Nat]]
ASSUME LimitsAssumption ==
  /\ MaxPendingFiles \in Nat /\ MaxTotalChunks \in Nat /\ PartialTimeout \in Nat

VARIABLES
  disk,        \* the file at each path of the sync root
  version,     \* version_vector in the metadata repository
  open,        \* the keys of _pending
  partial,     \* the _PendingFile of every path in open
  finalizing,  \* what _finalize has committed and not yet recorded
  landed       \* history: the pushes of which a chunk has been in the file in place

receiverVars == <<disk, version, open, partial, finalizing, landed>>

----------------------------------------------------------------------------
(* The version a push leaves *)

\* Variant of the version a push leaves that forgets the recorded one.
NewVersionForgets(old, v) == IF v = NoVersion THEN Increment(old, Own) ELSE v

\* The version _finalize records: the sender's, merged with the recorded one,
\* or a bump of our own counter when no version came with the push.
NewVersion(old, v) == IF v = NoVersion THEN Increment(old, Own) ELSE Merge(v, old)

----------------------------------------------------------------------------
(* The reconstructor *)

\* begin_partial: a temporary copy of the file in place.  seed and from are
\* history: what it was copied from, and the pushes that wrote into it.
BeginPartial(p) ==
  [bytes |-> disk[p], got |-> {}, vv |-> NoVersion, idle |-> 0,
   seed |-> disk[p], from |-> {}]

NoPartial == [bytes |-> <<>>, got |-> {}, vv |-> NoVersion, idle |-> 0,
              seed |-> <<>>, from |-> {}]

\* A file that was pushed before may since have been deleted; its version is
\* still recorded.
ReceiverInit ==
  /\ disk = [p \in Paths |-> <<>>]
  /\ version = FirstVersion
  /\ open = {}
  /\ partial = [p \in Paths |-> NoPartial]
  /\ finalizing = Nothing
  /\ landed = [p \in Paths |-> {}]

----------------------------------------------------------------------------
(* _handle_push *)

\* max_pending_files, for a path that has no partial yet.
Room(p) == p \in open \/ Cardinality(open) < MaxPendingFiles

\* _validate; the digests of authentic chunks match their bytes.
Valid(m) == m.total \in 1 .. MaxTotalChunks

Handles(m) == finalizing = Nothing /\ Valid(m) /\ Room(m.path)

\* The pending entry the chunk goes to.
Entry(m) == IF m.path \in open THEN partial[m.path] ELSE BeginPartial(m.path)

\* Variant of the write that goes to the next free block, not to the offset.
ReceivedAppends(m) ==
  [Entry(m) EXCEPT
     !.bytes = Append(@, m.block),
     !.got = @ \union {m.index},
     !.vv = IF m.vv = NoVersion THEN @ ELSE IF @ = NoVersion THEN m.vv ELSE Merge(@, m.vv),
     !.idle = 0,
     !.from = @ \union {m.push}]

\* The pending entry once the chunk is written.
Received(m) ==
  [Entry(m) EXCEPT
     !.bytes = WriteAt(@, m.index, m.block),
     !.got = @ \union {m.index},
     !.vv = IF m.vv = NoVersion THEN @ ELSE IF @ = NoVersion THEN m.vv ELSE Merge(@, m.vv),
     !.idle = 0,
     !.from = @ \union {m.push}]

\* Variant of the completion test that is one chunk early.
CompleteEarly(m) == Cardinality(Received(m).got) + 1 >= m.total

\* received_indices has reached the total_chunks of the message at hand.
Complete(m) == Cardinality(Received(m).got) >= m.total

\* A chunk that does not complete its file.
WriteChunk(m) ==
  /\ Handles(m)
  /\ ~Complete(m)
  /\ open' = open \union {m.path}
  /\ partial' = [partial EXCEPT ![m.path] = Received(m)]
  /\ UNCHANGED <<disk, version, finalizing, landed>>

\* The last chunk: commit_partial renames the temporary file into place and
\* the entry is popped; then _finalize awaits the metadata repository.
CommitFile(m) ==
  /\ Handles(m)
  /\ Complete(m)
  /\ open' = open \ {m.path}
  /\ partial' = [partial EXCEPT ![m.path] = NoPartial]
  /\ disk' = [disk EXCEPT ![m.path] = Received(m).bytes]
  /\ finalizing' = [path |-> m.path, vv |-> Received(m).vv,
                    seed |-> Entry(m).seed, from |-> Received(m).from]
  /\ landed' = [landed EXCEPT ![m.path] = @ \union Received(m).from]
  /\ UNCHANGED version

\* Variant of a failed rename that goes on to record the version.
CommitFailsRecords(m) ==
  /\ Handles(m)
  /\ Complete(m)
  /\ open' = open \ {m.path}
  /\ partial' = [partial EXCEPT ![m.path] = NoPartial]
  /\ finalizing' = [path |-> m.path, vv |-> Received(m).vv,
                    seed |-> Entry(m).seed, from |-> Received(m).from]
  /\ UNCHANGED <<disk, version, landed>>

\* The rename fails: the error is logged, the entry stays, complete.
CommitFails(m) ==
  /\ Handles(m)
  /\ Complete(m)
  /\ open' = open \union {m.path}
  /\ partial' = [partial EXCEPT ![m.path] = Received(m)]
  /\ UNCHANGED <<disk, version, finalizing, landed>>

\* The write fails: the entry has been created or touched, nothing more.
WriteFails(m) ==
  /\ Handles(m)
  /\ open' = open \union {m.path}
  /\ partial' = [partial EXCEPT ![m.path] = [Entry(m) EXCEPT !.idle = 0]]
  /\ UNCHANGED <<disk, version, finalizing, landed>>

\* The rest of _finalize.
SaveMetadata ==
  /\ finalizing # Nothing
  /\ LET p == finalizing.path IN
     version' = [version EXCEPT ![p] = NewVersion(@, finalizing.vv)]
  /\ finalizing' = Nothing
  /\ UNCHANGED <<disk, open, partial, landed>>

----------------------------------------------------------------------------
(* Timeouts, the user, and restarts *)

Expired == {p \in open : partial[p].idle > PartialTimeout}

\* Variant of the sweep that discards the temporary file only.
SweepKeepsEntry ==
  /\ Expired # {}
  /\ partial' = [p \in Paths |-> IF p \in Expired THEN NoPartial ELSE partial[p]]
  /\ UNCHANGED <<disk, version, open, finalizing, landed>>

\* _abort_expired_partials
Sweep ==
  /\ Expired # {}
  /\ open' = open \ Expired
  /\ partial' = [p \in Paths |-> IF p \in Expired THEN NoPartial ELSE partial[p]]
  /\ UNCHANGED <<disk, version, finalizing, landed>>

\* Time passes; idle times saturate one tick past the timeout.
Tick ==
  /\ \E p \in open : partial[p].idle <= PartialTimeout
  /\ partial' = [p \in Paths |->
       IF p \in open /\ partial[p].idle <= PartialTimeout
       THEN [partial[p] EXCEPT !.idle = @ + 1] ELSE partial[p]]
  /\ UNCHANGED <<disk, version, open, finalizing, landed>>

\* The user saves a file of the sync root; nothing watches it.
LocalSave(p, file) ==
  /\ disk' = [disk EXCEPT ![p] = file]
  /\ UNCHANGED <<version, open, partial, finalizing, landed>>

\* Stopped or crashed and started again: _pending is in memory.  A file
\* that was committed and not yet recorded stays, with its old version.
\* An error of the metadata repository ends run_forever in the same state.
ReceiverRestart ==
  /\ open # {} \/ finalizing # Nothing
  /\ open' = {}
  /\ partial' = [p \in Paths |-> NoPartial]
  /\ finalizing' = Nothing
  /\ UNCHANGED <<disk, version, landed>>
=============================================================================
