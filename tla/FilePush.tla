------------------------------ MODULE FilePush ------------------------------
(***************************************************************************)
(* Pushes of files to one receiver: SyncFileUseCase.push (sync_file.py)    *)
(* with DeltaCalculator (delta.py) and UploadChunksUseCase on the sending  *)
(* devices, PushReceiver on the other side.                                *)
(*                                                                         *)
(* The wire holds each message at most once (SecureChannel shows that a    *)
(* frame is delivered at most once); it loses and reorders them, because   *)
(* every chunk travels on a connection of its own.  A sender handles one   *)
(* push at a time and reads its file again while it sends, so the file may *)
(* change under it.                                                        *)
(***************************************************************************)
EXTENDS PushReceiver

CONSTANTS
  Senders,
  Contents,    \* the files senders and the user may have
  VersionOf,   \* VersionOf[q][p]: what local_version_provider of q gives for p
  MaxPushes,   \* bound: pushes in a behaviour
  MaxSaves     \* bound: files saved by a user during a behaviour

ASSUME ContentsAssumption == Contents \subseteq Seq(Blocks) \ {<<>>}
ASSUME VersionsAssumption ==
  VersionOf \in [Senders -> [Paths -> [Devices -> Nat] \union {NoVersion}]]
ASSUME BoundsAssumption == MaxPushes \in Nat /\ MaxSaves \in Nat

VARIABLES
  log,       \* every push: what it sends, from which file
  cursor,    \* cursor[q]: the push q is sending and the chunk it is at
  wire,      \* chunks sent and not yet received
  manifest,  \* the digests of the receiver's stored manifest of each path
  saves,     \* files saved by users so far
  known      \* history: the block some device has had at a place of a path

senderVars == <<log, cursor, wire, manifest, saves, known>>
vars == <<receiverVars, senderVars>>

Idle == [push |-> 0, next |-> 0]

Init ==
  /\ ReceiverInit
  /\ log = <<>>
  /\ cursor = [q \in Senders |-> Idle]
  /\ wire = {}
  /\ manifest = [p \in Paths |-> {}]
  /\ saves = 0
  /\ known = {}

Places(p, file) == {<<p, i, file[i]>> : i \in DOMAIN file}

----------------------------------------------------------------------------
(* The sender *)

\* DeltaCalculator.compute: the digests the peer's manifest lacks, wherever
\* in the file they are.
NeededHashes(p, file) == Digests(file) \ manifest[p]

\* push up to the upload: build the manifest, ask the peer for its own.
\* src and kept are history: the file the manifest was built from, and
\* whether it has been saved again during the push.
StartPush(q, p, file) ==
  /\ cursor[q] = Idle
  /\ Len(log) < MaxPushes
  /\ NeededHashes(p, file) # {}
  /\ log' = Append(log, [path |-> p, src |-> file, now |-> file, kept |-> "still",
                         needed |-> NeededHashes(p, file), vv |-> VersionOf[q][p]])
  /\ cursor' = [cursor EXCEPT ![q] = [push |-> Len(log) + 1, next |-> 1]]
  /\ known' = known \union Places(p, file)
  /\ UNCHANGED <<receiverVars, wire, manifest, saves>>

\* The file of a push that is being sent is saved again.
SourceChanges(q, file) ==
  /\ cursor[q] # Idle
  /\ saves < MaxSaves /\ saves' = saves + 1
  /\ log' = [log EXCEPT ![cursor[q].push] = [@ EXCEPT !.now = file, !.kept = "edited"]]
  /\ known' = known \union Places(log[cursor[q].push].path, file)
  /\ UNCHANGED <<receiverVars, cursor, wire, manifest>>

\* The chunks _filter_chunks_to_upload has not yielded yet.
Remaining(q) ==
  LET u == log[cursor[q].push] IN
  {i \in DOMAIN u.now : i >= cursor[q].next /\ u.now[i] \in u.needed}

\* send_chunk for the next of them.  total_chunks counts distinct digests.
SendChunk(q) ==
  /\ cursor[q] # Idle
  /\ \E i \in Remaining(q) :
       /\ \A h \in Remaining(q) : i <= h
       /\ LET u == log[cursor[q].push] IN
          wire' = wire \union
            {[push |-> cursor[q].push, path |-> u.path, index |-> i, block |-> u.now[i],
              total |-> Cardinality(u.needed), vv |-> u.vv]}
       /\ cursor' = [cursor EXCEPT ![q].next = i + 1]
  /\ UNCHANGED <<receiverVars, log, manifest, saves, known>>

\* The push is through, or a connection failed and the rest is not sent.
EndPush(q) ==
  /\ cursor[q] # Idle
  /\ cursor' = [cursor EXCEPT ![q] = Idle]
  /\ UNCHANGED <<receiverVars, log, wire, manifest, saves, known>>

----------------------------------------------------------------------------
(* The receiver *)

Deliver(m) ==
  /\ WriteChunk(m) \/ CommitFile(m) \/ CommitFails(m) \/ WriteFails(m)
  /\ wire' = wire \ {m}
  /\ UNCHANGED <<log, cursor, manifest, saves, known>>

\* Lost on the way, dropped at a full inbox, or refused by _handle_push.
Drop(m) ==
  /\ wire' = wire \ {m}
  /\ UNCHANGED <<receiverVars, log, cursor, manifest, saves, known>>

\* The receiver pushes or pulls the file itself: it stores its manifest.
StoreManifest(p) ==
  /\ disk[p] # <<>>
  /\ manifest' = [manifest EXCEPT ![p] = Digests(disk[p])]
  /\ UNCHANGED <<receiverVars, log, cursor, wire, saves, known>>

\* The user of the receiving device saves a file.
UserSaves(p, file) ==
  /\ saves < MaxSaves /\ saves' = saves + 1
  /\ LocalSave(p, file)
  /\ known' = known \union Places(p, file)
  /\ UNCHANGED <<log, cursor, wire, manifest>>

Next ==
  \/ \E q \in Senders, p \in Paths, file \in Contents : StartPush(q, p, file)
  \/ \E q \in Senders, file \in Contents : SourceChanges(q, file)
  \/ \E q \in Senders : SendChunk(q)
  \/ \E q \in Senders : EndPush(q)
  \/ \E m \in wire : Deliver(m)
  \/ \E m \in wire : Drop(m)
  \/ SaveMetadata /\ UNCHANGED senderVars
  \/ Sweep /\ UNCHANGED senderVars
  \/ Tick /\ UNCHANGED senderVars
  \/ ReceiverRestart /\ UNCHANGED senderVars
  \/ \E p \in Paths : StoreManifest(p)
  \/ \E p \in Paths, file \in Contents : UserSaves(p, file)

Spec == Init /\ [][Next]_vars

\* The clock runs, and so does the sweeper task: run_forever starts it, and it
\* never ends before the receiver does.
FairSpec ==
  /\ Spec
  /\ WF_vars(Tick /\ UNCHANGED senderVars)
  /\ WF_vars(Sweep /\ UNCHANGED senderVars)

----------------------------------------------------------------------------
(* Properties *)

\* The state of both sides; a temporary file exists only for an entry of
\* _pending.
TypeOK ==
  /\ disk \in [Paths -> Files]
  /\ version \in [Paths -> [Devices -> Nat]]
  /\ open \subseteq Paths
  /\ \A p \in Paths :
       /\ partial[p].bytes \in Files
       /\ partial[p].idle \in 0 .. (PartialTimeout + 1)
       /\ p \notin open => partial[p] = NoPartial
  /\ finalizing # Nothing => finalizing.path \in Paths
  /\ \A m \in wire : m.path \in Paths /\ m.index \in Nat \ {0} /\ m.block \in Blocks

\* No more than max_pending_files temporary files exist at once.
PendingBounded == Cardinality(open) <= MaxPendingFiles

\* Every block of a file is one that some device had at that place of that
\* path: assembly, timeouts, restarts and pushes that cross never move bytes
\* to another offset or another file.
NothingInvented ==
  \A p \in Paths : \A i \in DOMAIN disk[p] :
    disk[p][i] # Hole => <<p, i, disk[p][i]>> \in known

\* What holds of the receiver in every state (receive_pushed_files.py): its
\* state is well formed, no more temporary files than the cap, no block out of
\* its place.
PushInv == TypeOK /\ PendingBounded /\ NothingInvented

\* The recorded version of a file never goes back.
VersionMonotone ==
  [][\A p \in Paths : Precedes(version[p], version'[p])]_vars

\* A push that offers the count n for device d: with its version, or as a bump
\* of our own counter when it has none.
Offers(k, d, n) ==
  IF log[k].vv = NoVersion THEN d = Own ELSE n <= log[k].vv[d]

\* No version is recorded on behalf of a push that has not arrived: what a
\* recorded version has gained was offered by a push of the same path, a chunk
\* of which was in a file that was renamed into place.  A push that was lost,
\* timed out, could not be written or renamed, or was cut off by a restart
\* leaves its version behind with its bytes.  That all of its chunks are in
\* the file is another matter, and holds under the conditions of
\* CleanPushExact only.
VersionBacked ==
  \A p \in Paths, d \in Devices :
    version[p][d] > FirstVersion[p][d] =>
      \E k \in landed[p] : log[k].path = p /\ Offers(k, d, version[p][d])

\* Positions of the file a push sends.
Sent(u) == {i \in DOMAIN u.src : u.src[i] \in u.needed}

Unchanged(u) == u.kept = "still"
Distinct(u) == \A i, j \in Sent(u) : u.src[i] = u.src[j] => i = j
InPlace(u, file) ==
  /\ Len(file) <= Len(u.src)
  /\ \A i \in DOMAIN u.src \ Sent(u) : i <= Len(file) /\ file[i] = u.src[i]

\* What the protocol delivers: when one push alone has written to the
\* temporary file, its blocks are distinct, its source kept still and the
\* reused blocks are in their place, the file that is committed is the
\* sender's, whatever was lost, delayed or timed out on the way.
CleanPushExact ==
  [][(finalizing = Nothing /\ finalizing' # Nothing) =>
       LET p == finalizing'.path IN
       \A k \in finalizing'.from :
         (/\ finalizing'.from = {k}
          /\ Unchanged(log[k]) /\ Distinct(log[k])
          /\ InPlace(log[k], finalizing'.seed))
           => disk'[p] = log[k].src]_vars

\* Every temporary file is committed or discarded sooner or later.
PartialsDrain == \A p \in Paths : p \in open ~> p \notin open

----------------------------------------------------------------------------
(* Statements of the documentation that do not hold *)

\* received_indices is a set "so a resent (duplicate) chunk cannot make the
\* receiver ... commit a file with a hole in it" (receive_pushed_files.py,
\* _PendingFile).
NoHoleCommitted ==
  \A p \in Paths : \A i \in DOMAIN disk[p] : disk[p][i] # Hole

\* The file at a path is never "partly the old version and partly the new
\* one - a state that was never a valid version of anything"
\* (test_receive_pushed_files.py).
CommittedIsAVersion == \A p \in Paths : disk[p] = <<>> \/ disk[p] \in Contents

\* total_chunks may count the changed chunks only, since "the receiving side's
\* existing file already has correct bytes everywhere else" (sync_file.py,
\* push): a push that is alone and whose blocks are distinct delivers its file.
LonePushExact ==
  [][(finalizing = Nothing /\ finalizing' # Nothing) =>
       \A k \in finalizing'.from :
         (finalizing'.from = {k} /\ Unchanged(log[k]) /\ Distinct(log[k]))
           => disk'[finalizing'.path] = log[k].src]_vars
=============================================================================
