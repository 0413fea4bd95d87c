------------------------------ MODULE FileSync ------------------------------
(***************************************************************************)
(* Two devices that sync one file with each other: SyncFileUseCase.sync    *)
(* and .pull (sync_file.py), the manifest and chunk answers of             *)
(* TcpManifestExchangeTransport (tcp_manifest_exchange.py), the direction  *)
(* of SyncDirection and LastWriterWinsStrategy (conflict_resolution.py).   *)
(*                                                                         *)
(* Every await of a sync is a step of its own: the peer is asked for its   *)
(* manifest and version, the file is read again, the peer is asked once    *)
(* more, its chunks come in one answer and are written in place one by     *)
(* one.  Users save and pushes land between any two of them.  A push is    *)
(* one step here, from its manifest to the commit at the receiver or the   *)
(* loss of a chunk; FilePush has its steps.                                *)
(***************************************************************************)
EXTENDS SyncDirection, FiniteSets

CONSTANTS
  Contents,     \* the files a user saves
  Peer,         \* [Devices -> Devices]: the other device
  Starts,       \* the files, stored manifests and versions to start from
  MaxSyncs,     \* bound: syncs in a behaviour
  MaxSaves      \* bound: files saved by users during a behaviour

ASSUME ContentsAssumption == Contents \subseteq Seq(Blocks) \ {<<>>}
ASSUME PeerAssumption ==
  Peer \in [Devices -> Devices] /\ \A d \in Devices : Peer[d] # d /\ Peer[Peer[d]] = d
ASSUME StartsAssumption == \A s \in Starts :
  /\ s.file \in [Devices -> Contents \union {<<>>}]
  /\ s.stored \in [Devices -> Contents \union {NoManifest}]
  /\ s.version \in [Devices -> [Devices -> Nat] \union {NoVersion}]
ASSUME BoundsAssumption == MaxSyncs \in Nat /\ MaxSaves \in Nat

VARIABLES
  disk,      \* disk[d]: the file in d's sync root, <<>> when there is none
  manifest,  \* manifest[d]: the one in d's chunk repository, or NoManifest
  version,   \* version[d]: the one in d's metadata repository, or NoVersion
  task,      \* task[d]: the sync that d runs with its peer
  syncs,     \* syncs started so far
  saves,     \* files saved by users so far
  known      \* history: the blocks that users have put at each place

vars == <<disk, manifest, version, task, syncs, saves, known>>

(***************************************************************************)
(* A task: the manifest and version read before the peer is asked, the     *)
(* digests to request, and the chunks of the answer still to be written.   *)
(* want is history: the peer's file when the pull began, as long as        *)
(* nothing else has written to either file and the peer's manifest was     *)
(* that of its file whenever it was used; NoManifest from then on.         *)
(***************************************************************************)
Idle == [pc |-> "idle", mine |-> <<>>, v |-> NoVersion, needed |-> {}, queue |-> {},
         written |-> 0, cause |-> "none", want |-> NoManifest]

Places(file) == {<<i, file[i]>> : i \in DOMAIN file}

Init ==
  /\ \E s \in Starts : disk = s.file /\ manifest = s.stored /\ version = s.version
  /\ task = [d \in Devices |-> Idle]
  /\ syncs = 0
  /\ saves = 0
  /\ known = UNION {Places(disk[d]) : d \in Devices}

Goto(d, t) == task' = [task EXCEPT ![d] = t]

\* Someone else writes to a file: no pull is quiet any more.
Disturbed(tasks) == [d \in Devices |-> [tasks[d] EXCEPT !.want = NoManifest]]

----------------------------------------------------------------------------
(* sync *)

\* _local_manifest_or_empty and _local_version_provider.
StartSync(d) ==
  /\ task[d].pc = "idle"
  /\ syncs < MaxSyncs /\ syncs' = syncs + 1
  /\ Goto(d, [Idle EXCEPT !.pc = "asking", !.mine = disk[d], !.v = version[d]])
  /\ UNCHANGED <<disk, manifest, version, saves, known>>

\* The direction, once _build_manifest_response of the peer has answered; a
\* peer without a manifest is asked no further.
Decision(d) ==
  IF manifest[Peer[d]] = NoManifest
  THEN IF task[d].mine # <<>> THEN "push" ELSE "noop"
  ELSE Resolve(task[d].mine, task[d].v, manifest[Peer[d]], version[Peer[d]])

\* pull reads the local file again, before it asks the peer once more.
BeginPull(d, cause) ==
  Goto(d, [Idle EXCEPT !.pc = "pulling", !.mine = disk[d], !.cause = cause,
                       !.want = disk[Peer[d]]])

Decide(d) ==
  /\ task[d].pc = "asking"
  /\ \/ Decision(d) = "push" /\ Goto(d, [Idle EXCEPT !.pc = "pushing"])
     \/ Decision(d) = "pull" /\ BeginPull(d, "newer")
     \/ Decision(d) = "noop" /\ Goto(d, Idle)
  /\ UNCHANGED <<disk, manifest, version, syncs, saves, known>>

\* CONFLICT: LastWriterWinsStrategy.merge compares the detected_at of two
\* records made one after the other, the remote one second; the clock may or
\* may not advance between them.  "Local wins" does nothing.
DecideConflict(d) ==
  /\ task[d].pc = "asking"
  /\ Decision(d) = "conflict"
  /\ \/ BeginPull(d, "conflict")
     \/ Goto(d, Idle)
  /\ UNCHANGED <<disk, manifest, version, syncs, saves, known>>

----------------------------------------------------------------------------
(* pull *)

\* Variant of the plan that asks for the chunks the peer lacks.
MissingSwapped(mine, theirs) == Digests(mine) \ Digests(theirs)

\* DeltaCalculator.compute(baseline=current, current=peer_manifest)
Missing(mine, theirs) == Digests(theirs) \ Digests(mine)

\* The peer's manifest, requested again (it is there: nothing removes one), and
\* the plan.  With nothing to transfer, the manifest read first is stored.
PlanPull(d) ==
  LET theirs == manifest[Peer[d]] IN
  /\ task[d].pc = "pulling"
  /\ \/ /\ Missing(task[d].mine, theirs) = {}
        /\ Goto(d, Idle)
        /\ manifest' = [manifest EXCEPT ![d] = task[d].mine]
     \/ /\ Missing(task[d].mine, theirs) # {}
        /\ Goto(d, [task[d] EXCEPT !.pc = "fetching",
                                   !.needed = Missing(task[d].mine, theirs),
                                   !.want = IF theirs = @ THEN @ ELSE NoManifest])
        /\ UNCHANGED manifest
  /\ UNCHANGED <<disk, version, syncs, saves, known>>

\* Variant of the answer that numbers its chunks itself.
ChunkResponseRenumbered(p, needed) ==
  LET places == {i \in DOMAIN manifest[p] : manifest[p][i] \in needed} IN
  {IF i <= Len(disk[p])
   THEN [at |-> Cardinality({j \in places : j <= i}), block |-> disk[p][i], size |-> "full"]
   ELSE [at |-> i, block |-> Hole, size |-> "short"] : i \in places}

\* _build_chunk_response: the offsets of the stored manifest, the bytes that
\* are in the file now; nothing compares them with the digest.  Where the file
\* is shorter than its manifest the bytes are too few to make a Chunk of.
ChunkResponse(p, needed) ==
  LET places == {i \in DOMAIN manifest[p] : manifest[p][i] \in needed} IN
  {IF i <= Len(disk[p])
   THEN [at |-> i, block |-> disk[p][i], size |-> "full"]
   ELSE [at |-> i, block |-> Hole, size |-> "short"] : i \in places}

\* request_chunks; a peer whose file is gone fails to answer (SyncFails).
FetchChunks(d) ==
  LET p == Peer[d] IN
  /\ task[d].pc = "fetching"
  /\ disk[p] # <<>>
  /\ Goto(d, [task[d] EXCEPT !.pc = "writing",
                             !.queue = ChunkResponse(p, task[d].needed),
                             !.want = IF manifest[p] = @ THEN @ ELSE NoManifest])
  /\ UNCHANGED <<disk, manifest, version, syncs, saves, known>>

\* write_chunk_at_offset, into the file itself, in the order of the manifest.
WriteChunk(d) ==
  /\ task[d].pc = "writing"
  /\ \E c \in task[d].queue :
       /\ \A e \in task[d].queue : c.at <= e.at
       /\ c.size = "full"
       /\ disk' = [disk EXCEPT ![d] = WriteAt(@, c.at, c.block)]
       /\ task' = [Disturbed(task) EXCEPT
                     ![d] = [task[d] EXCEPT !.queue = @ \ {c}, !.written = @ + 1]]
  /\ UNCHANGED <<manifest, version, syncs, saves, known>>

\* The new file is hashed, unless it is gone, and its manifest stored; the
\* version is not touched.
FinishPull(d) ==
  /\ task[d].pc = "writing"
  /\ task[d].queue = {}
  /\ task[d].written = 0 \/ disk[d] # <<>>
  /\ manifest' = [manifest EXCEPT ![d] = IF task[d].written > 0 THEN disk[d] ELSE task[d].mine]
  /\ Goto(d, Idle)
  /\ UNCHANGED <<disk, version, syncs, saves, known>>

\* No session, no connection, no answer, a chunk of the wrong size, a failed
\* write, or a crash: the sync is over, and what is written stays.
SyncFails(d) ==
  /\ task[d].pc # "idle"
  /\ Goto(d, Idle)
  /\ UNCHANGED <<disk, manifest, version, syncs, saves, known>>

----------------------------------------------------------------------------
(* push, in one step *)

\* The receiver's file with the chunks its stored manifest lacks, as long as
\* it was or as the end of the last of them.
Patched(p, file) ==
  LET lacks == Digests(file) \ Hashes(manifest[p])
      reach == Cardinality({i \in DOMAIN file : \E j \in DOMAIN file :
                              i <= j /\ file[j] \in lacks})
  IN [i \in 1 .. (IF reach > Len(disk[p]) THEN reach ELSE Len(disk[p])) |->
        IF i \in DOMAIN file /\ file[i] \in lacks THEN file[i]
        ELSE IF i <= Len(disk[p]) THEN disk[p][i] ELSE Hole]

\* What the receiver records: see NewVersion of PushReceiver.
Received(p, v) ==
  LET old == IF version[p] = NoVersion THEN NoEdits ELSE version[p]
  IN IF v = NoVersion THEN Increment(old, p) ELSE Merge(v, old)

\* Everything arrives and is committed.  The sender stores its own manifest;
\* the receiver does not.
PushLands(d) ==
  LET p == Peer[d] IN
  /\ task[d].pc = "pushing"
  /\ disk[d] # <<>>
  /\ disk' = [disk EXCEPT ![p] = Patched(p, disk[d])]
  /\ version' = [version EXCEPT ![p] =
       IF Digests(disk[d]) \subseteq Hashes(manifest[p]) THEN @ ELSE Received(p, version[d])]
  /\ manifest' = [manifest EXCEPT ![d] = disk[d]]
  /\ task' = [Disturbed(task) EXCEPT ![d] = Idle]
  /\ UNCHANGED <<syncs, saves, known>>

\* A chunk is lost after it was sent: the sender does not learn of it.
PushLost(d) ==
  /\ task[d].pc = "pushing"
  /\ disk[d] # <<>>
  /\ manifest' = [manifest EXCEPT ![d] = disk[d]]
  /\ Goto(d, Idle)
  /\ UNCHANGED <<disk, version, syncs, saves, known>>

----------------------------------------------------------------------------

\* A user saves the file, or deletes it; nothing counts the edit or renews the
\* manifest.
UserSaves(d, file) ==
  /\ saves < MaxSaves /\ saves' = saves + 1
  /\ disk' = [disk EXCEPT ![d] = file]
  /\ task' = Disturbed(task)
  /\ known' = known \union Places(file)
  /\ UNCHANGED <<manifest, version, syncs>>

Next ==
  \/ \E d \in Devices : StartSync(d)
  \/ \E d \in Devices : Decide(d)
  \/ \E d \in Devices : DecideConflict(d)
  \/ \E d \in Devices : PlanPull(d)
  \/ \E d \in Devices : FetchChunks(d)
  \/ \E d \in Devices : WriteChunk(d)
  \/ \E d \in Devices : FinishPull(d)
  \/ \E d \in Devices : SyncFails(d)
  \/ \E d \in Devices : PushLands(d)
  \/ \E d \in Devices : PushLost(d)
  \/ \E d \in Devices, file \in Contents \union {<<>>} : UserSaves(d, file)

Spec == Init /\ [][Next]_vars

----------------------------------------------------------------------------
(* Properties *)

Chunks == [at : Nat \ {0}, block : Blocks \union {Hole}, size : {"full", "short"}]

Tasks ==
  [pc : {"idle", "asking", "pulling", "fetching", "writing", "pushing"},
   mine : Files, v : [Devices -> Nat] \union {NoVersion},
   needed : SUBSET (Blocks \union {Hole}), queue : SUBSET Chunks, written : Nat,
   cause : {"none", "newer", "conflict"}, want : Files \union {NoManifest}]

\* The state of the two devices; a sync that is over leaves nothing behind.
TypeOK ==
  /\ disk \in [Devices -> Files]
  /\ manifest \in [Devices -> Files \union {NoManifest}]
  /\ version \in [Devices -> [Devices -> Nat] \union {NoVersion}]
  /\ task \in [Devices -> Tasks]
  /\ \A d \in Devices :
       /\ task[d].pc = "idle" => task[d] = Idle
       /\ task[d].pc # "writing" => task[d].queue = {}
  /\ syncs \in 0 .. MaxSyncs /\ saves \in 0 .. MaxSaves

\* Every block of a file is one that a user put at that place of it, on this
\* device or on the other: whatever manifests are stale, whichever syncs cross
\* or fail half way, bytes never move to another offset.
NothingMisplaced ==
  \A d \in Devices : \A i \in DOMAIN disk[d] :
    disk[d][i] # Hole => <<i, disk[d][i]>> \in known

\* What holds of both devices at every await of a sync (sync_file.py).
SyncInv == TypeOK /\ NothingMisplaced

\* The pull of d has written its last chunk.
Pulled(d) == task[d].pc = "writing" /\ task[d].queue = {}

\* The blocks of file that the other one has are at the same places in it.
InPlace(file, other) ==
  \A i \in DOMAIN file : file[i] \in Digests(other) => i <= Len(other) /\ other[i] = file[i]

\* A pull that nothing disturbs, of a file whose stored manifest is up to date
\* and none of whose blocks have moved, makes the start of the local file equal
\* to the peer's (pull, sync_file.py); what is beyond the peer's end stays.
QuietPullExact ==
  \A d \in Devices :
    (Pulled(d) /\ task[d].want # NoManifest /\ InPlace(task[d].want, task[d].mine))
      => \A i \in DOMAIN task[d].want :
           i \in DOMAIN disk[d] /\ disk[d][i] = task[d].want[i]

\* What d would ask about its peer right now.
QuestionOf(d) ==
  Question(disk[d], version[d], manifest[Peer[d]], version[Peer[d]])

\* Two devices that ask at the same moment, each with a version and a stored
\* manifest that is up to date, never both push and never both pull: one sends
\* what the other fetches, both see the conflict, or neither moves (resolve,
\* sync_direction.py).  So after any syncs, failures and pushes that led there.
DecisionsMirror ==
  (\A d \in Devices : manifest[d] = disk[d] /\ version[d] # NoVersion)
    => \A d \in Devices : Answer(QuestionOf(d)) = Opposite(Answer(QuestionOf(Peer[d])))

----------------------------------------------------------------------------
(* A statement of the documentation that does not hold *)

\* A conflict "doesn't cause corruption within a single `push` or `pull` call"
\* (ADR-0022): a pull that nothing disturbs leaves a file that some user saved.
PullLeavesAVersion ==
  \A d \in Devices : Pulled(d) /\ task[d].want # NoManifest => disk[d] \in Contents
=============================================================================
