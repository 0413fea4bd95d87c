--------------------------- MODULE FileSyncProofs ---------------------------
(***************************************************************************)
(* Proofs about FileSync, for any devices that sync in pairs, files of any *)
(* length and any number of syncs and saves.                               *)
(*                                                                         *)
(* The inductive invariant has three parts: the types; where the blocks in *)
(* the files and in the answers come from; and how far an undisturbed pull *)
(* has got.  The mirrored decisions need no invariant but the types: they  *)
(* hold in every state, by the symmetry of the resolver.                   *)
(***************************************************************************)
EXTENDS FileSync, FiniteSetTheorems, SequenceTheorems, TLAPS

Positions == Nat \ {0}

\* Nothing removes a manifest, so a pull finds the one its decision was about.
ManifestStays ==
  \A d \in Devices :
    task[d].pc \in {"pulling", "fetching", "writing"} => manifest[Peer[d]] # NoManifest

\* A chunk is of a block that a user has put at its place.
AnswersKnown ==
  \A d \in Devices : \A c \in task[d].queue :
    c.block # Hole => <<c.at, c.block>> \in known

\* Chunk i of the peer's file is still in the answer of t.
Coming(t, i) == [at |-> i, block |-> t.want[i], size |-> "full"] \in t.queue

\* The file of an undisturbed pull t that is being written: what was in it is
\* there or has been replaced by the peer's block, and a block of the peer
\* that it lacked is there or will be.
Progress(t, file) ==
  /\ \A c \in t.queue : c.at \in DOMAIN t.want /\ c.block = t.want[c.at]
  /\ \A i \in DOMAIN t.mine :
       /\ i \in DOMAIN file
       /\ file[i] = t.mine[i] \/ (i \in DOMAIN t.want /\ file[i] = t.want[i])
  /\ \A i \in DOMAIN t.want :
       t.want[i] \in Digests(t.mine) \/ Coming(t, i) \/ (i \in DOMAIN file /\ file[i] = t.want[i])

\* An undisturbed pull: the peer's file is the one it began with, and so is
\* the local one until chunks are written.
Quiet(t, file, other) ==
  /\ t.pc \in {"pulling", "fetching", "writing"}
  /\ other = t.want
  /\ t.pc \in {"pulling", "fetching"} => file = t.mine
  /\ t.pc = "fetching" => t.needed = Digests(t.want) \ Digests(t.mine)
  /\ t.pc = "writing" => Progress(t, file)

QuietInv ==
  \A d \in Devices : task[d].want # NoManifest => Quiet(task[d], disk[d], disk[Peer[d]])

Inv == TypeOK /\ ManifestStays /\ NothingMisplaced /\ AnswersKnown /\ QuietInv

----------------------------------------------------------------------------
(* The resolver *)

\* Of two vectors at most one is older than the other.
LEMMA PrecedesAntisymmetric ==
  ASSUME NEW v \in [Devices -> Nat], NEW w \in [Devices -> Nat]
  PROVE  ~ (StrictlyPrecedes(v, w) /\ StrictlyPrecedes(w, v))
<1> SUFFICES ASSUME Precedes(v, w), Precedes(w, v)
             PROVE  v = w
  BY DEF StrictlyPrecedes
<1>1. \A d \in Devices : v[d] = w[d]
  <2> SUFFICES ASSUME NEW d \in Devices
               PROVE  v[d] = w[d]
    OBVIOUS
  <2>1. v[d] \in Nat /\ w[d] \in Nat /\ v[d] <= w[d] /\ w[d] <= v[d]
    BY DEF Precedes
  <2> QED
    BY <2>1
<1> QED
  BY <1>1

\* Seen from the other side a difference of contents has the other direction.
LEMMA DiffMirrors ==
  ASSUME NEW mine, NEW theirs
  PROVE  DiffContentHashes(mine, theirs) = Opposite(DiffContentHashes(theirs, mine))
<1> DEFINE A == Hashes(mine) \ Hashes(theirs)
           B == Hashes(theirs) \ Hashes(mine)
<1>1. DiffContentHashes(mine, theirs) =
        IF A # {} THEN IF B # {} THEN "conflict" ELSE "push"
                  ELSE IF B # {} THEN "pull" ELSE "noop"
  BY DEF DiffContentHashes
<1>2. DiffContentHashes(theirs, mine) =
        IF B # {} THEN IF A # {} THEN "conflict" ELSE "push"
                  ELSE IF A # {} THEN "pull" ELSE "noop"
  BY DEF DiffContentHashes
<1>3. /\ Opposite("push") = "pull" /\ Opposite("pull") = "push"
      /\ Opposite("conflict") = "conflict" /\ Opposite("noop") = "noop"
  BY DEF Opposite
<1> HIDE DEF A, B
<1> QED
  BY <1>1, <1>2, <1>3

\* So has the whole decision, when both versions are known.
LEMMA ResolveMirrors ==
  ASSUME NEW v \in [Devices -> Nat], NEW w \in [Devices -> Nat], NEW mine, NEW theirs
  PROVE  ResolveWithVersions(v, w, mine, theirs)
           = Opposite(ResolveWithVersions(w, v, theirs, mine))
<1>1. Opposite("push") = "pull" /\ Opposite("pull") = "push"
  BY DEF Opposite
<1> QED
  BY <1>1, PrecedesAntisymmetric, DiffMirrors DEF ResolveWithVersions

\* DecisionsMirror is a consequence of the types alone.
LEMMA MirrorFromTypes == TypeOK => DecisionsMirror
<1> SUFFICES ASSUME TypeOK, NEW d \in Devices,
                    \A e \in Devices : manifest[e] = disk[e] /\ version[e] # NoVersion
             PROVE  Answer(QuestionOf(d)) = Opposite(Answer(QuestionOf(Peer[d])))
  BY DEF DecisionsMirror
<1>1. Peer[d] \in Devices /\ Peer[Peer[d]] = d
  BY PeerAssumption
<1> DEFINE p == Peer[d]
<1>2. /\ manifest[d] = disk[d] /\ manifest[p] = disk[p]
      /\ disk[d] # NoManifest /\ disk[p] # NoManifest
      /\ version[d] \in [Devices -> Nat] /\ version[p] \in [Devices -> Nat]
      /\ version[d] # NoVersion /\ version[p] # NoVersion
  BY <1>1, NoManifestAssumption DEF TypeOK
<1>3. Answer(QuestionOf(d)) = ResolveWithVersions(version[d], version[p], disk[d], disk[p])
  BY <1>1, <1>2 DEF Answer, QuestionOf, Question, Resolve
<1>4. Answer(QuestionOf(p)) = ResolveWithVersions(version[p], version[d], disk[p], disk[d])
  BY <1>1, <1>2 DEF Answer, QuestionOf, Question, Resolve
<1> QED
  BY <1>2, <1>3, <1>4, ResolveMirrors

----------------------------------------------------------------------------
(* Files *)

\* A user saves a file, or deletes it.
LEMMA ContentsAreFiles == \A file \in Contents \union {<<>>} : file \in Files
<1> SUFFICES ASSUME NEW file \in Contents \union {<<>>}
             PROVE  file \in Files
  OBVIOUS
<1>1. CASE file = <<>>
  BY <1>1 DEF Files
<1>2. CASE file \in Contents
  <2>1. file \in Seq(Blocks)
    BY <1>2, ContentsAssumption
  <2> QED
    BY <2>1 DEF Files
<1> QED
  BY <1>1, <1>2

\* write_chunk_at_offset writes one block and moves no other.
LEMMA WriteAtFile ==
  ASSUME NEW file \in Files, NEW i \in Positions, NEW b \in Blocks \union {Hole}
  PROVE  /\ WriteAt(file, i, b) \in Files
         /\ i \in DOMAIN WriteAt(file, i, b) /\ WriteAt(file, i, b)[i] = b
         /\ \A j \in DOMAIN file :
              /\ j \in DOMAIN WriteAt(file, i, b)
              /\ j # i => WriteAt(file, i, b)[j] = file[j]
         /\ \A j \in DOMAIN WriteAt(file, i, b) :
              j # i => WriteAt(file, i, b)[j] = IF j \in DOMAIN file THEN file[j] ELSE Hole
<1> DEFINE n == IF i > Len(file) THEN i ELSE Len(file)
           w == WriteAt(file, i, b)
<1>1. n \in Nat /\ i \in 1 .. n /\ Len(file) \in Nat /\ DOMAIN file = 1 .. Len(file)
      /\ 1 .. Len(file) \subseteq 1 .. n
  BY DEF Files, Positions
<1>2. w = [j \in 1 .. n |-> IF j = i THEN b ELSE IF j <= Len(file) THEN file[j] ELSE Hole]
  BY DEF WriteAt
<1>3. w \in [1 .. n -> Blocks \union {Hole}]
  BY <1>1, <1>2 DEF Files
<1>4. w \in Files /\ DOMAIN w = 1 .. n
  BY <1>1, <1>3 DEF Files
<1>5. w[i] = b
  BY <1>1, <1>2
<1>6. \A j \in DOMAIN w : j # i => w[j] = IF j \in DOMAIN file THEN file[j] ELSE Hole
  BY <1>1, <1>2
<1> QED
  BY <1>1, <1>4, <1>5, <1>6

\* The receiver of a push keeps its own blocks, or takes the sender's at the
\* same places.
LEMMA PatchedFile ==
  ASSUME TypeOK, NEW p \in Devices, NEW file \in Files
  PROVE  /\ Patched(p, file) \in Files
         /\ \A i \in DOMAIN Patched(p, file) :
              \/ Patched(p, file)[i] = Hole
              \/ i \in DOMAIN file /\ Patched(p, file)[i] = file[i]
              \/ i \in DOMAIN disk[p] /\ Patched(p, file)[i] = disk[p][i]
<1> DEFINE lacks == Digests(file) \ Hashes(manifest[p])
           reached == {i \in DOMAIN file : \E j \in DOMAIN file : i <= j /\ file[j] \in lacks}
           reach == Cardinality(reached)
           n == IF reach > Len(disk[p]) THEN reach ELSE Len(disk[p])
           w == Patched(p, file)
<1>1. disk[p] \in Files
  BY DEF TypeOK
<1>2. /\ Len(file) \in Nat /\ Len(disk[p]) \in Nat
      /\ DOMAIN file = 1 .. Len(file) /\ DOMAIN disk[p] = 1 .. Len(disk[p])
  BY <1>1 DEF Files
<1>3. reach \in Nat
  <2>1. IsFiniteSet(1 .. Len(file)) /\ reached \subseteq 1 .. Len(file)
    BY <1>2, FS_Interval
  <2> HIDE DEF reached
  <2> QED
    BY <2>1, FS_Subset, FS_CardinalityType
<1>4. w = [i \in 1 .. n |-> IF i \in DOMAIN file /\ file[i] \in lacks THEN file[i]
                            ELSE IF i <= Len(disk[p]) THEN disk[p][i] ELSE Hole]
  BY DEF Patched
<1> HIDE DEF lacks, reach
<1>5. n \in Nat
  BY <1>2, <1>3
<1>6. w \in [1 .. n -> Blocks \union {Hole}]
  BY <1>1, <1>2, <1>4, <1>5 DEF Files
<1>7. w \in Files
  BY <1>5, <1>6 DEF Files
<1> QED
  BY <1>2, <1>4, <1>5, <1>7

\* What the receiver of a push records is a vector.
LEMMA ReceivedVector ==
  ASSUME TypeOK, NEW p \in Devices, NEW v \in [Devices -> Nat] \union {NoVersion}
  PROVE  Received(p, v) \in [Devices -> Nat]
<1> DEFINE old == IF version[p] = NoVersion THEN NoEdits ELSE version[p]
<1>1. old \in [Devices -> Nat]
  BY DEF TypeOK, NoEdits
<1> HIDE DEF old
<1>2. Increment(old, p) \in [Devices -> Nat]
  BY <1>1 DEF Increment
<1>3. ASSUME v # NoVersion
      PROVE  Merge(v, old) \in [Devices -> Nat]
  BY <1>1, <1>3 DEF Merge, Larger
<1> QED
  BY <1>2, <1>3 DEF Received, old

----------------------------------------------------------------------------
(* The steps of a sync that write to no file *)

\* Such a step leaves Inv true when it is true of the task that it sets.
LEMMA GotoKeeps ==
  ASSUME Inv, NEW d \in Devices, NEW t \in Tasks,
         task' = [task EXCEPT ![d] = t],
         disk' = disk, version' = version, known' = known, saves' = saves,
         syncs' \in 0 .. MaxSyncs,
         manifest' \in [Devices -> Files \union {NoManifest}],
         \A e \in Devices : manifest[e] # NoManifest => manifest'[e] # NoManifest,
         t.pc = "idle" => t = Idle,
         t.pc # "writing" => t.queue = {},
         t.pc \in {"pulling", "fetching", "writing"} => manifest[Peer[d]] # NoManifest,
         \A c \in t.queue : c.block # Hole => <<c.at, c.block>> \in known,
         t.want # NoManifest => Quiet(t, disk[d], disk[Peer[d]])
  PROVE  Inv'
<1>1. task' \in [Devices -> Tasks] /\ task'[d] = t
      /\ \A e \in Devices \ {d} : task'[e] = task[e]
  BY DEF Inv, TypeOK
<1>2. TypeOK'
  BY <1>1 DEF Inv, TypeOK
<1>3. ManifestStays'
  <2> SUFFICES ASSUME NEW e \in Devices, task'[e].pc \in {"pulling", "fetching", "writing"}
               PROVE  manifest'[Peer[e]] # NoManifest
    BY DEF ManifestStays
  <2>1. Peer[e] \in Devices
    BY PeerAssumption
  <2>2. manifest[Peer[e]] # NoManifest
    BY <1>1 DEF Inv, ManifestStays
  <2> QED
    BY <2>1, <2>2
<1>4. NothingMisplaced'
  BY DEF Inv, NothingMisplaced
<1>5. AnswersKnown'
  BY <1>1 DEF Inv, AnswersKnown
<1>6. QuietInv'
  <2> SUFFICES ASSUME NEW e \in Devices, task'[e].want # NoManifest
               PROVE  Quiet(task'[e], disk'[e], disk'[Peer[e]])
    BY DEF QuietInv
  <2>1. CASE e = d
    BY <2>1, <1>1
  <2>2. CASE e # d
    BY <2>2, <1>1 DEF Inv, QuietInv
  <2> QED
    BY <2>1, <2>2
<1> QED
  BY <1>2, <1>3, <1>4, <1>5, <1>6 DEF Inv

LEMMA IdleType == Idle \in Tasks /\ Idle.pc = "idle" /\ Idle.queue = {} /\ Idle.want = NoManifest
<1>1. <<>> \in Files
  BY DEF Files
<1> QED
  BY <1>1 DEF Idle, Tasks

\* A sync that ends, with or without a manifest to store.
LEMMA EndKeeps ==
  ASSUME Inv, NEW d \in Devices, Goto(d, Idle),
         disk' = disk, version' = version, known' = known, saves' = saves, syncs' = syncs,
         \/ manifest' = manifest
         \/ \E file \in Files : manifest' = [manifest EXCEPT ![d] = file]
  PROVE  Inv'
<1>1. manifest' \in [Devices -> Files \union {NoManifest}]
      /\ \A e \in Devices : manifest[e] # NoManifest => manifest'[e] # NoManifest
  BY NoManifestAssumption DEF Inv, TypeOK
<1>2. syncs' \in 0 .. MaxSyncs
  BY DEF Inv, TypeOK
<1>3. task' = [task EXCEPT ![d] = Idle]
  BY DEF Goto
<1> QED
  BY <1>1, <1>2, <1>3, IdleType, GotoKeeps

LEMMA StartSyncStep ==
  ASSUME Inv, NEW d \in Devices, StartSync(d)
  PROVE  Inv'
<1>1. PICK t : t = [Idle EXCEPT !.pc = "asking", !.mine = disk[d], !.v = version[d]]
  OBVIOUS
<1>2. t \in Tasks /\ t.pc = "asking" /\ t.queue = {} /\ t.want = NoManifest
  BY <1>1 DEF Inv, TypeOK, Tasks, Idle
<1>3. syncs' \in 0 .. MaxSyncs
  BY BoundsAssumption DEF StartSync, Inv, TypeOK
<1>4. task' = [task EXCEPT ![d] = t]
  BY <1>1 DEF StartSync, Goto
<1>5. manifest' = manifest /\ manifest \in [Devices -> Files \union {NoManifest}]
  BY DEF StartSync, Inv, TypeOK
<1> QED
  BY <1>2, <1>3, <1>4, <1>5, GotoKeeps DEF StartSync

\* BeginPull, of a peer that has a manifest.
LEMMA BeginPullKeeps ==
  ASSUME Inv, NEW d \in Devices, NEW cause \in {"newer", "conflict"}, BeginPull(d, cause),
         manifest[Peer[d]] # NoManifest,
         UNCHANGED <<disk, manifest, version, syncs, saves, known>>
  PROVE  Inv'
<1>1. PICK t : t = [Idle EXCEPT !.pc = "pulling", !.mine = disk[d], !.cause = cause,
                                !.want = disk[Peer[d]]]
  OBVIOUS
<1>2. Peer[d] \in Devices
  BY PeerAssumption
<1>3. /\ t \in Tasks /\ t.pc = "pulling" /\ t.mine = disk[d] /\ t.queue = {}
      /\ t.want = disk[Peer[d]]
  BY <1>1, <1>2 DEF Inv, TypeOK, Tasks, Idle
<1>4. Quiet(t, disk[d], disk[Peer[d]])
  BY <1>3 DEF Quiet
<1>5. task' = [task EXCEPT ![d] = t]
  BY <1>1 DEF BeginPull, Goto
<1>6. manifest \in [Devices -> Files \union {NoManifest}] /\ syncs \in 0 .. MaxSyncs
  BY DEF Inv, TypeOK
<1> QED
  BY <1>3, <1>4, <1>5, <1>6, GotoKeeps

\* A decision to pull, or a conflict, is about a manifest of the peer.
LEMMA DecisionHasManifest ==
  ASSUME NEW d \in Devices, Decision(d) \in {"pull", "conflict"}
  PROVE  manifest[Peer[d]] # NoManifest
BY DEF Decision

LEMMA DecideStep ==
  ASSUME Inv, NEW d \in Devices, Decide(d) \/ DecideConflict(d)
  PROVE  Inv'
<1>1. UNCHANGED <<disk, manifest, version, syncs, saves, known>>
  BY DEF Decide, DecideConflict
<1>2. CASE Goto(d, [Idle EXCEPT !.pc = "pushing"])
  <2>1. PICK t : t = [Idle EXCEPT !.pc = "pushing"]
    OBVIOUS
  <2>2. t \in Tasks /\ t.pc = "pushing" /\ t.queue = {} /\ t.want = NoManifest
    BY <2>1, IdleType DEF Tasks, Idle
  <2>3. task' = [task EXCEPT ![d] = t]
    BY <1>2, <2>1 DEF Goto
  <2>4. manifest \in [Devices -> Files \union {NoManifest}] /\ syncs \in 0 .. MaxSyncs
    BY DEF Inv, TypeOK
  <2> QED
    BY <1>1, <2>2, <2>3, <2>4, GotoKeeps
<1>3. CASE Decision(d) \in {"pull", "conflict"} /\ \E c \in {"newer", "conflict"} : BeginPull(d, c)
  BY <1>1, <1>3, DecisionHasManifest, BeginPullKeeps
<1>4. CASE Goto(d, Idle)
  BY <1>1, <1>4, EndKeeps
<1> QED
  BY <1>2, <1>3, <1>4 DEF Decide, DecideConflict

LEMMA PlanPullStep ==
  ASSUME Inv, NEW d \in Devices, PlanPull(d)
  PROVE  Inv'
<1> DEFINE theirs == manifest[Peer[d]]
<1>1. task[d] \in Tasks /\ task[d].pc = "pulling" /\ task[d].queue = {} /\ task[d].mine \in Files
  BY DEF PlanPull, Inv, TypeOK, Tasks
<1>2. Peer[d] \in Devices
  BY PeerAssumption
<1>3. theirs \in Files /\ theirs # NoManifest
  BY <1>1, <1>2 DEF Inv, TypeOK, ManifestStays
<1>4. UNCHANGED <<disk, version, syncs, saves, known>>
  BY DEF PlanPull
<1>5. CASE Goto(d, Idle) /\ manifest' = [manifest EXCEPT ![d] = task[d].mine]
  BY <1>1, <1>4, <1>5, EndKeeps
<1>6. CASE /\ Goto(d, [task[d] EXCEPT !.pc = "fetching",
                                      !.needed = Missing(task[d].mine, theirs),
                                      !.want = IF theirs = @ THEN @ ELSE NoManifest])
           /\ UNCHANGED manifest
  <2>1. PICK t : t = [task[d] EXCEPT !.pc = "fetching",
                                     !.needed = Missing(task[d].mine, theirs),
                                     !.want = IF theirs = @ THEN @ ELSE NoManifest]
    OBVIOUS
  <2>2. Missing(task[d].mine, theirs) \subseteq Blocks \union {Hole}
    BY <1>3 DEF Missing, Digests, Files
  <2>3. /\ t \in Tasks /\ t.pc = "fetching" /\ t.mine = task[d].mine /\ t.queue = {}
        /\ t.needed = Missing(task[d].mine, theirs)
        /\ t.want # NoManifest => t.want = task[d].want /\ t.want = theirs
    BY <1>1, <1>3, <2>1, <2>2 DEF Tasks
  <2>4. ASSUME t.want # NoManifest
        PROVE  Quiet(t, disk[d], disk[Peer[d]])
    <3>1. Quiet(task[d], disk[d], disk[Peer[d]])
      BY <2>3, <2>4 DEF Inv, QuietInv
    <3> QED
      BY <1>1, <2>3, <2>4, <3>1 DEF Quiet, Missing
  <2>5. task' = [task EXCEPT ![d] = t]
    BY <1>6, <2>1 DEF Goto
  <2>6. manifest \in [Devices -> Files \union {NoManifest}] /\ syncs \in 0 .. MaxSyncs
    BY DEF Inv, TypeOK
  <2> QED
    BY <1>3, <1>4, <1>6, <2>3, <2>4, <2>5, <2>6, GotoKeeps
<1> QED
  BY <1>5, <1>6 DEF PlanPull

\* Every chunk of an answer is of the file as it is, at its place in it.
LEMMA ChunkResponseChunks ==
  ASSUME Inv, NEW p \in Devices, NEW needed, manifest[p] # NoManifest
  PROVE  \A c \in ChunkResponse(p, needed) :
           /\ c \in Chunks
           /\ c.at \in DOMAIN manifest[p]
           /\ manifest[p][c.at] \in needed
           /\ c.block # Hole => c.at \in DOMAIN disk[p]
           /\ c.at \in DOMAIN disk[p] => c.block = disk[p][c.at]
<1> SUFFICES ASSUME NEW c \in ChunkResponse(p, needed)
             PROVE  /\ c \in Chunks
                    /\ c.at \in DOMAIN manifest[p]
                    /\ manifest[p][c.at] \in needed
                    /\ c.block # Hole => c.at \in DOMAIN disk[p]
                    /\ c.at \in DOMAIN disk[p] => c.block = disk[p][c.at]
  OBVIOUS
<1>1. PICK i \in DOMAIN manifest[p] :
        /\ manifest[p][i] \in needed
        /\ c = IF i <= Len(disk[p])
               THEN [at |-> i, block |-> disk[p][i], size |-> "full"]
               ELSE [at |-> i, block |-> Hole, size |-> "short"]
  BY DEF ChunkResponse
<1>2. manifest[p] \in Files /\ disk[p] \in Files
  BY DEF Inv, TypeOK
<1>3. i \in Nat \ {0} /\ DOMAIN disk[p] = 1 .. Len(disk[p]) /\ Len(disk[p]) \in Nat
  BY <1>1, <1>2 DEF Files
<1>4. CASE i <= Len(disk[p])
  <2>1. i \in DOMAIN disk[p] /\ disk[p][i] \in Blocks \union {Hole}
    BY <1>2, <1>3, <1>4 DEF Files
  <2> QED
    BY <1>1, <1>3, <1>4, <2>1 DEF Chunks
<1>5. CASE ~ (i <= Len(disk[p]))
  BY <1>1, <1>3, <1>5 DEF Chunks
<1> QED
  BY <1>4, <1>5

LEMMA FetchChunksStep ==
  ASSUME Inv, NEW d \in Devices, FetchChunks(d)
  PROVE  Inv'
<1> DEFINE p == Peer[d]
<1>1. task[d] \in Tasks /\ task[d].pc = "fetching" /\ task[d].mine \in Files
  BY DEF FetchChunks, Inv, TypeOK, Tasks
<1>2. p \in Devices
  BY PeerAssumption
<1>3. manifest[p] # NoManifest
  BY <1>1 DEF Inv, ManifestStays
<1>4. PICK answer : answer = ChunkResponse(p, task[d].needed)
  OBVIOUS
<1>5. \A c \in answer :
         /\ c \in Chunks
         /\ c.block # Hole => c.at \in DOMAIN disk[p]
         /\ c.at \in DOMAIN disk[p] => c.block = disk[p][c.at]
  BY <1>2, <1>3, <1>4, ChunkResponseChunks
<1>6. PICK t : t = [task[d] EXCEPT !.pc = "writing", !.queue = answer,
                                   !.want = IF manifest[p] = @ THEN @ ELSE NoManifest]
  OBVIOUS
<1>7. /\ t \in Tasks /\ t.pc = "writing" /\ t.mine = task[d].mine /\ t.queue = answer
      /\ t.want # NoManifest => t.want = task[d].want /\ t.want = manifest[p]
  <2>1. answer \subseteq Chunks
    BY <1>5
  <2> QED
    BY <1>1, <1>6, <2>1 DEF Tasks
<1>8. \A c \in t.queue : c.block # Hole => <<c.at, c.block>> \in known
  BY <1>2, <1>5, <1>7 DEF Inv, NothingMisplaced
<1>9. ASSUME t.want # NoManifest
      PROVE  Quiet(t, disk[d], disk[p])
  <2>1. Quiet(task[d], disk[d], disk[p])
    BY <1>7, <1>9 DEF Inv, QuietInv
  <2>2. /\ disk[p] = t.want /\ manifest[p] = t.want /\ disk[d] = t.mine
        /\ task[d].needed = Digests(t.want) \ Digests(t.mine)
    BY <1>1, <1>7, <1>9, <2>1 DEF Quiet
  <2>3. \A c \in t.queue : c.at \in DOMAIN t.want /\ c.block = t.want[c.at]
    BY <1>2, <1>3, <1>4, <1>7, <2>2, ChunkResponseChunks
  <2>4. ASSUME NEW i \in DOMAIN t.want
        PROVE  t.want[i] \in Digests(t.mine) \/ Coming(t, i)
    <3> SUFFICES ASSUME t.want[i] \notin Digests(t.mine)
                 PROVE  Coming(t, i)
      OBVIOUS
    <3>1. t.want \in Files
      BY <1>2, <2>2 DEF Inv, TypeOK
    <3>2. i <= Len(disk[p])
      BY <2>2, <3>1 DEF Files
    <3>3. manifest[p][i] \in task[d].needed
      BY <2>2 DEF Digests
    <3>4. [at |-> i, block |-> disk[p][i], size |-> "full"] \in answer
      BY <1>4, <2>2, <3>2, <3>3 DEF ChunkResponse
    <3> QED
      BY <1>7, <2>2, <3>4 DEF Coming
  <2>5. Progress(t, disk[d])
    BY <2>2, <2>3, <2>4 DEF Progress
  <2> QED
    BY <1>7, <2>2, <2>5 DEF Quiet
<1>10. task' = [task EXCEPT ![d] = t] /\ UNCHANGED <<disk, manifest, version, syncs, saves, known>>
  BY <1>4, <1>6 DEF FetchChunks, Goto
<1>11. manifest \in [Devices -> Files \union {NoManifest}] /\ syncs \in 0 .. MaxSyncs
  BY DEF Inv, TypeOK
<1> QED
  BY <1>3, <1>7, <1>8, <1>9, <1>10, <1>11, GotoKeeps

\* A sync that ends, fails, or loses its push.
LEMMA EndStep ==
  ASSUME Inv, NEW d \in Devices, FinishPull(d) \/ SyncFails(d) \/ PushLost(d)
  PROVE  Inv'
<1>1. disk[d] \in Files /\ task[d].mine \in Files
  BY DEF Inv, TypeOK, Tasks
<1>2. \/ manifest' = manifest
      \/ \E file \in Files : manifest' = [manifest EXCEPT ![d] = file]
  BY <1>1 DEF FinishPull, SyncFails, PushLost
<1> QED
  BY <1>2, EndKeeps DEF FinishPull, SyncFails, PushLost

----------------------------------------------------------------------------
(* The steps that write to a file *)

\* A disturbed task is the same but for its history.
LEMMA DisturbedTasks ==
  ASSUME TypeOK
  PROVE  /\ Disturbed(task) \in [Devices -> Tasks]
         /\ \A e \in Devices :
              /\ Disturbed(task)[e].pc = task[e].pc
              /\ Disturbed(task)[e].queue = task[e].queue
              /\ Disturbed(task)[e].want = NoManifest
              /\ task[e] = Idle => Disturbed(task)[e] = Idle
<1>1. \A e \in Devices : Disturbed(task)[e] = [task[e] EXCEPT !.want = NoManifest]
  BY DEF Disturbed
<1>2. ASSUME NEW e \in Devices
      PROVE  /\ [task[e] EXCEPT !.want = NoManifest] \in Tasks
             /\ [task[e] EXCEPT !.want = NoManifest].pc = task[e].pc
             /\ [task[e] EXCEPT !.want = NoManifest].queue = task[e].queue
             /\ [task[e] EXCEPT !.want = NoManifest].want = NoManifest
             /\ task[e] = Idle => [task[e] EXCEPT !.want = NoManifest] = Idle
  <2>1. task[e] \in Tasks
    BY DEF TypeOK
  <2>2. ASSUME NEW t \in Tasks, t.want = NoManifest
        PROVE  [t EXCEPT !.want = NoManifest] = t
    BY <2>2 DEF Tasks
  <2> QED
    BY <2>1, <2>2, IdleType DEF Tasks
<1>3. Disturbed(task) \in [Devices -> Tasks]
  BY <1>1, <1>2 DEF Disturbed
<1> QED
  BY <1>1, <1>2, <1>3

\* A step that writes file to the disk of p, and disturbs every task but that
\* of d, leaves Inv true when it is true of the file and of the task of d.
LEMMA WriteKeeps ==
  ASSUME Inv, NEW p \in Devices, NEW file \in Files, NEW d \in Devices, NEW t \in Tasks,
         disk' = [disk EXCEPT ![p] = file],
         task' = [Disturbed(task) EXCEPT ![d] = t],
         version' \in [Devices -> [Devices -> Nat] \union {NoVersion}],
         manifest' \in [Devices -> Files \union {NoManifest}],
         \A e \in Devices : manifest[e] # NoManifest => manifest'[e] # NoManifest,
         syncs' = syncs, saves' \in 0 .. MaxSaves,
         known \subseteq known',
         \A i \in DOMAIN file : file[i] # Hole => <<i, file[i]>> \in known',
         t.pc = "idle" => t = Idle,
         t.pc # "writing" => t.queue = {},
         t.pc \in {"pulling", "fetching", "writing"} => manifest[Peer[d]] # NoManifest,
         t.queue \subseteq task[d].queue,
         t.want # NoManifest => Quiet(t, disk'[d], disk'[Peer[d]])
  PROVE  Inv'
<1>1. /\ task' \in [Devices -> Tasks] /\ task'[d] = t
      /\ \A e \in Devices \ {d} :
           /\ task'[e].pc = task[e].pc /\ task'[e].queue = task[e].queue
           /\ task'[e].want = NoManifest
           /\ task[e] = Idle => task'[e] = Idle
  BY DisturbedTasks DEF Inv
<1>2. disk' \in [Devices -> Files]
  BY DEF Inv, TypeOK
<1>3. TypeOK'
  BY <1>1, <1>2 DEF Inv, TypeOK
<1>4. ManifestStays'
  <2> SUFFICES ASSUME NEW e \in Devices, task'[e].pc \in {"pulling", "fetching", "writing"}
               PROVE  manifest'[Peer[e]] # NoManifest
    BY DEF ManifestStays
  <2>1. Peer[e] \in Devices
    BY PeerAssumption
  <2>2. manifest[Peer[e]] # NoManifest
    BY <1>1 DEF Inv, ManifestStays
  <2> QED
    BY <2>1, <2>2
<1>5. NothingMisplaced'
  <2> SUFFICES ASSUME NEW e \in Devices, NEW i \in DOMAIN disk'[e], disk'[e][i] # Hole
               PROVE  <<i, disk'[e][i]>> \in known'
    BY DEF NothingMisplaced
  <2>1. CASE e = p
    <3>1. disk'[e] = file
      BY <2>1 DEF Inv, TypeOK
    <3> QED
      BY <3>1
  <2>2. CASE e # p
    <3>1. disk'[e] = disk[e]
      BY <2>2 DEF Inv, TypeOK
    <3>2. <<i, disk[e][i]>> \in known
      BY <3>1 DEF Inv, NothingMisplaced
    <3> QED
      BY <3>1, <3>2
  <2> QED
    BY <2>1, <2>2
<1>6. AnswersKnown'
  <2> SUFFICES ASSUME NEW e \in Devices, NEW c \in task'[e].queue, c.block # Hole
               PROVE  <<c.at, c.block>> \in known'
    BY DEF AnswersKnown
  <2>1. c \in task[e].queue
    BY <1>1
  <2> QED
    BY <2>1 DEF Inv, AnswersKnown
<1>7. QuietInv'
  <2> SUFFICES ASSUME NEW e \in Devices, task'[e].want # NoManifest
               PROVE  Quiet(task'[e], disk'[e], disk'[Peer[e]])
    BY DEF QuietInv
  <2>1. e = d
    BY <1>1
  <2> QED
    BY <1>1, <2>1
<1> QED
  BY <1>3, <1>4, <1>5, <1>6, <1>7 DEF Inv

LEMMA UserSavesStep ==
  ASSUME Inv, NEW d \in Devices, NEW file \in Contents \union {<<>>}, UserSaves(d, file)
  PROVE  Inv'
<1>1. file \in Files
  BY ContentsAreFiles
<1>2. PICK t : t = Disturbed(task)[d]
  OBVIOUS
<1>3. /\ Disturbed(task) \in [Devices -> Tasks] /\ t \in Tasks
      /\ t.pc = task[d].pc /\ t.queue = task[d].queue /\ t.want = NoManifest
      /\ task[d] = Idle => t = Idle
  BY <1>2, DisturbedTasks DEF Inv
<1>4. task' = [Disturbed(task) EXCEPT ![d] = t]
  BY <1>2, <1>3 DEF UserSaves
<1>5. saves' \in 0 .. MaxSaves
  BY BoundsAssumption DEF UserSaves, Inv, TypeOK
<1>6. /\ disk' = [disk EXCEPT ![d] = file] /\ manifest' = manifest /\ version' = version
      /\ syncs' = syncs /\ known \subseteq known'
  BY DEF UserSaves
<1>7. \A i \in DOMAIN file : <<i, file[i]>> \in known'
  BY DEF UserSaves, Places
<1>8. /\ t.pc = "idle" => t = Idle
      /\ t.pc # "writing" => t.queue = {}
      /\ t.pc \in {"pulling", "fetching", "writing"} => manifest[Peer[d]] # NoManifest
  BY <1>3 DEF Inv, TypeOK, ManifestStays
<1>9. /\ version' \in [Devices -> [Devices -> Nat] \union {NoVersion}]
      /\ manifest' \in [Devices -> Files \union {NoManifest}]
  BY <1>6 DEF Inv, TypeOK
<1> QED
  BY <1>1, <1>3, <1>4, <1>5, <1>6, <1>7, <1>8, <1>9, WriteKeeps

LEMMA PushLandsStep ==
  ASSUME Inv, NEW d \in Devices, PushLands(d)
  PROVE  Inv'
<1>1. PICK p : p = Peer[d]
  OBVIOUS
<1>2. p \in Devices
  BY <1>1, PeerAssumption
<1>3. disk[d] \in Files
  BY DEF Inv, TypeOK
<1>4. PICK file : file = Patched(p, disk[d])
  OBVIOUS
<1>5. file \in Files /\ \A i \in DOMAIN file :
        \/ file[i] = Hole
        \/ i \in DOMAIN disk[d] /\ file[i] = disk[d][i]
        \/ i \in DOMAIN disk[p] /\ file[i] = disk[p][i]
  BY <1>2, <1>3, <1>4, PatchedFile DEF Inv
<1>6. \A i \in DOMAIN file : file[i] # Hole => <<i, file[i]>> \in known
  BY <1>2, <1>5 DEF Inv, NothingMisplaced
<1>7. version' \in [Devices -> [Devices -> Nat] \union {NoVersion}]
  <2>1. version[d] \in [Devices -> Nat] \union {NoVersion}
    BY DEF Inv, TypeOK
  <2>2. Received(p, version[d]) \in [Devices -> Nat]
    BY <1>2, <2>1, ReceivedVector DEF Inv
  <2> QED
    BY <1>1, <1>2, <2>2 DEF PushLands, Inv, TypeOK
<1>8. /\ manifest' \in [Devices -> Files \union {NoManifest}]
      /\ \A e \in Devices : manifest[e] # NoManifest => manifest'[e] # NoManifest
  BY <1>3, NoManifestAssumption DEF PushLands, Inv, TypeOK
<1>9. /\ disk' = [disk EXCEPT ![p] = file] /\ task' = [Disturbed(task) EXCEPT ![d] = Idle]
      /\ syncs' = syncs /\ saves' = saves /\ known' = known
  BY <1>1, <1>4 DEF PushLands
<1>10. saves \in 0 .. MaxSaves
  BY DEF Inv, TypeOK
<1> QED
  BY <1>2, <1>5, <1>6, <1>7, <1>8, <1>9, <1>10, IdleType, WriteKeeps

\* Writing one chunk of the answer brings an undisturbed pull forward.
LEMMA WriteProgress ==
  ASSUME NEW t \in Tasks, NEW c \in t.queue, NEW file \in Files,
         NEW u \in Tasks, u.queue = t.queue \ {c}, u.mine = t.mine, u.want = t.want,
         Progress(t, file)
  PROVE  Progress(u, WriteAt(file, c.at, c.block))
<1> DEFINE w == WriteAt(file, c.at, c.block)
<1>1. c.at \in Positions /\ c.block \in Blocks \union {Hole}
  BY DEF Tasks, Chunks, Positions
<1>2. /\ c.at \in DOMAIN w /\ w[c.at] = c.block
      /\ \A j \in DOMAIN file : j \in DOMAIN w /\ (j # c.at => w[j] = file[j])
  BY <1>1, WriteAtFile
<1>3. c.at \in DOMAIN t.want /\ c.block = t.want[c.at]
  BY DEF Progress
<1> HIDE DEF w
<1>4. \A e \in u.queue : e.at \in DOMAIN u.want /\ e.block = u.want[e.at]
  BY DEF Progress
<1>5. \A i \in DOMAIN u.mine :
        i \in DOMAIN w /\ (w[i] = u.mine[i] \/ (i \in DOMAIN u.want /\ w[i] = u.want[i]))
  BY <1>2, <1>3 DEF Progress
<1>6. ASSUME NEW i \in DOMAIN u.want, u.want[i] \notin Digests(u.mine), ~ Coming(u, i)
      PROVE  i \in DOMAIN w /\ w[i] = u.want[i]
  <2>1. CASE i = c.at
    BY <1>2, <1>3, <2>1
  <2>2. CASE i # c.at
    <3>1. ~ Coming(t, i)
      <4>1. [at |-> i, block |-> t.want[i], size |-> "full"] # c
        BY <2>2
      <4> QED
        BY <1>6, <4>1 DEF Coming
    <3>2. i \in DOMAIN file /\ file[i] = u.want[i]
      BY <1>6, <3>1 DEF Progress
    <3> QED
      BY <1>2, <2>2, <3>2
  <2> QED
    BY <2>1, <2>2
<1> QED
  BY <1>4, <1>5, <1>6 DEF Progress, w

LEMMA WriteChunkStep ==
  ASSUME Inv, NEW d \in Devices, WriteChunk(d)
  PROVE  Inv'
<1>1. PICK c \in task[d].queue :
        /\ disk' = [disk EXCEPT ![d] = WriteAt(@, c.at, c.block)]
        /\ task' = [Disturbed(task) EXCEPT
                      ![d] = [task[d] EXCEPT !.queue = @ \ {c}, !.written = @ + 1]]
  BY DEF WriteChunk
<1>2. UNCHANGED <<manifest, version, syncs, saves, known>> /\ task[d].pc = "writing"
  BY DEF WriteChunk
<1>3. PICK s : s = task[d]
  OBVIOUS
<1>4. s \in Tasks /\ disk[d] \in Files /\ Peer[d] \in Devices /\ Peer[d] # d
  BY <1>3, PeerAssumption DEF Inv, TypeOK
<1>5. c \in s.queue /\ c.at \in Positions /\ c.block \in Blocks \union {Hole}
      /\ (c.block # Hole => <<c.at, c.block>> \in known)
  BY <1>3, <1>4 DEF Tasks, Chunks, Positions, Inv, AnswersKnown
<1>6. PICK file : file = WriteAt(disk[d], c.at, c.block)
  OBVIOUS
<1>7. file \in Files /\ c.at \in DOMAIN file /\ file[c.at] = c.block
      /\ \A j \in DOMAIN file :
           j # c.at => file[j] = IF j \in DOMAIN disk[d] THEN disk[d][j] ELSE Hole
  BY <1>4, <1>5, <1>6, WriteAtFile
<1>8. \A i \in DOMAIN file : file[i] # Hole => <<i, file[i]>> \in known
  <2> SUFFICES ASSUME NEW i \in DOMAIN file, file[i] # Hole
               PROVE  <<i, file[i]>> \in known
    OBVIOUS
  <2>1. CASE i = c.at
    BY <2>1, <1>5, <1>7
  <2>2. CASE i # c.at
    <3>1. i \in DOMAIN disk[d] /\ file[i] = disk[d][i]
      BY <2>2, <1>7
    <3> QED
      BY <3>1 DEF Inv, NothingMisplaced
  <2> QED
    BY <2>1, <2>2
<1>9. PICK t : t = [s EXCEPT !.queue = @ \ {c}, !.written = @ + 1]
  OBVIOUS
<1>10. /\ t \in Tasks /\ t.pc = "writing" /\ t.queue = s.queue \ {c}
       /\ t.mine = s.mine /\ t.want = s.want
  <2>1. PICK left, n : left = s.queue \ {c} /\ n = s.written + 1
    OBVIOUS
  <2>2. left \in SUBSET Chunks /\ n \in Nat
    BY <1>4, <2>1 DEF Tasks
  <2>3. t = [s EXCEPT !.queue = left, !.written = n] /\ s.pc = "writing"
    BY <1>2, <1>3, <1>9, <2>1
  <2> QED
    BY <1>4, <2>1, <2>2, <2>3 DEF Tasks
<1>11. disk' = [disk EXCEPT ![d] = file] /\ task' = [Disturbed(task) EXCEPT ![d] = t]
  BY <1>1, <1>3, <1>6, <1>9
<1>12. ASSUME t.want # NoManifest
       PROVE  Quiet(t, disk'[d], disk'[Peer[d]])
  <2>1. disk'[d] = file /\ disk'[Peer[d]] = disk[Peer[d]]
    BY <1>4, <1>11 DEF Inv, TypeOK
  <2>2. Quiet(s, disk[d], disk[Peer[d]])
    BY <1>3, <1>10, <1>12 DEF Inv, QuietInv
  <2>3. disk[Peer[d]] = t.want /\ Progress(s, disk[d])
    BY <1>2, <1>3, <1>10, <2>2 DEF Quiet
  <2>4. Progress(t, file)
    BY <1>4, <1>5, <1>6, <1>10, <2>3, WriteProgress
  <2> QED
    BY <1>10, <2>1, <2>3, <2>4 DEF Quiet
<1>13. manifest[Peer[d]] # NoManifest
  BY <1>2 DEF Inv, ManifestStays
<1>14. /\ version \in [Devices -> [Devices -> Nat] \union {NoVersion}]
       /\ manifest \in [Devices -> Files \union {NoManifest}] /\ saves \in 0 .. MaxSaves
  BY DEF Inv, TypeOK
<1>15. t.queue \subseteq task[d].queue
  BY <1>3, <1>10
<1> QED
  BY <1>2, <1>7, <1>8, <1>10, <1>11, <1>12, <1>13, <1>14, <1>15, WriteKeeps

----------------------------------------------------------------------------
(* The theorems *)

LEMMA InitInv == Init => Inv
<1> SUFFICES ASSUME Init
             PROVE  Inv
  OBVIOUS
<1>1. \A file \in Contents \union {<<>>} : file \in Files
  BY ContentsAreFiles
<1>2. PICK s \in Starts : disk = s.file /\ manifest = s.stored /\ version = s.version
  BY DEF Init
<1>3. /\ disk \in [Devices -> Files]
      /\ manifest \in [Devices -> Files \union {NoManifest}]
      /\ version \in [Devices -> [Devices -> Nat] \union {NoVersion}]
  <2>1. /\ disk \in [Devices -> Contents \union {<<>>}]
        /\ manifest \in [Devices -> Contents \union {NoManifest}]
        /\ version \in [Devices -> [Devices -> Nat] \union {NoVersion}]
    BY <1>2, StartsAssumption
  <2> QED
    BY <1>1, <2>1
<1>4. task \in [Devices -> Tasks] /\ \A d \in Devices : task[d] = Idle
  BY IdleType DEF Init
<1>5. TypeOK
  BY <1>3, <1>4, IdleType, BoundsAssumption DEF Init, TypeOK
<1>6. NothingMisplaced
  BY DEF Init, NothingMisplaced, Places
<1> QED
  BY <1>4, <1>5, <1>6, IdleType DEF Inv, ManifestStays, AnswersKnown, QuietInv

LEMMA NextInv == Inv /\ [Next]_vars => Inv'
<1> SUFFICES ASSUME Inv, [Next]_vars
             PROVE  Inv'
  OBVIOUS
<1>1. CASE UNCHANGED vars
  BY <1>1 DEF vars, Inv, TypeOK, ManifestStays, NothingMisplaced, AnswersKnown, QuietInv
<1>2. CASE Next
  BY <1>2, StartSyncStep, DecideStep, PlanPullStep, FetchChunksStep, WriteChunkStep, EndStep,
     PushLandsStep, UserSavesStep DEF Next
<1> QED
  BY <1>1, <1>2

\* A pull that has written the last chunk of an answer that nothing disturbed
\* has made the file the peer's, as far as the peer's goes.
LEMMA InvImpliesExact == Inv => QuietPullExact
<1> SUFFICES ASSUME Inv, NEW d \in Devices, Pulled(d), task[d].want # NoManifest,
                    InPlace(task[d].want, task[d].mine), NEW i \in DOMAIN task[d].want
             PROVE  i \in DOMAIN disk[d] /\ disk[d][i] = task[d].want[i]
  BY DEF QuietPullExact
<1>1. Progress(task[d], disk[d]) /\ task[d].queue = {}
  BY DEF Inv, QuietInv, Quiet, Pulled
<1>2. task[d].mine \in Files /\ task[d].want \in Files
  BY DEF Inv, TypeOK, Tasks
<1>3. CASE task[d].want[i] \in Digests(task[d].mine)
  <2>1. i <= Len(task[d].mine) /\ task[d].mine[i] = task[d].want[i]
    BY <1>3 DEF InPlace
  <2>2. i \in DOMAIN task[d].mine
    BY <1>2, <2>1 DEF Files
  <2> QED
    BY <1>1, <2>1, <2>2 DEF Progress
<1>4. CASE task[d].want[i] \notin Digests(task[d].mine)
  BY <1>1, <1>4 DEF Progress, Coming
<1> QED
  BY <1>3, <1>4

\* In every behaviour of the sync and pull of sync_file.py the inductive
\* invariant holds.
THEOREM SyncInvariant == Spec => []Inv
BY InitInv, NextInv, PTL DEF Spec

\* Whatever manifests are stale, whichever syncs cross, fail half way or lose
\* their push, the state has its type and no block of a file is at an offset
\* where no user has put it.
THEOREM SyncInvHolds == Spec => []SyncInv
<1>1. Inv => SyncInv
  BY DEF Inv, SyncInv
<1> QED
  BY <1>1, SyncInvariant, PTL

\* A pull that nothing disturbs, of a file whose stored manifest is up to date
\* and none of whose blocks have moved, makes the local file the peer's as far
\* as the peer's goes.
THEOREM SyncQuietPull == Spec => []QuietPullExact
BY InvImpliesExact, SyncInvariant, PTL

\* Two devices with versions and manifests that are up to date never both push
\* and never both pull (resolve, sync_direction.py).
THEOREM SyncDecisions == Spec => []DecisionsMirror
<1>1. Inv => DecisionsMirror
  BY MirrorFromTypes DEF Inv
<1> QED
  BY <1>1, SyncInvariant, PTL
=============================================================================
