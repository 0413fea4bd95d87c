------------------------ MODULE DeviceStorageProofs ------------------------
(***************************************************************************)
(* Proofs about DeviceStorage, for any number of starts, handshakes, paths *)
(* and faults: what a device has shown, pinned or saved is there after     *)
(* every kill and, where the code promises it, after a power failure.      *)
(*                                                                         *)
(* The three kinds of files have no state in common, so each has an        *)
(* inductive invariant of its own, which its steps and the two faults      *)
(* keep; DeviceInv is their conjunction.                                   *)
(***************************************************************************)
EXTENDS DeviceStorage, SequenceTheorems, TLAPS

----------------------------------------------------------------------------
(* The identity *)

KeyFiles == Nat \union {Absent, Empty}

Persisting == {"open_private", "write_private", "open_public", "write_public"}

IdentityTypes ==
  /\ pc \in {"down", "up"} \union Persisting
  /\ privateFile \in KeyFiles /\ publicFile \in KeyFiles
  /\ keypair \in [private : KeyFiles, public : KeyFiles]
  /\ generated \in Nat

\* A key that peers know is in both files' possession: identity.public holds
\* it and identity.private exists, so no start generates another pair, and
\* while one is being written nobody has been shown anything.
IdentityInv ==
  /\ IdentityTypes
  /\ used # {} => Persisted
  /\ \A k \in used : publicFile = k
  /\ pc \in Persisting =>
       used = {} /\ keypair.private \in Nat /\ keypair.public \in Nat
  /\ pc \in {"open_public", "write_public"} => privateFile = keypair.private
  /\ pc = "up" => keypair.private = privateFile /\ keypair.public = publicFile

\* The program starts without key files.
LEMMA IdentityInitial == IdentityInit => IdentityInv
  BY NotKeysAssumption
  DEF IdentityInit, IdentityInv, IdentityTypes, KeyFiles, NoPair, Persisting

\* Every step of load_or_create, and every use of its result, keeps the
\* invariant.
LEMMA IdentitySteps == IdentityInv /\ IdentityStep => IdentityInv'
<1> SUFFICES ASSUME IdentityInv, IdentityStep PROVE IdentityInv'
  OBVIOUS
<1> USE NotKeysAssumption DEF IdentityInv, IdentityTypes, KeyFiles, Persisting, Persisted
<1>1. CASE Generate
  <2>1. used = {}
    BY <1>1 DEF Generate
  <2>2. generated + 1 \in Nat
    OBVIOUS
  <2>3. /\ keypair' \in [private : KeyFiles, public : KeyFiles]
        /\ keypair'.private \in Nat /\ keypair'.public \in Nat
    BY <1>1, <2>2 DEF Generate
  <2> QED
    BY <1>1, <2>1, <2>2, <2>3 DEF Generate, identityFiles
<1>2. CASE Load
  BY <1>2 DEF Load, identityFiles
<1>3. CASE OpenPrivate
  BY <1>3 DEF OpenPrivate
<1>4. CASE WritePrivate
  BY <1>4 DEF WritePrivate
<1>5. CASE OpenPublic
  BY <1>5 DEF OpenPublic
<1>6. CASE WritePublic
  BY <1>6 DEF WritePublic
<1>7. CASE UseIdentity
  <2>1. keypair.private # Absent /\ keypair.public # Absent
    BY <1>7 DEF UseIdentity, Pairs
  <2> QED
    BY <1>7, <2>1 DEF UseIdentity, identityFiles
<1>8. CASE Settle
  BY <1>8 DEF Settle
<1> QED
  BY <1>1, <1>2, <1>3, <1>4, <1>5, <1>6, <1>7, <1>8 DEF IdentityStep

\* So do the two faults, and whatever leaves the identity alone.
LEMMA IdentityFaults ==
  IdentityInv /\ (IdentityKilled \/ IdentityPowerLoss \/ UNCHANGED identityVars)
    => IdentityInv'
<1> SUFFICES ASSUME IdentityInv,
                    IdentityKilled \/ IdentityPowerLoss \/ UNCHANGED identityVars
             PROVE  IdentityInv'
  OBVIOUS
<1> USE NotKeysAssumption DEF IdentityInv, IdentityTypes, KeyFiles, Persisting, Persisted
<1>1. CASE IdentityKilled
  BY <1>1 DEF IdentityKilled, identityFiles, NoPair
<1>2. CASE IdentityPowerLoss
  <2>1. CASE settled
    BY <1>2, <2>1 DEF IdentityPowerLoss, NoPair
  <2>2. CASE ~settled
    BY <1>2, <2>2 DEF IdentityPowerLoss, NoPair
  <2> QED
    BY <2>1, <2>2
<1>3. CASE UNCHANGED identityVars
  BY <1>3 DEF identityVars, identityFiles
<1> QED
  BY <1>1, <1>2, <1>3

----------------------------------------------------------------------------
(* The trust store *)

WriterStates ==
  {IdleWriter} \union
    [pc : {"write", "synced"}, doc : Documents, ino : Inodes, at : Nat \ {0}]

ResetStates ==
  {IdleReset} \union
    [pc : {"loaded", "write"}, pin : Pins, doc : Documents, ino : Inodes \union {NoFile},
     at : Nat \ {0}]

TrustTypes ==
  /\ content \in [Inodes -> Seq(Documents)] /\ synced \subseteq Inodes
  /\ prior \in [Inodes -> Seq(Documents)]
  /\ inodes \in 0 .. MaxInodes
  /\ temp \in (1 .. inodes) \union {NoFile}
  /\ writer \in [Writers -> WriterStates]
  /\ lock \subseteq Writers
  /\ pinning \in [Writers -> Pins \union {NoFile}]
  /\ reset \in ResetStates

\* An inode that the destination may have: complete, unless a reset is or was
\* rewriting it, and on the disk, unless one has rewritten it.
Settled(i) ==
  \/ i = NoFile
  \/ /\ i \in 1 .. inodes
     /\ i \notin synced => prior[i] # <<>>
     /\ i \in torn \/ WholeFile(i) \/ (reset.pc = "write" /\ reset.ino = i)

\* What the holder of the lock is doing: it writes the pins that are to stay
\* and its own into the temporary file, and has got as far as its position
\* says.
Writing(w) ==
  /\ temp # NoFile /\ writer[w].ino = temp
  /\ pinning[w] \in Pins /\ pinning[w] \in writer[w].doc
  /\ trusted \subseteq writer[w].doc
  /\ forgotten \intersect writer[w].doc \subseteq {pinning[w]}
  /\ writer[w].at <= Size[writer[w].doc] + 1
  /\ content[temp] = [i \in 1 .. (writer[w].at - 1) |-> writer[w].doc]
  /\ writer[w].pc = "synced" => writer[w].at = Size[writer[w].doc] + 1 /\ temp \in synced

\* What a reset is doing: its document has what is to stay and not its pin, as
\* long as it will be, or is, what the destination has.
Resetting ==
  /\ reset.pin \notin reset.doc
  /\ reset.pc = "loaded" => destination # NoFile /\ Readable /\ reset.at = 1
  /\ reset.pc = "write" =>
       /\ reset.ino \in former /\ reset.ino # NoFile /\ reset.ino \notin synced
       /\ reset.at <= Size[reset.doc] + 1
       /\ content[reset.ino] = [i \in 1 .. (reset.at - 1) |-> reset.doc]
  /\ reset.pc = "loaded" \/ reset.ino = destination =>
       trusted \subseteq reset.doc /\ forgotten \intersect reset.doc = {}

\* One writer at a time, and never into a file the destination may have; one
\* reset, into a file the destination had.
TrustStoreInv ==
  /\ TrustTypes
  /\ destination \in former /\ \A i \in former : Settled(i)
  /\ temp \in former => temp = NoFile
  /\ \A v, w \in lock : v = w
  /\ \A w \in Writers : w \notin lock => writer[w] = IdleWriter
  /\ \A w \in lock : writer[w] # IdleWriter /\ Writing(w)
  /\ reset # IdleReset => Resetting
  /\ NoPinLost /\ ResetHolds

\* _load of a whole document gives its pins.
LEMMA StoredIsDocument ==
  ASSUME NEW d \in Documents, destination # NoFile, content[destination] = Whole(d)
  PROVE  Stored = d
<1>1. Size[d] \in Nat \ {0}
  BY SizeAssumption
<1>2. {content[destination][i] : i \in DOMAIN content[destination]} = {d}
  BY <1>1 DEF Whole
<1> QED
  BY <1>2 DEF Stored

\* What can be read is a set of pins.
LEMMA StoredIsPins == Readable => Stored \in SUBSET Pins
<1> SUFFICES ASSUME Readable PROVE Stored \in SUBSET Pins
  OBVIOUS
<1>1. CASE destination = NoFile
  BY <1>1 DEF Stored
<1>2. CASE destination # NoFile
  <2>1. PICK d \in Documents : content[destination] = Whole(d)
    BY <1>2 DEF Readable, WholeFile
  <2> QED
    BY <1>2, <2>1, StoredIsDocument, PinsAssumption
<1> QED
  BY <1>1, <1>2

\* Whoever reads the store finds what was there, as long as the file that has
\* the name and its bytes are the same.
LEMMA StoreKept ==
  ASSUME destination' = destination,
         destination # NoFile => content'[destination] = content[destination]
  PROVE  Stored' = Stored /\ (Readable' <=> Readable)
  BY DEF Stored, Readable, WholeFile

\* So is a file that the destination may have.
LEMMA SettledKept ==
  ASSUME TrustStoreInv, NEW i \in former,
         i # NoFile => /\ content'[i] = content[i] /\ prior'[i] = prior[i]
                       /\ i \in synced' <=> i \in synced,
         inodes' \in {inodes, inodes + 1}, torn \subseteq torn',
         reset' = reset \/ ~(reset.pc = "write" /\ reset.ino = i)
  PROVE  Settled(i)'
<1>1. Settled(i) /\ inodes \in Nat
  BY MaxInodesAssumption DEF TrustStoreInv, TrustTypes
<1> QED
  BY <1>1 DEF Settled, WholeFile

\* The files that the destination may have are inodes.
LEMMA FormerInodes == TrustStoreInv => former \subseteq Inodes \union {NoFile}
  BY MaxInodesAssumption DEF TrustStoreInv, TrustTypes, Settled, Inodes

\* The store is whole because the destination is a settled inode.
LEMMA InvImpliesTrustInv == TrustStoreInv => TrustInv
  BY DEF TrustStoreInv, Settled, TrustInv, StoreWhole, Readable, IdleReset

LEMMA TrustInitial == TrustInit => TrustStoreInv
<1> SUFFICES ASSUME TrustInit PROVE TrustStoreInv
  OBVIOUS
<1>1. TrustTypes
  BY MaxInodesAssumption DEF TrustInit, WriteInit, TrustTypes, WriterStates, ResetStates
<1> QED
  BY <1>1 DEF TrustInit, WriteInit, TrustStoreInv, Settled, NoPinLost, ResetHolds

\* trust() begins: whoever holds the lock is alone with the temporary file,
\* which is new or was left behind, and never the destination.
LEMMA BeginTrustStep ==
  ASSUME TrustStoreInv, NEW w \in Writers, NEW p \in Pins, BeginTrust(w, p)
  PROVE  TrustStoreInv'
<1> DEFINE d == Stored \union {p}
<1>1. TrustTypes /\ lock = {} /\ Opened \in Inodes /\ Readable
  <2>1. TrustTypes /\ lock = {} /\ Readable
    BY DEF TrustStoreInv, BeginTrust, Free
  <2>2. inodes \in 0 .. MaxInodes /\ temp \in (1 .. inodes) \union {NoFile}
    BY <2>1 DEF TrustTypes
  <2>3. Opened <= MaxInodes
    BY DEF BeginTrust, OpenTemp
  <2>4. Opened \in Inodes
    BY <2>2, <2>3, MaxInodesAssumption DEF Opened, Inodes
  <2> QED
    BY <2>1, <2>4
<1>2. d \in Documents
  BY <1>1, StoredIsPins, PinsAssumption
<1>3. Opened # NoFile /\ Opened \notin former /\ Opened \in 1 .. inodes'
  BY <1>1, NoFileAssumption
  DEF TrustStoreInv, TrustTypes, Settled, BeginTrust, OpenTemp, Opened, Inodes
<1>4. /\ content' = [content EXCEPT ![Opened] = <<>>]
      /\ synced' = synced \ {Opened}
      /\ temp' = Opened /\ UNCHANGED <<destination, former, prior>>
      /\ inodes' = IF temp = NoFile THEN inodes + 1 ELSE inodes
      /\ lock' = {w} /\ pinning' = [pinning EXCEPT ![w] = p]
      /\ writer' = [writer EXCEPT ![w] = [pc |-> "write", doc |-> d, ino |-> Opened, at |-> 1]]
      /\ UNCHANGED <<reset, trusted, forgotten, torn>>
  BY <1>1 DEF BeginTrust, OpenTemp, resetVars
<1>5. TrustTypes'
  <2>1. [pc |-> "write", doc |-> d, ino |-> Opened, at |-> 1] \in WriterStates
    BY <1>1, <1>2 DEF WriterStates
  <2>2. inodes' \in 0 .. MaxInodes
    BY <1>1, <1>4 DEF TrustTypes, Opened, Inodes
  <2>3. content' \in [Inodes -> Seq(Documents)] /\ synced' \subseteq Inodes
    BY <1>1, <1>4 DEF TrustTypes
  <2>4. writer' \in [Writers -> WriterStates]
    BY <1>1, <1>4, <2>1 DEF TrustTypes
  <2>5. pinning' \in [Writers -> Pins \union {NoFile}]
    BY <1>1, <1>4 DEF TrustTypes
  <2>6. prior' \in [Inodes -> Seq(Documents)] /\ reset' \in ResetStates
    BY <1>1, <1>4 DEF TrustTypes
  <2> QED
    BY <1>1, <1>3, <1>4, <2>2, <2>3, <2>4, <2>5, <2>6 DEF TrustTypes
<1>6. \A i \in former : i # NoFile =>
        i \in Inodes /\ content'[i] = content[i] /\ (i \in synced' <=> i \in synced)
  BY <1>1, <1>3, <1>4, FormerInodes DEF TrustTypes
<1>7. \A i \in former' : Settled(i)'
  BY <1>4, <1>6, SettledKept
<1>8. Stored' = Stored /\ Readable'
  BY <1>1, <1>4, <1>6, StoreKept DEF TrustStoreInv
<1>9. Writing(w)' /\ writer'[w] # IdleWriter
  <2>1. writer'[w] = [pc |-> "write", doc |-> d, ino |-> Opened, at |-> 1]
    BY <1>1, <1>4 DEF TrustTypes
  <2>2. content'[Opened] = [i \in 1 .. (1 - 1) |-> d]
    BY <1>1, <1>4 DEF TrustTypes
  <2>3. 1 <= Size[d] + 1
    BY <1>2, SizeAssumption
  <2>4. pinning'[w] = p
    BY <1>1, <1>4 DEF TrustTypes
  <2>5. p \in d /\ trusted \subseteq d /\ forgotten \intersect d \subseteq {p}
    BY <1>1 DEF TrustStoreInv, NoPinLost, ResetHolds
  <2> HIDE DEF d
  <2> QED
    BY <1>3, <1>4, <2>1, <2>2, <2>3, <2>4, <2>5 DEF Writing, IdleWriter
<1>10. \A v \in Writers : v # w => writer'[v] = IdleWriter
  BY <1>1, <1>4 DEF TrustStoreInv, TrustTypes
<1>11. reset' # IdleReset => Resetting'
  BY <1>1, <1>4, <1>6, <1>8 DEF TrustStoreInv, Resetting
<1> QED
  BY <1>1, <1>3, <1>4, <1>5, <1>7, <1>8, <1>9, <1>10, <1>11
  DEF TrustStoreInv, NoPinLost, ResetHolds

\* A block written at the end of a file of n - 1 blocks.
LEMMA WrittenAtEnd ==
  ASSUME NEW d, NEW n \in Nat \ {0}, NEW bytes, bytes = [i \in 1 .. (n - 1) |-> d]
  PROVE  Written(bytes, n, d) = [i \in 1 .. n |-> d]
<1>1. Len(bytes) = n - 1
  OBVIOUS
<1> QED
  BY <1>1 DEF Written

\* A block, or the fsync: only the temporary file changes.
LEMMA WriteStep ==
  ASSUME TrustStoreInv, NEW w \in Writers, Write(w)
  PROVE  TrustStoreInv'
<1> DEFINE d == writer[w].doc
           n == writer[w].at
<1>1. /\ TrustTypes /\ w \in lock /\ Writing(w) /\ writer[w].pc = "write"
      /\ UNCHANGED <<lock, pinning, inodes, temp, destination, former, prior>>
      /\ UNCHANGED <<reset, trusted, forgotten, torn>>
  BY DEF TrustStoreInv, Write, WriteBlock, Sync, IdleWriter, resetVars
<1>2. /\ d \in Documents /\ n \in Nat \ {0} /\ Size[d] \in Nat \ {0}
      /\ writer[w].ino = temp /\ temp \in Inodes /\ temp \in 1 .. inodes
  <2>1. writer[w] \in [pc : {"write", "synced"}, doc : Documents, ino : Inodes, at : Nat \ {0}]
    BY <1>1 DEF TrustStoreInv, TrustTypes, WriterStates
  <2>2. temp \in 1 .. inodes /\ temp \in Inodes
    BY <1>1, MaxInodesAssumption DEF TrustTypes, Writing, Inodes
  <2> QED
    BY <1>1, <2>1, <2>2, SizeAssumption DEF Writing
<1>3. temp \notin former /\ destination # temp
  BY <1>1 DEF TrustStoreInv, Writing
<1>4. \A i \in Inodes : i # temp => content'[i] = content[i] /\ (i \in synced' <=> i \in synced)
  BY <1>1, <1>2 DEF Write, WriteBlock, Sync, TrustTypes
<1>5. \A i \in former : i # NoFile =>
        i \in Inodes /\ content'[i] = content[i] /\ (i \in synced' <=> i \in synced)
  BY <1>3, <1>4, FormerInodes
<1>6. \A i \in former' : Settled(i)'
  BY <1>1, <1>5, SettledKept
<1>7. Stored' = Stored /\ (Readable' <=> Readable)
  BY <1>1, <1>5, StoreKept DEF TrustStoreInv
<1>8. TrustTypes' /\ Writing(w)' /\ writer'[w] # IdleWriter
  <2>1. CASE WriteBlock(w)
    <3>1. /\ n <= Size[d] /\ content' = [content EXCEPT ![temp] = Written(@, n, d)]
          /\ writer' = [writer EXCEPT ![w].at = n + 1]
          /\ synced' = synced \ {temp}
      BY <2>1, <1>2 DEF WriteBlock
    <3>2. content[temp] = [i \in 1 .. (n - 1) |-> d]
      BY <1>1 DEF Writing
    <3>4. Written(content[temp], n, d) = [i \in 1 .. n |-> d]
      BY <3>2, <1>2, WrittenAtEnd
    <3>5. content'[temp] = [i \in 1 .. n |-> d]
      BY <3>1, <3>4, <1>1, <1>2 DEF TrustTypes
    <3>6. [i \in 1 .. n |-> d] \in Seq(Documents)
      BY <1>2
    <3>7. /\ writer'[w].pc = "write" /\ writer'[w].doc = d
          /\ writer'[w].ino = temp /\ writer'[w].at = n + 1
          /\ writer'[w] \in WriterStates
      <4>1. writer[w] \in [pc : {"write", "synced"}, doc : Documents, ino : Inodes,
                            at : Nat \ {0}]
        BY <1>1 DEF TrustTypes, WriterStates, IdleWriter
      <4>2. writer'[w] = [writer[w] EXCEPT !.at = n + 1]
        BY <3>1, <1>1 DEF TrustTypes
      <4> QED
        BY <4>1, <4>2, <1>1, <1>2 DEF WriterStates
    <3>8. TrustTypes'
      BY <3>1, <3>4, <3>6, <3>7, <1>1, <1>2 DEF TrustTypes
    <3>9. /\ pinning'[w] \in Pins /\ pinning'[w] \in writer'[w].doc
          /\ trusted' \subseteq writer'[w].doc
          /\ forgotten' \intersect writer'[w].doc \subseteq {pinning'[w]}
      BY <3>7, <1>1 DEF Writing
    <3>10. /\ writer'[w].at <= Size[writer'[w].doc] + 1
           /\ content'[temp'] = [i \in 1 .. (writer'[w].at - 1) |-> writer'[w].doc]
      <4> HIDE DEF d, n
      <4>1. (n + 1) - 1 = n /\ n + 1 <= Size[d] + 1
        BY <3>1, <1>2
      <4> QED
        BY <4>1, <3>5, <3>7, <1>1
    <3> QED
      BY <3>7, <3>8, <3>9, <3>10, <1>1, <1>2 DEF Writing, IdleWriter
  <2>2. CASE Sync(w)
    <3>1. /\ n > Size[d] /\ content' = content
          /\ synced' = synced \union {temp}
          /\ writer' = [writer EXCEPT ![w].pc = "synced"]
      BY <2>2, <1>2 DEF Sync
    <3>2. /\ writer'[w].pc = "synced" /\ writer'[w].doc = d
          /\ writer'[w].ino = temp /\ writer'[w].at = n
          /\ writer'[w] \in WriterStates
      <4>1. writer[w] \in [pc : {"write", "synced"}, doc : Documents, ino : Inodes,
                            at : Nat \ {0}]
        BY <1>1 DEF TrustTypes, WriterStates, IdleWriter
      <4>2. writer'[w] = [writer[w] EXCEPT !.pc = "synced"]
        BY <3>1, <1>1 DEF TrustTypes
      <4> QED
        BY <4>1, <4>2, <1>2 DEF WriterStates
    <3>3. TrustTypes' /\ temp \in synced'
      BY <3>1, <3>2, <1>1, <1>2 DEF TrustTypes
    <3>4. /\ pinning'[w] \in Pins /\ pinning'[w] \in writer'[w].doc
          /\ trusted' \subseteq writer'[w].doc
          /\ forgotten' \intersect writer'[w].doc \subseteq {pinning'[w]}
      BY <3>2, <1>1 DEF Writing
    <3>5. n = Size[d] + 1 /\ content'[temp'] = [i \in 1 .. (n - 1) |-> d]
      BY <3>1, <1>1, <1>2 DEF Writing
    <3> HIDE DEF d, n
    <3>6. /\ writer'[w].at = Size[writer'[w].doc] + 1
          /\ content'[temp'] = [i \in 1 .. (writer'[w].at - 1) |-> writer'[w].doc]
      BY <3>2, <3>5, <1>2
    <3>7. writer'[w].at <= Size[writer'[w].doc] + 1
      BY <3>6, <3>2, <1>2
    <3> QED
      BY <3>2, <3>3, <3>4, <3>6, <3>7, <1>1, <1>2 DEF Writing, IdleWriter
  <2> QED
    BY <2>1, <2>2 DEF Write
<1>9. \A v \in Writers : v # w => writer'[v] = writer[v]
  BY <1>1 DEF Write, WriteBlock, Sync, TrustTypes
<1>10. reset' # IdleReset => Resetting'
  BY <1>1, <1>5, <1>7 DEF TrustStoreInv, Resetting
<1> QED
  BY <1>1, <1>3, <1>6, <1>7, <1>8, <1>9, <1>10 DEF TrustStoreInv, NoPinLost, ResetHolds

\* What the holder of the lock has when it renames or gives up.
LEMMA HolderIsAlone ==
  ASSUME TrustStoreInv, NEW w \in Writers, writer[w].pc \in {"write", "synced"}
  PROVE  lock = {w} /\ Writing(w) /\ \A v \in Writers : v # w => writer[v] = IdleWriter
<1>1. w \in lock
  BY DEF TrustStoreInv, IdleWriter
<1> QED
  BY <1>1 DEF TrustStoreInv

\* The rename: the destination is the synced, complete file, with every pin
\* that is to stay.
LEMMA EndTrustStep ==
  ASSUME TrustStoreInv, NEW w \in Writers, EndTrust(w)
  PROVE  TrustStoreInv'
<1> DEFINE d == writer[w].doc
<1>1. /\ TrustTypes /\ lock = {w} /\ Writing(w) /\ writer[w].pc = "synced"
      /\ \A v \in Writers : v # w => writer[v] = IdleWriter
  BY HolderIsAlone DEF TrustStoreInv, EndTrust, Replace
<1>2. /\ destination' = temp /\ temp' = NoFile /\ former' = former \union {temp}
      /\ writer' = [writer EXCEPT ![w] = IdleWriter]
      /\ lock' = {} /\ forgotten' = forgotten \ {pinning[w]}
      /\ trusted' = IF reset.pc = "loaded" THEN trusted ELSE trusted \union {pinning[w]}
      /\ pinning' = [pinning EXCEPT ![w] = NoFile]
      /\ UNCHANGED <<content, synced, inodes, prior, reset, torn>>
  BY <1>1 DEF EndTrust, Replace, resetVars
<1>3. /\ writer[w] \in [pc : {"write", "synced"}, doc : Documents, ino : Inodes, at : Nat \ {0}]
      /\ d \in Documents /\ Size[d] \in Nat \ {0}
  <2>1. writer[w] \in [pc : {"write", "synced"}, doc : Documents, ino : Inodes, at : Nat \ {0}]
    BY <1>1 DEF TrustStoreInv, TrustTypes, WriterStates
  <2> QED
    BY <2>1, SizeAssumption
<1>4. /\ temp \in 1 .. inodes /\ temp \in synced /\ content[temp] = Whole(d)
      /\ temp # NoFile /\ temp \notin former
      /\ pinning[w] \in d /\ trusted \subseteq d /\ forgotten \intersect d \subseteq {pinning[w]}
  <2>1. writer[w].at - 1 = Size[d]
    BY <1>1, <1>3 DEF Writing
  <2> QED
    BY <2>1, <1>1 DEF Writing, Whole, TrustTypes, TrustStoreInv
<1>5. Stored' = d
  <2>1. {content'[destination'][i] : i \in DOMAIN content'[destination']} = {d}
    BY <1>2, <1>3, <1>4 DEF Whole
  <2>2. Stored' = UNION {content'[destination'][i] : i \in DOMAIN content'[destination']}
    BY <1>2, <1>4 DEF Stored
  <2> HIDE DEF d
  <2> QED
    BY <2>1, <2>2
<1>6. TrustTypes'
  <2>1. writer' \in [Writers -> WriterStates]
    BY <1>1, <1>2 DEF TrustTypes, WriterStates
  <2>2. pinning' \in [Writers -> Pins \union {NoFile}]
    BY <1>1, <1>2 DEF TrustTypes
  <2> QED
    BY <1>1, <1>2, <2>1, <2>2 DEF TrustTypes
<1>7. \A i \in former' : Settled(i)'
  <2>1. \A i \in former : Settled(i)'
    BY <1>2, SettledKept
  <2>2. ASSUME NEW i \in Inodes, i = temp PROVE Settled(i)'
    BY <2>2, <1>2, <1>3, <1>4 DEF Settled, WholeFile
  <2>3. temp \in Inodes
    BY <1>1, <1>4, MaxInodesAssumption DEF TrustTypes, Inodes
  <2> QED
    BY <1>2, <2>1, <2>2, <2>3
<1>8. \A v \in Writers : writer'[v] = IdleWriter
  BY <1>1, <1>2 DEF TrustTypes
<1>9. trusted' \subseteq Stored' /\ forgotten' \intersect Stored' = {}
  <2> HIDE DEF d
  <2> QED
    BY <1>2, <1>4, <1>5
<1>10. reset' # IdleReset => Resetting'
  <2> SUFFICES ASSUME reset # IdleReset PROVE Resetting'
    BY <1>2
  <2>1. Resetting /\ reset.pc \in {"loaded", "write"}
    BY <1>1 DEF TrustStoreInv, TrustTypes, ResetStates
  <2>2. reset.pc = "write" => reset.ino # destination'
    BY <2>1, <1>2, <1>4 DEF Resetting
  <2>3. Readable'
    BY <1>2, <1>3, <1>4 DEF Readable, WholeFile
  <2> QED
    BY <2>1, <2>2, <2>3, <1>2, <1>4 DEF Resetting
<1> QED
  BY <1>2, <1>6, <1>7, <1>8, <1>9, <1>10 DEF TrustStoreInv, NoPinLost, ResetHolds

\* trust() fails: the destination is as it was, the temporary file may stay.
LEMMA TrustFailsStep ==
  ASSUME TrustStoreInv, NEW w \in Writers, TrustFails(w)
  PROVE  TrustStoreInv'
<1>1. /\ TrustTypes /\ lock = {w}
      /\ \A v \in Writers : v # w => writer[v] = IdleWriter
  BY HolderIsAlone DEF TrustStoreInv, TrustFails, WriteFails
<1>2. /\ temp' \in {temp, NoFile} /\ lock' = {}
      /\ writer' = [writer EXCEPT ![w] = IdleWriter]
      /\ pinning' = [pinning EXCEPT ![w] = NoFile]
      /\ UNCHANGED <<content, synced, inodes, destination, former, prior>>
      /\ UNCHANGED <<reset, trusted, forgotten, torn>>
  BY <1>1 DEF TrustFails, WriteFails, resetVars
<1>3. TrustTypes'
  <2>1. writer' \in [Writers -> WriterStates]
    BY <1>1, <1>2 DEF TrustTypes, WriterStates
  <2>2. pinning' \in [Writers -> Pins \union {NoFile}]
    BY <1>1, <1>2 DEF TrustTypes
  <2> QED
    BY <1>1, <1>2, <2>1, <2>2 DEF TrustTypes
<1>4. \A v \in Writers : writer'[v] = IdleWriter
  BY <1>1, <1>2 DEF TrustTypes
<1>5. /\ \A i \in former' : Settled(i)'
      /\ destination' \in former' /\ (temp' \in former' => temp' = NoFile)
  BY <1>2 DEF TrustStoreInv, Settled, WholeFile
<1>6. Stored' = Stored /\ (Readable' <=> Readable)
  BY <1>2, StoreKept
<1>7. reset' # IdleReset => Resetting'
  BY <1>2, <1>6 DEF TrustStoreInv, Resetting
<1> QED
  BY <1>2, <1>3, <1>4, <1>5, <1>6, <1>7 DEF TrustStoreInv, NoPinLost, ResetHolds

\* The daemon is killed anywhere in trust().
LEMMA TrustKilledStep ==
  ASSUME TrustStoreInv, TrustKilled
  PROVE  TrustStoreInv'
<1>1. /\ lock' = {} /\ pinning' = [w \in Writers |-> NoFile]
      /\ writer' = [w \in Writers |-> IdleWriter]
      /\ UNCHANGED <<content, synced, inodes, temp, destination, former, prior>>
      /\ UNCHANGED <<reset, trusted, forgotten, torn>>
  BY DEF TrustKilled, KillWriters, fileVars, resetVars
<1>2. TrustTypes'
  BY <1>1 DEF TrustStoreInv, TrustTypes, WriterStates
<1>3. /\ \A i \in former' : Settled(i)'
      /\ destination' \in former' /\ (temp' \in former' => temp' = NoFile)
  BY <1>1 DEF TrustStoreInv, Settled, WholeFile
<1>4. Stored' = Stored /\ (Readable' <=> Readable)
  BY <1>1, StoreKept
<1>5. reset' # IdleReset => Resetting'
  BY <1>1, <1>4 DEF TrustStoreInv, Resetting
<1> QED
  BY <1>1, <1>2, <1>3, <1>4, <1>5 DEF TrustStoreInv, NoPinLost, ResetHolds

\* A power failure may undo renames, but every file it can bring back was
\* synced before it got the name, or has been rewritten by a reset.
LEMMA TrustPowerLossStep ==
  ASSUME TrustStoreInv, TrustPowerLoss
  PROVE  TrustStoreInv'
<1>1. /\ lock' = {} /\ pinning' = [w \in Writers |-> NoFile]
      /\ writer' = [w \in Writers |-> IdleWriter] /\ reset' = IdleReset
      /\ trusted' = {} /\ forgotten' = {}
      /\ torn' = torn \union {i \in Inodes : prior[i] # <<>>}
      /\ destination' \in former /\ temp' \in {temp, NoFile}
      /\ former' = {destination'} /\ synced' = Inodes /\ UNCHANGED inodes
      /\ prior' = [i \in Inodes |-> <<>>]
  BY DEF TrustPowerLoss, PowerLoss
<1>2. PICK left \in [Inodes -> UNION {0 .. Size[d] : d \in Documents}],
           undone \in SUBSET {i \in Inodes \ synced : prior[i] # <<>>} :
        /\ \A i \in Inodes :
             left[i] <= Len(content[i]) /\ (i \in synced => left[i] = Len(content[i]))
        /\ content' = [i \in Inodes |->
             IF i \in undone THEN prior[i] ELSE SubSeq(content[i], 1, left[i])]
  BY DEF TrustPowerLoss, PowerLoss
<1>3. /\ content \in [Inodes -> Seq(Documents)] /\ prior \in [Inodes -> Seq(Documents)]
      /\ TrustTypes
  BY DEF TrustStoreInv, TrustTypes
<1>4. \A i \in Inodes : content'[i] \in Seq(Documents)
  <2> TAKE i \in Inodes
  <2>1. content[i] \in Seq(Documents) /\ left[i] \in Nat /\ left[i] <= Len(content[i])
    BY <1>2, <1>3, SizeAssumption
  <2>2. SubSeq(content[i], 1, left[i]) \in Seq(Documents) /\ prior[i] \in Seq(Documents)
    BY <2>1, <1>3, SubSeqProperties
  <2> QED
    BY <1>2, <2>2
<1>5. \A i \in Inodes \intersect synced : content'[i] = content[i]
  <2> TAKE i \in Inodes \intersect synced
  <2>1. content[i] \in Seq(Documents) /\ left[i] = Len(content[i]) /\ i \notin undone
    BY <1>2, <1>3
  <2>2. SubSeq(content[i], 1, Len(content[i])) = content[i]
    BY <2>1
  <2> QED
    BY <1>2, <2>1, <2>2
<1>6. TrustTypes'
  <2>1. content' \in [Inodes -> Seq(Documents)]
    BY <1>2, <1>4
  <2>2. prior' \in [Inodes -> Seq(Documents)]
    BY <1>1
  <2>3. reset' \in ResetStates
    BY <1>1 DEF ResetStates
  <2> QED
    BY <1>1, <1>3, <2>1, <2>2, <2>3 DEF TrustTypes, WriterStates
<1>7. ASSUME NEW i \in former' PROVE Settled(i)'
  <2>1. Settled(i) /\ i \in Inodes \union {NoFile}
    BY <1>1, <1>7, FormerInodes DEF TrustStoreInv
  <2>2. CASE i = NoFile
    BY <2>2 DEF Settled
  <2>3. CASE i # NoFile /\ i \in synced
    <3>1. content'[i] = content[i]
      BY <2>1, <2>3, <1>5
    <3>2. ~(reset.pc = "write" /\ reset.ino = i)
      BY <2>3 DEF TrustStoreInv, Resetting, IdleReset
    <3> QED
      BY <1>1, <2>1, <2>3, <3>1, <3>2 DEF Settled, WholeFile
  <2>4. CASE i # NoFile /\ i \notin synced
    BY <1>1, <2>1, <2>4 DEF Settled
  <2> QED
    BY <2>2, <2>3, <2>4
<1>8. temp' \in former' => temp' = NoFile
  BY <1>1 DEF TrustStoreInv
<1> QED
  BY <1>1, <1>6, <1>7, <1>8 DEF TrustStoreInv, NoPinLost, ResetHolds

\* A reset has read the store: it leaves out its pin alone.
LEMMA ResetLoadStep ==
  ASSUME TrustStoreInv, NEW p \in Pins, ResetLoad(p)
  PROVE  TrustStoreInv'
<1> DEFINE d == Stored \ {p}
<1>1. /\ Readable /\ destination # NoFile /\ trusted' = trusted \ {p}
      /\ reset' = [pc |-> "loaded", pin |-> p, doc |-> d, ino |-> NoFile, at |-> 1]
      /\ reset = IdleReset
      /\ UNCHANGED <<content, synced, inodes, temp, destination, former, prior, writer>>
      /\ UNCHANGED <<lock, pinning, forgotten, torn>>
  BY DEF ResetLoad, storeVars, writeVars, fileVars
<1>2. d \in Documents /\ trusted' \subseteq d /\ forgotten \intersect d = {} /\ p \notin d
  BY <1>1, StoredIsPins, PinsAssumption DEF TrustStoreInv, NoPinLost, ResetHolds
<1>3. Stored' = Stored /\ (Readable' <=> Readable)
  BY <1>1, StoreKept
<1>4. trusted' \subseteq Stored' /\ forgotten' \intersect Stored' = {}
  BY <1>1, <1>3 DEF TrustStoreInv, NoPinLost, ResetHolds
<1> HIDE DEF d
<1>5. reset' \in ResetStates
  BY <1>1, <1>2 DEF ResetStates
<1>6. TrustTypes'
  BY <1>1, <1>5 DEF TrustStoreInv, TrustTypes
<1>7. \A i \in former' : Settled(i)'
  BY <1>1, SettledKept DEF IdleReset
<1>8. Resetting'
  BY <1>1, <1>2, <1>3 DEF Resetting
<1>9. \A w \in lock' : writer'[w] # IdleWriter /\ Writing(w)'
  BY <1>1 DEF TrustStoreInv, Writing
<1> QED
  BY <1>1, <1>4, <1>6, <1>7, <1>8, <1>9 DEF TrustStoreInv, NoPinLost, ResetHolds

\* The file is truncated: nobody can read it until it is written again.
LEMMA ResetOpenStep ==
  ASSUME TrustStoreInv, ResetOpen
  PROVE  TrustStoreInv'
<1>1. /\ TrustTypes /\ Resetting /\ reset.pc = "loaded" /\ destination # NoFile
      /\ destination \in former /\ destination \in Inodes
      /\ reset \in [pc : {"loaded", "write"}, pin : Pins, doc : Documents,
                    ino : Inodes \union {NoFile}, at : Nat \ {0}]
  BY FormerInodes DEF TrustStoreInv, TrustTypes, ResetOpen, Resetting, ResetStates, IdleReset
<1>2. /\ reset' = [reset EXCEPT !.pc = "write", !.ino = destination]
      /\ content' = [content EXCEPT ![destination] = <<>>]
      /\ prior' = IF destination \in synced
                  THEN [prior EXCEPT ![destination] = content[destination]] ELSE prior
      /\ synced' = synced \ {destination}
      /\ UNCHANGED <<inodes, temp, destination, former, writer, lock, pinning>>
      /\ UNCHANGED <<trusted, forgotten, torn>>
  BY DEF ResetOpen
<1>3. /\ reset'.pc = "write" /\ reset'.ino = destination /\ reset'.at = reset.at
      /\ reset'.doc = reset.doc /\ reset'.pin = reset.pin /\ reset' \in ResetStates
      /\ reset' # IdleReset
  BY <1>1, <1>2 DEF ResetStates, IdleReset
<1>4. TrustTypes'
  <2>1. content' \in [Inodes -> Seq(Documents)] /\ prior' \in [Inodes -> Seq(Documents)]
    BY <1>1, <1>2 DEF TrustTypes
  <2> QED
    BY <1>1, <1>2, <1>3, <2>1 DEF TrustTypes
<1>5. content'[destination] = <<>> /\ content'[destination] = [i \in 1 .. (1 - 1) |-> reset.doc]
  BY <1>1, <1>2 DEF TrustTypes
<1>6. ~Readable'
  <2>1. \A d \in Documents : Whole(d) # <<>>
    BY SizeAssumption DEF Whole
  <2> QED
    BY <1>1, <1>2, <1>5, <2>1 DEF Readable, WholeFile
<1>7. \A i \in former' : Settled(i)'
  <2>1. ASSUME NEW i \in former, i # destination PROVE Settled(i)'
    <3>1. i # NoFile => content'[i] = content[i] /\ prior'[i] = prior[i]
      BY <1>1, <1>2, <2>1, FormerInodes DEF TrustTypes
    <3> QED
      BY <1>1, <1>2, <2>1, <3>1, SettledKept
  <2>2. Settled(destination)'
    <3>1. Settled(destination) /\ ~(reset.pc = "write")
      BY <1>1 DEF TrustStoreInv
    <3>2. prior'[destination] # <<>>
      <4>1. CASE destination \notin synced
        BY <4>1, <3>1, <1>1, <1>2 DEF Settled
      <4>2. CASE destination \in synced
        <5>1. prior'[destination] = content[destination]
          BY <4>2, <1>1, <1>2 DEF TrustTypes
        <5>2. WholeFile(destination)
          BY <1>1 DEF Resetting, Readable
        <5>3. \A e \in Documents : Whole(e) # <<>>
          BY SizeAssumption DEF Whole
        <5> QED
          BY <5>1, <5>2, <5>3 DEF WholeFile
      <4> QED
        BY <4>1, <4>2
    <3> QED
      BY <1>1, <1>2, <1>3, <3>1, <3>2 DEF Settled
  <2> QED
    BY <1>2, <2>1, <2>2
<1>8. Resetting'
  <2>1. 1 <= Size[reset.doc] + 1
    BY <1>1, SizeAssumption
  <2> QED
    BY <1>1, <1>2, <1>3, <1>5, <2>1 DEF Resetting
<1>9. \A w \in lock : writer[w] # IdleWriter /\ Writing(w)'
  <2> TAKE w \in lock
  <2>1. writer[w] # IdleWriter /\ Writing(w) /\ temp # destination /\ temp \in Inodes
    BY <1>1, MaxInodesAssumption DEF TrustStoreInv, TrustTypes, Writing, Inodes
  <2>2. content'[temp] = content[temp]
    BY <1>1, <1>2, <2>1 DEF TrustTypes
  <2> QED
    BY <1>2, <2>1, <2>2 DEF Writing
<1> QED
  BY <1>2, <1>4, <1>6, <1>7, <1>8, <1>9 DEF TrustStoreInv, NoPinLost, ResetHolds

\* A block of it; what it writes has every pin that is to stay.
LEMMA ResetWriteStep ==
  ASSUME TrustStoreInv, ResetWrite
  PROVE  TrustStoreInv'
<1> DEFINE d == reset.doc
           n == reset.at
           f == reset.ino
<1>1. /\ TrustTypes /\ Resetting /\ reset.pc = "write" /\ n <= Size[d]
      /\ f \in former /\ f # NoFile /\ f \notin synced /\ f \in Inodes
      /\ d \in Documents /\ n \in Nat \ {0} /\ Size[d] \in Nat \ {0}
      /\ reset \in [pc : {"loaded", "write"}, pin : Pins, doc : Documents,
                    ino : Inodes \union {NoFile}, at : Nat \ {0}]
  <2>1. TrustTypes /\ Resetting /\ reset.pc = "write" /\ n <= Size[d]
    BY DEF TrustStoreInv, ResetWrite, IdleReset
  <2>2. reset \in [pc : {"loaded", "write"}, pin : Pins, doc : Documents,
                   ino : Inodes \union {NoFile}, at : Nat \ {0}]
    BY <2>1 DEF TrustTypes, ResetStates, IdleReset
  <2> QED
    BY <2>1, <2>2, FormerInodes, SizeAssumption DEF Resetting
<1>2. /\ content' = [content EXCEPT ![f] = Written(@, n, d)]
      /\ reset' = [reset EXCEPT !.at = n + 1]
      /\ UNCHANGED <<synced, inodes, temp, destination, former, prior, writer, lock, pinning>>
      /\ UNCHANGED <<trusted, forgotten, torn>>
  BY DEF ResetWrite
<1>3. /\ reset'.pc = "write" /\ reset'.ino = f /\ reset'.at = n + 1
      /\ reset'.doc = d /\ reset'.pin = reset.pin /\ reset' \in ResetStates
      /\ reset' # IdleReset
  BY <1>1, <1>2 DEF ResetStates, IdleReset
<1>4. content'[f] = [i \in 1 .. n |-> d]
  <2>1. content[f] = [i \in 1 .. (n - 1) |-> d]
    BY <1>1 DEF Resetting
  <2>2. Written(content[f], n, d) = [i \in 1 .. n |-> d]
    BY <2>1, <1>1, WrittenAtEnd
  <2> QED
    BY <2>2, <1>1, <1>2 DEF TrustTypes
<1>5. TrustTypes'
  <2>1. [i \in 1 .. n |-> d] \in Seq(Documents)
    BY <1>1
  <2>2. content' \in [Inodes -> Seq(Documents)]
    BY <2>1, <1>1, <1>2, <1>4 DEF TrustTypes
  <2> QED
    BY <1>1, <1>2, <1>3, <2>2 DEF TrustTypes
<1>6. \A i \in Inodes : i # f => content'[i] = content[i]
  BY <1>1, <1>2 DEF TrustTypes
<1>7. \A i \in former' : Settled(i)'
  <2>1. ASSUME NEW i \in former, i # f PROVE Settled(i)'
    BY <1>1, <1>2, <1>6, <2>1, FormerInodes, SettledKept
  <2>2. Settled(f)'
    BY <1>1, <1>2, <1>3 DEF TrustStoreInv, Settled
  <2> QED
    BY <1>2, <2>1, <2>2
<1> HIDE DEF d, n, f
<1>8. Resetting'
  <2>1. (n + 1) - 1 = n /\ n + 1 <= Size[d] + 1
    BY <1>1
  <2>2. reset.pin \notin d /\ (f = destination => trusted \subseteq d /\ forgotten \intersect d = {})
    BY <1>1 DEF Resetting, d, f
  <2> QED
    BY <1>1, <1>2, <1>3, <1>4, <2>1, <2>2 DEF Resetting
<1>9. Readable' => trusted' \subseteq Stored' /\ forgotten' \intersect Stored' = {}
  <2>1. CASE destination # f
    <3>1. Stored' = Stored /\ (Readable' <=> Readable)
      BY <2>1, <1>2, <1>6, StoreKept, FormerInodes DEF TrustStoreInv
    <3> QED
      BY <3>1, <1>2 DEF TrustStoreInv, NoPinLost, ResetHolds
  <2>2. CASE destination = f
    <3>1. trusted \subseteq d /\ forgotten \intersect d = {}
      BY <1>1, <2>2 DEF Resetting, d, f
    <3>2. {content'[destination'][i] : i \in DOMAIN content'[destination']} = {d}
      BY <1>1, <1>2, <1>4, <2>2
    <3>3. Stored' = d
      BY <3>2, <1>1, <1>2, <2>2 DEF Stored
    <3> QED
      BY <3>1, <3>3, <1>2
  <2> QED
    BY <2>1, <2>2
<1>10. \A w \in lock : writer[w] # IdleWriter /\ Writing(w)'
  <2> TAKE w \in lock
  <2>1. writer[w] # IdleWriter /\ Writing(w) /\ temp # f /\ temp \in Inodes
    BY <1>1, MaxInodesAssumption DEF TrustStoreInv, TrustTypes, Writing, Inodes
  <2>2. content'[temp] = content[temp]
    BY <1>6, <2>1
  <2> QED
    BY <1>2, <2>1, <2>2 DEF Writing
<1> QED
  BY <1>2, <1>5, <1>7, <1>8, <1>9, <1>10 DEF TrustStoreInv, NoPinLost, ResetHolds

\* The file that a reset has finished is whole, and without its pin; one that it
\* leaves in part is torn.
LEMMA ResetStopsStep ==
  ASSUME TrustStoreInv, ResetEnd \/ ResetDies
  PROVE  TrustStoreInv'
<1> DEFINE f == reset.ino
<1>1. /\ TrustTypes /\ Resetting /\ reset # IdleReset /\ reset' = IdleReset
      /\ reset \in [pc : {"loaded", "write"}, pin : Pins, doc : Documents,
                    ino : Inodes \union {NoFile}, at : Nat \ {0}]
      /\ UNCHANGED <<content, synced, inodes, temp, destination, former, prior, writer>>
      /\ UNCHANGED <<lock, pinning, trusted>>
  BY DEF TrustStoreInv, TrustTypes, ResetStates, ResetEnd, ResetDies, IdleReset,
         storeVars, writeVars, fileVars
<1>2. TrustTypes'
  BY <1>1 DEF TrustTypes, ResetStates
<1>3. Stored' = Stored /\ (Readable' <=> Readable)
  BY <1>1, StoreKept
<1>4. /\ torn \subseteq torn'
      /\ reset.pc = "write" => WholeFile(f) \/ f \in torn'
      /\ forgotten' = forgotten \/ (forgotten' = forgotten \union {reset.pin} /\ lock = {})
      /\ Readable => forgotten' \intersect Stored = {}
  <2>1. CASE ResetEnd
    <3>1. /\ reset.pc = "write" /\ reset.at > Size[reset.doc] /\ torn' = torn
          /\ forgotten' = IF f = destination /\ lock = {}
                          THEN forgotten \union {reset.pin} ELSE forgotten
      BY <2>1 DEF ResetEnd, Free
    <3>2. /\ content[f] = [i \in 1 .. (reset.at - 1) |-> reset.doc]
          /\ reset.at <= Size[reset.doc] + 1 /\ f # NoFile /\ reset.pin \notin reset.doc
      BY <1>1, <3>1 DEF Resetting
    <3>3. reset.at - 1 = Size[reset.doc] /\ reset.doc \in Documents
      BY <1>1, <3>1, <3>2, SizeAssumption
    <3>4. content[f] = Whole(reset.doc)
      BY <3>2, <3>3 DEF Whole
    <3>5. f = destination => Stored = reset.doc
      BY <3>2, <3>3, <3>4, StoredIsDocument
    <3> QED
      BY <3>1, <3>2, <3>3, <3>4, <3>5 DEF WholeFile, TrustStoreInv, ResetHolds
  <2>2. CASE ResetDies
    BY <2>2, <1>1 DEF ResetDies, TrustStoreInv, ResetHolds
  <2> QED
    BY <2>1, <2>2
<1>5. \A i \in former' : Settled(i)'
  <2> SUFFICES ASSUME NEW i \in former PROVE Settled(i)'
    BY <1>1
  <2>1. CASE reset.pc = "write" /\ i = f
    <3>1. Settled(i)
      BY DEF TrustStoreInv
    <3> QED
      BY <2>1, <3>1, <1>1, <1>4 DEF Settled, WholeFile
  <2>2. CASE ~(reset.pc = "write" /\ f = i)
    BY <2>2, <1>1, <1>4, SettledKept
  <2> QED
    BY <2>1, <2>2
<1>6. \A w \in lock : writer[w] # IdleWriter /\ Writing(w)'
  BY <1>1, <1>4 DEF TrustStoreInv, Writing
<1> QED
  BY <1>1, <1>2, <1>3, <1>4, <1>5, <1>6 DEF TrustStoreInv, NoPinLost, ResetHolds

\* Every step of the trust store keeps its invariant.
LEMMA TrustSteps ==
  TrustStoreInv /\ (TrustStep \/ ResetStep \/ TrustKilled \/ TrustPowerLoss \/ UNCHANGED trustVars)
    => TrustStoreInv'
<1> SUFFICES ASSUME TrustStoreInv,
                    \/ TrustStep \/ ResetStep \/ TrustKilled \/ TrustPowerLoss
                    \/ UNCHANGED trustVars
             PROVE  TrustStoreInv'
  OBVIOUS
<1>1. CASE TrustStep
  BY <1>1, BeginTrustStep, WriteStep, EndTrustStep, TrustFailsStep DEF TrustStep
<1>2. CASE ResetStep
  BY <1>2, ResetLoadStep, ResetOpenStep, ResetWriteStep, ResetStopsStep DEF ResetStep
<1>3. CASE UNCHANGED trustVars
  <2>1. /\ UNCHANGED <<content, synced, inodes, temp, destination, former, prior, writer>>
        /\ UNCHANGED <<lock, pinning, reset, trusted, forgotten, torn>>
    BY <1>3 DEF trustVars, storeVars, resetVars, writeVars, fileVars
  <2>2. Stored' = Stored /\ (Readable' <=> Readable)
    BY <2>1, StoreKept
  <2>3. \A i \in former' : Settled(i)'
    BY <2>1, SettledKept
  <2>4. TrustTypes' /\ (reset' # IdleReset => Resetting')
    BY <2>1, <2>2 DEF TrustStoreInv, TrustTypes, Resetting
  <2>5. \A w \in lock' : writer'[w] # IdleWriter /\ Writing(w)'
    BY <2>1 DEF TrustStoreInv, Writing
  <2> QED
    BY <2>1, <2>2, <2>3, <2>4, <2>5 DEF TrustStoreInv, NoPinLost, ResetHolds
<1> QED
  BY <1>1, <1>2, <1>3, TrustKilledStep, TrustPowerLossStep

----------------------------------------------------------------------------
(* The database *)

Calls ==
  {NoCall} \union [op : {"delete", "insert"}, path : Paths, version : Versions]

FileTable == [Paths -> Versions \union {NoRow}]
ChunkTable == [Paths -> Seq(Versions)]

MetadataTypes ==
  /\ files \in FileTable /\ chunks \in ChunkTable /\ halved \subseteq Paths
  /\ committed \in [files : FileTable, chunks : ChunkTable, halved : SUBSET Paths]
  /\ call \in Calls
  /\ returned \in FileTable

\* The rows about a file were written by one save, or by none.
OneSave(table, p) ==
  p \notin table.halved =>
    table.chunks[p] = IF table.files[p] = NoRow THEN <<>> ELSE ChunkRows(table.files[p])

\* A save that is under way has inserted its row, and as many chunk rows as
\* it has got to.
Saving ==
  /\ files[call.path] = call.version
  /\ call.op = "insert" =>
       /\ Len(chunks[call.path]) <= Rows
       /\ \A i \in DOMAIN chunks[call.path] : chunks[call.path][i] = call.version

\* Outside the save that is under way, the tables hold what was returned, and
\* whole saves only but for the paths whose save has failed, on the disk and as
\* the connection sees them: a commit, a rollback and a restart may come
\* anytime.
DatabaseInv ==
  /\ MetadataTypes
  /\ \A p \in Paths : returned[p] # NoRow => committed.files[p] = returned[p]
  /\ \A p \in Paths :
       returned[p] # NoRow /\ ~(call # NoCall /\ call.path = p) => files[p] = returned[p]
  /\ call # NoCall => Saving
  /\ \A p \in Paths : OneSave(committed, p)
  /\ \A p \in Paths : ~(call # NoCall /\ call.path = p) => OneSave(Tables, p)

LEMMA InvImpliesMetadataInv == DatabaseInv => MetadataInv
  BY DEF DatabaseInv, MetadataInv, ReturnedIsDurable, CommittedWhole, OneSave

LEMMA MetadataInitial == MetadataInit => DatabaseInv
<1> SUFFICES ASSUME MetadataInit PROVE DatabaseInv
  OBVIOUS
<1>1. MetadataTypes
  BY DEF MetadataInit, MetadataTypes, FileTable, ChunkTable, Calls, Tables
<1> QED
  BY <1>1 DEF MetadataInit, DatabaseInv, OneSave, Tables

\* A call that has begun is a save of some path.
LEMMA CallIsSave ==
  ASSUME MetadataTypes, call.op \in {"delete", "insert"}
  PROVE  call # NoCall /\ call \in [op : {"delete", "insert"}, path : Paths, version : Versions]
  BY DEF MetadataTypes, Calls, NoCall

\* The statements of save_file_metadata.
LEMMA SaveSteps ==
  ASSUME DatabaseInv,
         \/ \E p \in Paths, v \in Versions : InsertFile(p, v)
         \/ InsertFileFails \/ DeleteChunks \/ InsertChunk \/ EndSave \/ SaveFails
  PROVE  DatabaseInv'
<1> USE NoRowAssumption, MetadataBoundsAssumption
<1>1. ASSUME NEW p \in Paths, NEW v \in Versions, InsertFile(p, v)
      PROVE  DatabaseInv'
  <2>1. /\ MetadataTypes /\ call = NoCall
        /\ files' = [files EXCEPT ![p] = v] /\ chunks' = [chunks EXCEPT ![p] = <<>>]
        /\ call' = [op |-> "delete", path |-> p, version |-> v]
        /\ UNCHANGED <<committed, returned, halved>>
    BY <1>1 DEF DatabaseInv, InsertFile, Called
  <2>2. MetadataTypes'
    BY <2>1 DEF MetadataTypes, FileTable, ChunkTable, Calls
  <2>3. /\ files'[p] = v
        /\ \A q \in Paths : q # p => files'[q] = files[q] /\ chunks'[q] = chunks[q]
    BY <2>1 DEF MetadataTypes, FileTable, ChunkTable
  <2>4. call' # NoCall /\ call'.path = p /\ call'.version = v /\ call'.op = "delete"
    BY <2>1 DEF NoCall
  <2> QED
    BY <2>1, <2>2, <2>3, <2>4 DEF DatabaseInv, Saving, OneSave, Tables
<1>2. CASE InsertFileFails
  BY <1>2 DEF InsertFileFails, Called, DatabaseInv, MetadataTypes, OneSave, Tables, Saving
<1>3. CASE DeleteChunks
  <2>1. /\ MetadataTypes /\ call # NoCall
        /\ call \in [op : {"delete", "insert"}, path : Paths, version : Versions]
        /\ call' = [call EXCEPT !.op = "insert"]
        /\ chunks' = [chunks EXCEPT ![call.path] = <<>>]
        /\ UNCHANGED <<files, committed, returned, halved>>
    BY <1>3, CallIsSave DEF DatabaseInv, DeleteChunks
  <2>2. /\ call' \in [op : {"delete", "insert"}, path : Paths, version : Versions]
        /\ call' # NoCall /\ call'.path = call.path /\ call'.version = call.version
    BY <2>1 DEF NoCall
  <2>3. MetadataTypes'
    BY <2>1, <2>2 DEF MetadataTypes, ChunkTable, Calls
  <2>4. /\ chunks'[call.path] = <<>>
        /\ \A q \in Paths : q # call.path => chunks'[q] = chunks[q]
    BY <2>1 DEF MetadataTypes, ChunkTable
  <2> QED
    BY <2>1, <2>2, <2>3, <2>4 DEF DatabaseInv, Saving, OneSave, Tables
<1>4. CASE InsertChunk
  <2>1. /\ MetadataTypes /\ call # NoCall /\ call.op = "insert"
        /\ call \in [op : {"delete", "insert"}, path : Paths, version : Versions]
        /\ Len(chunks[call.path]) < Rows
        /\ chunks' = [chunks EXCEPT ![call.path] = Append(@, call.version)]
        /\ UNCHANGED <<files, committed, returned, halved, call>>
    BY <1>4, CallIsSave DEF DatabaseInv, InsertChunk
  <2>2. MetadataTypes'
    BY <2>1 DEF MetadataTypes, ChunkTable
  <2>3. /\ chunks[call.path] \in Seq(Versions)
        /\ chunks'[call.path] = Append(chunks[call.path], call.version)
        /\ \A q \in Paths : q # call.path => chunks'[q] = chunks[q]
    BY <2>1 DEF MetadataTypes, ChunkTable
  <2>4. Saving'
    BY <2>1, <2>3 DEF DatabaseInv, Saving
  <2> QED
    BY <2>1, <2>2, <2>3, <2>4 DEF DatabaseInv, OneSave, Tables
<1>5. CASE EndSave
  <2>1. /\ MetadataTypes /\ call # NoCall /\ call.op = "insert"
        /\ call \in [op : {"delete", "insert"}, path : Paths, version : Versions]
        /\ Len(chunks[call.path]) = Rows
        /\ committed' = Tables' /\ call' = NoCall /\ halved' = halved \ {call.path}
        /\ returned' = [returned EXCEPT ![call.path] = call.version]
        /\ UNCHANGED <<files, chunks>>
    BY <1>5, CallIsSave DEF DatabaseInv, EndSave
  <2>2. MetadataTypes'
    BY <2>1 DEF MetadataTypes, FileTable, Tables, Calls
  <2>3. /\ returned'[call.path] = call.version /\ files[call.path] = call.version
        /\ \A q \in Paths : q # call.path => returned'[q] = returned[q]
    BY <2>1 DEF MetadataTypes, FileTable, DatabaseInv, Saving
  <2>4. chunks[call.path] = ChunkRows(call.version)
    <3>1. chunks[call.path] \in Seq(Versions)
      BY <2>1 DEF MetadataTypes, ChunkTable
    <3> QED
      BY <2>1, <3>1 DEF DatabaseInv, Saving, ChunkRows
  <2>5. \A p \in Paths : OneSave(Tables, p)'
    BY <2>1, <2>3, <2>4 DEF DatabaseInv, OneSave, Tables
  <2>6. committed'.files = files
    BY <2>1 DEF Tables
  <2>7. \A p \in Paths : OneSave(committed, p)'
    BY <2>1, <2>5 DEF OneSave
  <2> QED
    BY <2>1, <2>2, <2>3, <2>5, <2>6, <2>7 DEF DatabaseInv
<1>6. CASE SaveFails
  <2>1. /\ MetadataTypes /\ call # NoCall
        /\ call \in [op : {"delete", "insert"}, path : Paths, version : Versions]
        /\ call' = NoCall /\ halved' = halved \union {call.path}
        /\ returned' = [returned EXCEPT ![call.path] = NoRow]
        /\ UNCHANGED <<files, chunks, committed>>
    BY <1>6 DEF DatabaseInv, MetadataTypes, Calls, SaveFails
  <2>2. MetadataTypes'
    BY <2>1 DEF MetadataTypes, FileTable, Calls
  <2>3. /\ returned'[call.path] = NoRow
        /\ \A q \in Paths : q # call.path => returned'[q] = returned[q]
    BY <2>1 DEF MetadataTypes, FileTable
  <2> QED
    BY <2>1, <2>2, <2>3 DEF DatabaseInv, OneSave, Tables
<1> QED
  BY <1>1, <1>2, <1>3, <1>4, <1>5, <1>6

\* The operations that are one statement, and the end of the process.
LEMMA OtherSteps ==
  ASSUME DatabaseInv,
         \/ \E p \in Paths : DeleteFile(p)
         \/ BeginTransaction \/ Rollback \/ Commit
         \/ MetadataRestart \/ UNCHANGED metadataVars
  PROVE  DatabaseInv'
<1> USE NoRowAssumption
<1>1. ASSUME NEW p \in Paths, DeleteFile(p) PROVE DatabaseInv'
  <2>1. /\ MetadataTypes /\ call = NoCall
        /\ files' = [files EXCEPT ![p] = NoRow] /\ chunks' = [chunks EXCEPT ![p] = <<>>]
        /\ halved' = halved \ {p} /\ committed' = Tables'
        /\ returned' = [returned EXCEPT ![p] = NoRow]
        /\ UNCHANGED call
    BY <1>1 DEF DatabaseInv, DeleteFile, Called
  <2>2. MetadataTypes'
    BY <2>1 DEF MetadataTypes, FileTable, ChunkTable, Tables
  <2>3. /\ files'[p] = NoRow /\ returned'[p] = NoRow /\ chunks'[p] = <<>>
        /\ \A q \in Paths : q # p =>
             files'[q] = files[q] /\ returned'[q] = returned[q] /\ chunks'[q] = chunks[q]
    BY <2>1 DEF MetadataTypes, FileTable, ChunkTable
  <2>4. \A q \in Paths : OneSave(Tables, q)'
    BY <2>1, <2>3 DEF DatabaseInv, OneSave, Tables
  <2>5. \A q \in Paths : OneSave(committed, q)'
    BY <2>1, <2>4 DEF OneSave
  <2>6. committed'.files = files'
    BY <2>1 DEF Tables
  <2> QED
    BY <2>1, <2>2, <2>3, <2>4, <2>5, <2>6 DEF DatabaseInv
<1>2. CASE BeginTransaction
  BY <1>2 DEF BeginTransaction, Called, DatabaseInv, MetadataTypes, OneSave, Tables, Saving
<1>3. CASE Commit
  <2>1. /\ MetadataTypes /\ call = NoCall /\ committed' = Tables
        /\ UNCHANGED <<files, chunks, call, returned, halved>>
    BY <1>3 DEF Commit, Called, DatabaseInv
  <2>2. MetadataTypes'
    BY <2>1 DEF MetadataTypes, Tables
  <2> QED
    BY <2>1, <2>2 DEF DatabaseInv, OneSave, Tables
<1>4. CASE Rollback \/ MetadataRestart
  <2>1. /\ MetadataTypes /\ call' = NoCall
        /\ files' = committed.files /\ chunks' = committed.chunks
        /\ halved' = committed.halved
        /\ UNCHANGED <<committed, returned>>
    BY <1>4 DEF Rollback, MetadataRestart, Reread, Called, DatabaseInv
  <2>2. MetadataTypes'
    BY <2>1 DEF MetadataTypes, Calls
  <2> QED
    BY <2>1, <2>2 DEF DatabaseInv, OneSave, Tables
<1>5. CASE UNCHANGED metadataVars
  BY <1>5 DEF metadataVars, tableVars, DatabaseInv, MetadataTypes, OneSave, Tables, Saving
<1> QED
  BY <1>1, <1>2, <1>3, <1>4, <1>5

LEMMA MetadataSteps ==
  DatabaseInv /\ (MetadataStep \/ MetadataRestart \/ UNCHANGED metadataVars) => DatabaseInv'
  BY SaveSteps, OtherSteps DEF MetadataStep

----------------------------------------------------------------------------
(* The device *)

DeviceInv == IdentityInv /\ TrustStoreInv /\ DatabaseInv

\* The invariant holds in every state of the device.
THEOREM DeviceInvariant == Spec => []DeviceInv
<1>1. Init => DeviceInv
  BY IdentityInitial, TrustInitial, MetadataInitial DEF Init, DeviceInv
<1>2. DeviceInv /\ [Next]_vars => DeviceInv'
  <2> SUFFICES ASSUME DeviceInv, [Next]_vars PROVE DeviceInv'
    OBVIOUS
  <2>1. IdentityStep \/ IdentityKilled \/ IdentityPowerLoss \/ UNCHANGED identityVars
    BY DEF Next, vars, Killed, PowerFailure
  <2>2. TrustStep \/ ResetStep \/ TrustKilled \/ TrustPowerLoss \/ UNCHANGED trustVars
    BY DEF Next, vars, Killed, PowerFailure
  <2>3. MetadataStep \/ MetadataRestart \/ UNCHANGED metadataVars
    BY DEF Next, vars, Killed, PowerFailure
  <2> QED
    BY <2>1, <2>2, <2>3, IdentitySteps, IdentityFaults, TrustSteps, MetadataSteps
    DEF DeviceInv
<1> QED
  BY <1>1, <1>2, PTL DEF Spec

\* load_or_create: whatever ends a start, a device that peers know under a
\* key comes up with that key, for any number of starts and key pairs.
THEOREM DeviceIdentityStable == Spec => []IdentityStable
<1>1. DeviceInv => IdentityStable
  BY DEF DeviceInv, IdentityInv, IdentityStable
<1> QED
  BY <1>1, DeviceInvariant, PTL

\* trust(): for any number of concurrent handshakes, of resets and of pins of
\* any size, the store is whole but for a file that a reset is rewriting or has
\* left in part, every recorded pin is in it until its own reset, one that had
\* read the store before, or a power failure, and a pin taken out alone stays
\* out until it is pinned again.
THEOREM DeviceTrust == Spec => []TrustInv
<1>1. DeviceInv => TrustInv
  BY InvImpliesTrustInv DEF DeviceInv
<1> QED
  BY <1>1, DeviceInvariant, PTL

\* save_file_metadata: for any number of files, chunks, calls and statements
\* that fail, a restart finds every save that returned, and nothing but whole
\* saves of every file whose own save has not failed.
THEOREM DeviceMetadata == Spec => []MetadataInv
<1>1. DeviceInv => MetadataInv
  BY InvImpliesMetadataInv DEF DeviceInv
<1> QED
  BY <1>1, DeviceInvariant, PTL
=============================================================================
