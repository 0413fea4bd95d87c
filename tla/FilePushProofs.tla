--------------------------- MODULE FilePushProofs ---------------------------
(***************************************************************************)
(* Proofs about FilePush, for any number of senders, pushes, paths and     *)
(* saves, files of any length and versions of any devices.                 *)
(*                                                                         *)
(* The inductive invariant has four parts: the types; where the blocks in  *)
(* the files, in the temporary files and on the wire come from; which      *)
(* pushes stand behind the versions in the temporary files and on record;  *)
(* and what a temporary file that one push alone has written to looks      *)
(* like.                                                                   *)
(***************************************************************************)
EXTENDS FilePush, FiniteSetTheorems, SequenceTheorems, TLAPS

Vectors == [Devices -> Nat]
Offered == Vectors \union {NoVersion}
Positions == Nat \ {0}

Pushes ==
  [path : Paths, src : Contents, now : Contents, kept : {"still", "edited"},
   needed : SUBSET Blocks, vv : Offered]

Messages ==
  [push : Nat, path : Paths, index : Positions, block : Blocks, total : Nat, vv : Offered]

Partials ==
  [bytes : Files, got : SUBSET Positions, vv : Offered, idle : 0 .. (PartialTimeout + 1),
   seed : Files, from : SUBSET Nat]

Finalizations == [path : Paths, vv : Offered, seed : Files, from : SUBSET Nat]

SenderTypes ==
  /\ log \in Seq(Pushes)
  /\ \A k \in 1 .. Len(log) : IsFiniteSet(log[k].needed)
  /\ cursor \in [Senders -> [push : Nat, next : Nat]]
  /\ \A q \in Senders : cursor[q] # Idle => cursor[q].push \in 1 .. Len(log)
  /\ wire \subseteq Messages
  /\ \A m \in wire : m.push \in 1 .. Len(log)

ReceiverTypes ==
  /\ disk \in [Paths -> Files]
  /\ version \in [Paths -> Vectors] /\ landed \in [Paths -> SUBSET Nat]
  /\ open \subseteq Paths /\ IsFiniteSet(open) /\ Cardinality(open) <= MaxPendingFiles
  /\ partial \in [Paths -> Partials]
  /\ \A p \in Paths : p \notin open => partial[p] = NoPartial
  /\ finalizing \in Finalizations \union {Nothing}

\* Every block of file i at path p is known.
AllKnown(p, file) == \A i \in DOMAIN file : file[i] # Hole => <<p, i, file[i]>> \in known

\* A block that is written anywhere was known at that place of that path
\* before it was sent.
KnownInv ==
  /\ \A p \in Paths : AllKnown(p, disk[p]) /\ AllKnown(p, partial[p].bytes)
  /\ \A m \in wire : <<m.path, m.index, m.block>> \in known
  /\ \A k \in 1 .. Len(log) : AllKnown(log[k].path, log[k].now)

\* The version v that came with the pushes ks of path p: every count of it was
\* offered by one of them, and none had a version if v is none.
Backed(v, ks, p) ==
  /\ \A k \in ks : k \in 1 .. Len(log) /\ log[k].path = p
  /\ v = NoVersion => \A k \in ks : log[k].vv = NoVersion
  /\ v # NoVersion =>
       \A d \in Devices : \E k \in ks : log[k].vv # NoVersion /\ v[d] <= log[k].vv[d]

\* The pushes behind the version in every temporary file, behind the one that
\* is about to be recorded and behind those on record.
VersionInv ==
  /\ \A p \in Paths : Backed(partial[p].vv, partial[p].from, p)
  /\ \A p \in Paths : landed[p] \subseteq 1 .. Len(log)
  /\ finalizing # Nothing =>
       /\ Backed(finalizing.vv, finalizing.from, finalizing.path)
       /\ finalizing.from # {} /\ finalizing.from \subseteq landed[finalizing.path]
  /\ VersionBacked

\* A message of a push whose source was not saved again.
Faithful(m) ==
  LET u == log[m.push] IN
  /\ m.path = u.path /\ m.total = Cardinality(u.needed) /\ m.vv = u.vv
  /\ Unchanged(u) => m.index \in Sent(u) /\ m.block = u.src[m.index]

\* The file has the bytes of src at the positions got, and elsewhere what was
\* there before.
Overlaid(file, seed, got, src) ==
  /\ \A i \in Positions : i <= Len(file) <=> (i <= Len(seed) \/ \E j \in got : i <= j)
  /\ \A i \in got : file[i] = src[i]
  /\ \A i \in DOMAIN seed : i \notin got => file[i] = seed[i]

\* What is known of a temporary file that one push alone has written to.
Lone(e) ==
  /\ e.from = {} => e.got = {} /\ e.bytes = e.seed
  /\ \A k \in e.from :
       /\ k \in 1 .. Len(log)
       /\ e.from = {k} /\ Unchanged(log[k]) =>
            e.got \subseteq Sent(log[k]) /\ Overlaid(e.bytes, e.seed, e.got, log[k].src)

LoneInv ==
  /\ \A k \in 1 .. Len(log) : Unchanged(log[k]) => log[k].now = log[k].src
  /\ \A m \in wire : Faithful(m)
  /\ \A p \in Paths : Lone(partial[p])

Inv == SenderTypes /\ ReceiverTypes /\ KnownInv /\ VersionInv /\ LoneInv

----------------------------------------------------------------------------
(* Files and versions *)

\* write_chunk_at_offset writes one block and moves no other.
LEMMA WriteAtFile ==
  ASSUME NEW file \in Files, NEW i \in Positions, NEW b \in Blocks
  PROVE  /\ WriteAt(file, i, b) \in Files
         /\ Len(WriteAt(file, i, b)) = IF i > Len(file) THEN i ELSE Len(file)
         /\ DOMAIN WriteAt(file, i, b) = 1 .. Len(WriteAt(file, i, b))
         /\ WriteAt(file, i, b)[i] = b
         /\ \A j \in DOMAIN file : j # i => WriteAt(file, i, b)[j] = file[j]
         /\ \A j \in DOMAIN WriteAt(file, i, b) :
              j # i => WriteAt(file, i, b)[j] = IF j \in DOMAIN file THEN file[j] ELSE Hole
<1> DEFINE n == IF i > Len(file) THEN i ELSE Len(file)
           w == WriteAt(file, i, b)
<1>1. n \in Nat /\ i \in 1 .. n /\ Len(file) \in Nat /\ DOMAIN file = 1 .. Len(file)
      /\ 1 .. Len(file) \subseteq 1 .. n
  BY DEF Files, Positions
<1>2. w = [j \in 1 .. n |-> IF j = i THEN b ELSE IF j <= Len(file) THEN file[j] ELSE Hole]
  BY DEF WriteAt
<1>3. w \in [1 .. n -> Blocks \union {Hole}]
  BY <1>1, <1>2 DEF Files
<1>4. w \in Files /\ Len(w) = n
  BY <1>1, <1>3 DEF Files
<1>5. w[i] = b
  BY <1>1, <1>2
<1>6. \A j \in DOMAIN w : j # i => w[j] = IF j \in DOMAIN file THEN file[j] ELSE Hole
  BY <1>1, <1>2
<1> QED
  BY <1>1, <1>2, <1>4, <1>5, <1>6

\* merge and increment never take a count back (conflict.py).
LEMMA NewVersionGrows ==
  ASSUME NEW old \in Vectors, NEW v \in Offered
  PROVE  NewVersion(old, v) \in Vectors /\ Precedes(old, NewVersion(old, v))
<1>1. CASE v = NoVersion
  BY <1>1, OwnAssumption DEF NewVersion, Increment, Precedes, Vectors
<1>2. CASE v # NoVersion
  BY <1>2 DEF NewVersion, Merge, Larger, Precedes, Vectors, Offered
<1> QED
  BY <1>1, <1>2

\* The digests of a file are finitely many.
LEMMA DigestsFinite ==
  ASSUME NEW file \in Seq(Blocks)
  PROVE  IsFiniteSet(Digests(file))
<1>1. file \in Surjection(DOMAIN file, Digests(file))
  BY DEF Surjection, Digests
<1>2. DOMAIN file = 1 .. Len(file) /\ Len(file) \in Nat
  OBVIOUS
<1>3. IsFiniteSet(DOMAIN file)
  BY <1>2, FS_Interval
<1> QED
  BY <1>1, <1>3, FS_Surjection

----------------------------------------------------------------------------
(* A chunk at the receiver *)

\* The entry the chunk goes to.
LEMMA EntryFacts ==
  ASSUME Inv, NEW m \in wire
  PROVE  /\ Entry(m) \in Partials /\ AllKnown(m.path, Entry(m).bytes) /\ Lone(Entry(m))
         /\ Backed(Entry(m).vv, Entry(m).from, m.path)
         /\ m \in Messages /\ m.path \in Paths
<1>1. m \in Messages /\ m.path \in Paths
  BY DEF Inv, SenderTypes, Messages
<1>2. CASE m.path \in open
  BY <1>1, <1>2 DEF Inv, ReceiverTypes, KnownInv, LoneInv, VersionInv, Entry
<1>3. CASE m.path \notin open
  <2>1. Entry(m) = BeginPartial(m.path) /\ disk[m.path] \in Files
    BY <1>1, <1>3 DEF Entry, Inv, ReceiverTypes
  <2>2. BeginPartial(m.path) \in Partials
    BY <2>1, LimitsAssumption DEF BeginPartial, Partials, Offered
  <2>3. AllKnown(m.path, BeginPartial(m.path).bytes)
    BY <1>1 DEF BeginPartial, Inv, KnownInv
  <2>4. Lone(BeginPartial(m.path))
    BY DEF BeginPartial, Lone
  <2>5. Backed(BeginPartial(m.path).vv, BeginPartial(m.path).from, m.path)
    BY DEF BeginPartial, Backed
  <2> QED
    BY <1>1, <2>1, <2>2, <2>3, <2>4, <2>5
<1> QED
  BY <1>2, <1>3

\* The entry once the chunk is written.
LEMMA ReceivedFacts ==
  ASSUME Inv, NEW m \in wire
  PROVE  /\ Received(m) \in Partials /\ AllKnown(m.path, Received(m).bytes)
         /\ Lone(Received(m)) /\ Received(m).seed = Entry(m).seed
         /\ Backed(Received(m).vv, Received(m).from, m.path) /\ Received(m).from # {}
<1> DEFINE e == Entry(m)
           r == Received(m)
           v == IF m.vv = NoVersion THEN e.vv
                ELSE IF e.vv = NoVersion THEN m.vv ELSE Merge(e.vv, m.vv)
<1>1. /\ e \in Partials /\ AllKnown(m.path, e.bytes) /\ Lone(e)
      /\ m \in Messages /\ m.path \in Paths /\ Backed(e.vv, e.from, m.path)
  BY EntryFacts
<1>2. /\ m.index \in Positions /\ m.block \in Blocks /\ m.vv \in Offered
      /\ m.push \in 1 .. Len(log) /\ m.push \in Nat /\ Faithful(m)
      /\ <<m.path, m.index, m.block>> \in known
  BY <1>1 DEF Messages, Inv, SenderTypes, LoneInv, KnownInv
<1>3. /\ e.bytes \in Files /\ e.got \in SUBSET Positions /\ e.vv \in Offered
      /\ e.seed \in Files /\ e.from \in SUBSET Nat
  BY <1>1 DEF Partials
<1>4. /\ r.bytes = WriteAt(e.bytes, m.index, m.block) /\ r.got = e.got \union {m.index}
      /\ r.vv = v /\ r.idle = 0 /\ r.seed = e.seed /\ r.from = e.from \union {m.push}
      /\ r = [bytes |-> r.bytes, got |-> r.got, vv |-> r.vv, idle |-> r.idle,
              seed |-> r.seed, from |-> r.from]
  <2> HIDE DEF e
  <2>1. r = [e EXCEPT !.bytes = WriteAt(@, m.index, m.block), !.got = @ \union {m.index},
                      !.vv = IF m.vv = NoVersion THEN @
                             ELSE IF @ = NoVersion THEN m.vv ELSE Merge(@, m.vv),
                      !.idle = 0, !.from = @ \union {m.push}]
    BY DEF Received, e
  <2> HIDE DEF r
  <2> QED
    BY <2>1, <1>1 DEF Partials
<1>5. v \in Offered
  BY <1>2, <1>3 DEF Offered, Vectors, Merge, Larger
<1>0. Backed(v, e.from \union {m.push}, m.path)
  <2>1. log[m.push].path = m.path /\ log[m.push].vv = m.vv
    BY <1>2 DEF Faithful
  <2>2. CASE m.vv = NoVersion
    BY <2>1, <2>2, <1>1, <1>2 DEF Backed
  <2>3. CASE m.vv # NoVersion /\ e.vv = NoVersion
    <3>1. m.vv \in [Devices -> Nat] /\ \A d \in Devices : m.vv[d] <= m.vv[d]
      BY <2>3, <1>2 DEF Offered, Vectors
    <3> QED
      BY <2>1, <2>3, <3>1, <1>1, <1>2 DEF Backed
  <2>4. CASE m.vv # NoVersion /\ e.vv # NoVersion
    <3>1. m.vv \in [Devices -> Nat] /\ e.vv \in [Devices -> Nat]
      BY <2>4, <1>2, <1>3 DEF Offered, Vectors
    <3>2. v = Merge(e.vv, m.vv) /\ \A d \in Devices : v[d] \in {e.vv[d], m.vv[d]}
      BY <2>4, <3>1 DEF Merge, Larger
    <3>3. \A d \in Devices : m.vv[d] <= log[m.push].vv[d]
      BY <2>1, <3>1
    <3>4. v # NoVersion
      BY <3>1, <3>2, NoVersionAssumption DEF Merge, Larger
    <3>5. \A d \in Devices : \E k \in e.from \union {m.push} :
            log[k].vv # NoVersion /\ v[d] <= log[k].vv[d]
      BY <2>1, <2>4, <3>2, <3>3, <1>1 DEF Backed
    <3> HIDE DEF v
    <3> QED
      BY <2>1, <3>4, <3>5, <1>1, <1>2 DEF Backed
  <2> QED
    BY <2>2, <2>3, <2>4
<1> HIDE DEF e, r, v
<1>6. r.bytes \in Files
  BY <1>2, <1>3, <1>4, WriteAtFile
<1>7. r \in Partials
  <2>1. 0 \in 0 .. (PartialTimeout + 1)
    BY LimitsAssumption
  <2> QED
    BY <2>1, <1>2, <1>3, <1>4, <1>5, <1>6 DEF Partials
<1>8. /\ r.bytes[m.index] = m.block
      /\ \A j \in DOMAIN r.bytes :
           j # m.index => r.bytes[j] = IF j \in DOMAIN e.bytes THEN e.bytes[j] ELSE Hole
  BY <1>2, <1>3, <1>4, WriteAtFile
<1>9. AllKnown(m.path, r.bytes)
  <2> SUFFICES ASSUME NEW j \in DOMAIN r.bytes, r.bytes[j] # Hole
               PROVE  <<m.path, j, r.bytes[j]>> \in known
    BY DEF AllKnown
  <2>1. CASE j = m.index
    BY <1>2, <1>8, <2>1
  <2>2. CASE j # m.index
    BY <1>1, <1>8, <2>2 DEF AllKnown
  <2> QED
    BY <2>1, <2>2
<1>10. Lone(r)
  <2>1. r.from # {} /\ \A k \in r.from : k \in 1 .. Len(log)
    BY <1>1, <1>2, <1>4 DEF Lone
  <2>2. ASSUME NEW k \in r.from, r.from = {k}, Unchanged(log[k])
        PROVE  r.got \subseteq Sent(log[k]) /\ Overlaid(r.bytes, r.seed, r.got, log[k].src)
    <3>1. m.push = k /\ (e.from = {} \/ e.from = {k})
      BY <2>2, <1>4
    <3>2. m.index \in Sent(log[k]) /\ m.block = log[k].src[m.index]
      BY <3>1, <2>2, <1>2 DEF Faithful
    <3>3. e.got \subseteq Sent(log[k]) /\ Overlaid(e.bytes, e.seed, e.got, log[k].src)
      <4>1. CASE e.from = {}
        <5>1. e.got = {} /\ e.bytes = e.seed
          BY <4>1, <1>1 DEF Lone
        <5>2. Overlaid(e.bytes, e.seed, {}, log[k].src)
          BY <5>1, <1>3 DEF Overlaid
        <5> QED
          BY <5>1, <5>2
      <4>2. CASE e.from = {k}
        BY <4>2, <2>2, <1>1 DEF Lone
      <4> QED
        BY <3>1, <4>1, <4>2
    <3>4. r.got \subseteq Sent(log[k])
      BY <3>2, <3>3, <1>4
    <3>5. Len(r.bytes) = IF m.index > Len(e.bytes) THEN m.index ELSE Len(e.bytes)
      BY <1>2, <1>3, <1>4, WriteAtFile
    <3>6. \A j \in DOMAIN e.bytes : j # m.index => r.bytes[j] = e.bytes[j]
      BY <1>2, <1>3, <1>4, WriteAtFile
    <3>7. \A i \in Positions : i <= Len(r.bytes) <=> (i <= Len(r.seed) \/ \E j \in r.got : i <= j)
      <4> SUFFICES ASSUME NEW i \in Positions
                   PROVE  i <= Len(r.bytes) <=> (i <= Len(r.seed) \/ \E j \in r.got : i <= j)
        OBVIOUS
      <4>1. i <= Len(e.bytes) <=> (i <= Len(e.seed) \/ \E j \in e.got : i <= j)
        BY <3>3 DEF Overlaid
      <4>2. i <= Len(r.bytes) <=> (i <= m.index \/ i <= Len(e.bytes))
        <5>1. Len(e.bytes) \in Nat
          BY <1>3 DEF Files
        <5> QED
          BY <5>1, <3>5, <1>2 DEF Positions
      <4> QED
        BY <4>1, <4>2, <1>4
    <3>8. \A i \in r.got : r.bytes[i] = log[k].src[i]
      <4> SUFFICES ASSUME NEW i \in r.got PROVE r.bytes[i] = log[k].src[i]
        OBVIOUS
      <4>1. CASE i = m.index
        BY <4>1, <3>2, <1>8
      <4>2. CASE i # m.index
        <5>1. i \in e.got /\ i \in Positions
          BY <4>2, <1>3, <1>4
        <5>2. i <= Len(e.bytes) /\ e.bytes[i] = log[k].src[i]
          <6>1. i <= i
            BY <5>1 DEF Positions
          <6> QED
            BY <5>1, <6>1, <3>3 DEF Overlaid
        <5>3. i \in DOMAIN e.bytes
          BY <5>1, <5>2, <1>3 DEF Files, Positions
        <5> QED
          BY <4>2, <5>2, <5>3, <3>6
      <4> QED
        BY <4>1, <4>2
    <3>9. \A i \in DOMAIN r.seed : i \notin r.got => r.bytes[i] = r.seed[i]
      <4> SUFFICES ASSUME NEW i \in DOMAIN e.seed, i \notin r.got
                   PROVE  r.bytes[i] = e.seed[i]
        BY <1>4
      <4>1. i \in Positions /\ i <= Len(e.seed) /\ i # m.index /\ i \notin e.got
        BY <1>3, <1>4 DEF Files, Positions
      <4>2. i <= Len(e.bytes)
        BY <4>1, <3>3 DEF Overlaid
      <4>4. e.bytes[i] = e.seed[i]
        BY <4>1, <3>3 DEF Overlaid
      <4>3. i \in DOMAIN e.bytes
        BY <4>1, <4>2, <1>3 DEF Files, Positions
      <4> QED
        BY <4>1, <4>3, <4>4, <3>6
    <3> QED
      BY <3>4, <3>7, <3>8, <3>9 DEF Overlaid
  <2> QED
    BY <2>1, <2>2 DEF Lone
<1> QED
  BY <1>0, <1>4, <1>7, <1>9, <1>10 DEF r, e

----------------------------------------------------------------------------
(* Parts of the invariant that a step leaves alone *)

\* The log only grows, and a push that is still is as it was.
LogKept ==
  /\ Len(log) <= Len(log')
  /\ \A k \in 1 .. Len(log) :
       /\ log'[k].path = log[k].path /\ log'[k].needed = log[k].needed
       /\ log'[k].vv = log[k].vv
       /\ Unchanged(log'[k]) => log'[k] = log[k]

LEMMA LogUnchanged == SenderTypes /\ UNCHANGED log => LogKept
  BY DEF SenderTypes, LogKept

\* What is known of temporary files and of messages survives.
LEMMA LoneKept ==
  ASSUME SenderTypes, SenderTypes', LogKept, NEW e, Lone(e)
  PROVE  Lone(e)'
<1>1. \A k \in 1 .. Len(log) : k \in 1 .. Len(log')
  BY DEF SenderTypes, LogKept
<1> QED
  BY <1>1 DEF Lone, LogKept

LEMMA FaithfulKept ==
  ASSUME LogKept, NEW m, m.push \in 1 .. Len(log), Faithful(m)
  PROVE  Faithful(m)'
  BY DEF LogKept, Faithful

\* A step of a sender, for the receiver.
LEMMA ReceiverKept ==
  ASSUME ReceiverTypes, VersionInv, UNCHANGED receiverVars,
         SenderTypes, SenderTypes', LogKept
  PROVE  ReceiverTypes' /\ VersionInv'
<1>1. UNCHANGED <<disk, version, open, partial, finalizing, landed>>
  BY DEF receiverVars
<1>2. ReceiverTypes'
  BY <1>1 DEF ReceiverTypes
<1>3. \A k \in 1 .. Len(log) : k \in 1 .. Len(log')
  BY DEF SenderTypes, LogKept
<1>4. \A p \in Paths : Backed(partial[p].vv, partial[p].from, p)'
  BY <1>1, <1>3 DEF VersionInv, Backed, LogKept
<1>5. \A p \in Paths : landed'[p] \subseteq 1 .. Len(log')
  BY <1>1, <1>3 DEF VersionInv
<1>6. finalizing' # Nothing =>
        /\ Backed(finalizing.vv, finalizing.from, finalizing.path)'
        /\ finalizing'.from # {} /\ finalizing'.from \subseteq landed'[finalizing'.path]
  BY <1>1, <1>3 DEF VersionInv, Backed, LogKept
<1>7. VersionBacked'
  BY <1>1 DEF VersionInv, VersionBacked, Offers, LogKept
<1> QED
  BY <1>2, <1>4, <1>5, <1>6, <1>7 DEF VersionInv

\* known only grows.
LEMMA KnownKept ==
  ASSUME NEW p, NEW file, AllKnown(p, file), known \subseteq known'
  PROVE  AllKnown(p, file)'
  BY DEF AllKnown

----------------------------------------------------------------------------
(* The steps of the sender *)

LEMMA StartPushStep ==
  ASSUME Inv, NEW q \in Senders, NEW p \in Paths, NEW file \in Contents, StartPush(q, p, file)
  PROVE  Inv'
<1> DEFINE u == [path |-> p, src |-> file, now |-> file, kept |-> "still",
                 needed |-> NeededHashes(p, file), vv |-> VersionOf[q][p]]
<1>1. /\ log' = Append(log, u)
      /\ cursor' = [cursor EXCEPT ![q] = [push |-> Len(log) + 1, next |-> 1]]
      /\ known' = known \union Places(p, file)
      /\ UNCHANGED <<receiverVars, wire>> /\ UNCHANGED partial /\ UNCHANGED disk
  BY DEF StartPush, receiverVars
<1>2. file \in Seq(Blocks)
  BY ContentsAssumption
<1>3. u \in Pushes /\ IsFiniteSet(u.needed)
  <2>1. NeededHashes(p, file) \in SUBSET Digests(file) /\ IsFiniteSet(Digests(file))
    BY <1>2, DigestsFinite DEF NeededHashes
  <2>2. NeededHashes(p, file) \in SUBSET Blocks
    BY <2>1, <1>2 DEF Digests
  <2>3. VersionOf[q][p] \in Offered
    BY VersionsAssumption DEF Offered, Vectors
  <2>4. IsFiniteSet(NeededHashes(p, file))
    BY <2>1, FS_Subset
  <2> QED
    BY <2>2, <2>3, <2>4 DEF Pushes
<1> HIDE DEF u
<1>4. /\ log \in Seq(Pushes) /\ log' \in Seq(Pushes) /\ Len(log') = Len(log) + 1
      /\ Len(log) \in Nat /\ log'[Len(log) + 1] = u
      /\ \A k \in 1 .. Len(log) : log'[k] = log[k]
  BY <1>1, <1>3 DEF Inv, SenderTypes
<1>5. \A k \in 1 .. Len(log') : k \in 1 .. Len(log) \/ k = Len(log) + 1
  BY <1>4
<1>6. SenderTypes'
  <2>1. cursor' \in [Senders -> [push : Nat, next : Nat]]
    BY <1>1, <1>4 DEF Inv, SenderTypes
  <2>2. \A r \in Senders : cursor'[r] # Idle => cursor'[r].push \in 1 .. Len(log')
    BY <1>1, <1>4 DEF Inv, SenderTypes
  <2>3. \A k \in 1 .. Len(log') : IsFiniteSet(log'[k].needed)
    BY <1>3, <1>4, <1>5 DEF Inv, SenderTypes
  <2>4. \A m \in wire : m.push \in 1 .. Len(log')
    BY <1>4 DEF Inv, SenderTypes
  <2> QED
    BY <1>1, <1>4, <2>1, <2>2, <2>3, <2>4 DEF Inv, SenderTypes
<1>7. LogKept
  BY <1>4 DEF LogKept
<1>8. u.path = p /\ u.src = file /\ u.now = file
  BY DEF u
<1>9. KnownInv'
  <2>1. AllKnown(p, file)'
    BY <1>1 DEF AllKnown, Places
  <2>2. \A k \in 1 .. Len(log') : AllKnown(log[k].path, log[k].now)'
    BY <2>1, <1>1, <1>4, <1>5, <1>8 DEF Inv, KnownInv, AllKnown
  <2>3. \A s \in Paths : AllKnown(s, disk[s])' /\ AllKnown(s, partial[s].bytes)'
    BY <1>1 DEF Inv, KnownInv, AllKnown
  <2> QED
    BY <2>2, <2>3, <1>1 DEF Inv, KnownInv, AllKnown
<1>10. LoneInv'
  <2>1. \A k \in 1 .. Len(log') : Unchanged(log'[k]) => log'[k].now = log'[k].src
    BY <1>4, <1>5, <1>8 DEF Inv, LoneInv
  <2>2. \A m \in wire : Faithful(m)'
    BY <1>7, FaithfulKept DEF Inv, SenderTypes, LoneInv
  <2>3. \A s \in Paths : Lone(partial[s])'
    <3> TAKE s \in Paths
    <3>1. Lone(partial[s]) /\ partial'[s] = partial[s] /\ SenderTypes
      BY <1>1 DEF Inv, LoneInv
    <3> QED
      BY <3>1, <1>1, <1>6, <1>7, LoneKept DEF Lone
  <2> QED
    BY <2>1, <2>2, <2>3, <1>1 DEF LoneInv
<1> QED
  BY <1>1, <1>6, <1>7, <1>9, <1>10, ReceiverKept DEF Inv

LEMMA SourceChangesStep ==
  ASSUME Inv, NEW q \in Senders, NEW file \in Contents, SourceChanges(q, file)
  PROVE  Inv'
<1>0. PICK c \in 1 .. Len(log) : c = cursor[q].push
  BY DEF SourceChanges, Inv, SenderTypes
<1> DEFINE u == [log[c] EXCEPT !.now = file, !.kept = "edited"]
<1>1. /\ c \in 1 .. Len(log) /\ log \in Seq(Pushes)
      /\ log' = [log EXCEPT ![c] = u]
      /\ known' = known \union Places(log[c].path, file)
      /\ UNCHANGED <<receiverVars, wire, cursor>> /\ UNCHANGED partial /\ UNCHANGED disk
  BY <1>0 DEF SourceChanges, Inv, SenderTypes, receiverVars
<1>2. log[c] \in Pushes
  BY <1>1
<1>9. /\ u.path = log[c].path /\ u.src = log[c].src /\ u.now = file
      /\ u.kept = "edited" /\ u.needed = log[c].needed
      /\ u.vv = log[c].vv /\ u \in Pushes
  BY <1>2 DEF Pushes
<1> HIDE DEF u
<1>3. /\ log'[c].path = log[c].path /\ log'[c].src = log[c].src /\ log'[c].now = file
      /\ log'[c].kept = "edited" /\ log'[c].needed = log[c].needed
      /\ log'[c].vv = log[c].vv /\ log'[c] \in Pushes
  BY <1>1, <1>9
<1>4. /\ log' \in Seq(Pushes) /\ Len(log') = Len(log) /\ Len(log) \in Nat
      /\ \A k \in 1 .. Len(log) : k # c => log'[k] = log[k]
  BY <1>1, <1>9, ExceptSeq
<1>5. SenderTypes'
  BY <1>1, <1>3, <1>4 DEF Inv, SenderTypes
<1>6. LogKept
  <2>1. \A k \in 1 .. Len(log) :
          /\ log'[k].path = log[k].path /\ log'[k].needed = log[k].needed
          /\ log'[k].vv = log[k].vv
          /\ Unchanged(log'[k]) => log'[k] = log[k]
    BY <1>1, <1>3, <1>4 DEF Unchanged
  <2> QED
    BY <2>1, <1>4 DEF LogKept
<1>7. KnownInv'
  <2>1. AllKnown(log[c].path, log[c].now)'
    BY <1>1, <1>3 DEF AllKnown, Places
  <2>2. \A k \in 1 .. Len(log') : AllKnown(log[k].path, log[k].now)'
    BY <2>1, <1>1, <1>3, <1>4 DEF Inv, KnownInv, AllKnown
  <2>3. \A s \in Paths : AllKnown(s, disk[s])' /\ AllKnown(s, partial[s].bytes)'
    BY <1>1 DEF Inv, KnownInv, AllKnown
  <2> QED
    BY <2>2, <2>3, <1>1 DEF Inv, KnownInv, AllKnown
<1>8. LoneInv'
  <2>1. \A k \in 1 .. Len(log') : Unchanged(log'[k]) => log'[k].now = log'[k].src
    BY <1>3, <1>4 DEF Inv, LoneInv, Unchanged
  <2>2. \A m \in wire : Faithful(m)'
    BY <1>6, FaithfulKept DEF Inv, SenderTypes, LoneInv
  <2>3. \A s \in Paths : Lone(partial[s])'
    <3> TAKE s \in Paths
    <3>1. Lone(partial[s]) /\ partial'[s] = partial[s] /\ SenderTypes
      BY <1>1 DEF Inv, LoneInv
    <3> QED
      BY <3>1, <1>1, <1>5, <1>6, LoneKept DEF Lone
  <2> QED
    BY <2>1, <2>2, <2>3, <1>1 DEF LoneInv
<1> QED
  BY <1>1, <1>5, <1>6, <1>7, <1>8, ReceiverKept DEF Inv

LEMMA SendChunkStep ==
  ASSUME Inv, NEW q \in Senders, SendChunk(q)
  PROVE  Inv'
<1>1. PICK c \in 1 .. Len(log) : c = cursor[q].push
  BY DEF SendChunk, Inv, SenderTypes
<1>2. PICK i \in Remaining(q) :
        /\ wire' = wire \union
             {[push |-> cursor[q].push, path |-> log[c].path, index |-> i,
               block |-> log[c].now[i], total |-> Cardinality(log[c].needed),
               vv |-> log[c].vv]}
        /\ cursor' = [cursor EXCEPT ![q].next = i + 1]
  BY <1>1 DEF SendChunk
<1> DEFINE m == [push |-> c, path |-> log[c].path, index |-> i, block |-> log[c].now[i],
                 total |-> Cardinality(log[c].needed), vv |-> log[c].vv]
<1>3. /\ UNCHANGED <<receiverVars, log, known>> /\ UNCHANGED partial /\ UNCHANGED disk
      /\ wire' = wire \union {m}
  BY <1>1, <1>2 DEF SendChunk, receiverVars
<1>4. /\ log[c] \in Pushes /\ IsFiniteSet(log[c].needed) /\ log[c].now \in Seq(Blocks)
      /\ AllKnown(log[c].path, log[c].now)
      /\ Unchanged(log[c]) => log[c].now = log[c].src
  <2>1. log[c] \in Pushes
    BY DEF Inv, SenderTypes
  <2>2. log[c].now \in Seq(Blocks)
    BY <2>1, ContentsAssumption DEF Pushes
  <2> QED
    BY <2>1, <2>2 DEF Inv, SenderTypes, KnownInv, LoneInv
<1>5. i \in DOMAIN log[c].now /\ log[c].now[i] \in log[c].needed
  BY <1>1 DEF Remaining
<1>6. i \in Positions /\ log[c].now[i] \in Blocks
  BY <1>4, <1>5 DEF Positions
<1>7. Cardinality(log[c].needed) \in Nat
  BY <1>4, FS_CardinalityType
<1>8. m \in Messages /\ m.push = c
  BY <1>4, <1>6, <1>7 DEF Messages, Pushes
<1>9. <<m.path, m.index, m.block>> \in known
  BY <1>4, <1>5, <1>6, HoleAssumption DEF AllKnown
<1>10. Faithful(m)
  BY <1>4, <1>5 DEF Faithful, Sent
<1> HIDE DEF m
<1>11. SenderTypes'
  <2>1. cursor' \in [Senders -> [push : Nat, next : Nat]]
    <3>1. cursor \in [Senders -> [push : Nat, next : Nat]] /\ i + 1 \in Nat
      BY <1>6 DEF Inv, SenderTypes, Positions
    <3>2. [cursor[q] EXCEPT !.next = i + 1] \in [push : Nat, next : Nat]
      BY <3>1
    <3> QED
      BY <1>2, <3>1, <3>2
  <2>2. \A r \in Senders : cursor'[r] # Idle => cursor'[r].push \in 1 .. Len(log)
    <3> TAKE r \in Senders
    <3>1. CASE r = q
      BY <3>1, <1>1, <1>2 DEF Inv, SenderTypes
    <3>2. CASE r # q
      BY <3>2, <1>2 DEF Inv, SenderTypes
    <3> QED
      BY <3>1, <3>2
  <2> QED
    BY <1>3, <1>8, <2>1, <2>2 DEF Inv, SenderTypes
<1>12. KnownInv'
  BY <1>3, <1>9 DEF Inv, KnownInv, AllKnown
<1>13. LoneInv'
  <2>1. \A n \in wire' : Faithful(n)'
    BY <1>3, <1>10 DEF Inv, LoneInv, Faithful
  <2>2. \A s \in Paths : Lone(partial[s])'
    BY <1>3 DEF Inv, LoneInv, Lone
  <2> QED
    BY <2>1, <2>2, <1>3 DEF Inv, LoneInv
<1>14. LogKept
  BY <1>3 DEF Inv, SenderTypes, LogKept
<1> QED
  BY <1>3, <1>11, <1>12, <1>13, <1>14, ReceiverKept DEF Inv

\* The steps that at most take a message off the wire or free a cursor.
LEMMA QuietSteps ==
  ASSUME Inv, UNCHANGED <<receiverVars, log, known>>, wire' \subseteq wire,
         \/ UNCHANGED cursor
         \/ \E q \in Senders : cursor' = [cursor EXCEPT ![q] = Idle]
  PROVE  Inv'
<1>1. UNCHANGED partial /\ UNCHANGED disk
  BY DEF receiverVars
<1>2. SenderTypes'
  <2>1. CASE UNCHANGED cursor
    BY <2>1 DEF Inv, SenderTypes
  <2>2. ASSUME NEW q \in Senders, cursor' = [cursor EXCEPT ![q] = Idle]
        PROVE  SenderTypes'
    BY <2>2 DEF Inv, SenderTypes, Idle
  <2> QED
    BY <2>1, <2>2
<1>3. KnownInv'
  BY <1>1 DEF Inv, KnownInv, AllKnown
<1>4. LoneInv'
  BY <1>1 DEF Inv, LoneInv, Lone, Faithful
<1>5. LogKept
  BY DEF Inv, SenderTypes, LogKept
<1> QED
  BY <1>2, <1>3, <1>4, <1>5, ReceiverKept DEF Inv

----------------------------------------------------------------------------
(* The steps of the receiver *)

\* A chunk goes into a temporary file, or fails to.
LEMMA PartialStep ==
  ASSUME Inv, NEW m \in wire, Room(m.path),
         NEW e \in Partials, AllKnown(m.path, e.bytes), Lone(e),
         Backed(e.vv, e.from, m.path),
         open' = open \union {m.path}, partial' = [partial EXCEPT ![m.path] = e],
         wire' = wire \ {m},
         UNCHANGED <<disk, version, finalizing, landed, log, cursor, known>>
  PROVE  Inv'
<1>1. /\ m.path \in Paths
      /\ \A p \in Paths : partial'[p] = IF p = m.path THEN e ELSE partial[p]
      /\ partial' \in [Paths -> Partials]
  BY DEF Inv, SenderTypes, Messages, ReceiverTypes
<1>2. SenderTypes'
  BY DEF Inv, SenderTypes
<1>3. ReceiverTypes'
  <2>1. IsFiniteSet(open) /\ Cardinality(open) \in Nat /\ Cardinality(open) <= MaxPendingFiles
    BY FS_CardinalityType DEF Inv, ReceiverTypes
  <2>2. IsFiniteSet(open') /\ Cardinality(open') <= MaxPendingFiles
    <3>1. CASE m.path \in open
      <4>1. open' = open
        BY <3>1
      <4> QED
        BY <2>1, <4>1
    <3>2. CASE m.path \notin open
      <4>1. Cardinality(open) < MaxPendingFiles
        BY <3>2 DEF Room
      <4>2. IsFiniteSet(open') /\ Cardinality(open') = Cardinality(open) + 1
        BY <2>1, <3>2, FS_AddElement
      <4> QED
        BY <2>1, <4>1, <4>2, LimitsAssumption
    <3> QED
      BY <3>1, <3>2
  <2> QED
    BY <1>1, <2>2 DEF Inv, ReceiverTypes
<1>4. KnownInv'
  BY <1>1 DEF Inv, KnownInv, AllKnown
<1>5. VersionInv'
  <2>1. \A p \in Paths : Backed(partial[p].vv, partial[p].from, p)'
    BY <1>1 DEF Inv, VersionInv, Backed
  <2> QED
    BY <2>1 DEF Inv, VersionInv, VersionBacked, Offers, Backed
<1>6. LoneInv'
  <2>1. \A p \in Paths : Lone(partial[p])'
    BY <1>1 DEF Inv, LoneInv, Lone
  <2>2. \A n \in wire' : Faithful(n)'
    BY DEF Inv, LoneInv, Faithful
  <2> QED
    BY <2>1, <2>2 DEF Inv, LoneInv
<1> QED
  BY <1>2, <1>3, <1>4, <1>5, <1>6 DEF Inv

\* Temporary files go away, or only their idle times change.
LEMMA FewerPartials ==
  ASSUME Inv, open' \subseteq open, partial' \in [Paths -> Partials],
         \A p \in Paths :
           \/ partial'[p] = NoPartial
           \/ p \in open' /\ \E n \in 0 .. (PartialTimeout + 1) :
                partial'[p] = [partial[p] EXCEPT !.idle = n],
         UNCHANGED <<log, cursor, known>>, wire' \subseteq wire
  PROVE  /\ SenderTypes' /\ LoneInv'
         /\ IsFiniteSet(open') /\ Cardinality(open') <= MaxPendingFiles
         /\ \A p \in Paths : AllKnown(p, partial[p].bytes)'
         /\ \A p \in Paths : Backed(partial[p].vv, partial[p].from, p)'
         /\ \A p \in Paths : p \notin open' => partial'[p] = NoPartial
<1>1. IsFiniteSet(open) /\ Cardinality(open) \in Nat /\ Cardinality(open) <= MaxPendingFiles
  BY FS_CardinalityType DEF Inv, ReceiverTypes
<1>2. IsFiniteSet(open') /\ Cardinality(open') <= MaxPendingFiles
  <2>1. IsFiniteSet(open') /\ Cardinality(open') <= Cardinality(open)
    BY <1>1, FS_Subset
  <2>2. Cardinality(open') \in Nat
    BY <2>1, FS_CardinalityType
  <2> QED
    BY <1>1, <2>1, <2>2, LimitsAssumption
<1>3. \A p \in Paths :
        \/ partial'[p] = NoPartial
        \/ /\ partial'[p].bytes = partial[p].bytes /\ partial'[p].seed = partial[p].seed
           /\ partial'[p].got = partial[p].got /\ partial'[p].from = partial[p].from
           /\ partial'[p].vv = partial[p].vv
  BY DEF Inv, ReceiverTypes, Partials
<1>4. \A p \in Paths : AllKnown(p, partial[p].bytes)'
  BY <1>3 DEF Inv, KnownInv, AllKnown, NoPartial
<1>5. \A p \in Paths : Lone(partial[p])'
  <2> TAKE p \in Paths
  <2>1. CASE partial'[p] = NoPartial
    BY <2>1 DEF Lone, NoPartial
  <2>2. CASE partial'[p] # NoPartial
    BY <2>2, <1>3 DEF Inv, LoneInv, Lone
  <2> QED
    BY <2>1, <2>2
<1>6. SenderTypes'
  BY DEF Inv, SenderTypes
<1>7. LoneInv'
  BY <1>5 DEF Inv, LoneInv, Faithful
<1>8. \A p \in Paths : Backed(partial[p].vv, partial[p].from, p)'
  <2> TAKE p \in Paths
  <2>1. CASE partial'[p] = NoPartial
    BY <2>1 DEF Backed, NoPartial
  <2>2. CASE partial'[p] # NoPartial
    BY <2>2, <1>3 DEF Inv, VersionInv, Backed
  <2> QED
    BY <2>1, <2>2
<1> QED
  BY <1>2, <1>4, <1>6, <1>7, <1>8

\* The last chunk: the temporary file takes the place of the file.
LEMMA CommitStep ==
  ASSUME Inv, NEW m \in wire, Deliver(m), CommitFile(m)
  PROVE  Inv'
<1> DEFINE r == Received(m)
<1>1. /\ r \in Partials /\ AllKnown(m.path, r.bytes) /\ m.path \in Paths
      /\ Entry(m) \in Partials /\ Backed(r.vv, r.from, m.path) /\ r.from # {}
  BY ReceivedFacts, EntryFacts
<1>2. /\ open' = open \ {m.path} /\ partial' = [partial EXCEPT ![m.path] = NoPartial]
      /\ disk' = [disk EXCEPT ![m.path] = r.bytes]
      /\ finalizing' = [path |-> m.path, vv |-> r.vv, seed |-> Entry(m).seed, from |-> r.from]
      /\ landed' = [landed EXCEPT ![m.path] = @ \union r.from]
      /\ wire' = wire \ {m}
      /\ UNCHANGED <<version, log, cursor, known>>
  BY DEF Deliver, CommitFile
<1>3. /\ r.bytes \in Files /\ r.vv \in Offered /\ r.from \in SUBSET Nat
      /\ Entry(m).seed \in Files
  BY <1>1 DEF Partials
<1>5. NoPartial \in Partials
  BY LimitsAssumption DEF NoPartial, Partials, Files, Offered
<1>6. partial' \in [Paths -> Partials]
  BY <1>1, <1>2, <1>5 DEF Inv, ReceiverTypes
<1> HIDE DEF r
<1>7. \A p \in Paths :
        \/ partial'[p] = NoPartial
        \/ p \in open' /\ \E n \in 0 .. (PartialTimeout + 1) :
             partial'[p] = [partial[p] EXCEPT !.idle = n]
  <2> TAKE p \in Paths
  <2>1. CASE p = m.path
    BY <2>1, <1>1, <1>2 DEF Inv, ReceiverTypes
  <2>2. CASE p # m.path /\ p \in open
    <3>1. partial'[p] = partial[p] /\ partial[p] \in Partials /\ p \in open'
      BY <2>2, <1>2 DEF Inv, ReceiverTypes
    <3>2. partial[p] = [partial[p] EXCEPT !.idle = partial[p].idle]
          /\ partial[p].idle \in 0 .. (PartialTimeout + 1)
      BY <3>1 DEF Partials
    <3> QED
      BY <3>1, <3>2
  <2>3. CASE p # m.path /\ p \notin open
    BY <2>3, <1>2 DEF Inv, ReceiverTypes
  <2> QED
    BY <2>1, <2>2, <2>3
<1>8. /\ SenderTypes' /\ LoneInv'
      /\ IsFiniteSet(open') /\ Cardinality(open') <= MaxPendingFiles
      /\ \A p \in Paths : AllKnown(p, partial[p].bytes)'
      /\ \A p \in Paths : Backed(partial[p].vv, partial[p].from, p)'
      /\ \A p \in Paths : p \notin open' => partial'[p] = NoPartial
  BY <1>2, <1>6, <1>7, FewerPartials
<1>9. finalizing' \in Finalizations
  BY <1>1, <1>2, <1>3 DEF Finalizations
<1>10. ReceiverTypes'
  <2>1. disk' \in [Paths -> Files]
    BY <1>2, <1>3 DEF Inv, ReceiverTypes
  <2>2. landed' \in [Paths -> SUBSET Nat]
    BY <1>2, <1>3 DEF Inv, ReceiverTypes
  <2> QED
    BY <2>1, <2>2, <1>2, <1>6, <1>8, <1>9 DEF Inv, ReceiverTypes
<1>11. KnownInv'
  <2>1. \A p \in Paths : AllKnown(p, disk[p])'
    BY <1>1, <1>2 DEF Inv, ReceiverTypes, KnownInv, AllKnown
  <2> QED
    BY <2>1, <1>2, <1>8 DEF Inv, KnownInv, AllKnown
<1>12. VersionInv'
  <2>1. /\ landed'[m.path] = landed[m.path] \union r.from
        /\ \A p \in Paths : p # m.path => landed'[p] = landed[p]
    BY <1>1, <1>2 DEF Inv, ReceiverTypes
  <2>2. \A p \in Paths : landed[p] \subseteq landed'[p] /\ landed'[p] \subseteq 1 .. Len(log)
    BY <2>1, <1>1 DEF Inv, VersionInv, Backed
  <2>3. VersionBacked'
    BY <2>2, <1>2 DEF Inv, VersionInv, VersionBacked, Offers
  <2>4. finalizing'.path = m.path /\ finalizing'.vv = r.vv /\ finalizing'.from = r.from
    BY <1>2
  <2>5. log' = log /\ Backed(r.vv, r.from, m.path)
    BY <1>1, <1>2
  <2> HIDE DEF r
  <2>6. Backed(finalizing.vv, finalizing.from, finalizing.path)'
    BY <2>4, <2>5 DEF Backed
  <2>7. \A p \in Paths : landed'[p] \subseteq 1 .. Len(log')
    BY <2>2, <1>2
  <2>8. finalizing'.from # {} /\ finalizing'.from \subseteq landed'[finalizing'.path]
    BY <2>1, <2>4, <1>1
  <2> QED
    BY <2>3, <2>6, <2>7, <2>8, <1>8 DEF VersionInv
<1> QED
  BY <1>8, <1>10, <1>11, <1>12 DEF Inv

\* Every outcome of a chunk.
LEMMA DeliverStep ==
  ASSUME Inv, NEW m \in wire, Deliver(m)
  PROVE  Inv'
<1>1. /\ wire' = wire \ {m} /\ UNCHANGED <<log, cursor, known>>
      /\ Received(m) \in Partials /\ AllKnown(m.path, Received(m).bytes) /\ Lone(Received(m))
      /\ Entry(m) \in Partials /\ AllKnown(m.path, Entry(m).bytes) /\ Lone(Entry(m))
      /\ Backed(Received(m).vv, Received(m).from, m.path)
      /\ Backed(Entry(m).vv, Entry(m).from, m.path)
  BY EntryFacts, ReceivedFacts DEF Deliver
<1>2. CASE WriteChunk(m) \/ CommitFails(m)
  BY <1>1, <1>2, PartialStep DEF WriteChunk, CommitFails, Handles
<1>3. CASE CommitFile(m)
  BY <1>3, CommitStep
<1>4. CASE WriteFails(m)
  <2> DEFINE e == [Entry(m) EXCEPT !.idle = 0]
  <2>1. /\ e \in Partials /\ e.bytes = Entry(m).bytes /\ e.seed = Entry(m).seed
        /\ e.got = Entry(m).got /\ e.from = Entry(m).from /\ e.vv = Entry(m).vv
    BY <1>1, LimitsAssumption DEF Partials
  <2>2. /\ Room(m.path) /\ open' = open \union {m.path}
        /\ partial' = [partial EXCEPT ![m.path] = e]
        /\ UNCHANGED <<disk, version, finalizing, landed>>
    BY <1>4 DEF WriteFails, Handles
  <2> HIDE DEF e
  <2>3. AllKnown(m.path, e.bytes) /\ Lone(e) /\ Backed(e.vv, e.from, m.path)
    BY <1>1, <2>1 DEF AllKnown, Lone
  <2> QED
    BY <1>1, <2>1, <2>2, <2>3, PartialStep
<1> QED
  BY <1>2, <1>3, <1>4 DEF Deliver

\* The counts of the version that is recorded are old ones, or were offered by
\* a push whose chunk is in the file.
LEMMA NewVersionBacked ==
  ASSUME NEW old \in Vectors, NEW v \in Offered, NEW ks, NEW p, ks # {},
         Backed(v, ks, p), NEW d \in Devices
  PROVE  \/ NewVersion(old, v)[d] = old[d]
         \/ \E k \in ks : log[k].path = p /\ Offers(k, d, NewVersion(old, v)[d])
<1>1. CASE v = NoVersion
  <2>1. CASE d = Own
    <3>1. PICK k \in ks : log[k].path = p /\ log[k].vv = NoVersion
      BY <1>1 DEF Backed
    <3> QED
      BY <2>1, <3>1 DEF Offers
  <2>2. CASE d # Own
    BY <1>1, <2>2 DEF NewVersion, Increment, Vectors
  <2> QED
    BY <2>1, <2>2
<1>2. CASE v # NoVersion
  <2>1. v \in [Devices -> Nat] /\ old \in [Devices -> Nat]
    BY <1>2 DEF Offered, Vectors
  <2>2. NewVersion(old, v)[d] \in {old[d], v[d]}
    BY <1>2, <2>1 DEF NewVersion, Merge, Larger
  <2>3. PICK k \in ks : log[k].path = p /\ log[k].vv # NoVersion /\ v[d] <= log[k].vv[d]
    BY <1>2 DEF Backed
  <2> QED
    BY <2>2, <2>3 DEF Offers
<1> QED
  BY <1>1, <1>2

\* The metadata is saved: the version catches up with the file.
LEMMA SaveMetadataStep ==
  ASSUME Inv, SaveMetadata, UNCHANGED senderVars
  PROVE  Inv' /\ \A p \in Paths : Precedes(version[p], version'[p])
<1>1. /\ finalizing \in Finalizations /\ finalizing' = Nothing
      /\ version' = [version EXCEPT ![finalizing.path] = NewVersion(@, finalizing.vv)]
      /\ Backed(finalizing.vv, finalizing.from, finalizing.path)
      /\ finalizing.from # {} /\ finalizing.from \subseteq landed[finalizing.path]
      /\ UNCHANGED <<disk, open, partial, landed>> /\ UNCHANGED <<log, cursor, wire, known>>
  BY DEF SaveMetadata, senderVars, Inv, ReceiverTypes, VersionInv
<1>2. finalizing.path \in Paths /\ finalizing.vv \in Offered
  BY <1>1 DEF Finalizations
<1>3. /\ version[finalizing.path] \in Vectors
      /\ NewVersion(version[finalizing.path], finalizing.vv) \in Vectors
      /\ Precedes(version[finalizing.path], NewVersion(version[finalizing.path], finalizing.vv))
  BY <1>2, NewVersionGrows DEF Inv, ReceiverTypes
<1>4. /\ version'[finalizing.path] = NewVersion(version[finalizing.path], finalizing.vv)
      /\ version' \in [Paths -> Vectors]
      /\ \A p \in Paths : p # finalizing.path => version'[p] = version[p]
  BY <1>1, <1>2, <1>3 DEF Inv, ReceiverTypes
<1>5. \A w \in Vectors : Precedes(w, w)
  BY DEF Precedes, Vectors
<1>6. \A p \in Paths : version[p] \in Vectors
  BY DEF Inv, ReceiverTypes
<1>7. ReceiverTypes'
  BY <1>1, <1>4 DEF Inv, ReceiverTypes
<1>8. VersionBacked'
  <2> SUFFICES ASSUME NEW p \in Paths, NEW d \in Devices, version'[p][d] > FirstVersion[p][d]
               PROVE  \E k \in landed'[p] : log'[k].path = p /\ Offers(k, d, version[p][d])'
    BY DEF VersionBacked
  <2>1. version[p][d] > FirstVersion[p][d] =>
          \E k \in landed[p] : log[k].path = p /\ Offers(k, d, version[p][d])
    BY DEF Inv, VersionInv, VersionBacked
  <2>2. CASE version'[p][d] = version[p][d]
    BY <2>1, <2>2, <1>1 DEF Offers
  <2>3. CASE version'[p][d] # version[p][d]
    <3>1. p = finalizing.path
      BY <2>3, <1>4
    <3>2. PICK k \in finalizing.from : log[k].path = p /\ Offers(k, d, version'[p][d])
      BY <2>3, <3>1, <1>1, <1>2, <1>3, <1>4, NewVersionBacked
    <3> QED
      BY <3>1, <3>2, <1>1 DEF Offers
  <2> QED
    BY <2>2, <2>3
<1>9. VersionInv'
  BY <1>1, <1>8 DEF Inv, VersionInv, Backed
<1>10. SenderTypes' /\ KnownInv' /\ LoneInv'
  BY <1>1 DEF Inv, SenderTypes, KnownInv, AllKnown, LoneInv, Lone, Faithful
<1>11. \A p \in Paths : Precedes(version[p], version'[p])
  BY <1>1, <1>3, <1>4, <1>5, <1>6
<1> QED
  BY <1>7, <1>9, <1>10, <1>11 DEF Inv

\* The sweeper, the clock and a restart.
LEMMA TimeSteps ==
  ASSUME Inv, Sweep \/ Tick \/ ReceiverRestart, UNCHANGED senderVars
  PROVE  Inv'
<1>1. /\ UNCHANGED <<log, cursor, wire, known>> /\ UNCHANGED <<disk, version, landed>>
      /\ finalizing' \in {finalizing, Nothing} /\ open' \subseteq open
  BY DEF Sweep, Tick, ReceiverRestart, senderVars
<1>2. NoPartial \in Partials
  BY LimitsAssumption DEF NoPartial, Partials, Files, Offered
<1>3. \A p \in Paths : partial[p] \in Partials /\ (p \notin open => partial[p] = NoPartial)
  BY DEF Inv, ReceiverTypes
<1>4. \A p \in Paths :
        /\ partial[p].idle \in 0 .. (PartialTimeout + 1)
        /\ partial[p] = [partial[p] EXCEPT !.idle = partial[p].idle]
  BY <1>3 DEF Partials
<1>5. /\ \A p \in Paths :
           \/ partial'[p] = NoPartial
           \/ p \in open' /\ \E n \in 0 .. (PartialTimeout + 1) :
                partial'[p] = [partial[p] EXCEPT !.idle = n]
      /\ partial' = [p \in Paths |-> partial'[p]]
  <2>1. CASE Sweep
    <3>1. \A p \in Paths : partial'[p] = IF p \in Expired THEN NoPartial ELSE partial[p]
      BY <2>1 DEF Sweep
    <3>2. open' = open \ Expired /\ partial' = [p \in Paths |-> partial'[p]]
      BY <2>1 DEF Sweep
    <3> QED
      BY <3>1, <3>2, <1>3, <1>4
  <2>2. CASE Tick
    <3>1. \A p \in Paths :
            partial'[p] = IF p \in open /\ partial[p].idle <= PartialTimeout
                          THEN [partial[p] EXCEPT !.idle = @ + 1] ELSE partial[p]
      BY <2>2 DEF Tick
    <3>2. open' = open /\ partial' = [p \in Paths |-> partial'[p]]
      BY <2>2 DEF Tick
    <3>3. \A p \in Paths : partial[p].idle <= PartialTimeout =>
            partial[p].idle + 1 \in 0 .. (PartialTimeout + 1)
      <4> TAKE p \in Paths
      <4>1. PICK n \in 0 .. (PartialTimeout + 1) : n = partial[p].idle
        BY <1>4
      <4>2. n <= PartialTimeout => n + 1 \in 0 .. (PartialTimeout + 1)
        BY LimitsAssumption
      <4> QED
        BY <4>1, <4>2
    <3>4. \A p \in Paths : p \in open =>
            \E n \in 0 .. (PartialTimeout + 1) : partial'[p] = [partial[p] EXCEPT !.idle = n]
      <4> TAKE p \in Paths
      <4> HAVE p \in open
      <4>1. CASE partial[p].idle <= PartialTimeout
        <5>1. partial'[p] = [partial[p] EXCEPT !.idle = partial[p].idle + 1]
          BY <4>1, <3>1, <1>3 DEF Partials
        <5> QED
          BY <4>1, <5>1, <3>3
      <4>2. CASE ~(partial[p].idle <= PartialTimeout)
        <5>1. partial'[p] = [partial[p] EXCEPT !.idle = partial[p].idle]
          BY <4>2, <3>1, <1>4
        <5> QED
          BY <5>1, <1>4
      <4> QED
        BY <4>1, <4>2
    <3> QED
      BY <3>1, <3>2, <3>4, <1>3
  <2>3. CASE ReceiverRestart
    BY <2>3 DEF ReceiverRestart
  <2> QED
    BY <2>1, <2>2, <2>3
<1>6. partial' \in [Paths -> Partials]
  <2>1. \A p \in Paths, n \in 0 .. (PartialTimeout + 1) :
          [partial[p] EXCEPT !.idle = n] \in Partials
    BY <1>3 DEF Partials
  <2>2. \A p \in Paths : partial'[p] \in Partials
    BY <2>1, <1>2, <1>5
  <2> QED
    BY <2>2, <1>5
<1>7. /\ SenderTypes' /\ LoneInv'
      /\ IsFiniteSet(open') /\ Cardinality(open') <= MaxPendingFiles
      /\ \A p \in Paths : AllKnown(p, partial[p].bytes)'
      /\ \A p \in Paths : Backed(partial[p].vv, partial[p].from, p)'
      /\ \A p \in Paths : p \notin open' => partial'[p] = NoPartial
  BY <1>1, <1>5, <1>6, FewerPartials
<1>8. ReceiverTypes'
  BY <1>1, <1>6, <1>7 DEF Inv, ReceiverTypes
<1>9. KnownInv'
  BY <1>1, <1>7 DEF Inv, KnownInv, AllKnown
<1>10. VersionInv'
  <2>1. VersionBacked'
    BY <1>1 DEF Inv, VersionInv, VersionBacked, Offers
  <2> QED
    BY <2>1, <1>1, <1>7 DEF Inv, VersionInv, Backed
<1> QED
  BY <1>7, <1>8, <1>9, <1>10 DEF Inv

\* The user of the receiving device saves a file.
LEMMA UserSavesStep ==
  ASSUME Inv, NEW p \in Paths, NEW file \in Contents, UserSaves(p, file)
  PROVE  Inv'
<1>1. /\ disk' = [disk EXCEPT ![p] = file] /\ known' = known \union Places(p, file)
      /\ UNCHANGED <<version, open, partial, finalizing, landed>>
      /\ UNCHANGED <<log, cursor, wire>>
  BY DEF UserSaves, LocalSave
<1>2. file \in Files
  BY ContentsAssumption DEF Files
<1>3. AllKnown(p, file)'
  BY <1>1 DEF AllKnown, Places
<1>4. ReceiverTypes'
  BY <1>1, <1>2 DEF Inv, ReceiverTypes
<1>5. KnownInv'
  <2>1. \A s \in Paths : AllKnown(s, disk[s])'
    <3> TAKE s \in Paths
    <3>1. CASE s = p
      <4>1. disk'[s] = file
        BY <3>1, <1>1 DEF Inv, ReceiverTypes
      <4> QED
        BY <3>1, <4>1, <1>3 DEF AllKnown
    <3>2. CASE s # p
      <4>1. disk'[s] = disk[s]
        BY <3>2, <1>1 DEF Inv, ReceiverTypes
      <4> QED
        BY <4>1, <1>1 DEF Inv, KnownInv, AllKnown
    <3> QED
      BY <3>1, <3>2
  <2> QED
    BY <2>1, <1>1 DEF Inv, KnownInv, AllKnown
<1>6. SenderTypes' /\ LoneInv'
  BY <1>1 DEF Inv, SenderTypes, LoneInv, Lone, Faithful
<1>7. VersionInv'
  BY <1>1 DEF Inv, VersionInv, VersionBacked, Offers, Backed
<1> QED
  BY <1>4, <1>5, <1>6, <1>7 DEF Inv

----------------------------------------------------------------------------
(* A push that is alone *)

\* A push sends no more chunks than total_chunks, when its blocks are distinct.
LEMMA SentBounded ==
  ASSUME NEW u \in Pushes, IsFiniteSet(u.needed), Distinct(u)
  PROVE  IsFiniteSet(Sent(u)) /\ Cardinality(Sent(u)) <= Cardinality(u.needed)
<1> DEFINE f == [i \in Sent(u) |-> u.src[i]]
<1>1. f \in Injection(Sent(u), u.needed)
  BY DEF Injection, Sent, Distinct, IsInjective
<1> QED
  BY <1>1, FS_Injection

\* When the receiver has as many positions as the push sends, it has them all,
\* and the temporary file is the sender's.
LEMMA CommitExact ==
  ASSUME Inv, NEW m \in wire, Complete(m), NEW k \in Received(m).from,
         Received(m).from = {k}, Unchanged(log[k]), Distinct(log[k]),
         InPlace(log[k], Entry(m).seed)
  PROVE  Received(m).bytes = log[k].src
<1> DEFINE r == Received(m)
           u == log[k]
<1>1. /\ r \in Partials /\ Lone(r) /\ r.seed = Entry(m).seed /\ Entry(m) \in Partials
      /\ m \in Messages
  BY ReceivedFacts, EntryFacts
<1>2. k \in 1 .. Len(log) /\ r.got \subseteq Sent(u) /\ Overlaid(r.bytes, r.seed, r.got, u.src)
  BY <1>1 DEF Lone
<1>3. u \in Pushes /\ IsFiniteSet(u.needed)
  BY <1>2 DEF Inv, SenderTypes
<1>4. m.push = k
  BY <1>1 DEF Received, Partials
<1>5. Cardinality(r.got) >= Cardinality(u.needed)
  BY <1>4 DEF Complete, Inv, LoneInv, Faithful
<1>6. r.got = Sent(u)
  <2>1. IsFiniteSet(Sent(u)) /\ Cardinality(Sent(u)) <= Cardinality(u.needed)
    BY <1>3, SentBounded
  <2>2. IsFiniteSet(r.got) /\ Cardinality(r.got) <= Cardinality(Sent(u))
    BY <1>2, <2>1, FS_Subset
  <2>3. /\ Cardinality(r.got) \in Nat /\ Cardinality(Sent(u)) \in Nat
        /\ Cardinality(u.needed) \in Nat
    BY <2>1, <2>2, <1>3, FS_CardinalityType
  <2>4. Cardinality(r.got) = Cardinality(Sent(u))
    BY <2>1, <2>2, <2>3, <1>5
  <2> QED
    BY <2>1, <2>4, <1>2, FS_Subset
<1>7. /\ u.src \in Seq(Blocks) /\ r.bytes \in Files /\ r.seed \in Files
      /\ Len(r.seed) <= Len(u.src)
      /\ \A i \in DOMAIN u.src \ Sent(u) : i <= Len(r.seed) /\ r.seed[i] = u.src[i]
  <2>1. u.src \in Seq(Blocks)
    BY <1>3, ContentsAssumption DEF Pushes
  <2>2. r.bytes \in Files /\ r.seed \in Files
    BY <1>1 DEF Partials
  <2> QED
    BY <2>1, <2>2, <1>1 DEF InPlace
<1> HIDE DEF r, u
<1>8. /\ DOMAIN u.src = 1 .. Len(u.src) /\ Len(u.src) \in Nat
      /\ DOMAIN r.bytes = 1 .. Len(r.bytes) /\ Len(r.bytes) \in Nat
      /\ DOMAIN r.seed = 1 .. Len(r.seed) /\ Len(r.seed) \in Nat
      /\ Sent(u) \subseteq 1 .. Len(u.src)
  BY <1>7 DEF Files, Sent
<1>9. \A i \in Positions : i <= Len(r.bytes) <=> i <= Len(u.src)
  <2> TAKE i \in Positions
  <2>1. i <= Len(r.bytes) <=> (i <= Len(r.seed) \/ \E j \in Sent(u) : i <= j)
    BY <1>2, <1>6 DEF Overlaid
  <2>2. i <= Len(u.src) => (i <= Len(r.seed) \/ \E j \in Sent(u) : i <= j)
    <3>1. CASE i \in Sent(u)
      <4>1. i <= i
        BY DEF Positions
      <4> QED
        BY <3>1, <4>1
    <3>2. CASE i \notin Sent(u)
      BY <3>2, <1>7, <1>8 DEF Positions
    <3> QED
      BY <3>1, <3>2
  <2>3. (i <= Len(r.seed) \/ \E j \in Sent(u) : i <= j) => i <= Len(u.src)
    BY <1>7, <1>8 DEF Positions
  <2> QED
    BY <2>1, <2>2, <2>3
<1>10. Len(r.bytes) = Len(u.src)
  <2>1. Len(r.bytes) = 0 \/ Len(r.bytes) \in Positions
    BY <1>8 DEF Positions
  <2>2. Len(u.src) = 0 \/ Len(u.src) \in Positions
    BY <1>8 DEF Positions
  <2>3. Len(r.bytes) \in Positions => Len(r.bytes) <= Len(u.src)
    BY <1>8, <1>9
  <2>4. Len(u.src) \in Positions => Len(u.src) <= Len(r.bytes)
    BY <1>8, <1>9
  <2> QED
    BY <2>1, <2>2, <2>3, <2>4, <1>8
<1>11. \A i \in 1 .. Len(r.bytes) : r.bytes[i] = u.src[i]
  <2> TAKE i \in 1 .. Len(r.bytes)
  <2>1. CASE i \in Sent(u)
    BY <2>1, <1>2, <1>6 DEF Overlaid
  <2>2. CASE i \notin Sent(u)
    <3>1. i \in DOMAIN u.src \ Sent(u) /\ i \in 1 .. Len(r.bytes)
      BY <2>2, <1>8, <1>10
    <3>2. i <= Len(r.seed) /\ r.seed[i] = u.src[i]
      BY <3>1, <1>7
    <3>3. i \in DOMAIN r.seed
      BY <3>1, <3>2, <1>8
    <3> QED
      BY <2>2, <3>2, <3>3, <1>2, <1>6 DEF Overlaid
  <2> QED
    BY <2>1, <2>2
<1>12. u.src \in Seq(Blocks \union {Hole}) /\ r.bytes \in Seq(Blocks \union {Hole})
  BY <1>7 DEF Files
<1>13. r.bytes = u.src
  BY <1>10, <1>11, <1>12, SeqEqual
<1> QED
  BY <1>13 DEF r, u

----------------------------------------------------------------------------
(* The theorems *)

LEMMA InvInitial == Init => Inv
<1> SUFFICES ASSUME Init PROVE Inv
  OBVIOUS
<1>1. NoPartial \in Partials
  BY LimitsAssumption DEF NoPartial, Partials, Files, Offered
<1>2. SenderTypes
  BY DEF Init, SenderTypes, Idle
<1>3. ReceiverTypes
  <2>1. IsFiniteSet({}) /\ Cardinality({}) = 0
    BY FS_EmptySet
  <2>2. disk \in [Paths -> Files]
    BY DEF Init, ReceiverInit, Files
  <2> QED
    BY <1>1, <2>1, <2>2, LimitsAssumption, FirstVersionAssumption
    DEF Init, ReceiverInit, ReceiverTypes, Vectors
<1>4. KnownInv
  BY DEF Init, ReceiverInit, KnownInv, AllKnown, NoPartial
<1>5. VersionInv
  <2>1. \A p \in Paths, d \in Devices : ~(version[p][d] > FirstVersion[p][d])
    <3>1. \A p \in Paths, d \in Devices : FirstVersion[p][d] \in Nat
      BY FirstVersionAssumption
    <3> QED
      BY <3>1 DEF Init, ReceiverInit
  <2> QED
    BY <2>1 DEF Init, ReceiverInit, VersionInv, VersionBacked, Backed, NoPartial
<1>6. LoneInv
  BY DEF Init, ReceiverInit, LoneInv, Lone, NoPartial
<1> QED
  BY <1>2, <1>3, <1>4, <1>5, <1>6 DEF Inv

LEMMA InvSteps == Inv /\ [Next]_vars => Inv'
<1> SUFFICES ASSUME Inv, [Next]_vars PROVE Inv'
  OBVIOUS
<1>1. ASSUME NEW q \in Senders, EndPush(q) PROVE Inv'
  BY <1>1, QuietSteps DEF EndPush
<1>2. ASSUME NEW m \in wire, Drop(m) PROVE Inv'
  BY <1>2, QuietSteps DEF Drop
<1>3. ASSUME NEW p \in Paths, StoreManifest(p) PROVE Inv'
  BY <1>3, QuietSteps DEF StoreManifest
<1>4. CASE UNCHANGED vars
  BY <1>4, QuietSteps DEF vars, senderVars
<1> QED
  BY <1>1, <1>2, <1>3, <1>4, StartPushStep, SourceChangesStep, SendChunkStep, DeliverStep,
     SaveMetadataStep, TimeSteps, UserSavesStep
  DEF Next

\* The invariant holds in every state.
THEOREM PushInvariant == Spec => []Inv
  BY InvInitial, InvSteps, PTL DEF Spec

\* ReceivePushedFilesUseCase: the state is well formed, the cap on temporary
\* files holds, and no block is ever at another place than the one a device
\* had it at, for any number of pushes that cross, time out or are cut off.
THEOREM PushInvHolds == Spec => []PushInv
<1>1. Inv => PushInv
  <2> SUFFICES ASSUME Inv PROVE PushInv
    OBVIOUS
  <2>1. TypeOK
    <3>1. \A p \in Paths : partial[p] \in Partials /\ (p \notin open => partial[p] = NoPartial)
      BY DEF Inv, ReceiverTypes
    <3>2. \A p \in Paths :
            partial[p].bytes \in Files /\ partial[p].idle \in 0 .. (PartialTimeout + 1)
      BY <3>1 DEF Partials
    <3>3. finalizing # Nothing => finalizing.path \in Paths
      BY DEF Inv, ReceiverTypes, Finalizations
    <3>4. \A m \in wire : m.path \in Paths /\ m.index \in Nat \ {0} /\ m.block \in Blocks
      BY DEF Inv, SenderTypes, Messages, Positions
    <3> QED
      BY <3>1, <3>2, <3>3, <3>4 DEF Inv, ReceiverTypes, TypeOK, Vectors
  <2>2. PendingBounded
    BY DEF Inv, ReceiverTypes, PendingBounded
  <2>3. NothingInvented
    BY DEF Inv, KnownInv, AllKnown, NothingInvented
  <2> QED
    BY <2>1, <2>2, <2>3 DEF PushInv
<1> QED
  BY <1>1, PushInvariant, PTL

\* _finalize: for any number of pushes that cross, fail, time out or are cut
\* off, every count a recorded version has gained was offered by a push of the
\* same path of which a chunk has been in the file in place.
THEOREM PushVersionBacked == Spec => []VersionBacked
<1>1. Inv => VersionBacked
  BY DEF Inv, VersionInv
<1> QED
  BY <1>1, PushInvariant, PTL

\* _finalize: no push takes a recorded version back.
THEOREM PushVersionMonotone == Spec => VersionMonotone
<1>1. ASSUME Inv, Next PROVE \A p \in Paths : Precedes(version[p], version'[p])
  <2>1. \A p \in Paths : Precedes(version[p], version[p])
    <3>1. \A p \in Paths : version[p] \in Vectors
      BY <1>1 DEF Inv, ReceiverTypes
    <3>2. \A v \in Vectors : Precedes(v, v)
      BY DEF Vectors, Precedes
    <3> QED
      BY <3>1, <3>2
  <2>2. CASE SaveMetadata /\ UNCHANGED senderVars
    BY <1>1, <2>2, SaveMetadataStep
  <2>3. CASE ~(SaveMetadata /\ UNCHANGED senderVars)
    <3>1. version' = version
      BY <1>1, <2>3
      DEF Next, StartPush, SourceChanges, SendChunk, EndPush, Deliver, Drop, StoreManifest,
          UserSaves, LocalSave, Sweep, Tick, ReceiverRestart, WriteChunk, CommitFile,
          CommitFails, WriteFails, receiverVars
    <3> QED
      BY <2>1, <3>1
  <2> QED
    BY <2>2, <2>3
<1>2. Inv /\ [Next]_vars => [\A p \in Paths : Precedes(version[p], version'[p])]_vars
  BY <1>1
<1> QED
  BY <1>2, PushInvariant, PTL DEF Spec, VersionMonotone

\* What a push that is alone delivers, for files of any length and any number
\* of chunks lost, late or left over from other pushes: if its source kept
\* still, its blocks are distinct and the reused ones in place, the committed
\* file is the sender's.
THEOREM PushCleanExact == Spec => CleanPushExact
<1> DEFINE A == (finalizing = Nothing /\ finalizing' # Nothing) =>
                  LET p == finalizing'.path IN
                  \A k \in finalizing'.from :
                    (/\ finalizing'.from = {k}
                     /\ Unchanged(log[k]) /\ Distinct(log[k])
                     /\ InPlace(log[k], finalizing'.seed))
                      => disk'[p] = log[k].src
<1>1. ASSUME Inv, Next PROVE A
  <2>1. ASSUME NEW m \in wire, CommitFile(m) PROVE A
    <3>1. /\ Complete(m) /\ disk' = [disk EXCEPT ![m.path] = Received(m).bytes]
          /\ finalizing' = [path |-> m.path, vv |-> Received(m).vv,
                            seed |-> Entry(m).seed, from |-> Received(m).from]
      BY <2>1 DEF CommitFile
    <3>2. m.path \in Paths
      BY <1>1, EntryFacts
    <3>3. /\ finalizing'.path = m.path /\ finalizing'.seed = Entry(m).seed
          /\ finalizing'.from = Received(m).from
          /\ disk'[m.path] = Received(m).bytes
      BY <1>1, <3>1, <3>2 DEF Inv, ReceiverTypes
    <3> QED
      BY <1>1, <3>1, <3>3, CommitExact
  <2>2. CASE ~\E m \in wire : CommitFile(m)
    <3>1. finalizing' \in {finalizing, Nothing}
      BY <1>1, <2>2
      DEF Next, StartPush, SourceChanges, SendChunk, EndPush, Deliver, Drop, StoreManifest,
          UserSaves, LocalSave, SaveMetadata, Sweep, Tick, ReceiverRestart, WriteChunk,
          CommitFails, WriteFails, receiverVars
    <3> QED
      BY <3>1
  <2> HIDE DEF A
  <2> QED
    BY <2>1, <2>2
<1>2. Inv /\ [Next]_vars => [A]_vars
  BY <1>1
<1> QED
  BY <1>2, PushInvariant, PTL DEF Spec, CleanPushExact
=============================================================================
