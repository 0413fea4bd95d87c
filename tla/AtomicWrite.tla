----------------------------- MODULE AtomicWrite -----------------------------
(***************************************************************************)
(* atomic_write_bytes (_atomic_write.py), with which FileChunkRepository   *)
(* saves manifests on worker threads, and of which                         *)
(* FileTrustedPeerRepository._save is a copy: write a temporary sibling,   *)
(* fsync it, rename it.  All writers of one destination use one temporary  *)
(* name.  The file system is modelled by its inodes; a power failure keeps *)
(* what was synced, and any part of what was not.                          *)
(*                                                                         *)
(* A document is a sequence of blocks, each tagged with its document.      *)
(***************************************************************************)
EXTENDS Integers, Sequences

CONSTANTS
  Writers,    \* threads that write
  Documents,  \* what may be written
  Size,       \* Size[d]: blocks of document d
  MaxInodes,  \* bound: inodes, that is, files ever created
  NoFile      \* a name without a file

ASSUME SizeAssumption == Size \in [Documents -> Nat \ {0}]
ASSUME MaxInodesAssumption == MaxInodes \in Nat
ASSUME NoFileAssumption == NoFile \notin Nat

VARIABLES
  content,      \* content[i]: the bytes of inode i
  synced,       \* the inodes whose bytes are on the disk
  inodes,       \* inodes 1 .. inodes have been created
  temp,         \* the inode of the temporary name
  destination,  \* and of the destination
  former,       \* inodes a power failure may bring the destination back to
  prior,        \* prior[i]: the synced bytes of i before it was truncated in
                \* place, <<>> when it was not
  writer        \* writer[w]: what w is doing, to which inode, from which position

fileVars == <<content, synced, inodes, temp, destination, former, prior>>
writeVars == <<fileVars, writer>>

Inodes == 1 .. MaxInodes
Whole(d) == [i \in 1 .. Size[d] |-> d]
IdleWriter == [pc |-> "idle"]

WriteInit ==
  /\ content = [i \in Inodes |-> <<>>] /\ synced = Inodes
  /\ inodes = 0 /\ temp = NoFile /\ destination = NoFile /\ former = {NoFile}
  /\ prior = [i \in Inodes |-> <<>>]
  /\ writer = [w \in Writers |-> IdleWriter]

\* The inode that open("wb") of the temporary name gives.
Opened == IF temp = NoFile THEN inodes + 1 ELSE temp

\* open("wb"): an existing temporary file is truncated, whoever is writing it.
OpenTemp(w, d) ==
  /\ writer[w].pc = "idle" /\ Opened <= MaxInodes
  /\ inodes' = IF temp = NoFile THEN inodes + 1 ELSE inodes
  /\ temp' = Opened
  /\ content' = [content EXCEPT ![Opened] = <<>>]
  /\ synced' = synced \ {Opened}
  /\ writer' = [writer EXCEPT ![w] = [pc |-> "write", doc |-> d, ino |-> Opened, at |-> 1]]
  /\ UNCHANGED <<destination, former, prior>>

\* file.write, a block at a time, at the position of this open file.
Written(bytes, i, d) ==
  [j \in 1 .. (IF i > Len(bytes) THEN i ELSE Len(bytes)) |->
     IF j = i \/ j > Len(bytes) THEN d ELSE bytes[j]]

WriteBlock(w) ==
  /\ writer[w].pc = "write" /\ writer[w].at <= Size[writer[w].doc]
  /\ content' = [content EXCEPT ![writer[w].ino] = Written(@, writer[w].at, writer[w].doc)]
  /\ synced' = synced \ {writer[w].ino}
  /\ writer' = [writer EXCEPT ![w].at = @ + 1]
  /\ UNCHANGED <<inodes, temp, destination, former, prior>>

\* Variant without the fsync.
SyncNothing(w) ==
  /\ writer[w].pc = "write" /\ writer[w].at > Size[writer[w].doc]
  /\ writer' = [writer EXCEPT ![w].pc = "synced"]
  /\ UNCHANGED fileVars

\* flush and fsync, and the file is closed.
Sync(w) ==
  /\ writer[w].pc = "write" /\ writer[w].at > Size[writer[w].doc]
  /\ synced' = synced \union {writer[w].ino}
  /\ writer' = [writer EXCEPT ![w].pc = "synced"]
  /\ UNCHANGED <<content, inodes, temp, destination, former, prior>>

\* tmp_path.replace: the file that has the temporary name now.
Replace(w) ==
  /\ writer[w].pc = "synced" /\ temp # NoFile
  /\ destination' = temp /\ temp' = NoFile
  /\ former' = former \union {temp}
  /\ writer' = [writer EXCEPT ![w] = IdleWriter]
  /\ UNCHANGED <<content, synced, inodes, prior>>

\* An OSError, among them that of a rename without a file: whatever has the
\* temporary name is removed, if that succeeds, and the error is raised.
WriteFails(w) ==
  /\ writer[w].pc \in {"write", "synced"}
  /\ temp' \in {temp, NoFile}
  /\ writer' = [writer EXCEPT ![w] = IdleWriter]
  /\ UNCHANGED <<content, synced, inodes, destination, former, prior>>

\* The process is killed: the files are as they are.
KillWriters ==
  /\ writer' = [w \in Writers |-> IdleWriter]
  /\ UNCHANGED fileVars

\* The power fails: a rename may be undone, and of a file that was not synced
\* any prefix may be left, or what it held before it was truncated.
PowerLoss ==
  /\ destination' \in former /\ temp' \in {temp, NoFile}
  /\ former' = {destination'}
  /\ \E left \in [Inodes -> UNION {0 .. Size[d] : d \in Documents}],
         undone \in SUBSET {i \in Inodes \ synced : prior[i] # <<>>} :
       /\ \A i \in Inodes :
            left[i] <= Len(content[i]) /\ (i \in synced => left[i] = Len(content[i]))
       /\ content' = [i \in Inodes |->
            IF i \in undone THEN prior[i] ELSE SubSeq(content[i], 1, left[i])]
  /\ synced' = Inodes /\ prior' = [i \in Inodes |-> <<>>]
  /\ writer' = [w \in Writers |-> IdleWriter]
  /\ UNCHANGED inodes

\* The bytes of inode i are one whole document, as json.loads wants them.
WholeFile(i) == \E d \in Documents : content[i] = Whole(d)
=============================================================================
