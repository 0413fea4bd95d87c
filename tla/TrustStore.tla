------------------------------ MODULE TrustStore ------------------------------
(***************************************************************************)
(* The file of pins, trusted_peers.json, and the two programs that change  *)
(* it.  FileTrustedPeerRepository (file_trusted_peer_repository.py) is the *)
(* daemon's: trust() reads the whole store, adds a pin and writes the      *)
(* store again, under a lock of that process; handshakes of several peers  *)
(* call it.  `securesync trust` (cli.py) runs beside it, also while no     *)
(* daemon runs: it reads the same file, takes a pin out and writes the     *)
(* file in place, without the lock, a temporary file or an fsync.  One     *)
(* user runs it, one command at a time.  Either program may be killed and  *)
(* the power may fail at any point.  A document is the set of pins it      *)
(* holds.                                                                  *)
(***************************************************************************)
EXTENDS AtomicWrite

CONSTANTS
  Pins,      \* a device and its key
  MaxResets  \* bound: runs of securesync trust

ASSUME PinsAssumption == Documents = SUBSET Pins
ASSUME MaxResetsAssumption == MaxResets \in Nat

VARIABLES
  lock,      \* the writers that hold _lock
  pinning,   \* pinning[w]: the pin that w adds, NoFile when none
  reset,     \* where securesync trust is
  resets,    \* counter for the bound
  trusted,   \* history: pins whose trust() has returned and that stay
  forgotten, \* history: pins that a reset has taken out and that stay out
  torn       \* history: inodes whose rewriting did not reach the disk whole

storeVars == <<writeVars, lock, pinning>>
resetVars == <<reset, resets>>
trustVars == <<storeVars, resetVars, trusted, forgotten, torn>>

IdleReset == [pc |-> "idle"]

\* _load: {} without a file, and what it holds otherwise.
Stored ==
  IF destination = NoFile THEN {}
  ELSE UNION {content[destination][i] : i \in DOMAIN content[destination]}

\* json.loads raises on anything but a whole document.
Readable == destination # NoFile => WholeFile(destination)

TrustInit ==
  /\ WriteInit
  /\ lock = {} /\ pinning = [w \in Writers |-> NoFile]
  /\ reset = IdleReset /\ resets = 0
  /\ trusted = {} /\ forgotten = {} /\ torn = {}

----------------------------------------------------------------------------
(* The daemon *)

\* Nobody is between _load and the end of _save.
Free == lock = {}

\* trust(): take the lock, load the store, begin to write it with the pin.  If
\* the file cannot be read, it raises and nothing has changed.
BeginTrust(w, p) ==
  /\ Free /\ Readable /\ lock' = lock \union {w}
  /\ pinning' = [pinning EXCEPT ![w] = p]
  /\ OpenTemp(w, Stored \union {p})
  /\ UNCHANGED <<resetVars, trusted, forgotten, torn>>

Write(w) ==
  /\ WriteBlock(w) \/ Sync(w)
  /\ UNCHANGED <<lock, pinning, resetVars, trusted, forgotten, torn>>

\* The rename, and trust() returns.  A reset that has read the store already
\* will write it without the new pin.
EndTrust(w) ==
  /\ Replace(w)
  /\ lock' = lock \ {w}
  /\ trusted' = IF reset.pc = "loaded" THEN trusted ELSE trusted \union {pinning[w]}
  /\ forgotten' = forgotten \ {pinning[w]}
  /\ pinning' = [pinning EXCEPT ![w] = NoFile]
  /\ UNCHANGED <<resetVars, torn>>

TrustFails(w) ==
  /\ WriteFails(w)
  /\ lock' = lock \ {w}
  /\ pinning' = [pinning EXCEPT ![w] = NoFile]
  /\ UNCHANGED <<resetVars, trusted, forgotten, torn>>

TrustStep ==
  \/ \E w \in Writers, p \in Pins : BeginTrust(w, p)
  \/ \E w \in Writers : Write(w)
  \/ \E w \in Writers : EndTrust(w)
  \/ \E w \in Writers : TrustFails(w)

----------------------------------------------------------------------------
(* securesync trust *)

\* read_text, json.loads and del: without the file, the pin or a document that
\* can be read the command ends here.
ResetLoad(p) ==
  /\ reset = IdleReset /\ resets < MaxResets /\ resets' = resets + 1
  /\ destination # NoFile /\ Readable /\ p \in Stored
  /\ reset' = [pc |-> "loaded", pin |-> p, doc |-> Stored \ {p}, ino |-> NoFile, at |-> 1]
  /\ trusted' = trusted \ {p}
  /\ UNCHANGED <<storeVars, forgotten, torn>>

\* write_text opens the file that has the name now, and truncates it.
ResetOpen ==
  /\ reset.pc = "loaded"
  /\ reset' = [reset EXCEPT !.pc = "write", !.ino = destination]
  /\ content' = [content EXCEPT ![destination] = <<>>]
  /\ prior' = IF destination \in synced
              THEN [prior EXCEPT ![destination] = content[destination]] ELSE prior
  /\ synced' = synced \ {destination}
  /\ UNCHANGED <<inodes, temp, destination, former, writer, lock, pinning,
                 resets, trusted, forgotten, torn>>

\* It writes, a block at a time, into that file, whatever has the name by now.
ResetWrite ==
  /\ reset.pc = "write" /\ reset.at <= Size[reset.doc]
  /\ content' = [content EXCEPT ![reset.ino] = Written(@, reset.at, reset.doc)]
  /\ reset' = [reset EXCEPT !.at = @ + 1]
  /\ UNCHANGED <<synced, inodes, temp, destination, former, prior, writer, lock,
                 pinning, resets, trusted, forgotten, torn>>

\* The command ends.  The pin is out, unless a trust() that had read the store
\* before brings it back.
ResetEnd ==
  /\ reset.pc = "write" /\ reset.at > Size[reset.doc] /\ reset' = IdleReset
  /\ forgotten' = IF reset.ino = destination /\ Free
                  THEN forgotten \union {reset.pin} ELSE forgotten
  /\ UNCHANGED <<storeVars, resets, trusted, torn>>

\* The command is killed, or cannot write.
ResetDies ==
  /\ reset # IdleReset /\ reset' = IdleReset
  /\ torn' = IF reset.pc = "write" THEN torn \union {reset.ino} ELSE torn
  /\ UNCHANGED <<storeVars, resets, trusted, forgotten>>

ResetStep ==
  \/ \E p \in Pins : ResetLoad(p)
  \/ ResetOpen \/ ResetWrite \/ ResetEnd \/ ResetDies

----------------------------------------------------------------------------
(* Faults *)

\* The daemon is killed, or ends.
TrustKilled ==
  /\ KillWriters
  /\ lock' = {} /\ pinning' = [w \in Writers |-> NoFile]
  /\ UNCHANGED <<resetVars, trusted, forgotten, torn>>

\* The rename is not synced, and what a reset has written is not either: what
\* was pinned or taken out since the last failure is unsure.
TrustPowerLoss ==
  /\ PowerLoss
  /\ lock' = {} /\ pinning' = [w \in Writers |-> NoFile] /\ reset' = IdleReset
  /\ trusted' = {} /\ forgotten' = {}
  /\ torn' = torn \union {i \in Inodes : prior[i] # <<>>}
  /\ UNCHANGED resets

----------------------------------------------------------------------------
(* Properties *)

\* The trust store is absent or one whole document (_save), also after a kill
\* or a power failure, and with a temporary file left behind by either; the one
\* exception is a file that `securesync trust` is rewriting in place, or whose
\* rewriting was cut short or met by a power failure.
StoreWhole ==
  \/ Readable
  \/ reset # IdleReset /\ reset.ino = destination
  \/ destination \in torn

\* A pin that trust() has recorded stays recorded, whichever handshakes pin
\* other devices at the same time, however their writes end and whichever other
\* pins are reset meanwhile.  Only a power failure, its own reset, or a reset
\* that had read the store before the pin was recorded, may lose it.
NoPinLost == Readable => trusted \subseteq Stored

\* "Reset trust for a peer" (securesync trust): a pin that was taken out while
\* no trust() was under way stays out until it is pinned again.
ResetHolds == Readable => forgotten \intersect Stored = {}

\* The store survives: whole, with every pin, and without those that were
\* taken out (trust, securesync trust).
TrustInv == StoreWhole /\ NoPinLost /\ ResetHolds
=============================================================================
