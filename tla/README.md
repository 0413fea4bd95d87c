# SecureSync in TLA+

SecureSync is a peer-to-peer file synchroniser: devices find each other on the
local network, authenticate with signed X25519 handshakes, and push changed
chunks of files to each other over encrypted, replay-protected TCP connections.
It is written in Python on one asyncio event loop per device. This directory
holds its specification: modules that model the parts whose correctness depends
on the order of events, the TLC runs that check them, and proofs of the
properties that matter most, for every value of the parameters.

Paths below are relative to `src/securesync/` of the repository.

## 1. Inventory

| Component | Source | State | Operations | Hard because |
|---|---|---|---|---|
| Anti-replay window | `infrastructure/networking/replay_protection.py` | highest counter, base, bitmask | `would_accept`, `accept`, `_slide` | off-by-one at the edges of the band, slides of any length |
| Session store | `.../session_store.py` | sessions by id, ids by peer, counters, timestamps, confirmation | `put` (prune, three caps), lookups, `confirm`, `remove_by_peer`, `allocate_counter` | two indexes, nested evictions, lazy expiry |
| Secure channel | `.../secure_channel.py`, `replay_protection.py` | the sessions of the store | `seal`, `open` | check order, concurrent callers, repeated and altered frames |
| Chunk transport | `.../tcp_transport.py` | bounded inbox | `send_chunk`, `_handle_connection`, `receive_pushes` | frames wait in the inbox while the window moves |
| Manifest exchange | `.../tcp_manifest_exchange.py` | open connections | `request_manifest`, `request_chunks`, `_handle_connection` | the session may be dropped while an answer is built |
| Handshake v2, coordinator | `.../x25519_handshake.py`, `x25519_session_coordinator.py`, `main.py` | result queue, trust store | `initiate`, `accept`, `ensure_session`, drain task | the two ends record a session at different times, or one never does |
| Handshake v3 | `.../handshake_v3.py`, `handshake_messages.py`, `handshake_keys.py` | half-open exchanges, trust store | four-message exchange | what the transcripts cover, exits that must give a place back; not wired into `main.py` |
| Trusted peers, identity | `.../file_trusted_peer_repository.py`, `infrastructure/crypto/ed25519_identity_provider.py` | one JSON file, two key files | `trust`, `get_trusted_key`, `load_or_create`; `securesync trust` (`presentation/cli.py`) | crashes and power loss between write, fsync and rename; the command rewrites the same file from another process |
| Rate limits | `.../handshake_rate_limit.py` | attempts per source, tokens | `allow`, `prune` | windows and buckets at their boundary |
| Push receiver | `application/use_cases/receive_pushed_files.py`, `infrastructure/chunking/local_file_reconstructor.py` | pending files, temporary files, metadata | `_handle_push`, `_finalize`, sweep, shutdown | loss, reordering, two pushes at once, failures between two steps |
| File push, pull, sync | `application/use_cases/sync_file.py`, `domain/delta.py`, `transfer_chunks.py` | the source file, stored manifests | `push`, `pull`, `sync` | the file, and the peer's file, change while they are read |
| Sync direction, conflicts | `domain/sync_direction.py`, `domain/conflict.py`, `conflict_resolution.py` | version vectors | `resolve`, LWW | concurrent versions |
| Metadata, manifests | `sqlite_metadata_repository.py`, `file_chunk_repository.py`, `_atomic_write.py` | two tables / one file per path | save, delete, transactions, load | failures and crashes between two statements |
| Chunk reader | `infrastructure/chunking/streaming_chunk_reader.py` | buffer, offset | `read_chunks` | the file changes between two reads; the last, short chunk |
| Orchestrator, discovery | `application/orchestration.py`, `discover_peers.py`, `mdns_discovery.py` | state, active peers | start, stop, pause, peer discovered | reports from another thread that may be lost on the way, stop and pause at any await, pushes without a timeout |
| File watcher | `infrastructure/filesystem/*`, `monitor_directories.py` | debounce table, observers | `start`, `stop`, `should_emit`, `subscribe`, notification | threads of two observers, subscriptions during a notification; not wired into `main.py` |
| Command line | `presentation/cli.py` | the file of pins and the configuration | `trust`; `init`, `daemon` and the commands that print or start one operation | `trust` is modelled with the pins, the others are left out, see section 7 |
| Crypto, SAS, packet format, safe paths, configuration | `infrastructure/crypto/*`, `handshake_sas.py`, `core/protocol.py`, `shared/safe_path.py` | none | pure functions, I/O | left out, see section 7 |

How they interact: the orchestrator asks the coordinator for a session with
every discovered peer and then pushes its known files. `push` asks the peer for
its manifest (manifest exchange), computes which digests it lacks, and sends
those chunks (chunk transport). Both transports seal and open frames through
one `SecureChannel` on sessions of one `SessionStore`; inbound handshakes are
put into the same store by a drain task. The receiver of a push takes frames
off the transport's inbox, assembles files and records their versions.

What makes each part correct: the window accepts every counter once and no
fresh one is refused; the store's indexes agree, its caps hold and no session is
reset; the channel never repeats a nonce, delivers a frame at most once and only
from the peer; a handshake that is done is done at both ends with the same keys,
pins only keys their holder has proved, and gives back every place it took; a
pushed file is committed whole, in place of the old one, and no version is recorded on
behalf of a push none of whose chunks is in the file; a synced block is where a user put it; the
two devices of a sync decide alike; a peer is taken up and a stop gets through;
what a call has reported as stored is stored after a crash, and what it has reported as
taken out stays out. `PROJECT.json` lists
the hazards behind these, each at its line.

## 2. Modules

| Module | Models | Variables and actions |
|---|---|---|
| `ReplayGuard` | what a replay window promises | `highest`, `admitted`; `Admit` |
| `AntiReplayWindow` | the class of that name | `highest`, `base`, `bits` (the set of set bits), history `accepts`; `Accept` with `WouldAccept` and `Slide` |
| `SessionStore` | `SessionStore`, `PeerSession` and their callers | `recorded`/`sess` (`_by_session_id`), `byPeer` (`_by_peer`), `dialing` (an `ensure_session` in its await); `EnsureSession`, `DialDone`, `DialFailed`, `InboundHandshake`, `Send`, `Reply`, `Open`, `RemoveByPeer`, `Tick` |
| `SecureChannel` | `seal`/`open` under both transports and a bad network | `end` (what a device holds of a session), `sent`, `window`, `sealed` (every frame ever made), `inbox`, `awaiting`, `serving`, history `delivered` |
| `VersionVectors`, `BlockFiles` | the operators on versions and files that the next four share | no state |
| `PushReceiver` | the receiver and the reconstructor | `disk`, `version`, `open`/`partial` (`_pending`), `finalizing`, history `landed` |
| `FilePush` | senders, wire and manifests around `PushReceiver` | `log`, `cursor`, `wire`, `manifest`, `saves`, history `known` |
| `SyncDirection` | `SyncDirectionResolver` | no state: `Resolve` and its parts |
| `FileSync` | `sync`, `pull` and the chunk server of two devices | `disk`, `manifest`, `version`, `task` (a sync at its await); `StartSync`, `Decide`, `DecideConflict`, `PlanPull`, `FetchChunks`, `WriteChunk`, `FinishPull`, `SyncFails`, `PushLands`, `PushLost`, `UserSaves` |
| `SourceRateLimiter`, `HandshakeV2` | the handshake `main.py` runs, its server, the limiter in front of it, the drain task | `ini`, `res` (the two kinds of exchanges), `pins`, `active`, `results`, `sessions`, `attempts` |
| `GlobalHandshakeLimiter`, `HandshakeV3` | the four-message handshake behind its token bucket | `ini`, `res`, `pins`, `halfOpen`, `tokens`; one action per message and end, one per way to fail |
| `Orchestrator` | the sync engine with discovery and the bootstrap around it | `state`, `stopEvent`, `loop`/`batch`/`peer` (where the loop is), `active`, `status`, `reports`, `main`, `stopping`, history `missed`; the constant `LostName` says under which id a loss is reported |
| `Debounce`, `FileWatcher` | the watcher, its threads, its debouncer and its notifications | `lastSeen`, `call` (a `should_emit` before its lock), `alive`, `raw`, `tasks`, `subscribed` |
| `ChunkReader` | the streaming reader over a file that changes | buffer, offset, chunks yielded; `ReadInto`, `EndRead`, `NoCut`, `Yield`, `Resize` |
| `AtomicWrite`, `TrustStore` | the write-fsync-rename of one destination, the pins, and the command that resets one | inodes, `temp`, `destination`, `prior`, `writer`; `lock`, `pinning`, `reset`, histories `trusted`, `forgotten`, `torn` |
| `IdentityFiles` | `load_or_create` file by file | `privateFile`, `publicFile`, `pc`, `keypair` |
| `MetadataStore` | the SQLite repository statement by statement | `files`, `chunks`, `committed`, `inTransaction`, `call`, histories `returned`, `halved` |
| `DeviceStorage` | the last four in one process that is killed and loses power | their variables, `faults` |
| `*Proofs` | the theorems of section 5 | |
| `MC*` | small instances for TLC | |

Composition. `SecureChannel` uses `ReplayGuard` (through a parameterised INSTANCE)
and not the bitmask: `AntiReplayWindow` is shown, by TLC and by proof, to implement
it. `FilePush` EXTENDS `PushReceiver` and takes from `SecureChannel` that a frame is
delivered at most once. `FileSync` takes a push as one step, whose steps `FilePush`
has. `HandshakeV2` says how the two ends that `SecureChannel` and `SessionStore`
start from come about; both handshakes contain the limiter that guards them, so
that an attempt that is turned away, or admitted and then refused for want of room,
is one action. `DeviceStorage` joins the three kinds of files under one crash.

Abstractions worth knowing:

* Timestamps of the store are ages that saturate one tick past the longest timeout;
  dictionary and list order only break ties, so evictions choose freely among equals.
  The limiters and the debouncer have a clock that does not go back (`time.time`,
  which the per-source limiter reads, may be set back; that is left out).
* A frame is its plaintext header and whether its ciphertext is genuine. The AEAD
  is external: it accepts exactly what was sealed for that session, direction,
  counter and type. The timestamp check of `open` may reject any frame.
* Hashes, signatures, MACs and derived keys of the handshakes are the terms they are
  computed from; an exchange's name stands for its fresh ephemeral key and nonce. In
  `HandshakeV3` a connection may deliver anything written on any connection, also
  with one plain field changed. In `HandshakeV2` it may not change fields: that the
  signature leaves out the device id and the ports is recorded in
  `docs/adr/0027` and is what v3 is for.
* A file is the sequence of its chunks (`main.py` wires fixed-size chunking, so a
  chunk's offset is its index); equal blocks have equal digests; bytes no write has
  filled are `Hole`. `ChunkReader` works on byte positions, where sizes matter.
* Between two awaits that suspend a task runs alone, so an action is the code from
  one await to the next. Threads (watchdog, `to_thread`) and processes interleave at every
  instruction that touches shared state, with one exception: a watchdog thread reads
  `self._loop` in the step in which the debouncer decides. A stop or start between the
  two would only make an emission that is remembered one whose event is dropped, or the
  reverse.
* zeroconf calls `add_service` and `remove_service`, and whether the report reaches the
  event loop is left open: in a thread without a running loop `get_running_loop` raises
  there (section 6). A loss names the service name up to its first dot (`LostName`), a find
  the device id of the properties.
* A write of the receiver that fails leaves the temporary file as it was. An error of
  the metadata repository ends `run_forever`; in the model that is a restart after
  which nothing more needs to happen.
* The file system keeps what was synced and any prefix of what was not; a rename
  may be undone by a power failure, since the directory is not synced, and of a file that
  was rewritten in place the old bytes, or any part of the new ones, may be left. After a
  kill without power loss everything written is there.
* One `securesync trust` runs at a time, and takes out one pin; it may overlap with any
  number of `trust()` calls of the daemon.
* In the wired program only the receiver saves metadata, and without chunks;
  `MetadataStore` models the operations of the class with chunks.
* The per-source limiter's list of times is a set of times tagged with the connection
  that was let through: a connection asks once, so no two entries coincide, and only
  membership of the window and the number of entries matter to the code.
* `put` refuses a session id that it has. In `HandshakeV2` ids are the names of the two
  exchanges, so this happens only where a device completes a handshake with itself
  and dialler and server share one store; `SessionIdsFresh` says so. There
  `SessionIdCollisionError` would end the drain task, which catches nothing
  (`main.py:81`); a device that dials itself is not in the runs, and the end of the task
  is left out.
* The chunks a pull has fetched and not yet written are a set, written in the order of
  their index; `want` is the peer's file as long as nobody has written to either file
  since the pull began, and `NoManifest` afterwards (a history variable in a record).
* Definitions marked "Variant" are not part of the specification: each is a
  plausible bug, used to show that a property notices it.

## 3. Runs

| Run | Instance | States | Shows |
|---|---|---|---|
| `window` | window 3, counters -1 to 11, arriving in any order and repeatedly | 1 100 | mask exact, at most once, no fresh counter refused, implements `ReplayGuard` |
| `store` | two peers, four ids, caps 3/2/3, lifetimes of two ticks | 75 000 | index agreement, caps, no reset, confirmed sessions evicted last |
| `channel` | two devices, one session, three frames one way and one back, window 2, inbox 1 | 334 000 | nonces, at-most-once delivery, authenticity, confirmation, window behind sender |
| `push` | one sender, two paths, one with a version and one without, two files sharing a block, two pushes, one save, cap 1 | 266 000 | blocks stay in place, versions never regress and none is recorded for a push that is not there, undisturbed pushes are exact, every partial file ends |
| `sync` | two devices, one file; one is behind, has nothing, or both have edited; four syncs, two saves | 524 000 | no block is misplaced, quiet pulls are exact, decisions mirror |
| `v2` | two dialling hosts of one id, two servers, one with mismatched key files, three connections, cap 1, one attempt per source and two ticks | 82 000 | counter, keys, fresh session ids, pins, limiter, nothing published is lost, places recover |
| `v3` | two dialling hosts, one with mismatched key files and the other's id, one server that answers twice, half-open cap 1, bucket of one token refilled in two ticks | 46 000 | agreement of both ends, rejections, pins, half-open counter, bucket, recovery |
| `engine` | two peers, one with a dotted id that shortens to the other's, four arrivals, departures or refreshes, two pauses | 204 000 | bookkeeping, no ghost peers among those whose departure was handed over, peers are handled, stop completes |
| `watcher` | one path, two observers, two starts, two changes, two (un)subscriptions, window 2 | 765 000 | everyone subscribed is told, suppression only within a window |
| `reader` | chunks of 3 bytes, blocks of 2, files of up to 8 bytes that change three times | 2 100 | chunks in place, only the last is short, memory, whole file, end |
| `storage` | two handshakes pinning two devices, two resets of a pin, four metadata calls on two paths, a failing statement, three starts, two kills or power failures | 276 000 | identity, trust store and database across crashes and resets |
| `push_hole` | one path, one file with a repeated block | ends at the violation | section 6 |

Bounds. The window run offers counters beyond the band on both sides, and slides of
every length `would_accept` lets through, up to a whole window. In the store run every cap is below the number of ids, and
expiry, exhaustion and confirmation all occur between two puts. In the channel run
the initiator can leave the responder's window (2) behind with three frames, and
the altered frame shows the highest counter. In the push run a push may be lost,
interrupted, timed out, repeated, or resumed after a restart, with the receiver's
manifest known or not. Four syncs let a device sync again after one that failed,
while its peer syncs the other way, and two saves disturb either. In the handshake
runs each server has more connections than its cap, an initiator may get the reply
meant for the other, and the clock passes exactly the window and the refill of a
token. Four changes let a peer leave and come back while the other is handled, or both
come and one be reported lost for the other. Two
starts make the old and the new watchdog thread overlap at the debouncer. In
the reader run a chunk takes several blocks, a read ends inside the next chunk, and lengths
are and are not multiples of either. In the storage run a fault meets every step, and a second fault
the recovery from the first; a failed save of one file meets the commit of another. There
the trust store and the database, which share no variable, are each followed with the
starts and the faults, and not in every pair of their states (`MCOneStore`); the theorems
are about all. The proofs of section 5 remove the bounds for
every safety property of the passing runs.

Deadlock is checked except where the model's bounds (used counters, exchanges,
pushes, syncs) or the end of the process let it come to rest.

Fairness.

* `PartialsDrain`: the clock advances and the sweeper task, which runs as long as the
  receiver does, takes its turn.
* `ServerProgress` (`PublishedIsRecorded`, `PlacesRecover`): the drain task keeps running, and a read ends
  by its timeout (`message_io.py`, 30 s), so a connection that is being served can
  always fail in the end. Nothing is assumed of the network or the peers.
* `HalfOpenRecovers`: every wait of an exchange ends by `HANDSHAKE_DEADLINE_S`.
* `NewPeersHandled`, `StopCompletes`: the event loop gives the sync loop, the queue
  of discovery reports and a waiting `stop` their turn; a dial ends, if only by its
  timeouts. A push does not have to: `send_chunk` writes, drains and closes without a
  timeout (`tcp_transport.py:199`), so nothing is assumed of `FilesDone`, and both properties
  except a push that never returns (`Hung`).
* `ReaderEnds`: the reader's own steps happen; the file changes finitely often.

## 4. Properties and the code they are about

Where the parts of one promise are read together, the cfg names their conjunction:

| Property | Conjoins |
|---|---|
| `WindowInv` | `WindowTypeOK`, `BaseAnchored`, `SeenBelowHighest`, `MaskExact`, `AcceptedAtMostOnce` |
| `PushInv` | `TypeOK`, `PendingBounded`, `NothingInvented` |
| `SyncInv` | `TypeOK`, `NothingMisplaced` |
| `ServerInv`, `HandshakeInv`, `ServerProgress` (v2) | `TypeOK`, `ActiveExact`; `PinsAuthentic`, `KeysMirror`, `SessionIdsFresh`; `PublishedIsRecorded`, `PlacesRecover` |
| `AdmitsExactly` | `WindowLimit`, `DeniedOnlyWhenFull` |
| `Agreement`, `HalfOpenInv` (v3) | `InitiatorAgreement`, `ResponderAgreement`, `RejectionAuthentic`; `TypeOK`, `HalfOpenExact` |
| `EngineInv` | `TypeOK`, `NoGhostPeers` |
| `WatcherInv` | `WatcherTypeOK`, `SubscribedAreTold` |
| `TrustInv` | `StoreWhole`, `NoPinLost`, `ResetHolds` |
| `MetadataInv` | `ReturnedIsDurable`, `CommittedWhole` |
| `ReaderInv` | `ReaderTypeOK`, `ChunksInPlace`, `OnlyLastShort`, `MemoryBounded`, `WholeFileRead` |

The types of `SessionStore` and `SecureChannel` are proved (section 5) and not checked again.

`MaskExact`, `FreshInBandAccepted` and `AcceptedAtMostOnce` are the two halves of
the window's promise. `IndexConsistent` is what `_enforce_peer_caps` needs when it
subscripts `_by_session_id`. `CapsHold`, `ConfirmedLastResort` and `NeverReset`
are the promises of `docs/protocol.md` 6.5. `NonceUnique`, `WindowBehindSender` and
`ResponderWaitsForProof` quote 6.6 and the comments they come from.
`CleanPushExact` is what the push protocol does deliver: its preconditions are
exactly the three causes that section 6 shows to break it.

`NothingMisplaced` says of `pull` what `NothingInvented` says of `push`: offsets come from
one reading and bytes from another, and yet a block is only ever written where some
user had it. `QuietPullExact` says which blocks are in place after a pull that
nothing disturbed. `DecisionsMirror` is evaluated in every state of the sync run, so on
every pair of files and versions that syncing itself produces.

`InitiatorAgreement` and `ResponderAgreement` are injective agreement on keys,
identities and ports, and the first also says that the responder has recorded the
session when the initiator learns of it. `PinsAuthentic` is about hosts whose key
files do not match, which a crash in `_persist` can produce. `HalfOpenExact` and
`ActiveExact` hold on every path out of the handlers; `HalfOpenRecovers` and
`PlacesRecover` follow only with the timeouts. `BurstAndRate`, `WindowLimit` and
`DeniedOnlyWhenFull` relate the limiters to a history of what they let through.

`NewPeersHandled` excepts a loop that has ended by an error (`LoopFails`: an exception of the
metadata repository ends the loop and nobody starts it again).
`SuppressedOnlyWithinWindow` is the direction of the debouncer's promise that holds
with overlapping threads; `NoBurst`, the other one, does not (section 6).

`IdentityStable`, `StoreWhole`, `NoPinLost`, `ResetHolds`, `ReturnedIsDurable` and
`CommittedWhole` relate what callers, users and peers have been told to what is on the
disk after a crash. `StoreWhole` excepts a file that `securesync trust` is rewriting, or was
cut short in; `NoPinLost` a pin that was recorded between the reading and the writing of a
reset; `ResetHolds` a reset during which a `trust()` was under way. Those exceptions are
what the command does wrong (section 6); everything else holds with it. `CommittedWhole`
excepts the one file of which a commit has taken the rows of a failed save.

`VersionBacked` is what the order of rename and record, the pending entries and the merge
promise together: what a recorded version has gained was offered by a push of that path
that reached the file in place. That the file holds all of that push is more, and
`CleanPushExact` says when it does. `NoGhostPeers` speaks of the departures that were handed
over under the peer's own id, which is all that the use case gets to see.

## 5. Proofs

All are checked by TLAPS, for every value of the constants that satisfies the named
assumptions of the modules.

* `SessionProofs`, the window: `WindowInv` is inductive. It adds to the properties
  that `base` is anchored at `highest - Window + 1` and that accepted counters lie
  in `1 .. highest`; without the first a slide could not be shown to keep slots and
  counters in step. From it: `WindowInvariant`, `WindowTypeCorrect`, `AtMostOnce`, `NoFalseRejection`, and
  `WindowImplementsGuard`, the refinement.
* `SessionProofs`, the store: `Inv` (types and index agreement) is inductive on its own;
  `CapsHold` is inductive relative to it, because `put` counts the sessions of a
  peer through the index. The argument is one of cardinalities: each eviction loop
  ends below its cap (`EvictionsReachCap`), and one more session may then be added.
  `StoreNeverReset` is an action property from the same invariant, and so is
  `StoreConfirmedLastResort`: an eviction loop that takes a confirmed session has no
  unconfirmed one left and stops one below its cap; when the global loop then
  takes another session of the same peer, the store is full of confirmed ones.
* `SecureChannelProofs`: `ChannelInv` adds to the properties that sealed frames
  carry allocated counters, that only its two ends hold anything of a session, that
  a request being served came from the other end, and that the window knows of
  every delivery. `SealStep` and `OpenStep` say what a call of `seal` or `open`
  does to it, whichever task makes it; the rest is one case per action.
* `DeviceStorageProofs`: `DeviceInv` conjoins one inductive invariant per kind of file,
  since the three have no state in common and a fault hits them together.
  `IdentityInv`: a key that was shown is in `identity.public`, and `identity.private`
  exists, so that no later start generates another pair. `TrustStoreInv`: every inode the
  destination may turn out to have after a power failure is settled, that is whole and
  synced, or being rewritten by a reset, or left by one that was cut short; the
  temporary file is never one of them; the one holder of the lock is writing what is
  stored and its pin; and a reset has in hand what was stored without its pin
  (`Resetting`). Without the first `StoreWhole` is not kept by a power failure, without the
  last two `NoPinLost` is not kept by a rename or by the end of a reset.
  `DatabaseInv`: outside the save under way the tables as the connection sees them,
  and not only those on the disk, hold what was returned, because the next commit
  puts them there.
* `HandshakeV2Proofs`: `Inv` has five parts. `LimiterInv`: what the limiter
  remembers of the window is what was let through in it, although `allow` and `prune`
  drop entries at different times. `MessagesInv`: what an end has read is what an
  exchange wrote. `PinsInv`; `ServingInv`, the counter as a cardinality. `KeysInv`: a
  session held anywhere was derived from one exchange of each kind, and the responder's
  half of a connection is in the queue or in the store but never in both, which is what
  `SessionIdsFresh` needs. `PinNeverReplaced` follows from `Acceptable`, which compares
  and pins in one step.
* `FilePushProofs`: `KnownInv` extends `NothingInvented` to the wire, the
  temporary files and the files the senders read; `VersionInv` says of the version that a
  temporary file has collected, and of the one about to be recorded, that each of its
  counts was offered by a push that wrote to the file (`Backed`), which has `landed` once the
  file is renamed; `LoneInv` says what a temporary file
  looks like to which one push alone has written: the seed, overlaid with the
  sender's blocks at the positions received. `CleanPushExact` then counts:
  as many distinct positions as the sender's distinct digests are all of them.
* `FileSyncProofs`: `AnswersKnown` extends `NothingMisplaced` to chunks that were
  fetched and not yet written; `QuietInv` says how far an undisturbed pull has
  got, position by position; `ManifestStays`, that nothing takes away the manifest a
  decision was about. `DecisionsMirror` needs only the types, and the
  antisymmetry of version vectors (`PrecedesAntisymmetric`).
* `HandshakeV3Proofs`: the argument is about terms. A signature or MAC that
  verifies was made over the transcript the verifier computed, and the transcript names
  both exchanges; so it was made by the other end of this handshake. `Knowledge` says so
  at each point where an end has just verified something, and that what was recorded
  before message 4 was sent stays recorded; `Stages`, that nothing is read too
  early. `Agreement` and `PinsAuthentic` follow. `HalfOpenExact` is inductive by
  cardinality. `BucketInv` adds the tokens left to `BurstAndRate`: what was admitted since
  `s` and what is left never exceed the burst and the refill between `s` and the last
  request.
* `EngineProofs`, the sync loop: `OrchestratorInv` says of a peer that has left, whose
  departure was handed over under its id (`Noticed`), and that is listed as online, or will
  be once the queue is handled up to some point, that its loss is reported later in the
  queue (`DeparturesReported`). `NoGhostPeers` alone says
  nothing of a queue that is not empty. `TypeOK` is not inductive either: that nothing
  is at hand when `start` runs (`Unstarted`) has to be added.
* `EngineProofs`, the reader: `BytesAtHand` says that the accumulator and the block being
  read are the bytes between the last chunk and the file position; `ReaderPlace`, how
  many there may be at each point of the loop and that a short chunk is the
  last; `EndIsEnd`, that an empty block of an unchanged file is its end.
* `EngineProofs`, debouncer and watcher: `RemembersEmission` says that an entry of
  `lastSeen` holds the time of the last emission of its key, also when threads take the
  lock in another order than they read the clock. An entry may be evicted too early or
  kept too long; the age check of `should_emit` makes the second harmless.
  `Told` says how far through its copy of the list a notification has got;
  `SubscribedAreTold` is its last case.
* Two liveness properties have their safety part proved in `EngineProofs`: a natural
  number that bounds the steps a task has left. After the stop event, which is never
  cleared again, every step of the loop lowers `LoopRank` and nothing else raises it,
  whatever peers come and go (`StopIsBounded`); only finitely many peers are ever
  in a batch, since each was reported. Every step of the reader lowers `ReaderRank`,
  which is measured to the end of the file as it is: a change of the file sets the reader
  back by at most four steps for each byte it adds (`ReaderIsBounded`). So the reader follows
  a file that grows, and ends once the growth does. That these steps happen, `StopCompletes`
  and `ReaderEnds`, is left to the fairness TLC uses.

`SessionProofs` and `SecureChannelProofs` have no assumptions but bounds and
finiteness, and `EngineProofs` none but these, that block, chunk and window are
positive, and that the markers for "nothing" differ from what they are not. The others
add the ones named in their modules: exchanges belong to one host each and are of one
kind, markers differ here too, devices sync in pairs, contents are nonempty sequences of
blocks, and the trust store's documents are the sets of pins. Bounds on counters
(`MaxPushes`, `MaxSyncs`, `MaxClock`, `MaxInodes`, ...) are arbitrary naturals.

Only model-checked: liveness (`PartialsDrain`, `ServerProgress`, `HalfOpenRecovers`,
`NewPeersHandled`, `StopCompletes`, `ReaderEnds`). Fairness and ENABLED are out of the
prover's reach. Every invariant and every action property of the passing runs is a
theorem.

## 6. Where code and documentation disagree

The run `push_hole` is kept as a regression: TLC refutes `NoHoleCommitted`, because
`total_chunks` counts distinct digests while the receiver counts indices, and a file
with a repeated block is committed before its last chunk arrives.

The following statements of documentation, comments and tests do not hold of the
code either. Where a definition is named, and nothing else is said, it is in its module under "Statements of
the documentation that do not hold"; adding it to the module's cfg shows a
counterexample, in three cases after a change of the instance that is given there.

* `NeverADeadEnd` (`SessionStore`, with its `FairSpec`, which assumes more than the
  code has: every peer is dialled again and again, with success in the end).
  `docs/design/1d-replay-protection.md:187` promises that exhaustion is never a dead
  end; `ensure_session` returns if any confirmed session exists, also an exhausted or
  expired one, and only `put` prunes.
* `UnconfirmedNeverDisplacesConfirmed` (`session_store.py:44`): at the per-peer cap an
  unconfirmed session evicts a confirmed one when no unconfirmed one is left.
* `ExpiredNeverRevived` (`1d-replay-protection.md:184`, "a lazy sweep on access"): only
  `put` sweeps; an access to an expired session finds it and revives it.
* `CommittedIsAVersion` (`test_receive_pushed_files.py:113`): pushes of one path that
  overlap share a pending entry and are committed as a mixture.
* `LonePushExact` (`sync_file.py:189`): a block the receiver has at another offset is
  not sent, and is missing at its new place.
* Concurrent versions are said to be a conflict (`sync_direction.py:10`,
  `docs/adr/0024:73`); `_resolve_with_versions` compares contents instead, so two edits of
  which one only removed chunks are decided as a push or a pull.
* A conflict is said to have one winner (`docs/adr/0024:122`). `sync` compares the
  `detected_at` of two records it makes itself, the remote one last: on both
  devices the remote side wins, both pull, and the contents change places or mix.
* `PullLeavesAVersion` (`docs/adr/0022:127`): `pull` writes the chunks it lacks into the
  longer local file and never truncates it; the old tail stays.
* `PinNeverReplaced` (`HandshakeV3`; `domain/identity.py:79`): v3 compares the pin when
  message 2 arrives (`handshake_v3.py:316`) and writes it when message 4 does (`:362`); a
  key another handshake pinned for that id in between is replaced (instance: both
  initiations on `a`, answered by `b` and `c`, which share an id and differ in keys). In v2 check and
  pin are one step, and the property of the same name holds (run `v2`).
* `FailedLeavesTrustUntouched` (`docs/design/1e-handshake.md:321`): the responder pins
  before it writes message 4; a write that fails leaves FAILED and the pin.
* `WaitMeansStopped` (`orchestration.py:180`): `wait_until_stopped` waits for the event
  that `stop` sets first; bootstrap closes servers and database under a running sync.
* `PauseStopsNewPeers` (`orchestration.py:190`): the state is looked at once per poll;
  the rest of a batch is taken up after `pause` has returned.
* `RediscoveryRetries` (`docs/adr/0023:81`): a peer stays in `_active_peers` for good; one
  that is discovered again is not handled again.
* `NoBurst` (`debounce.py:23` and `:33`): the clock is read before the lock is taken, so
  a later reading may take it first and evict the entry that should suppress the
  earlier one (instance: two paths).
* `LastChangeSeen` (`watchdog_watcher.py:94`): a second, different save within the
  debounce window is dropped and nothing is armed.
* A manifest in place is said to be whole (`file_chunk_repository.py:48`), but two threads
  that save one manifest share its temporary name and truncate each other's file (instance:
  the actions of `AtomicWrite` alone, without the lock of `TrustStore`, and as the statement
  `destination # NoFile => WholeFile(destination)`). The trust store takes a lock, and its
  own writes keep the file whole (`StoreWhole`).
* "Reset trust for a peer" (`README.md:149`): `securesync trust` reads the pins, removes one and writes
  the file in place (`cli.py:178`), without the lock, the temporary file or the fsync of
  `_save`. When a handshake pins meanwhile, either the new pin or the reset is lost
  (`NoPinLost` and `ResetHolds` without their exceptions), and a command that is killed
  leaves a truncated file, at which every `_load` of the daemon raises (`StoreWhole`
  without its exception).
* Lost peers are said to be marked `OFFLINE` and found ones `ONLINE` (`docs/adr/0011:17`).
  zeroconf calls `add_service` and `remove_service` in a thread of its own, where
  `get_running_loop` raises (`mdns_discovery.py:127` and `:136`): the report is not handed
  over. And a loss is reported under the service name up to its first dot (`:134`), a find
  under the device id (`:148`): a peer whose id has a dot stays online, or another one is
  marked offline in its place (`NoGhostPeers` with `Peers` for `Noticed`).
* `stop` is said to be graceful (`orchestration.py:171`), but waits for a push that has no timeout
  (`tcp_transport.py:199`); without `Hung` neither `StopCompletes` nor `NewPeersHandled` holds.
* `PairMatches` (`domain/identity.py:38`): after a crash between opening and writing
  `identity.public` every later start loads an empty key.
* `CommittedWhole` without its condition (`docs/adr/0005:24`): a failing statement of a
  save leaves its predecessors in the open transaction, and the next save, of
  whatever file, commits them: the new row of `files` without its chunk rows, which the
  cascade has deleted. A rollback after a save undoes nothing either
  (`docs/adr/0013:18`), since the save has committed.

## 7. Not modelled

* Cryptographic primitives and authentication strings (computation over bytes; terms in
  the modules that use them), the byte layout of packets and frames, path sanitising,
  configuration and logging (no state or only formatting), the commands of the command line
  other than `securesync trust` (they print, write a configuration, or start what the
  modules model; `init` calls `load_or_create` as the daemon does), the mDNS
  library (I/O), the in-process transport (a test double).
* The connection caps of the two transports (the one of the handshake server is
  modelled), `request_chunks` of the chunk transport and `DownloadChunksUseCase` (no
  wired path calls them). A transport port only receives frames meant for it.
* `DetectConflictUseCase`, `ResolveConflictUseCase` and the conflict repository:
  constructed, never called. `SourceIpRateLimiter.reset`: no caller.
* Content-defined chunking (`main.py` wires the fixed-size strategy).
* A session that wedges when more than a window of frames is lost: the code reacts
  to a refused frame on neither side, so there is nothing to state beyond the band.

## 8. Plan

Done: all modules of section 2, and the proofs of section 5, which cover every safety
property of the passing runs. What would come next, should the code change:

1. When v3 is wired into `main.py`: the session coordinator over it, and `put`'s refusal
   of a known id under v3's session ids.
2. When content-defined chunking is wired: `next_cut` of that strategy in
   `ChunkReader`, where a cut no longer has a fixed length.
3. When a finding of section 6 is fixed in the code: its statement moves from the list
   there to the cfg of its module.
