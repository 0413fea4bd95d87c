---------------------------- MODULE IdentityFiles ----------------------------
(***************************************************************************)
(* Ed25519IdentityProvider.load_or_create (ed25519_identity_provider.py),  *)
(* which every start of the program calls: the key pair is kept in two     *)
(* files, each written in place and not synced.  The process may end, and  *)
(* the power may fail, between any two steps.                              *)
(***************************************************************************)
EXTENDS Integers

CONSTANTS
  Absent,    \* the file does not exist
  Empty,     \* created or truncated, but not written
  MaxPairs,  \* bound: key pairs generated
  MaxStarts  \* bound: starts of the program

ASSUME NotKeysAssumption == Absent \notin Nat /\ Empty \notin Nat /\ Absent # Empty
ASSUME IdentityBoundsAssumption == MaxPairs \in Nat /\ MaxStarts \in Nat

\* Pair n: its private and its public key are both called n.
Pairs == 1 .. MaxPairs

VARIABLES
  privateFile, publicFile,  \* identity.private and identity.public
  pc,         \* what load_or_create is doing
  keypair,    \* the IdentityKeyPair it has or returns
  generated,  \* pairs generated so far
  starts,
  settled,    \* whether the files have reached the disk
  used        \* history: the public keys peers have been shown

identityFiles == <<privateFile, publicFile, settled>>
identityVars == <<identityFiles, pc, keypair, generated, starts, used>>

NoPair == [private |-> Absent, public |-> Absent]

IdentityInit ==
  /\ privateFile = Absent /\ publicFile = Absent
  /\ pc = "down" /\ keypair = NoPair /\ generated = 0 /\ starts = 0
  /\ settled = TRUE /\ used = {}

\* Both files exist.
Persisted == privateFile # Absent /\ publicFile # Absent

\* Variant that returns a new key pair and leaves the writing for later.
GenerateUnwritten ==
  /\ pc = "down" /\ starts < MaxStarts /\ starts' = starts + 1
  /\ ~Persisted /\ generated < MaxPairs
  /\ generated' = generated + 1
  /\ keypair' = [private |-> generated + 1, public |-> generated + 1]
  /\ pc' = "up"
  /\ UNCHANGED <<identityFiles, used>>

\* There is no persisted pair: a new one is generated.
Generate ==
  /\ pc = "down" /\ starts < MaxStarts /\ starts' = starts + 1
  /\ ~Persisted /\ generated < MaxPairs
  /\ generated' = generated + 1
  /\ keypair' = [private |-> generated + 1, public |-> generated + 1]
  /\ pc' = "open_private"
  /\ UNCHANGED <<identityFiles, used>>

Load ==
  /\ pc = "down" /\ starts < MaxStarts /\ starts' = starts + 1
  /\ Persisted
  /\ keypair' = [private |-> privateFile, public |-> publicFile]
  /\ pc' = "up"
  /\ UNCHANGED <<identityFiles, generated, used>>

\* _persist: write_bytes opens, which truncates, and then writes.
OpenPrivate ==
  /\ pc = "open_private" /\ pc' = "write_private"
  /\ privateFile' = Empty /\ settled' = FALSE
  /\ UNCHANGED <<publicFile, keypair, generated, starts, used>>

WritePrivate ==
  /\ pc = "write_private" /\ pc' = "open_public"
  /\ privateFile' = keypair.private /\ settled' = FALSE
  /\ UNCHANGED <<publicFile, keypair, generated, starts, used>>

OpenPublic ==
  /\ pc = "open_public" /\ pc' = "write_public"
  /\ publicFile' = Empty /\ settled' = FALSE
  /\ UNCHANGED <<privateFile, keypair, generated, starts, used>>

WritePublic ==
  /\ pc = "write_public" /\ pc' = "up"
  /\ publicFile' = keypair.public /\ settled' = FALSE
  /\ UNCHANGED <<privateFile, keypair, generated, starts, used>>

\* A handshake shows the public key with a signature: a peer pins it.
UseIdentity ==
  /\ pc = "up" /\ keypair.private \in Pairs /\ keypair.private = keypair.public
  /\ used' = used \union {keypair.public}
  /\ UNCHANGED <<identityFiles, pc, keypair, generated, starts>>

\* The system writes the files back.
Settle ==
  /\ ~settled /\ settled' = TRUE
  /\ UNCHANGED <<privateFile, publicFile, pc, keypair, generated, starts, used>>

\* The process ends, also by the error of a write.
IdentityKilled ==
  /\ pc' = "down" /\ keypair' = NoPair
  /\ UNCHANGED <<identityFiles, generated, starts, used>>

\* The power fails: of files that had not reached the disk anything may be
\* left, and what peers have been shown of them is forgotten.
IdentityPowerLoss ==
  /\ pc' = "down" /\ keypair' = NoPair
  /\ privateFile' \in IF settled THEN {privateFile} ELSE {privateFile, Empty, Absent}
  /\ publicFile' \in IF settled THEN {publicFile} ELSE {publicFile, Empty, Absent}
  /\ used' = IF settled THEN used ELSE {}
  /\ settled' = TRUE
  /\ UNCHANGED <<generated, starts>>

IdentityStep ==
  \/ Generate \/ Load
  \/ OpenPrivate \/ WritePrivate \/ OpenPublic \/ WritePublic
  \/ UseIdentity \/ Settle

----------------------------------------------------------------------------
(* Properties *)

\* A device that peers know under a key never comes up with another one,
\* however its starts were interrupted: load_or_create returns a pair only
\* after both files are written.  Only a power failure before they reach the
\* disk may take it away.
IdentityStable == pc = "up" => \A k \in used : keypair.public = k

----------------------------------------------------------------------------
(* A statement of the documentation that does not hold *)

\* load_or_create returns "this device's persisted identity", a key pair: the
\* public key belongs to the private one (domain/identity.py, IdentityKeyPair).
PairMatches == pc = "up" => keypair.private = keypair.public
=============================================================================
