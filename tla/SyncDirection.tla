---------------------------- MODULE SyncDirection ----------------------------
(***************************************************************************)
(* SyncDirectionResolver (sync_direction.py): what to do with one file and *)
(* one peer, given both manifests and both version vectors.  A manifest is *)
(* the sequence of the file's blocks.                                      *)
(***************************************************************************)
EXTENDS BlockFiles, VersionVectors

CONSTANT NoManifest  \* the collection is None

ASSUME NoManifestAssumption == NoManifest \notin Files

Directions == {"push", "pull", "conflict", "noop"}

Hashes(collection) == IF collection = NoManifest THEN {} ELSE Digests(collection)

\* _diff_content_hashes
DiffContentHashes(mine, theirs) ==
  LET localOnly == Hashes(mine) \ Hashes(theirs)
      remoteOnly == Hashes(theirs) \ Hashes(mine)
  IN CASE localOnly # {} /\ remoteOnly # {} -> "conflict"
       [] localOnly # {} /\ remoteOnly = {} -> "push"
       [] localOnly = {} /\ remoteOnly # {} -> "pull"
       [] OTHER -> "noop"

\* Variant that lets the local version win a tie of contents.
ResolveWithVersionsLocalWins(v, w, mine, theirs) ==
  IF StrictlyPrecedes(v, w) THEN "pull"
  ELSE IF Hashes(mine) # Hashes(theirs) THEN "push"
  ELSE "noop"

\* _resolve_with_versions: concurrent vectors take the same branch as equal
\* ones.
ResolveWithVersions(v, w, mine, theirs) ==
  IF StrictlyPrecedes(v, w) THEN "pull"
  ELSE IF StrictlyPrecedes(w, v) THEN "push"
  ELSE DiffContentHashes(mine, theirs)

\* _resolve_without_versions: a difference on both sides is pushed.
ResolveWithoutVersions(mine, theirs) ==
  LET decision == DiffContentHashes(mine, theirs)
  IN IF decision = "conflict" THEN "push" ELSE decision

\* resolve
Resolve(mine, v, theirs, w) ==
  IF theirs = NoManifest /\ w = NoVersion
  THEN IF mine # NoManifest /\ mine # <<>> THEN "push" ELSE "noop"
  ELSE IF v # NoVersion /\ w # NoVersion
       THEN ResolveWithVersions(v, w, mine, theirs)
       ELSE ResolveWithoutVersions(mine, theirs)

----------------------------------------------------------------------------
(* Two devices that ask about each other *)

\* What a device finds: its own manifest and version, and its peer's.
Question(mine, v, theirs, w) == [mine |-> mine, v |-> v, theirs |-> theirs, w |-> w]

Answer(q) == Resolve(q.mine, q.v, q.theirs, q.w)

Opposite(direction) ==
  CASE direction = "push" -> "pull" [] direction = "pull" -> "push" [] OTHER -> direction
=============================================================================
