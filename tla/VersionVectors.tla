--------------------------- MODULE VersionVectors ---------------------------
(***************************************************************************)
(* VersionVector (conflict.py).  A vector is a function on the devices; a  *)
(* device that is not a key of counters counts 0.  No code stores a 0, so  *)
(* two vectors with equal functions are equal dictionaries.                *)
(***************************************************************************)
EXTENDS Integers

CONSTANTS
  Devices,   \* the keys of a version vector
  NoVersion  \* version_vector is None

ASSUME NoVersionAssumption == NoVersion \notin [Devices -> Nat]

Larger(a, b) == IF a > b THEN a ELSE b

NoEdits == [d \in Devices |-> 0]

\* VersionVector.increment, .merge, __le__ and __lt__
Increment(v, d) == [v EXCEPT ![d] = @ + 1]
Merge(v, w) == [d \in Devices |-> Larger(v[d], w[d])]
Precedes(v, w) == \A d \in Devices : v[d] <= w[d]
StrictlyPrecedes(v, w) == Precedes(v, w) /\ v # w
=============================================================================
