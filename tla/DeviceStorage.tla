---------------------------- MODULE DeviceStorage ----------------------------
(***************************************************************************)
(* What one device keeps on its disk: the key pair of IdentityFiles, the   *)
(* pins of TrustStore and the database of MetadataStore, in the process    *)
(* that bootstrap (main.py) builds.  The identity is loaded first; from    *)
(* then on handshakes pin and the receiver saves, in any order.  The       *)
(* command that resets a pin runs in a process of its own, at any time.    *)
(* The end of the daemon meets all of its parts at once, each wherever it  *)
(* is, and a power failure the command too.                                *)
(***************************************************************************)
EXTENDS IdentityFiles, TrustStore, MetadataStore

CONSTANT MaxFaults  \* bound: kills and power failures

ASSUME MaxFaultsAssumption == MaxFaults \in Nat

VARIABLE faults  \* counter for the bound

vars == <<identityVars, trustVars, metadataVars, faults>>

Init == IdentityInit /\ TrustInit /\ MetadataInit /\ faults = 0

Up == pc = "up"

Fault == faults < MaxFaults /\ faults' = faults + 1

\* The daemon is killed, or ends.
Killed ==
  /\ pc # "down" /\ Fault
  /\ IdentityKilled /\ TrustKilled /\ MetadataRestart

\* SQLite keeps what is committed.
PowerFailure ==
  /\ pc # "down" \/ reset # IdleReset
  /\ Fault
  /\ IdentityPowerLoss /\ TrustPowerLoss /\ MetadataRestart

Next ==
  \/ IdentityStep /\ UNCHANGED <<trustVars, metadataVars, faults>>
  \/ Up /\ TrustStep /\ UNCHANGED <<identityVars, metadataVars, faults>>
  \/ ResetStep /\ UNCHANGED <<identityVars, metadataVars, faults>>
  \/ Up /\ MetadataStep /\ UNCHANGED <<identityVars, trustVars, faults>>
  \/ Killed
  \/ PowerFailure

Spec == Init /\ [][Next]_vars
=============================================================================
