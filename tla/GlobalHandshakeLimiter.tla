----------------------- MODULE GlobalHandshakeLimiter -----------------------
(***************************************************************************)
(* GlobalHandshakeLimiter of handshake_rate_limit.py: a token bucket in    *)
(* front of HandshakeV3.accept, one per host.  It counts in parts of a     *)
(* token, Unit to a token, so that the refill of one tick is a whole       *)
(* number.  since[h][s] is history: how many handshakes the bucket of h    *)
(* has admitted at time s or later.                                        *)
(***************************************************************************)
EXTENDS Naturals

CONSTANTS
  Hosts,
  Unit,      \* parts of one token
  Rate,      \* rate_per_s, in parts per tick
  Burst,     \* burst, in parts
  MaxClock   \* bound on the clock

ASSUME BucketAssumption ==
  Unit \in Nat \ {0} /\ Rate \in Nat \ {0} /\ Burst \in Nat \ {0} /\ MaxClock \in Nat

VARIABLES
  clock,
  tokens,    \* _tokens of every host
  last,      \* _last of every host
  since

limiterVars == <<clock, tokens, last, since>>

Times == 0 .. MaxClock

LimiterInit ==
  /\ clock = 0
  /\ tokens = [h \in Hosts |-> Burst]
  /\ last = [h \in Hosts |-> 0]
  /\ since = [h \in Hosts |-> [s \in Times |-> 0]]

Lower(x, y) == IF x <= y THEN x ELSE y

\* Variant of _refill without the cap.
RefilledUncapped(h) == tokens[h] + (clock - last[h]) * Rate

\* _refill
Refilled(h) == Lower(Burst, tokens[h] + (clock - last[h]) * Rate)

\* allow returned False: refilled, and less than a token.
Refuse(h) ==
  /\ Refilled(h) < Unit
  /\ tokens' = [tokens EXCEPT ![h] = Refilled(h)]
  /\ last' = [last EXCEPT ![h] = clock]
  /\ UNCHANGED <<clock, since>>

\* allow returned True.
TakeToken(h) ==
  /\ Refilled(h) >= Unit
  /\ tokens' = [tokens EXCEPT ![h] = Refilled(h) - Unit]
  /\ last' = [last EXCEPT ![h] = clock]
  /\ since' = [since EXCEPT ![h] =
                 [s \in Times |-> IF s <= clock THEN @[s] + 1 ELSE @[s]]]
  /\ UNCHANGED clock

\* The limiters' clock.
Tick ==
  /\ clock < MaxClock
  /\ clock' = clock + 1
  /\ UNCHANGED <<tokens, last, since>>

----------------------------------------------------------------------------
(* Properties *)

LimiterTypeOK ==
  /\ clock \in Times
  /\ tokens \in [Hosts -> 0 .. Burst]
  /\ last \in [Hosts -> 0 .. clock]
  /\ since \in [Hosts -> [Times -> Nat]]

\* What the token bucket is for: from any moment s on, no more handshakes are
\* admitted than the burst and the sustained rate since s account for.
BurstAndRate ==
  \A h \in Hosts : \A s \in 0 .. clock :
    Unit * since[h][s] <= Burst + Rate * (clock - s)
=============================================================================
