------------------------- MODULE SourceRateLimiter -------------------------
(***************************************************************************)
(* SourceIpRateLimiter of handshake_rate_limit.py: a sliding window per    *)
(* source address, in front of HandshakeServer.  An attempt is the time of *)
(* a connection, which asks once.  admitted is history: the attempts of    *)
(* each source that were let through.                                      *)
(***************************************************************************)
EXTENDS Integers, FiniteSets

CONSTANTS
  Connections, \* connections that HandshakeServer accepts
  Sources,     \* source addresses, each as one server sees it
  MaxAttempts, \* max_attempts, 30
  Window,      \* window_s, 60 s, in ticks
  MaxClock     \* bound on the clock

ASSUME LimiterAssumption ==
  MaxAttempts \in Nat \ {0} /\ Window \in Nat \ {0} /\ MaxClock \in Nat

VARIABLES
  clock,
  attempts,  \* _attempts: the recorded attempts of every source
  admitted

limiterVars == <<clock, attempts, admitted>>

LimiterInit ==
  /\ clock = 0
  /\ attempts = [ip \in Sources |-> {}]
  /\ admitted = [ip \in Sources |-> {}]

\* The attempts still inside the window.
Recent(times) == {t \in times : t.at > clock - Window}

\* allow returned False: the stale times are gone, nothing is recorded.
DenyFrom(ip) ==
  /\ Cardinality(Recent(attempts[ip])) >= MaxAttempts
  /\ attempts' = [attempts EXCEPT ![ip] = Recent(@)]
  /\ UNCHANGED <<clock, admitted>>

\* allow returned True.
AllowFrom(ip, r) ==
  /\ Cardinality(Recent(attempts[ip])) < MaxAttempts
  /\ attempts' = [attempts EXCEPT ![ip] = Recent(@) \union {[by |-> r, at |-> clock]}]
  /\ admitted' = [admitted EXCEPT ![ip] = @ \union {[by |-> r, at |-> clock]}]
  /\ UNCHANGED clock

\* Variant of prune that drops every source it knows.
PruneAll ==
  /\ attempts' = [ip \in Sources |-> {}]
  /\ UNCHANGED <<clock, admitted>>

\* prune: sources whose times are all stale.
Prune ==
  /\ attempts' = [ip \in Sources |->
                    IF Recent(attempts[ip]) = {} THEN {} ELSE attempts[ip]]
  /\ UNCHANGED <<clock, admitted>>

\* The limiter's clock.
Tick ==
  /\ clock < MaxClock
  /\ clock' = clock + 1
  /\ UNCHANGED <<attempts, admitted>>

----------------------------------------------------------------------------
(* Properties *)

LimiterTypeOK ==
  /\ clock \in 0 .. MaxClock
  /\ attempts \in [Sources -> SUBSET [by : Connections, at : 0 .. clock]]
  /\ admitted \in [Sources -> SUBSET [by : Connections, at : 0 .. clock]]

\* No source is let through more than MaxAttempts times in any stretch of
\* Window ticks, wherever the stretch begins, with prune running at any time.
WindowLimit ==
  \A ip \in Sources : Cardinality(Recent(admitted[ip])) <= MaxAttempts

\* A source is denied only on account of MaxAttempts that were let through
\* in the last Window ticks: "A denied attempt is not recorded".
DeniedOnlyWhenFull ==
  \A ip \in Sources :
    Cardinality(Recent(attempts[ip])) >= MaxAttempts => Cardinality(Recent(admitted[ip])) >= MaxAttempts

\* The limiter admits neither more nor less than its limit (allow, prune).
AdmitsExactly == WindowLimit /\ DeniedOnlyWhenFull
=============================================================================
