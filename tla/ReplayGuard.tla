---------------------------- MODULE ReplayGuard ----------------------------
(***************************************************************************)
(* What the anti-replay window of a session promises, stated without a     *)
(* bitmask: every counter is admitted at most once, and a fresh counter    *)
(* within Window of the highest one admitted is never refused.             *)
(*                                                                         *)
(* The band is the one the docstring of class AntiReplayWindow             *)
(* (replay_protection.py) documents:                                       *)
(* [highest - window + 1, highest + window], counters start at 1.          *)
(***************************************************************************)
EXTENDS Integers

CONSTANTS
  Window,    \* window_size, 128 in the code
  Counters   \* the counters a frame may carry

VARIABLES
  highest,   \* the highest counter admitted, 0 if there is none
  admitted   \* how often each counter has been admitted

guardVars == <<highest, admitted>>

Admissible(c) ==
  /\ c > 0
  /\ c \in (highest - Window + 1) .. (highest + Window)
  /\ admitted[c] = 0

GuardInit ==
  /\ highest = 0
  /\ admitted = [c \in Counters |-> 0]

Admit(c) ==
  /\ Admissible(c)
  /\ admitted' = [admitted EXCEPT ![c] = 1]
  /\ highest' = IF c > highest THEN c ELSE highest

GuardNext == \E c \in Counters : Admit(c)

GuardSpec == GuardInit /\ [][GuardNext]_guardVars
============================================================================
