-------------------------- MODULE AntiReplayWindow --------------------------
(***************************************************************************)
(* class AntiReplayWindow of replay_protection.py: the sliding window that *)
(* decides which inbound frame counters of a session are fresh.            *)
(*                                                                         *)
(* The bytearray _bits is the set of the slot numbers whose bit is 1; a    *)
(* counter c lives in slot c - base.  accepts is a history variable: how   *)
(* often accept() has returned True for a counter, which the code forgets  *)
(* once the counter falls off the low end of the mask.                     *)
(***************************************************************************)
EXTENDS Integers

CONSTANTS
  Window,    \* window_size: counters tracked on either side of the highest
  Counters   \* counters that reach accept(), fresh, repeated or late

ASSUME WindowAssumption == Window \in Nat \ {0}
ASSUME CountersAssumption == Counters \subseteq Int

VARIABLES
  highest,   \* _highest
  base,      \* _base, the lowest counter the bitmask can represent
  bits,      \* _bits, as the set of slots that are set
  accepts    \* history: how often each counter has been accepted

windowVars == <<highest, base, bits, accepts>>

\* _slots
Slots == 2 * Window + 1

SlotSet == 0 .. (Slots - 1)

\* _slot
Slot(c) == c - base

WindowInit ==
  /\ highest = 0
  /\ base = 1 - Window
  /\ bits = {}
  /\ accepts = [c \in Counters |-> 0]

\* Variant of would_accept that admits one counter too old for the mask.
WouldAcceptOffByOne(c) ==
  /\ c > 0
  /\ c <= highest + Window
  /\ c >= highest - Window
  /\ Slot(c) \notin bits

\* would_accept: the pure check.  The slot test is the code's own second
\* guard; it keeps _is_set inside the bytearray.
WouldAccept(c) ==
  /\ c > 0
  /\ c <= highest + Window
  /\ c >= highest - Window + 1
  /\ Slot(c) \in SlotSet
  /\ Slot(c) \notin bits

\* Variant of _slide that clears the mask instead of shifting it.
SlideClears(newBase) == {}

\* Variant of _slide that shifts by one slot too few.
SlideOffByOne(newBase) ==
  {i - (newBase - base - 1) : i \in bits} \intersect SlotSet

\* _slide: shift the mask right by newBase - base, dropping what leaves it.
Slide(newBase) ==
  LET delta == newBase - base IN
  IF delta <= 0 THEN bits
  ELSE {i - delta : i \in bits} \intersect SlotSet

\* accept, when it returns True.  When it returns False nothing changes.
Accept(c) ==
  /\ WouldAccept(c)
  /\ LET newBase == IF c > highest THEN c - Window + 1 ELSE base
         slid    == IF c > highest THEN Slide(newBase) ELSE bits
     IN /\ base' = newBase
        /\ bits' = slid \union {c - newBase}
  /\ highest' = IF c > highest THEN c ELSE highest
  /\ accepts' = [accepts EXCEPT ![c] = @ + 1]

WindowNext == \E c \in Counters : Accept(c)

WindowSpec == WindowInit /\ [][WindowNext]_windowVars

----------------------------------------------------------------------------
(* Properties                                                               *)

Seen == {c \in Counters : accepts[c] > 0}

\* The fields of the object between calls: the mask stays inside its slots.
WindowTypeOK ==
  /\ highest \in Nat
  /\ base \in Int
  /\ bits \subseteq SlotSet
  /\ accepts \in [Counters -> Nat]

\* The invariant the constructor's comment claims: the mask is anchored at
\* _base == _highest - _window + 1 after every accept and slide.
BaseAnchored == base = highest - Window + 1

\* Every accepted counter is positive and not above highest.
SeenBelowHighest == Seen \subseteq 1 .. highest

\* The mask remembers exactly the accepted counters that are still inside
\* the band: sliding forgets none too early and resurrects none.
MaskExact == bits = {c - base : c \in {d \in Seen : d >= base}}

\* accept() returns True at most once for a counter, however far the window
\* has slid since and whatever it has forgotten.
AcceptedAtMostOnce == \A c \in Counters : accepts[c] <= 1

\* The other half: a counter never accepted, inside the documented band, is
\* not refused.  Reordering by less than a window loses no frame.
FreshInBandAccepted ==
  \A c \in Counters :
    (/\ c > 0
     /\ c \in (highest - Window + 1) .. (highest + Window)
     /\ c \notin Seen) => WouldAccept(c)

\* The window implements ReplayGuard, the promise without a bitmask.
Guard == INSTANCE ReplayGuard WITH admitted <- accepts
ImplementsGuard == Guard!GuardSpec

\* The inductive invariant behind the properties above.
WindowInv ==
  /\ WindowTypeOK
  /\ BaseAnchored
  /\ SeenBelowHighest
  /\ MaskExact
  /\ AcceptedAtMostOnce
=============================================================================
