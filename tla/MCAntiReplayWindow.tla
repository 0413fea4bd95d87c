------------------------- MODULE MCAntiReplayWindow -------------------------
(***************************************************************************)
(* AntiReplayWindow with a window of 3 and counters up to 11: the window   *)
(* slides over its own width more than three times, in every order.        *)
(***************************************************************************)
EXTENDS AntiReplayWindow

MCCounters == -1 .. 11
=============================================================================
