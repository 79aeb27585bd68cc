--------------------------- MODULE MCDelayQueue ---------------------------
(* The timers with three tasks and a time of day that is set twice.        *)
EXTENDS DelayQueue

MCSettings == {-2, 3}
=============================================================================
