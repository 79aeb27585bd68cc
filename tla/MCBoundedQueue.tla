--------------------------- MODULE MCBoundedQueue ---------------------------
(* A queue of capacity 2 between one pushing stage and two popping ones,   *)
(* with a fourth stage that may only quit it.  No symmetry: the liveness   *)
(* properties are checked in the same run.                                 *)
EXTENDS BoundedQueue
=============================================================================
