-------------------------- MODULE MCMediaSessions --------------------------
(* Two clients of a file with two tracks.                                  *)
EXTENDS MediaSessions
=============================================================================
