-------------------------- MODULE MCTaskScheduler --------------------------
(* The sockets of the server, instantiated by the cfg.                     *)
EXTENDS TaskScheduler
=============================================================================
