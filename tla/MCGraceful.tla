------------------------------- MODULE MCGraceful -------------------------------
(* Graceful on small instances.                                               *)
EXTENDS Graceful
================================================================================
