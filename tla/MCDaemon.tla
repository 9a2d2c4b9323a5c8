-------------------------------- MODULE MCDaemon --------------------------------
(* Daemon on small instances.                                                 *)
EXTENDS Daemon, TLC

\* Connections are interchangeable; used only where no liveness is checked.
ClientSymmetry == Permutations(Clients)
================================================================================
