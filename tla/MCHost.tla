-------------------------------- MODULE MCHost --------------------------------
(* Instance of Host for TLC.                                                   *)
EXTENDS Host

CONSTANTS c1, c2
================================================================================
