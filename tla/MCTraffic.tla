------------------------------- MODULE MCTraffic -------------------------------
(* Traffic on small instances.                                                *)
EXTENDS Traffic, TLC

\* Connections are interchangeable.
ConnSymmetry == Permutations(Conns)
================================================================================
