------------------------------ MODULE MCRegistry ------------------------------
(* Instance of Registry for TLC: names are interchangeable.                    *)
EXTENDS Registry, TLC

CONSTANTS n1, n2, n3

NameSymmetry == Permutations(Names)
================================================================================
